--------------------------- MODULE ProviderProofs ---------------------------
(***************************************************************************)
(* Theorems about Provider, for every set of calls, time limit and number  *)
(* of refreshed credentials.                                               *)
(***************************************************************************)
EXTENDS Provider, TLAPS

\* Where a call stands: one not made has no age, one that is not open has no
\* time limit, only HTTP has requests and bodies, the answered ones are the ones that are done, and a stream that
\* arrives late is of a call answered with nothing.
CallShape ==
    \A c \in Calls :
        /\ phase[c] = "idle" => age[c] = 0
        /\ phase[c] \notin Open => timers[c] = {}
        /\ phase[c] \in {"request", "body"} => Http
        /\ answer[c] = None <=> phase[c] # "done"
        /\ c \in stray => answer[c] = Empty

\* The credentials in the order they were made: what was sent is not newer than
\* what the provider has, that not newer than a readable file, and nothing is
\* newer than what the upstream accepts.
CredentialOrder ==
    /\ token <= valid /\ file <= valid
    /\ file # NoToken => token <= file
    /\ \A c \in Calls : sent[c] <= token

\* The inductive invariant.
IInv == ProviderTypeOK /\ DeadlineHolds /\ CallShape /\ CredentialOrder

USE DEF NoToken, None, Empty, Text, Open, Pending

\* Before any call the invariant holds.
LEMMA InitIInv == Init => IInv
  <1> SUFFICES ASSUME Init PROVE IInv
    OBVIOUS
  <1> USE TimeoutAssumption
  <1>1. ProviderTypeOK
    BY DEF Init, ProviderTypeOK, Http, Kinds
  <1>2. DeadlineHolds /\ CallShape
    BY DEF Init, DeadlineHolds, CallShape
  <1>3. CredentialOrder
    BY DEF Init, CredentialOrder
  <1> QED
    BY <1>1, <1>2, <1>3 DEF IInv

\* A request that opens a time limit: made, retried or repeated without a
\* stream.
LEMMA SendIInv ==
    ASSUME IInv, NEW c \in Calls, NEW m \in {"stream", "buffered"},
           NEW again \in BOOLEAN,
           phase[c] # "done", Http, Send(c, m, again), _with_timeout(c),
           token' \in Nat, token <= token', token' <= valid,
           file # NoToken => token' <= file,
           sent' = [sent EXCEPT ![c] = token'],
           UNCHANGED <<kind, file, valid, age, stray, answer, shown>>
    PROVE  IInv'
  <1> USE TimeoutAssumption DEF Send, _with_timeout
  <1>1. ProviderTypeOK'
    BY DEF IInv, ProviderTypeOK
  <1>2. DeadlineHolds'
    <2> SUFFICES ASSUME NEW d \in Calls, (Pending(d) /\ Http)'
                 PROVE  (Timeout - age[d] \in timers[d])'
      BY DEF DeadlineHolds
    <2>1. CASE d # c
      BY <2>1 DEF IInv, ProviderTypeOK, DeadlineHolds, Http
    <2>2. CASE d = c /\ phase[c] = "idle"
      BY <2>2 DEF IInv, ProviderTypeOK, CallShape
    <2>3. CASE d = c /\ phase[c] # "idle"
      BY <2>3 DEF IInv, ProviderTypeOK, DeadlineHolds
    <2> QED
      BY <2>1, <2>2, <2>3
  <1>3. CallShape'
    BY DEF IInv, ProviderTypeOK, CallShape, Http
  <1>4. CredentialOrder'
    BY DEF IInv, ProviderTypeOK, CredentialOrder
  <1> QED
    BY <1>1, <1>2, <1>3, <1>4 DEF IInv

\* The Deferred of an open call fires.
LEMMA ResolveIInv ==
    ASSUME IInv, NEW c \in Calls, NEW r \in {Empty, Text},
           phase[c] \in Open, Resolve(c, r),
           UNCHANGED <<credential, request, age, shown>>,
           stray' = stray \/ (stray' = stray \cup {c} /\ r = Empty)
    PROVE  IInv'
  <1> USE DEF Resolve, credential, request
  <1>1. ProviderTypeOK'
    BY DEF IInv, ProviderTypeOK
  <1>2. DeadlineHolds'
    BY DEF IInv, ProviderTypeOK, DeadlineHolds, Http
  <1>3. CallShape'
    BY DEF IInv, ProviderTypeOK, CallShape, Http
  <1>4. CredentialOrder'
    BY DEF IInv, ProviderTypeOK, CredentialOrder
  <1> QED
    BY <1>1, <1>2, <1>3, <1>4 DEF IInv

\* A step that moves no call along, and changes neither time nor credentials.
LEMMA QuietIInv ==
    ASSUME IInv,
           UNCHANGED <<credential, mode, retried, sent, timers, age, answer>>,
           \/ UNCHANGED phase
           \/ \E c \in Calls : /\ phase[c] = "request"
                               /\ phase' = [phase EXCEPT ![c] = "body"],
           status' \in [Calls -> {0, 200, 401, 500}],
           chunk' \in [Calls -> BOOLEAN], stray' \subseteq stray,
           shown' \subseteq Calls
    PROVE  IInv'
  <1> USE DEF credential
  <1>1. ProviderTypeOK'
    BY DEF IInv, ProviderTypeOK
  <1>2. DeadlineHolds'
    BY DEF IInv, ProviderTypeOK, DeadlineHolds, Http
  <1>3. CallShape'
    BY DEF IInv, ProviderTypeOK, CallShape, Http
  <1>4. CredentialOrder'
    BY DEF IInv, ProviderTypeOK, CredentialOrder
  <1> QED
    BY <1>1, <1>2, <1>3, <1>4 DEF IInv

\* Every time limit loses a tick, and the open calls get older.
LEMMA TickIInv ==
    ASSUME IInv, Tick
    PROVE  IInv'
  <1> USE TimeoutAssumption
  <1>1. ASSUME NEW c \in Calls
        PROVE  /\ timers'[c] \in SUBSET (0 .. Timeout)
               /\ age'[c] \in 0 .. Timeout
    <2>1. timers[c] \subseteq 1 .. Timeout
      BY DEF IInv, ProviderTypeOK, Tick
    <2>2. timers'[c] = {t - 1 : t \in timers[c]}
      BY DEF Tick
    <2>3. timers'[c] \subseteq 0 .. Timeout
      BY <2>1, <2>2
    <2>4. age[c] \in 0 .. Timeout
      BY DEF IInv, ProviderTypeOK
    <2>5. Pending(c) /\ Http => age[c] < Timeout
      BY <2>1, <2>4 DEF IInv, DeadlineHolds
    <2>6. age'[c] = IF Pending(c) /\ Http THEN age[c] + 1 ELSE age[c]
      BY DEF Tick
    <2>7. age'[c] \in 0 .. Timeout
      BY <2>4, <2>5, <2>6
    <2> QED
      BY <2>3, <2>7
  <1>2. ProviderTypeOK'
    BY <1>1 DEF IInv, ProviderTypeOK, Tick, credential, request
  <1>3. DeadlineHolds'
    <2> SUFFICES ASSUME NEW c \in Calls, (Pending(c) /\ Http)'
                 PROVE  (Timeout - age[c] \in timers[c])'
      BY DEF DeadlineHolds
    <2>1. Pending(c) /\ Http
      BY DEF Tick, credential, Http
    <2>2. Timeout - age[c] \in timers[c] /\ age[c] \in 0 .. Timeout
      BY <2>1 DEF IInv, DeadlineHolds, ProviderTypeOK
    <2>3. age'[c] = age[c] + 1 /\ timers'[c] = {t - 1 : t \in timers[c]}
      BY <2>1 DEF Tick
    <2>4. Timeout - age'[c] = (Timeout - age[c]) - 1
      BY <2>2, <2>3
    <2> QED
      BY <2>2, <2>3, <2>4
  <1>4. CallShape'
    BY DEF IInv, CallShape, Tick, credential, request, Http
  <1>5. CredentialOrder'
    BY DEF IInv, CredentialOrder, Tick, credential, request
  <1> QED
    BY <1>2, <1>3, <1>4, <1>5 DEF IInv

\* Every step preserves the invariant.
LEMMA NextIInv == IInv /\ [Next]_vars => IInv'
  <1> SUFFICES ASSUME IInv, [Next]_vars PROVE IInv'
    OBVIOUS
  <1>1. ASSUME NEW c \in Calls, CallStep(c) PROVE IInv'
    <2> token \in Nat /\ file \in Nat /\ valid \in Nat /\ token <= token
      BY DEF IInv, ProviderTypeOK
    <2>1. CASE generate(c)
      BY <2>1, SendIInv DEF generate, _generate, credential, IInv, CredentialOrder
    <2>2. CASE generate_streaming(c)
      BY <2>2, SendIInv DEF generate_streaming, credential, IInv, CredentialOrder
    <2>3. CASE _invoke(c)
      <3>1. ProviderTypeOK'
        BY <2>3 DEF IInv, ProviderTypeOK, _invoke, _load_token
      <3>2. DeadlineHolds'
        BY <2>3 DEF _invoke, DeadlineHolds, Http
      <3>3. CallShape'
        BY <2>3 DEF IInv, ProviderTypeOK, CallShape, _invoke, Http
      <3>4. CredentialOrder'
        BY <2>3 DEF IInv, ProviderTypeOK, CredentialOrder, _invoke, _load_token
      <3> QED
        BY <3>1, <3>2, <3>3, <3>4 DEF IInv
    <2>4. CASE Response(c)
      <3>1. status' \in [Calls -> {0, 200, 401, 500}]
        BY <2>4 DEF Response, IInv, ProviderTypeOK
      <3>2. /\ UNCHANGED <<credential, mode, retried, sent, timers, age, answer>>
            /\ UNCHANGED <<chunk, stray, shown>>
            /\ phase[c] = "request" /\ phase' = [phase EXCEPT ![c] = "body"]
        BY <2>4 DEF Response
      <3> QED
        BY <3>1, <3>2, QuietIInv DEF IInv, ProviderTypeOK
    <2>5. CASE _connection_error(c)
      BY <2>5, ResolveIInv DEF _connection_error
    <2>6. CASE _process_line(c)
      BY <2>6, QuietIInv DEF _process_line, IInv, ProviderTypeOK
    <2>7. CASE Retry(c)
      <3>1. Http /\ token' = file /\ file # NoToken
        BY <2>7 DEF Retry, _on_auth_failure, _load_token, OAuth, Http
      <3>2. token <= token' /\ token' <= valid /\ token' <= file
        BY <3>1 DEF IInv, CredentialOrder
      <3>3. Send(c, "buffered", TRUE) /\ _with_timeout(c) /\ phase[c] # "done"
        BY <2>7 DEF Retry, _generate
      <3>4. /\ sent' = [sent EXCEPT ![c] = token']
            /\ UNCHANGED <<kind, file, valid, age, stray, answer, shown>>
        BY <2>7 DEF Retry
      <3> QED
        BY <3>1, <3>2, <3>3, <3>4, SendIInv
    <2>8. CASE _handle_status(c)
      BY <2>8, ResolveIInv DEF _handle_status, _parse_body
    <2>9. CASE on_stream_done(c)
      BY <2>9, ResolveIInv DEF on_stream_done
    <2>10. CASE Fallback(c)
      <3>1. Http
        BY <2>10 DEF Fallback, IInv, CallShape
      <3> QED
        BY <2>10, <3>1, SendIInv DEF Fallback, _generate, credential, IInv, CredentialOrder
    <2>11. CASE on_timeout(c)
      <3>1. phase[c] \in Open
        BY <2>11 DEF on_timeout, IInv, CallShape
      <3> QED
        BY <2>11, <3>1, ResolveIInv DEF on_timeout
    <2>12. CASE LateChunk(c)
      BY <2>12, QuietIInv DEF LateChunk, IInv, ProviderTypeOK, request
    <2>13. CASE LateEnd(c)
      BY <2>13, QuietIInv DEF LateEnd, IInv, ProviderTypeOK, request
    <2>14. CASE _stream(c)
      BY <2>14, QuietIInv DEF _stream, IInv, ProviderTypeOK, request
    <2>15. CASE ThreadDone(c)
      BY <2>15, ResolveIInv DEF ThreadDone
    <2> QED
      BY <1>1, <2>1, <2>2, <2>3, <2>4, <2>5, <2>6, <2>7, <2>8, <2>9, <2>10,
         <2>11, <2>12, <2>13, <2>14, <2>15 DEF CallStep
  <1>2. CASE Refresh
    <2>1. ProviderTypeOK' /\ CredentialOrder'
      BY <1>2 DEF Refresh, IInv, ProviderTypeOK, CredentialOrder, request
    <2>2. DeadlineHolds' /\ CallShape'
      BY <1>2 DEF Refresh, IInv, DeadlineHolds, CallShape, Http
    <2> QED
      BY <2>1, <2>2 DEF IInv
  <1>3. CASE WriteFile
    <2>1. ProviderTypeOK' /\ CredentialOrder'
      BY <1>3 DEF WriteFile, IInv, ProviderTypeOK, CredentialOrder, request
    <2>2. DeadlineHolds' /\ CallShape'
      BY <1>3 DEF WriteFile, IInv, DeadlineHolds, CallShape, Http
    <2> QED
      BY <2>1, <2>2 DEF IInv
  <1>4. CASE Tick
    BY <1>4, TickIInv
  <1>5. CASE UNCHANGED vars
    BY <1>5 DEF vars, credential, request, IInv, ProviderTypeOK, DeadlineHolds,
                CallShape, CredentialOrder, Http
  <1> QED
    BY <1>1, <1>2, <1>3, <1>4, <1>5 DEF Next

\* The invariant of the provider.
THEOREM ProviderInvariant == Spec => []IInv
  BY InitIInv, NextIInv, PTL DEF Spec

\* Phases, credentials and ticks stay in their ranges, whatever the calls and
\* the time limit: no limit is missed and no call gets older than one.
THEOREM ProviderTypeCorrect == Spec => []ProviderTypeOK
  <1>1. IInv => ProviderTypeOK
    BY DEF IInv
  <1> QED
    BY <1>1, ProviderInvariant, PTL

\* _with_timeout: a call over HTTP keeps the time limit it began with through
\* its retry and its fallback.
THEOREM DeadlineAlwaysHolds == Spec => []DeadlineHolds
  <1>1. IInv => DeadlineHolds
    BY DEF IInv
  <1> QED
    BY <1>1, ProviderInvariant, PTL

\* _on_auth_failure: a request is repeated with a credential, and not with the
\* one that was refused, however the sessions and the tool that refreshes the
\* credential interleave.
THEOREM RetryIsAlwaysNew == Spec => RetryIsNew
  <1> DEFINE New == \A c \in Calls : retried'[c] /\ ~retried[c] =>
                        sent'[c] \notin {sent[c], NoToken}
  <1>1. IInv /\ [Next]_vars => [New]_vars
    <2> SUFFICES ASSUME IInv, Next, NEW c \in Calls, retried'[c], ~retried[c]
                 PROVE  sent'[c] \notin {sent[c], NoToken}
      OBVIOUS
    <2>1. PICK d \in Calls : CallStep(d)
      BY DEF Next, Refresh, WriteFile, Tick, request
    <2>2. Retry(c)
      <3> retried \in [Calls -> BOOLEAN]
        BY DEF IInv, ProviderTypeOK
      <3> QED
        BY <2>1 DEF CallStep, generate, generate_streaming, _invoke, Response,
             _connection_error, _process_line, Retry, _handle_status,
             on_stream_done, Fallback, on_timeout, LateChunk, LateEnd, _stream,
             ThreadDone, _generate, Send, request
    <2>3. sent'[c] = file /\ file # NoToken /\ file # token
      BY <2>2 DEF Retry, _on_auth_failure, _load_token, IInv, ProviderTypeOK
    <2>4. sent[c] <= token /\ token <= file
      BY <2>3 DEF IInv, CredentialOrder
    <2>5. sent[c] \in Nat /\ token \in Nat /\ file \in Nat
      BY DEF IInv, ProviderTypeOK
    <2> QED
      BY <2>3, <2>4, <2>5
  <1> QED
    BY <1>1, ProviderInvariant, PTL DEF Spec, RetryIsNew

\* The calls as their sessions see them begin as LLMCall's.
LEMMA PromiseInit == Init => Promise!Init
  <1> SUFFICES ASSUME Init PROVE Promise!Init
    OBVIOUS
  <1>1. {c \in Calls : phase[c] # "idle"} = {} /\ Http \in BOOLEAN
    BY DEF Init, Http
  <1> QED
    BY <1>1 DEF Init, Promise!Init, Promise!None

\* A call is made.
LEMMA PromiseAsk ==
    ASSUME IInv, NEW c \in Calls, phase[c] = "idle",
           NEW p \in {"request", "thread"}, phase' = [phase EXCEPT ![c] = p],
           UNCHANGED <<kind, answer, shown>>
    PROVE  Promise!Ask(c)
  <1>1. {d \in Calls : phase'[d] # "idle"} = {d \in Calls : phase[d] # "idle"} \cup {c}
    BY DEF IInv, ProviderTypeOK
  <1> QED
    BY <1>1 DEF Promise!Ask, Http

\* An open call stays open.
LEMMA PromiseOpen ==
    ASSUME IInv, NEW c \in Calls, phase[c] # "idle",
           NEW p \in {"request", "body", "done"}, phase' = [phase EXCEPT ![c] = p]
    PROVE  {d \in Calls : phase'[d] # "idle"} = {d \in Calls : phase[d] # "idle"}
  BY DEF IInv, ProviderTypeOK

\* An open call is answered.
LEMMA PromiseAnswer ==
    ASSUME IInv, NEW c \in Calls, NEW r \in {Empty, Text}, phase[c] \in Open,
           Resolve(c, r), UNCHANGED <<kind, shown>>
    PROVE  Promise!Answer(c)
  <1>1. {d \in Calls : phase'[d] # "idle"} = {d \in Calls : phase[d] # "idle"}
    BY PromiseOpen DEF Resolve
  <1>2. answer[c] = None
    BY DEF IInv, CallShape
  <1> QED
    BY <1>1, <1>2 DEF Promise!Answer, Promise!None, Promise!Empty, Promise!Text,
                      Resolve, Http

\* Every step is a step of LLMCall, or none.
LEMMA PromiseNext == IInv /\ [Next]_vars => [Promise!Next]_(Promise!callVars)
  <1> SUFFICES ASSUME IInv, [Next]_vars
               PROVE  Promise!Next \/ UNCHANGED Promise!callVars
    OBVIOUS
  <1>0. ASSUME UNCHANGED <<kind, phase, answer, shown>>
        PROVE  UNCHANGED Promise!callVars
    BY <1>0 DEF Promise!callVars, Http
  <1>1. ASSUME NEW c \in Calls, CallStep(c)
        PROVE  Promise!Next \/ UNCHANGED Promise!callVars
    <2>1. CASE generate(c)
      <3>1. Promise!Ask(c)
        BY <2>1, PromiseAsk DEF generate, _generate, Send, credential
      <3> QED
        BY <3>1 DEF Promise!Next
    <2>2. CASE generate_streaming(c)
      <3>1. Promise!Ask(c)
        BY <2>2, PromiseAsk DEF generate_streaming, Send, credential
      <3> QED
        BY <3>1 DEF Promise!Next
    <2>3. CASE _invoke(c)
      <3>1. Promise!Ask(c)
        BY <2>3, PromiseAsk DEF _invoke
      <3> QED
        BY <3>1 DEF Promise!Next
    <2>4. CASE Response(c) \/ Retry(c) \/ Fallback(c)
      <3>1. {d \in Calls : phase'[d] # "idle"} = {d \in Calls : phase[d] # "idle"}
        BY <2>4, PromiseOpen DEF Response, Retry, Fallback, _generate, Send
      <3> QED
        BY <2>4, <3>1 DEF Response, Retry, Fallback, credential,
                          Promise!callVars, Http
    <2>5. CASE _connection_error(c) \/ _handle_status(c) \/ on_stream_done(c)
               \/ ThreadDone(c)
      <3>1. Promise!Answer(c)
        BY <2>5, PromiseAnswer DEF _connection_error, _handle_status, _parse_body,
             on_stream_done, ThreadDone, credential
      <3> QED
        BY <3>1 DEF Promise!Next
    <2>6. CASE on_timeout(c)
      <3>1. phase[c] \in Open
        BY <2>6 DEF on_timeout, IInv, CallShape
      <3>2. Promise!Answer(c)
        BY <2>6, <3>1, PromiseAnswer DEF on_timeout, credential
      <3> QED
        BY <3>2 DEF Promise!Next
    <2>7. CASE _process_line(c) \/ LateChunk(c) \/ _stream(c)
      <3>1. phase[c] # "idle" /\ answer[c] # Text
        BY <2>7 DEF _process_line, LateChunk, _stream, IInv, CallShape
      <3>2. shown' = shown \cup {c} /\ UNCHANGED <<kind, phase, answer>>
        BY <2>7 DEF _process_line, LateChunk, _stream, credential
      <3>3. Promise!Show(c)
        BY <3>1, <3>2 DEF Promise!Show, Promise!Text, Http
      <3> QED
        BY <3>3 DEF Promise!Next
    <2>8. CASE LateEnd(c)
      BY <2>8, <1>0 DEF LateEnd, credential
    <2> QED
      BY <1>1, <2>1, <2>2, <2>3, <2>4, <2>5, <2>6, <2>7, <2>8 DEF CallStep
  <1>2. CASE Refresh \/ WriteFile \/ Tick \/ UNCHANGED vars
    BY <1>2, <1>0 DEF Refresh, WriteFile, Tick, vars, credential
  <1> QED
    BY <1>1, <1>2 DEF Next

\* The providers keep what LLMCall promises: a call is answered once, and what
\* is shown of it comes before a text that answers it.  (That it is answered at
\* all is KeepsPromise, which TLC checks.)
THEOREM ProviderRefinesCall == Spec => Promise!Safety
  BY PromiseInit, PromiseNext, ProviderInvariant, PTL DEF Spec, Promise!Safety
=============================================================================
