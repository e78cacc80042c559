-------------------------------- MODULE Provider -------------------------------
(***************************************************************************)
(* Calls of all sessions to one language model provider                    *)
(* (llm/providers): the request, the body that is collected or streamed,   *)
(* the retry with a reloaded credential, the fallback from a stream that   *)
(* yields nothing to a buffered request, and the time limits around them.  *)
(* The provider object and its credential are shared by every session.     *)
(*                                                                         *)
(* A retry or a fallback is a Deferred inside the one that waits for it,   *)
(* each with a time limit of its own; cancelling the outer one cancels     *)
(* the inner.  Times are in ticks that are left to a time limit.           *)
(***************************************************************************)
EXTENDS Integers

CONSTANTS Calls,
          Timeout,       \* request_timeout_seconds, in ticks
          MaxRefresh     \* how often the credential is refreshed

ASSUME TimeoutAssumption == Timeout \in Nat \ {0}
ASSUME RefreshAssumption == MaxRefresh \in Nat

VARIABLES
    kind,      \* the provider the configuration names
    file,      \* the credential on disk: its generation, or NoToken when unreadable
    valid,     \* the generation the upstream accepts
    token,     \* LLMProvider._token, or NoToken before LangChain built its model
    phase,     \* where each call is
    mode,      \* "stream" or "buffered"
    status,    \* of the response whose body arrives
    retried,   \* after a 401
    sent,      \* the credential of the last request
    timers,    \* the ticks left to each time limit around the call
    age,       \* ticks since the call was made
    chunk,     \* whether the stream yielded text
    stray,     \* calls given up whose stream still arrives
    answer,    \* what the Deferred fired with
    shown      \* calls of which a chunk was written to the terminal

credential == <<kind, file, valid, token>>
request == <<mode, status, retried, sent, chunk>>
vars == <<credential, phase, request, timers, age, stray, answer, shown>>

NoToken == 0
None == "none"
Empty == "empty"
Text == "text"

Kinds == {"anthropic_apikey", "anthropic_oauth", "codex_apikey", "codex_oauth", "langchain"}
Http == kind # "langchain"
OAuth == kind \in {"anthropic_oauth", "codex_oauth"}
_supports_streaming == kind \in {"anthropic_apikey", "anthropic_oauth", "langchain"}
Open == {"request", "body", "thread"}
Pending(c) == phase[c] \in Open

-----------------------------------------------------------------------------
\* agent.request with the token of the moment, in a time limit.
_with_timeout(c) == timers' = [timers EXCEPT ![c] = @ \cup {Timeout}]

Send(c, m, again) ==
    /\ phase' = [phase EXCEPT ![c] = "request"]
    /\ mode' = [mode EXCEPT ![c] = m]
    /\ retried' = [retried EXCEPT ![c] = again]
    /\ chunk' = [chunk EXCEPT ![c] = FALSE]
    /\ UNCHANGED status

_generate(c, again) == Send(c, "buffered", again) /\ _with_timeout(c)

\* Mutant: the time limits outlive the answer.
Resolve_LeavesTimers(c, result) ==
    /\ phase' = [phase EXCEPT ![c] = "done"]
    /\ answer' = [answer EXCEPT ![c] = result]
    /\ UNCHANGED timers

\* The Deferred fires: every time limit around it is cancelled.
Resolve(c, result) ==
    /\ phase' = [phase EXCEPT ![c] = "done"]
    /\ answer' = [answer EXCEPT ![c] = result]
    /\ timers' = [timers EXCEPT ![c] = {}]

generate(c) ==
    /\ Http /\ phase[c] = "idle"
    /\ _generate(c, FALSE)
    /\ sent' = [sent EXCEPT ![c] = token]
    /\ UNCHANGED <<credential, age, stray, answer, shown>>

\* Mutant: only the buffered requests have a time limit.
generate_streaming_Unbounded(c) ==
    /\ Http /\ _supports_streaming /\ phase[c] = "idle"
    /\ Send(c, "stream", FALSE) /\ UNCHANGED timers
    /\ sent' = [sent EXCEPT ![c] = token]
    /\ UNCHANGED <<credential, age, stray, answer, shown>>

\* LLMClient takes generate() where the provider cannot stream.
generate_streaming(c) ==
    /\ Http /\ _supports_streaming /\ phase[c] = "idle"
    /\ Send(c, "stream", FALSE) /\ _with_timeout(c)
    /\ sent' = [sent EXCEPT ![c] = token]
    /\ UNCHANGED <<credential, age, stray, answer, shown>>

\* The upstream answers, and its body follows.
Response(c) ==
    /\ phase[c] = "request"
    /\ phase' = [phase EXCEPT ![c] = "body"]
    /\ \E code \in IF sent[c] = valid THEN {200, 500} ELSE {401} :
          status' = [status EXCEPT ![c] = code]
    /\ UNCHANGED <<credential, mode, retried, sent, chunk, timers, age, stray, answer, shown>>

_connection_error(c) ==
    /\ phase[c] = "request"
    /\ Resolve(c, Empty)
    /\ UNCHANGED <<credential, request, age, stray, shown>>

\* StreamingBodyConsumer._process_line with text.
_process_line(c) ==
    /\ phase[c] = "body" /\ mode[c] = "stream" /\ status[c] = 200
    /\ chunk' = [chunk EXCEPT ![c] = TRUE]
    /\ shown' = shown \cup {c}
    /\ UNCHANGED <<credential, phase, mode, status, retried, sent, timers, age, stray, answer>>

-----------------------------------------------------------------------------
\* The credential on disk; NoToken when it is missing or cannot be parsed.
_load_token == file

\* Mutant: any credential that can be read is worth a retry.
_on_auth_failure_Any == OAuth /\ _load_token # NoToken

\* The credential is read again; worth a retry if it is there and is not the
\* one the provider has by now.
_on_auth_failure == OAuth /\ _load_token # NoToken /\ _load_token # token

\* What a body of a 200 yields: text, or nothing when it does not parse.
_parse_body == {Text, Empty}

\* Whether the stream produced nothing usable.
_diagnosis(c) == ~chunk[c]

\* A 401 of a buffered request, with something to retry with.
Retry(c) ==
    /\ phase[c] = "body" /\ mode[c] = "buffered" /\ status[c] = 401 /\ ~retried[c]
    /\ _on_auth_failure
    /\ token' = _load_token
    /\ sent' = [sent EXCEPT ![c] = token']
    /\ _generate(c, TRUE)
    /\ UNCHANGED <<kind, file, valid, age, stray, answer, shown>>

\* The end of a collected body: any other status answers nothing, and so does
\* a body that does not parse.
_handle_status(c) ==
    /\ phase[c] = "body" /\ mode[c] = "buffered"
    /\ ~(status[c] = 401 /\ ~retried[c] /\ _on_auth_failure)
    /\ \E r \in IF status[c] = 200 THEN _parse_body ELSE {Empty} : Resolve(c, r)
    /\ UNCHANGED <<credential, request, age, stray, shown>>

\* The end of a stream; a 401 is not retried here.
on_stream_done(c) ==
    /\ phase[c] = "body" /\ mode[c] = "stream" /\ (status[c] # 200 \/ ~_diagnosis(c))
    /\ Resolve(c, IF status[c] = 200 THEN Text ELSE Empty)
    /\ UNCHANGED <<credential, request, age, stray, shown>>

\* A stream without text: asked again, buffered.
Fallback(c) ==
    /\ phase[c] = "body" /\ mode[c] = "stream" /\ status[c] = 200 /\ _diagnosis(c)
    /\ _generate(c, FALSE)
    /\ sent' = [sent EXCEPT ![c] = token]
    /\ UNCHANGED <<credential, age, stray, answer, shown>>

-----------------------------------------------------------------------------
\* The innermost Deferred is cancelled.  A request is aborted, and answers
\* nothing as a connection error does; the consumer of a body is not told.
on_timeout(c) ==
    /\ 0 \in timers[c]
    /\ stray' = IF phase[c] = "body" /\ mode[c] = "stream" /\ status[c] = 200
                THEN stray \cup {c} ELSE stray
    /\ Resolve(c, Empty)
    /\ UNCHANGED <<credential, request, age, shown>>

LateChunk(c) ==
    /\ c \in stray
    /\ shown' = shown \cup {c}
    /\ UNCHANGED <<credential, phase, request, timers, age, stray, answer>>

LateEnd(c) ==
    /\ c \in stray
    /\ stray' = stray \ {c}
    /\ UNCHANGED <<credential, phase, request, timers, age, answer, shown>>

-----------------------------------------------------------------------------
\* LangChain: a thread, without a time limit.  The model is built once, with
\* the credential of that moment.
_invoke(c) ==
    /\ ~Http /\ phase[c] = "idle"
    /\ token' = IF token = NoToken THEN _load_token ELSE token
    /\ sent' = [sent EXCEPT ![c] = token']
    /\ \E m \in {"stream", "buffered"} : mode' = [mode EXCEPT ![c] = m]
    /\ phase' = [phase EXCEPT ![c] = "thread"]
    /\ UNCHANGED <<kind, file, valid, status, retried, chunk, timers, age, stray, answer, shown>>

\* callFromThread runs in the order of its calls, before the thread's result.
_stream(c) ==
    /\ phase[c] = "thread" /\ mode[c] = "stream" /\ sent[c] = valid
    /\ shown' = shown \cup {c}
    /\ UNCHANGED <<credential, phase, request, timers, age, stray, answer>>

\* The thread returns a text, or raises, and _to_empty answers.
ThreadDone(c) ==
    /\ phase[c] = "thread"
    /\ \E r \in IF sent[c] = valid THEN {Text, Empty} ELSE {Empty} : Resolve(c, r)
    /\ UNCHANGED <<credential, request, age, stray, shown>>

-----------------------------------------------------------------------------
\* Another tool refreshes the credential: the old one is refused from then on,
\* and the file is written after that, or cannot be read for a while.
Refresh ==
    /\ valid <= MaxRefresh
    /\ valid' = valid + 1
    /\ UNCHANGED <<kind, file, token, phase, request, timers, age, stray, answer, shown>>

WriteFile ==
    /\ \E t \in {NoToken, valid} : t # file /\ file' = t
    /\ UNCHANGED <<kind, valid, token, phase, request, timers, age, stray, answer, shown>>

\* A tick; time limits that are up come first.
Tick ==
    /\ \A c \in Calls : 0 \notin timers[c]
    /\ timers' = [c \in Calls |-> {t - 1 : t \in timers[c]}]
    /\ age' = [c \in Calls |-> IF Pending(c) /\ Http THEN age[c] + 1 ELSE age[c]]
    /\ UNCHANGED <<credential, phase, request, stray, answer, shown>>

-----------------------------------------------------------------------------
Init ==
    /\ kind \in Kinds
    /\ file = 1 /\ valid = 1
    /\ token = IF Http THEN 1 ELSE NoToken
    /\ phase = [c \in Calls |-> "idle"]
    /\ mode = [c \in Calls |-> "buffered"]
    /\ status = [c \in Calls |-> 0]
    /\ retried = [c \in Calls |-> FALSE]
    /\ sent = [c \in Calls |-> NoToken]
    /\ timers = [c \in Calls |-> {}]
    /\ age = [c \in Calls |-> 0]
    /\ chunk = [c \in Calls |-> FALSE]
    /\ stray = {}
    /\ answer = [c \in Calls |-> None]
    /\ shown = {}

CallStep(c) ==
    \/ generate(c) \/ generate_streaming(c) \/ _invoke(c)
    \/ Response(c) \/ _connection_error(c) \/ _process_line(c)
    \/ Retry(c) \/ _handle_status(c) \/ on_stream_done(c) \/ Fallback(c)
    \/ on_timeout(c) \/ LateChunk(c) \/ LateEnd(c)
    \/ _stream(c) \/ ThreadDone(c)

Next == (\E c \in Calls : CallStep(c)) \/ Refresh \/ WriteFile \/ Tick

\* Time passes and the reactor runs the time limits that are up.  Nothing is
\* assumed of the upstream or of a thread that waits for it.
Fairness == WF_vars(Tick) /\ \A c \in Calls : WF_vars(on_timeout(c))

Spec == Init /\ [][Next]_vars /\ Fairness

-----------------------------------------------------------------------------
\* Phases, credentials and ticks are in their ranges: no time limit is missed,
\* and no call gets older than one.
ProviderTypeOK ==
    /\ kind \in Kinds
    /\ file \in Nat /\ valid \in Nat /\ token \in Nat
    /\ phase \in [Calls -> Open \cup {"idle", "done"}]
    /\ mode \in [Calls -> {"stream", "buffered"}]
    /\ status \in [Calls -> {0, 200, 401, 500}]
    /\ retried \in [Calls -> BOOLEAN]
    /\ sent \in [Calls -> Nat]
    /\ timers \in [Calls -> SUBSET (0 .. Timeout)]
    /\ age \in [Calls -> 0 .. Timeout]
    /\ chunk \in [Calls -> BOOLEAN]
    /\ stray \subseteq Calls
    /\ answer \in [Calls -> {None, Empty, Text}]
    /\ shown \subseteq Calls

\* Each call, with its fallback and its retry, is answered once, within one
\* time limit over HTTP, and shows nothing after a text.
Promise == INSTANCE LLMCall WITH
    asked <- {c \in Calls : phase[c] # "idle"},
    bounded <- Http
KeepsPromise == Promise!Spec

\* However many requests a call takes, it is not older than one time limit.
DeadlineHolds == \A c \in Calls : Pending(c) /\ Http => Timeout - age[c] \in timers[c]

\* A retry is sent with a credential, and not with the one that was refused.
RetryIsNew ==
    [][\A c \in Calls : retried'[c] /\ ~retried[c] => sent'[c] \notin {sent[c], NoToken}]_vars
=============================================================================
