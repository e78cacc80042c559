-------------------------- MODULE LLMSessionProofs --------------------------
(* Theorems about LLMSession, for every set of commands, lines and caps. *)
EXTENDS LLMSession, WellFoundedInduction, TLAPS

\* Removing a turn leaves a shorter sequence of turns.
LEMMA RemoveTurn ==
    ASSUME NEW s \in Seq(Turn), NEW i \in DOMAIN s
    PROVE  /\ RemoveAt(s, i) \in Seq(Turn)
           /\ Len(RemoveAt(s, i)) = Len(s) - 1
  <1> i \in 1..Len(s)
    OBVIOUS
  <1>1. SubSeq(s, 1, i - 1) \in Seq(Turn) /\ Len(SubSeq(s, 1, i - 1)) = i - 1
    OBVIOUS
  <1>2. /\ SubSeq(s, i + 1, Len(s)) \in Seq(Turn)
        /\ Len(SubSeq(s, i + 1, Len(s))) = Len(s) - i
    OBVIOUS
  <1>3. ASSUME NEW a \in Seq(Turn), NEW b \in Seq(Turn)
        PROVE  a \o b \in Seq(Turn) /\ Len(a \o b) = Len(a) + Len(b)
    OBVIOUS
  <1>4. Len(s) \in Nat /\ i - 1 + (Len(s) - i) = Len(s) - 1
    OBVIOUS
  <1> QED
    BY <1>1, <1>2, <1>3, <1>4 DEF RemoveAt

\* What record_claim leaves is a ledger.
LEMMA RecordedType ==
    ASSUME SessionAssumption, TypeOK,
           NEW c \in Cmd \cup {NoCmd}, NEW a \in Cmd \cup {NoCmd}
    PROVE  Recorded(c, a) \in
             [Fact -> (Cmd \cup {NoCmd}) \X (Cmd \cup {NoCmd})]
  <1>1. CASE c = NoCmd \/ Family[c] = NoFact
    BY <1>1 DEF Recorded, TypeOK
  <1>2. CASE ~(c = NoCmd \/ Family[c] = NoFact)
    <2>1. Family[c] \in Fact
      BY <1>2 DEF SessionAssumption
    <2> QED
      BY <1>2, <2>1 DEF Recorded, TypeOK
  <1> QED
    BY <1>1, <1>2

\* The first segment of a line names a command.
LEMMA HeadType ==
    ASSUME TypeOK, chain # <<>>
    PROVE  Head(chain).cmd \in Cmd
  <1>1. Head(chain) \in Segment
    BY DEF TypeOK
  <1> QED
    BY <1>1 DEF Segment

\* A line of one segment is not a chain, is dispatched in one step, and is not
\* received while a program has the screen.
LineShape ==
    chain # <<>> /\ ~chained => Len(chain) = 1 /\ program = "none"

\* The inductive invariant.
IInv ==
    /\ TypeOK
    /\ LineShape
    /\ NoLineStranded
    /\ requests <= command_count
    /\ WithinCommandCap

\* What a segment that a local stage handled leaves of the line.
LEMMA HandledLine ==
    ASSUME TypeOK, LineShape, chain # <<>>, NEW ok \in BOOLEAN, Handled(ok)
    PROVE  /\ chain' \in Seq(Segment)
           /\ chained' \in BOOLEAN
           /\ succeeded' \in BOOLEAN
           /\ LineShape'
           /\ ~chained => Idle'
           /\ chained => ~Idle'
           /\ ~Idle
  <1>1. Tail(chain) \in Seq(Segment) /\ Len(Tail(chain)) = Len(chain) - 1
    BY DEF TypeOK
  <1>2. ~chained => chain' = <<>>
    <2> SUFFICES ASSUME ~chained PROVE chain' = <<>>
      OBVIOUS
    <2>1. Len(chain) = 1
      BY DEF LineShape
    <2> QED
      BY <1>1, <2>1 DEF Handled
  <1>3. chained' = chained /\ chained \in BOOLEAN
    BY DEF TypeOK, Handled
  <1>4. LineShape'
    BY <1>2, <1>3 DEF LineShape
  <1>5. (~chained => Idle') /\ (chained => ~Idle') /\ ~Idle
    BY <1>2, <1>3 DEF Idle
  <1>6. chain' \in Seq(Segment) /\ succeeded' \in BOOLEAN
    BY <1>1 DEF Handled
  <1> QED
    BY <1>3, <1>4, <1>5, <1>6

\* The first state satisfies the invariant.
LEMMA InitInv == Init => IInv
  <1> SUFFICES ASSUME Init PROVE IInv
    OBVIOUS
  <1> USE SessionAssumption DEF Init
  <1>1. told_facts \in [Fact -> (Cmd \cup {NoCmd}) \X (Cmd \cup {NoCmd})]
    OBVIOUS
  <1>2. ~tracked /\ chained \in BOOLEAN /\ succeeded \in BOOLEAN
        /\ overlapped \in BOOLEAN /\ tracked \in BOOLEAN
    BY Zenon
  <1>3. TypeOK
    BY <1>1, <1>2 DEF TypeOK, SessionAssumption
  <1>4. LineShape /\ NoLineStranded /\ WithinCommandCap
    BY DEF LineShape, NoLineStranded, Promised, WithinCommandCap, Idle, SessionAssumption
  <1> QED
    BY <1>3, <1>4 DEF IInv

\* Cancelling the refresh timer counts no timer below zero.
LEMMA RefreshCancelled ==
    ASSUME TypeOK, CancelRefresh
    PROVE  timers' \in Nat /\ ~tracked' /\ tracked' \in BOOLEAN
  <1>1. ~tracked' /\ tracked' \in BOOLEAN
    BY Zenon DEF CancelRefresh
  <1>2. timers' \in Nat
    BY DEF TypeOK, CancelRefresh
  <1> QED
    BY <1>1, <1>2

\* The types of what _process_command_with_llm changes.
Asked ==
    /\ turns \in Seq(Turn)
    /\ command_count \in Nat /\ tokens \in Nat /\ requests \in Nat
    /\ last_llm_command \in Cmd \cup {NoCmd}
    /\ command_history \in Seq({"user", "assistant"})
    /\ overlapped \in BOOLEAN
    /\ jitter \in Nat /\ unanswered \in Int

\* Asking the model, or declining to, keeps the types.
LEMMA ModelType ==
    ASSUME TypeOK, NEW cmd \in Cmd, NEW pending \in Seq(Turn),
           _process_command_with_llm(cmd, pending)
    PROVE  Asked'
  <1> USE DEF TypeOK, Asked, promptVars
  <1>1. command_count' \in Nat
    BY DEF _process_command_with_llm
  <1>2. CASE Refuse(pending)
    BY <1>1, <1>2 DEF Refuse, PromptNow, DrawPrompt
  <1>3. CASE SendRequest(cmd, pending)
    <2>1. turns' \in Seq(Turn)
      BY <1>3 DEF SendRequest, Turn
    <2>2. overlapped' \in BOOLEAN
      BY <1>3, Zenon DEF SendRequest
    <2> QED
      BY <1>1, <1>3, <2>1, <2>2 DEF SendRequest, Remembered
  <1>4. CASE ~Refuse(pending) /\ ~SendRequest(cmd, pending)
    <2>1. /\ turns' = pending
          /\ last_llm_command' = cmd
          /\ command_history' = Append(command_history, "user")
          /\ UNCHANGED <<tokens, requests, overlapped, promptVars>>
      BY <1>4 DEF _process_command_with_llm
    <2> QED
      BY <1>1, <2>1
  <1> QED
    BY <1>2, <1>3, <1>4

\* Every step keeps the types.
LEMMA TypeStep ==
    ASSUME TypeOK, [Next]_vars
    PROVE  TypeOK'
  <1> USE SessionAssumption
  <1>0. CASE UNCHANGED vars
    BY <1>0 DEF TypeOK, vars, programVars, lineVars, promptVars, modelVars
  <1>1. ASSUME NEW line \in Lines, lineReceived(line) PROVE TypeOK'
    <2>1. line \in Seq(Segment)
      BY DEF SessionAssumption
    <2> QED
      BY <1>1, <2>1 DEF TypeOK, lineReceived, programVars, modelVars,
                        SessionAssumption
  <1> USE DEF programVars, lineVars, promptVars, modelVars
  <1>2. CASE SkipSegment
    BY <1>2 DEF TypeOK, SkipSegment, Handled
  <1>3. CASE EndChain
    <2>1. chained' \in BOOLEAN
      BY <1>3, Zenon DEF EndChain
    <2> QED
      BY <1>3, <2>1 DEF TypeOK, EndChain, PromptNow, DrawPrompt
  <1>4. CASE Fastpath
    BY <1>4 DEF TypeOK, Fastpath, AtSegment, Handled, PromptLocal, PromptNow,
                DrawPrompt
  <1>5. CASE Exit
    BY <1>5 DEF TypeOK, Exit, AtSegment, Handled, PromptLocal, PromptNow,
                DrawPrompt
  <1>6. CASE EmitDeterministic
    <2>1. Head(chain).cmd \in Cmd
      BY <1>6, HeadType DEF EmitDeterministic, AtSegment
    <2>2. told_facts' \in [Fact -> (Cmd \cup {NoCmd}) \X (Cmd \cup {NoCmd})]
      BY <1>6, <2>1, RecordedType DEF EmitDeterministic
    <2>3. jitter' \in Nat /\ unanswered' \in Int
      BY <1>6 DEF TypeOK, EmitDeterministic, PromptLocal, PromptNow, DrawPrompt
    <2>4. succeeded' \in BOOLEAN /\ chain' \in Seq(Segment)
      BY <1>6 DEF TypeOK, EmitDeterministic, AtSegment, Handled
    <2> QED
      BY <1>6, <2>2, <2>3, <2>4 DEF TypeOK, EmitDeterministic, Handled
  <1>7. CASE StartProgram
    <2>1. timers' \in Nat /\ (tracked' => timers' > 0)
      BY <1>7 DEF TypeOK, StartProgram
    <2>4. tracked' \in BOOLEAN
      BY <1>7, Zenon DEF TypeOK, StartProgram
    <2>2. program' \in {"top", "vi"}
      BY <1>7 DEF StartProgram, AtSegment
    <2>3. succeeded' \in BOOLEAN /\ chain' \in Seq(Segment)
      BY <1>7 DEF TypeOK, StartProgram, AtSegment, Handled
    <2> QED
      BY <1>7, <2>1, <2>2, <2>3, <2>4 DEF TypeOK, StartProgram, Handled
  <1>8. CASE InterceptDownload
    <2>1. Head(chain).cmd \in Cmd
      BY <1>8, HeadType DEF InterceptDownload, AtSegment
    <2>2. turns' \in Seq(Turn)
      BY <1>8, <2>1 DEF TypeOK, InterceptDownload, Turn
    <2>3. succeeded' \in BOOLEAN /\ chain' \in Seq(Segment)
      BY <1>8 DEF TypeOK, InterceptDownload, AtSegment, Handled
    <2> QED
      BY <1>8, <2>2, <2>3 DEF TypeOK, InterceptDownload, Handled
  <1>9. CASE AskModel
    <2>1. chain # <<>> /\ Head(chain).cmd \in Cmd
      BY <1>9, HeadType DEF AskModel, AtSegment
    <2>2. Asked'
      BY <1>9, <2>1, ModelType DEF AskModel, TypeOK
    <2>3. users' \in Nat
      BY <1>9 DEF TypeOK, AskModel, Pushed
    <2>4. chain' = <<>> /\ chained' \in BOOLEAN
      BY <1>9, Zenon DEF AskModel
    <2> QED
      BY <1>9, <2>2, <2>3, <2>4 DEF TypeOK, AskModel, Asked
  <1>10. CASE WritePrompt
    BY <1>10 DEF TypeOK, WritePrompt, DrawPrompt
  <1>11. ASSUME NEW i \in DOMAIN turns, Resolve(i) PROVE TypeOK'
    <2>0. turns \in Seq(Turn) /\ turns[i] \in Turn
      BY DEF TypeOK
    <2>1. RemoveAt(turns, i) \in Seq(Turn) /\ turns[i].cmd \in Cmd
      BY <2>0, RemoveTurn DEF Turn
    <2>2. CASE FetchDone(i)
      <3>1. Asked'
        BY <2>1, <2>2, ModelType DEF FetchDone
      <3> QED
        BY <2>2, <3>1 DEF TypeOK, FetchDone, Asked
    <2>3. CASE HandleError(i)
      BY <2>1, <2>3 DEF TypeOK, HandleError, PromptNow, DrawPrompt
    <2>4. CASE HandleResponse(i)
      <3>1. Recorded(last_llm_command, turns[i].cmd) \in
              [Fact -> (Cmd \cup {NoCmd}) \X (Cmd \cup {NoCmd})]
        BY <2>1, RecordedType DEF TypeOK
      <3>2. told_facts' \in
              [Fact -> (Cmd \cup {NoCmd}) \X (Cmd \cup {NoCmd})]
        BY <2>4, <3>1 DEF TypeOK, HandleResponse
      <3>4. tokens' \in Nat
        BY <2>4 DEF TypeOK, HandleResponse, RecordUsage, SessionAssumption
      <3>0. Append(command_history, "assistant")
              \in Seq({"user", "assistant"})
        BY DEF TypeOK
      <3>5. command_history' \in Seq({"user", "assistant"})
        BY <2>4, <3>0 DEF TypeOK, HandleResponse
      <3>6. jitter' \in Nat /\ unanswered' \in Int
        BY <2>4 DEF TypeOK, HandleResponse, PromptNow, DrawPrompt
      <3> QED
        BY <2>1, <2>4, <3>2, <3>4, <3>5, <3>6 DEF TypeOK, HandleResponse
    <2>5. CASE HandleEmpty(i)
      <3>1. tokens' \in Nat
        BY <2>5 DEF TypeOK, HandleEmpty, RecordUsage, SessionAssumption
      <3> QED
        BY <2>1, <2>5, <3>1 DEF TypeOK, HandleEmpty, PromptNow, DrawPrompt
    <2> QED
      BY <1>11, <2>2, <2>3, <2>4, <2>5 DEF Resolve
  <1>12. ASSUME NEW i \in DOMAIN turns, StreamChunk(i) \/ BodyBegins(i) PROVE TypeOK'
    <2>1. turns \in Seq(Turn) /\ turns[i] \in Turn
      BY DEF TypeOK
    <2>2. [turns[i] EXCEPT !.chunks = TRUE] \in Turn
      BY <2>1 DEF Turn
    <2>3. turns' = [turns EXCEPT ![i] = [turns[i] EXCEPT !.chunks = TRUE]]
      BY <1>12 DEF StreamChunk, BodyBegins
    <2>4. turns' \in Seq(Turn)
      BY <2>1, <2>2, <2>3
    <2> QED
      BY <1>12, <2>4 DEF TypeOK, StreamChunk, BodyBegins
  <1>13. CASE ProgramExits
    <2>1. timers' \in Nat /\ ~tracked' /\ tracked' \in BOOLEAN
      BY <1>13, RefreshCancelled DEF ProgramExits
    <2> QED
      BY <1>13, <2>1 DEF TypeOK, ProgramExits, PromptNow, DrawPrompt
  <1>14. CASE ProgramRefresh
    <2>1. timers' \in Nat
      BY <1>14 DEF TypeOK, ProgramRefresh
    <2>2. tracked' => timers' > 0
      BY <1>14 DEF TypeOK, ProgramRefresh
    <2>3. tracked' \in BOOLEAN
      BY <1>14, Zenon DEF TypeOK, ProgramRefresh
    <2> QED
      BY <1>14, <2>1, <2>2, <2>3 DEF TypeOK, ProgramRefresh
  <1>15. CASE RequestEnd
    BY <1>15 DEF TypeOK, RequestEnd
  <1>16. CASE connectionLost
    <2>1. timers' \in Nat /\ ~tracked' /\ tracked' \in BOOLEAN
      BY <1>16, RefreshCancelled DEF connectionLost
    <2> QED
      BY <1>16, <2>1 DEF TypeOK, connectionLost
  <1> QED
    BY <1>0, <1>1, <1>2, <1>3, <1>4, <1>5, <1>6, <1>7, <1>8, <1>9, <1>10,
       <1>11, <1>12, <1>13, <1>14, <1>15, <1>16 DEF Next, Dispatch

\* Asking the model starts a turn or draws a prompt, and counts the request.
LEMMA ModelPromise ==
    ASSUME TypeOK, requests <= command_count, WithinCommandCap,
           NEW cmd, NEW pending \in Seq(Turn),
           _process_command_with_llm(cmd, pending)
    PROVE  /\ requests' <= command_count'
           /\ WithinCommandCap'
           /\ jitter' = jitter
           /\ Len(turns') \in Nat /\ unanswered' \in Int
           /\ term = "up" =>
                unanswered' - Len(turns') <= unanswered - 1 - Len(pending)
  <1> USE DEF WithinCommandCap, promptVars
  <1>1. /\ command_count' = command_count + 1
        /\ requests \in Nat /\ command_count \in Nat /\ unanswered \in Int
        /\ Len(pending) \in Nat
    BY DEF TypeOK, _process_command_with_llm
  <1>2. CASE Refuse(pending)
    BY <1>1, <1>2 DEF Refuse, PromptNow, DrawPrompt
  <1>3. CASE ~Refuse(pending) /\ SendRequest(cmd, pending)
    <2>1. ~OverCommandCap
      BY <1>3 DEF _process_command_with_llm
    <2>2. requests' = requests + 1 /\ requests' <= MaxCommands
      BY <1>1, <1>3, <2>1, SessionAssumption
         DEF SendRequest, OverCommandCap, SessionAssumption
    <2>3. Len(turns') = Len(pending) + 1
      BY <1>3 DEF SendRequest
    <2> QED
      BY <1>1, <1>3, <2>2, <2>3 DEF SendRequest
  <1>4. CASE ~Refuse(pending) /\ ~SendRequest(cmd, pending)
    <2>1. /\ term = "gone"
          /\ turns' = pending
          /\ UNCHANGED <<tokens, requests, overlapped, promptVars>>
      BY <1>4 DEF _process_command_with_llm, SessionAlive
    <2> QED
      BY <1>1, <2>1
  <1> QED
    BY <1>2, <1>3, <1>4

\* Every step keeps the number of prompts to come above the number of lines
\* that wait for one, and the model's caps.
LEMMA PromiseStep ==
    ASSUME IInv, TypeOK', [Next]_vars
    PROVE  IInv'
  <1> USE SessionAssumption
  <1> USE DEF IInv, NoLineStranded, Promised, WithinCommandCap, programVars,
              lineVars, promptVars, modelVars
  <1>L. ASSUME NEW ok \in BOOLEAN, chain # <<>>, Handled(ok)
        PROVE  LineShape' /\ ~Idle /\ (Idle' <=> ~chained)
    BY <1>L, HandledLine
  <1>T. /\ jitter \in Nat /\ unanswered \in Int /\ turns \in Seq(Turn)
        /\ Len(turns) \in Nat /\ command_count \in Nat /\ requests \in Nat
    BY DEF TypeOK
  <1>0. CASE UNCHANGED vars
    BY <1>0 DEF vars, LineShape, Idle
  <1>1. ASSUME NEW line \in Lines, lineReceived(line) PROVE IInv'
    <2>1. line \in Seq(Segment) /\ line # <<>>
      BY DEF SessionAssumption
    <2>2. LineShape'
      <3> SUFFICES ASSUME ~chained' PROVE Len(chain') = 1 /\ program' = "none"
        BY DEF LineShape
      <3>1. chain' = line /\ ~(Len(line) > 1) /\ program' = "none"
        BY <1>1 DEF lineReceived
      <3>2. Len(line) \in Nat /\ Len(line) # 0
        BY <2>1
      <3>3. \A n \in Nat : n # 0 /\ ~(n > 1) => n = 1
        OBVIOUS
      <3>4. Len(line) = 1
        BY <3>1, <3>2, <3>3, Zenon
      <3> QED
        BY <3>1, <3>4
    <2>3. Idle /\ ~Idle'
      BY <1>1, <2>1 DEF lineReceived, Idle
    <2> QED
      BY <1>1, <1>T, <2>2, <2>3 DEF lineReceived
  <1>2. CASE SkipSegment
    <2>1. LineShape' /\ ~Idle /\ (Idle' <=> ~chained) /\ chained
      BY <1>2, <1>L DEF SkipSegment
    <2> QED
      BY <1>2, <1>T, <2>1 DEF SkipSegment
  <1>3. CASE EndChain
    BY <1>3, <1>T DEF EndChain, PromptNow, DrawPrompt, LineShape, Idle
  <1>4. CASE Fastpath
    <2>1. LineShape' /\ ~Idle /\ (Idle' <=> ~chained)
      BY <1>4, <1>L DEF Fastpath, AtSegment
    <2> QED
      BY <1>4, <1>T, <2>1 DEF Fastpath, PromptLocal, PromptNow, DrawPrompt
  <1>5. CASE Exit
    <2>1. LineShape' /\ ~Idle /\ (Idle' <=> ~chained)
      BY <1>5, <1>L DEF Exit, AtSegment
    <2> QED
      BY <1>5, <1>T, <2>1 DEF Exit, PromptLocal, PromptNow, DrawPrompt
  <1>6. CASE EmitDeterministic
    <2>1. LineShape' /\ ~Idle /\ (Idle' <=> ~chained)
      BY <1>6, <1>L DEF EmitDeterministic, AtSegment
    <2> QED
      BY <1>6, <1>T, <2>1 DEF EmitDeterministic, PromptLocal, PromptNow,
                              DrawPrompt
  <1>7. CASE StartProgram
    <2>1. LineShape' /\ ~Idle /\ (Idle' <=> ~chained)
      BY <1>7, <1>L DEF StartProgram, AtSegment
    <2>2. program' # "none" /\ (~chained => program = "none")
      BY <1>7 DEF StartProgram, AtSegment, LineShape
    <2> QED
      BY <1>7, <1>T, <2>1, <2>2 DEF StartProgram
  <1>8. CASE InterceptDownload
    <2>1. LineShape' /\ ~Idle /\ (Idle' <=> ~chained)
      BY <1>8, <1>L DEF InterceptDownload, AtSegment
    <2>2. Len(turns') = Len(turns) + 1
      BY <1>8, <1>T DEF InterceptDownload
    <2> QED
      BY <1>8, <1>T, <2>1, <2>2 DEF InterceptDownload
  <1>9. CASE AskModel
    <2>1. LineShape' /\ ~Idle /\ Idle'
      BY <1>9 DEF AskModel, AtSegment, Idle, LineShape
    <2>2. _process_command_with_llm(Head(chain).cmd, turns)
      BY <1>9 DEF AskModel
    <2>3. term' = term /\ program' = program
      BY <1>9 DEF AskModel
    <2> QED
      BY <1>T, <2>1, <2>2, <2>3, ModelPromise
  <1>10. CASE WritePrompt
    BY <1>10, <1>T DEF WritePrompt, DrawPrompt, LineShape, Idle
  <1>11. ASSUME NEW i \in DOMAIN turns, Resolve(i) PROVE IInv'
    <2>1. /\ RemoveAt(turns, i) \in Seq(Turn)
          /\ Len(RemoveAt(turns, i)) = Len(turns) - 1
      BY <1>T, RemoveTurn
    <2> USE DEF LineShape, Idle
    <2>2. CASE FetchDone(i)
      <3>1. /\ term' = term /\ program' = program
            /\ chain' = chain /\ chained' = chained
            /\ _process_command_with_llm(turns[i].cmd, RemoveAt(turns, i))
        BY <2>2 DEF FetchDone
      <3>2. LineShape' /\ Idle /\ Idle'
        BY <2>2, <3>1 DEF FetchDone
      <3>3. /\ requests' <= command_count' /\ WithinCommandCap'
            /\ jitter' = jitter
            /\ Len(turns') \in Nat /\ unanswered' \in Int
            /\ term = "up" => unanswered' - Len(turns')
                                <= unanswered - 1 - Len(RemoveAt(turns, i))
        BY <2>1, <3>1, ModelPromise
      <3>4. term = "up" =>
              unanswered' - Len(turns') <= unanswered - Len(turns)
        BY <1>T, <2>1, <3>3
      <3>5. NoLineStranded'
        <4> HIDE DEF LineShape, Idle
        <4>1. Promised' - Len(turns') = Promised - Len(turns)
          <5>1. Promised = jitter + Len(turns)
                             + (IF program = "none" THEN 0 ELSE 1)
            BY <1>T, <3>2
          <5>2. Promised' = jitter + Len(turns')
                             + (IF program = "none" THEN 0 ELSE 1)
            BY <1>T, <3>1, <3>2, <3>3
          <5>3. ASSUME NEW a \in Int, NEW b \in Int, NEW c \in Int, NEW d \in Int
                PROVE  (a + b + d) - b = (a + c + d) - c
            OBVIOUS
          <5> HIDE DEF Promised
          <5> QED
            BY <1>T, <3>3, <5>1, <5>2, <5>3
        <4>2. Promised \in Int /\ Promised' \in Int
          BY <1>T, <3>1, <3>3
        <4> HIDE DEF Promised
        <4> QED
          BY <1>T, <3>1, <3>3, <3>4, <4>1, <4>2
      <3> QED
        BY <3>2, <3>3, <3>5
    <2>3. CASE HandleError(i)
      BY <1>T, <2>1, <2>3 DEF HandleError, PromptNow, DrawPrompt
    <2>4. CASE HandleResponse(i)
      BY <1>T, <2>1, <2>4 DEF HandleResponse, PromptNow, DrawPrompt
    <2>5. CASE HandleEmpty(i)
      BY <1>T, <2>1, <2>5 DEF HandleEmpty, PromptNow, DrawPrompt
    <2> QED
      BY <1>11, <2>2, <2>3, <2>4, <2>5 DEF Resolve
  <1>12. ASSUME NEW i \in DOMAIN turns, StreamChunk(i) \/ BodyBegins(i) PROVE IInv'
    BY <1>12, <1>T DEF StreamChunk, BodyBegins, LineShape, Idle
  <1>13. CASE ProgramExits
    BY <1>13, <1>T DEF ProgramExits, PromptNow, DrawPrompt, LineShape, Idle
  <1>14. CASE ProgramRefresh
    BY <1>14, <1>T DEF ProgramRefresh, LineShape, Idle
  <1>15. CASE RequestEnd
    BY <1>15 DEF RequestEnd, LineShape, Idle
  <1>16. CASE connectionLost
    BY <1>16 DEF connectionLost, LineShape, Idle
  <1> QED
    BY <1>0, <1>1, <1>2, <1>3, <1>4, <1>5, <1>6, <1>7, <1>8, <1>9, <1>10,
       <1>11, <1>12, <1>13, <1>14, <1>15, <1>16 DEF Next, Dispatch

\* The invariant holds in every reachable state.
THEOREM Invariant == Spec => []IInv
  <1>1. Init => IInv
    BY InitInv
  <1>2. IInv /\ [Next]_vars => IInv'
    BY TypeStep, PromiseStep DEF IInv
  <1> QED
    BY <1>1, <1>2, PTL DEF Spec

\* Every variable of the session keeps its type, in particular no refresh timer
\* is cancelled twice by _exit_program and connectionLost.
THEOREM TypeCorrect == Spec => []TypeOK
  <1>1. IInv => TypeOK
    BY DEF IInv
  <1> QED
    BY <1>1, Invariant, PTL

\* Whatever lines are sent, in whatever order downloads and model calls end, a
\* line that has no prompt yet has one coming.
THEOREM PromptsPromised == Spec => []NoLineStranded
  <1>1. IInv => NoLineStranded
    BY DEF IInv
  <1> QED
    BY <1>1, Invariant, PTL

\* The model is asked at most max_commands_per_session times in a session.
THEOREM CommandCapHolds == Spec => []WithinCommandCap
  <1>1. IInv => WithinCommandCap
    BY DEF IInv
  <1> QED
    BY <1>1, Invariant, PTL

----------------------------------------------------------------------------
(* The ledger *)

\* Where each of the turns that remain was before one was removed.
LEMMA RemoveTurnPlace ==
    ASSUME NEW s \in Seq(Turn), NEW i \in DOMAIN s,
           NEW k \in DOMAIN RemoveAt(s, i)
    PROVE  /\ k \in 1..(Len(s) - 1)
           /\ RemoveAt(s, i)[k] = s[IF k < i THEN k ELSE k + 1]
  <1>1. i \in 1..Len(s) /\ Len(s) \in Nat
    OBVIOUS
  <1>2. k \in 1..(Len(s) - 1)
    BY <1>1, RemoveTurn
  <1>3. PICK a \in Seq(Turn) :
            /\ a = SubSeq(s, 1, i - 1)
            /\ Len(a) = i - 1
            /\ \A j \in 1..(i - 1) : a[j] = s[j]
    <2>1. /\ SubSeq(s, 1, i - 1) \in Seq(Turn)
          /\ Len(SubSeq(s, 1, i - 1)) = i - 1
          /\ \A j \in 1..(i - 1) : SubSeq(s, 1, i - 1)[j] = s[j]
      BY <1>1
    <2> QED
      BY <2>1, Zenon
  <1>4. PICK b \in Seq(Turn) :
            /\ b = SubSeq(s, i + 1, Len(s))
            /\ Len(b) = Len(s) - i
            /\ \A j \in 1..(Len(s) - i) : b[j] = s[i + j]
    <2>1. /\ SubSeq(s, i + 1, Len(s)) \in Seq(Turn)
          /\ Len(SubSeq(s, i + 1, Len(s))) = Len(s) - i
          /\ \A j \in 1..(Len(s) - i) : SubSeq(s, i + 1, Len(s))[j] = s[i + j]
      BY <1>1
    <2> QED
      BY <2>1, Zenon
  <1>5. RemoveAt(s, i) = a \o b
    BY <1>3, <1>4 DEF RemoveAt
  <1>6. k \in 1..(Len(a) + Len(b))
    BY <1>1, <1>2, <1>3, <1>4
  <1>7. (a \o b)[k] = IF k <= Len(a) THEN a[k] ELSE b[k - Len(a)]
    BY <1>6
  <1>8. CASE k < i
    <2>1. k <= Len(a) /\ k \in 1..(i - 1)
      BY <1>1, <1>2, <1>3, <1>8
    <2> QED
      BY <1>2, <1>3, <1>5, <1>7, <1>8, <2>1
  <1>9. CASE ~(k < i)
    <2>1. /\ ~(k <= Len(a)) /\ k - Len(a) \in 1..(Len(s) - i)
          /\ i + (k - Len(a)) = k + 1
      <3>1. /\ k \in Int /\ i \in Int /\ Len(s) \in Int /\ Len(a) = i - 1
            /\ 1 <= k /\ k <= Len(s) - 1
        BY <1>1, <1>2, <1>3
      <3> QED
        BY <3>1, <1>9
    <2> QED
      BY <1>2, <1>4, <1>5, <1>7, <1>9, <2>1
  <1> QED
    BY <1>8, <1>9

\* The turns that remain when one is removed were there before.
LEMMA RemoveTurnElements ==
    ASSUME NEW s \in Seq(Turn), NEW i \in DOMAIN s,
           NEW k \in DOMAIN RemoveAt(s, i)
    PROVE  \E j \in DOMAIN s : RemoveAt(s, i)[k] = s[j]
  <1>1. /\ i \in 1..Len(s) /\ Len(s) \in Nat /\ DOMAIN s = 1..Len(s)
        /\ k \in 1..(Len(s) - 1)
        /\ RemoveAt(s, i)[k] = s[IF k < i THEN k ELSE k + 1]
    BY RemoveTurnPlace
  <1>2. (IF k < i THEN k ELSE k + 1) \in 1..Len(s)
    BY <1>1
  <1> QED
    BY <1>1, <1>2

\* As long as no two model calls overlapped, the pending one is the last
\* command the session remembers.
LastIsPending ==
    (~overlapped /\ term # "gone") =>
        \A i \in DOMAIN turns :
            turns[i].stage = "llm" => turns[i].cmd = last_llm_command

\* The connection is not lost in the middle of a line.
GoneIdle == term = "gone" => Idle

LedgerInv == LastIsPending /\ GoneIdle /\ ClaimsTruthful

\* Recording an answer under its own command keeps the ledger truthful.
LEMMA RecordedTruthful ==
    ASSUME TypeOK, NEW c \in Cmd \cup {NoCmd},
           \A f \in Fact : told_facts[f][1] = told_facts[f][2]
    PROVE  \A f \in Fact : Recorded(c, c)[f][1] = Recorded(c, c)[f][2]
  BY DEF Recorded, TypeOK

\* Asking the model keeps LastIsPending.
LEMMA ModelLedger ==
    ASSUME TypeOK, LastIsPending, NEW cmd \in Cmd, NEW pending \in Seq(Turn),
           \A k \in DOMAIN pending : \E j \in DOMAIN turns :
                pending[k] = turns[j],
           _process_command_with_llm(cmd, pending), term' = term
    PROVE  LastIsPending' /\ (overlapped => overlapped')
  <1> USE DEF LastIsPending, promptVars
  <1>1. CASE Refuse(pending)
    BY <1>1 DEF Refuse
  <1>2. CASE SendRequest(cmd, pending)
    <2>1. overlapped' = (overlapped \/ \E i \in DOMAIN pending :
                                        pending[i].stage = "llm")
      BY <1>2 DEF SendRequest
    <2>2. ASSUME ~overlapped', NEW k \in DOMAIN turns',
                 turns'[k].stage = "llm"
          PROVE  turns'[k].cmd = last_llm_command'
      <3>1. /\ turns' = Append(pending, [cmd |-> cmd, stage |-> "llm",
                                         chunks |-> FALSE])
            /\ last_llm_command' = cmd
        BY <1>2 DEF SendRequest, Remembered
      <3>2. ASSUME NEW e
            PROVE  /\ DOMAIN Append(pending, e) = 1..(Len(pending) + 1)
                   /\ \A n \in 1..Len(pending) :
                        Append(pending, e)[n] = pending[n]
                   /\ Append(pending, e)[Len(pending) + 1] = e
        OBVIOUS
      <3>3. k \in 1..(Len(pending) + 1) /\ Len(pending) \in Nat
        BY <2>2, <3>1, <3>2
      <3>4. CASE k \in 1..Len(pending)
        <4>1. turns'[k] = pending[k] /\ k \in DOMAIN pending
          BY <3>1, <3>2, <3>4
        <4> QED
          BY <2>1, <2>2, <4>1
      <3>5. CASE k = Len(pending) + 1
        <4>1. turns'[k] = [cmd |-> cmd, stage |-> "llm", chunks |-> FALSE]
          BY <3>1, <3>2, <3>5
        <4> QED
          BY <3>1, <4>1
      <3> QED
        BY <3>3, <3>4, <3>5
    <2> QED
      BY <2>1, <2>2
  <1>3. CASE ~Refuse(pending) /\ ~SendRequest(cmd, pending)
    BY <1>3 DEF _process_command_with_llm, SessionAlive
  <1> QED
    BY <1>1, <1>2, <1>3

\* The steps that leave the pending model calls and the ledger alone.
LEMMA QuietLedger ==
    ASSUME LedgerInv, GoneIdle',
           UNCHANGED <<turns, overlapped, last_llm_command, told_facts>>,
           term' = "gone" \/ term # "gone"
    PROVE  LedgerInv'
  BY DEF LedgerInv, LastIsPending, ClaimsTruthful

\* Nothing but the end of the connection makes it lost, and a line is only
\* dispatched before that.
LEMMA GoneStep ==
    ASSUME TypeOK, GoneIdle, [Next]_vars
    PROVE  GoneIdle' /\ (term = "gone" => term' = "gone")
  <1> USE DEF GoneIdle, Idle, lineVars, programVars
  <1>1. CASE UNCHANGED vars
    BY <1>1 DEF vars
  <1>2. ASSUME NEW line \in Lines, lineReceived(line)
        PROVE  GoneIdle' /\ (term = "gone" => term' = "gone")
    BY <1>2 DEF lineReceived
  <1>3. CASE Dispatch
    <2>1. term # "gone"
      BY <1>3 DEF Dispatch, SkipSegment, EndChain, Fastpath, Exit,
                  EmitDeterministic, StartProgram, InterceptDownload, AskModel,
                  AtSegment
    <2>2. term' = term \/ term' = "closing"
      BY <1>3 DEF Dispatch, SkipSegment, EndChain, Fastpath, Exit,
                  EmitDeterministic, StartProgram, InterceptDownload, AskModel
    <2> QED
      BY <2>1, <2>2
  <1>4. CASE WritePrompt
    BY <1>4 DEF WritePrompt
  <1>5. ASSUME NEW i \in DOMAIN turns, Resolve(i) \/ StreamChunk(i) \/ BodyBegins(i)
        PROVE  GoneIdle' /\ (term = "gone" => term' = "gone")
    BY <1>5 DEF Resolve, FetchDone, HandleError, HandleResponse, HandleEmpty,
                StreamChunk, BodyBegins
  <1>6. CASE ProgramExits \/ ProgramRefresh \/ RequestEnd \/ connectionLost
    BY <1>6 DEF ProgramExits, ProgramRefresh, RequestEnd, connectionLost
  <1> QED
    BY <1>1, <1>2, <1>3, <1>4, <1>5, <1>6 DEF Next

\* Removing a turn keeps LastIsPending.
LEMMA RemovedLedger ==
    ASSUME TypeOK, LastIsPending, NEW i \in DOMAIN turns,
           turns' = RemoveAt(turns, i),
           UNCHANGED <<term, overlapped, last_llm_command>>
    PROVE  LastIsPending'
  <1>1. ASSUME NEW k \in DOMAIN turns'
        PROVE  \E j \in DOMAIN turns : turns'[k] = turns[j]
    BY <1>1, RemoveTurnElements DEF TypeOK
  <1> QED
    BY <1>1 DEF LastIsPending

\* Every step keeps the pending call and the ledger in agreement.
LEMMA LedgerStep ==
    ASSUME TypeOK, LedgerInv, [Next]_vars
    PROVE  LedgerInv'
  <1> USE DEF modelVars, promptVars, lineVars, programVars
  <1>0. GoneIdle' /\ (term = "gone" => term' = "gone")
    BY GoneStep DEF LedgerInv
  <1>1. CASE UNCHANGED <<turns, overlapped, last_llm_command, told_facts>>
    BY <1>0, <1>1, QuietLedger
  <1>2. ASSUME NEW line \in Lines, lineReceived(line)
        PROVE  UNCHANGED <<turns, overlapped, last_llm_command, told_facts>>
    BY <1>2 DEF lineReceived
  <1>3. CASE SkipSegment \/ EndChain \/ Fastpath \/ Exit \/ StartProgram
    BY <1>1, <1>3 DEF SkipSegment, EndChain, Fastpath, Exit, StartProgram
  <1>4. CASE EmitDeterministic
    <2>1. UNCHANGED <<term, turns, overlapped, last_llm_command>>
      BY <1>4 DEF EmitDeterministic
    <2>2. PICK c \in Cmd : told_facts' = Recorded(c, c)
      BY <1>4, HeadType DEF EmitDeterministic, AtSegment, TypeOK
    <2>3. ClaimsTruthful'
      BY <2>1, <2>2, RecordedTruthful DEF ClaimsTruthful, LedgerInv
    <2> QED
      BY <1>0, <2>1, <2>3 DEF LedgerInv, LastIsPending
  <1>5. CASE InterceptDownload
    <2>1. UNCHANGED <<term, overlapped, last_llm_command, told_facts>>
      BY <1>5 DEF InterceptDownload
    <2>a. Head(chain).cmd \in Cmd
      BY <1>5, HeadType DEF InterceptDownload, AtSegment, TypeOK
    <2>b. turns' = Append(turns, [cmd |-> Head(chain).cmd, stage |-> "fetch",
                                  chunks |-> FALSE])
      BY <1>5 DEF InterceptDownload
    <2>c. ASSUME NEW c \in Cmd
          PROVE  [cmd |-> c, stage |-> "fetch", chunks |-> FALSE] \in Turn
      BY DEF Turn
    <2>2. PICK t \in Turn : turns' = Append(turns, t) /\ t.stage = "fetch"
      <3> DEFINE t == [cmd |-> Head(chain).cmd, stage |-> "fetch",
                       chunks |-> FALSE]
      <3>1. t \in Turn
        BY <2>a, <2>c
      <3>2. turns' = Append(turns, t) /\ t.stage = "fetch"
        BY <2>b
      <3> QED
        BY <3>1, <3>2
    <2>3. ASSUME NEW k \in DOMAIN turns', turns'[k].stage = "llm"
          PROVE  k \in DOMAIN turns /\ turns'[k] = turns[k]
      BY <2>2, <2>3 DEF TypeOK
    <2> QED
      BY <1>0, <2>1, <2>3 DEF LedgerInv, LastIsPending, ClaimsTruthful
  <1>6. CASE AskModel
    <2>1. UNCHANGED <<term, told_facts>>
      BY <1>6 DEF AskModel
    <2>2. Head(chain).cmd \in Cmd
      BY <1>6, HeadType DEF AskModel, AtSegment, TypeOK
    <2>3. _process_command_with_llm(Head(chain).cmd, turns)
      BY <1>6 DEF AskModel
    <2>4. LastIsPending' /\ (overlapped => overlapped')
      BY <2>1, <2>2, <2>3, ModelLedger DEF TypeOK, LedgerInv
    <2> QED
      BY <1>0, <2>1, <2>4 DEF LedgerInv, ClaimsTruthful
  <1>7. ASSUME NEW i \in DOMAIN turns, FetchDone(i)
        PROVE  LedgerInv'
    <2>1. UNCHANGED <<term, told_facts>>
      BY <1>7 DEF FetchDone
    <2>a. turns \in Seq(Turn) /\ turns[i] \in Turn
      BY DEF TypeOK
    <2>b. turns[i].cmd \in Cmd
      BY <2>a DEF Turn
    <2>2. RemoveAt(turns, i) \in Seq(Turn) /\ turns[i].cmd \in Cmd
      BY <2>a, <2>b, RemoveTurn
    <2>3. \A k \in DOMAIN RemoveAt(turns, i) : \E j \in DOMAIN turns :
            RemoveAt(turns, i)[k] = turns[j]
      BY RemoveTurnElements DEF TypeOK
    <2>4. _process_command_with_llm(turns[i].cmd, RemoveAt(turns, i))
      BY <1>7 DEF FetchDone
    <2>5. LastIsPending' /\ (overlapped => overlapped')
      BY <2>1, <2>2, <2>3, <2>4, ModelLedger DEF LedgerInv
    <2> QED
      BY <1>0, <2>1, <2>5 DEF LedgerInv, ClaimsTruthful
  <1>8. ASSUME NEW i \in DOMAIN turns, HandleError(i) \/ HandleEmpty(i)
        PROVE  LedgerInv'
    <2>1. /\ UNCHANGED <<term, overlapped, last_llm_command, told_facts>>
          /\ turns' = RemoveAt(turns, i)
      BY <1>8 DEF HandleError, HandleEmpty
    <2>2. LastIsPending'
      BY <2>1, RemovedLedger DEF LedgerInv
    <2> QED
      BY <1>0, <2>1, <2>2 DEF LedgerInv, ClaimsTruthful
  <1>9. ASSUME NEW i \in DOMAIN turns, HandleResponse(i)
        PROVE  LedgerInv'
    <2>1. /\ UNCHANGED <<term, overlapped, last_llm_command>>
          /\ turns' = RemoveAt(turns, i)
      BY <1>9 DEF HandleResponse
    <2>2. LastIsPending'
      BY <2>1, RemovedLedger DEF LedgerInv
    <2>3. CASE term = "gone"
      <3>1. UNCHANGED told_facts
        BY <1>9, <2>3 DEF HandleResponse
      <3> QED
        BY <1>0, <2>1, <2>2, <3>1 DEF LedgerInv, ClaimsTruthful
    <2>4. CASE term # "gone" /\ ~overlapped
      <3>1. turns[i].cmd = last_llm_command
        BY <1>9, <2>4 DEF HandleResponse, LedgerInv, LastIsPending
      <3>2. told_facts' = Recorded(last_llm_command, last_llm_command)
        BY <1>9, <2>4, <3>1 DEF HandleResponse
      <3>3. last_llm_command \in Cmd \cup {NoCmd}
        BY DEF TypeOK
      <3>4. ClaimsTruthful'
        BY <2>4, <3>2, <3>3, RecordedTruthful DEF LedgerInv, ClaimsTruthful
      <3> QED
        BY <1>0, <2>2, <3>4 DEF LedgerInv
    <2>5. CASE overlapped
      BY <1>0, <2>1, <2>2, <2>5 DEF LedgerInv, ClaimsTruthful
    <2> QED
      BY <2>3, <2>4, <2>5
  <1>10. ASSUME NEW i \in DOMAIN turns, StreamChunk(i) \/ BodyBegins(i)
         PROVE  LedgerInv'
    <2>1. UNCHANGED <<term, overlapped, last_llm_command, told_facts>>
      BY <1>10 DEF StreamChunk, BodyBegins
    <2>2. turns' = [turns EXCEPT ![i].chunks = TRUE]
      BY <1>10 DEF StreamChunk, BodyBegins
    <2>3. \A k \in DOMAIN turns : turns[k] \in Turn
      BY DEF TypeOK
    <2>4. ASSUME NEW k \in DOMAIN turns'
          PROVE  /\ k \in DOMAIN turns
                 /\ turns'[k].stage = turns[k].stage
                 /\ turns'[k].cmd = turns[k].cmd
      BY <2>2, <2>3 DEF Turn
    <2> QED
      BY <1>0, <2>1, <2>4 DEF LedgerInv, LastIsPending, ClaimsTruthful
  <1>11. CASE WritePrompt \/ ProgramExits \/ ProgramRefresh \/ RequestEnd
              \/ connectionLost \/ UNCHANGED vars
    BY <1>1, <1>11 DEF WritePrompt, ProgramExits, ProgramRefresh, RequestEnd,
                       connectionLost, vars
  <1> QED
    BY <1>1, <1>2, <1>3, <1>4, <1>5, <1>6, <1>7, <1>8, <1>9, <1>10, <1>11
       DEF Next, Dispatch, Resolve

\* The pending call and the ledger agree in every state.
THEOREM LedgerInvariant == Spec => []LedgerInv
  <1>1. Init => LedgerInv
    BY DEF Init, LedgerInv, LastIsPending, GoneIdle, Idle, ClaimsTruthful
  <1>2. TypeOK /\ LedgerInv /\ [Next]_vars => LedgerInv'
    BY LedgerStep
  <1> QED
    BY <1>1, <1>2, TypeCorrect, PTL DEF Spec

\* While model calls do not overlap, the ledger files every answer under the
\* command it answers, in whatever order downloads, answers and lines come.
THEOREM LedgerTruthful == Spec => []ClaimsTruthful
  <1>1. LedgerInv => ClaimsTruthful
    BY DEF LedgerInv
  <1> QED
    BY <1>1, LedgerInvariant, PTL

\* Once the connection is lost no step sends a request, not even the end of a
\* download that was under way.
THEOREM NoCallAfterHangup == Spec => NoSpendAfterHangup
  <1>1. ASSUME LedgerInv, Next, term = "gone"
        PROVE  requests' = requests
    <2> USE DEF modelVars
    <2>1. Idle
      BY <1>1 DEF LedgerInv, GoneIdle
    <2>2. ~Dispatch
      BY <2>1 DEF Idle, Dispatch, SkipSegment, EndChain, Fastpath, Exit,
                  EmitDeterministic, StartProgram, InterceptDownload, AskModel,
                  AtSegment
    <2>3. ASSUME NEW i \in DOMAIN turns, FetchDone(i)
          PROVE  requests' = requests
      BY <1>1, <2>3 DEF FetchDone, _process_command_with_llm, Refuse,
                        SessionAlive
    <2>4. ASSUME NEW i \in DOMAIN turns,
                 HandleError(i) \/ HandleResponse(i) \/ HandleEmpty(i)
                    \/ StreamChunk(i) \/ BodyBegins(i)
          PROVE  requests' = requests
      BY <2>4 DEF HandleError, HandleResponse, HandleEmpty, StreamChunk, BodyBegins
    <2>5. ASSUME NEW line \in Lines, lineReceived(line)
          PROVE  requests' = requests
      BY <2>5 DEF lineReceived
    <2> QED
      BY <1>1, <2>2, <2>3, <2>4, <2>5
         DEF Next, Resolve, WritePrompt, ProgramExits, ProgramRefresh,
             RequestEnd, connectionLost
  <1>2. LedgerInv /\ [Next]_vars =>
            [term = "gone" => requests' = requests]_vars
    BY <1>1
  <1> QED
    BY <1>2, LedgerInvariant, PTL DEF Spec, NoSpendAfterHangup

-----------------------------------------------------------------------------
(* The token budget *)

\* While no two model calls overlapped, at most one of the turns is a model
\* call, and it was started below the budget.
CallsAlone(s) ==
    \A i, j \in DOMAIN s : s[i].stage = "llm" /\ s[j].stage = "llm" => i = j

NoCall(s) == \A i \in DOMAIN s : s[i].stage # "llm"

OnePending ==
    ~overlapped => /\ CallsAlone(turns)
                   /\ MaxTokens > 0 /\ ~NoCall(turns) => tokens < MaxTokens

\* The inductive invariant of the token budget.
BudgetInv == OnePending /\ TokenOvershootOne

\* Removing a turn leaves at most one model call, and none if it was the call.
LEMMA RemovedCalls ==
    ASSUME NEW s \in Seq(Turn), NEW i \in DOMAIN s, CallsAlone(s)
    PROVE  /\ CallsAlone(RemoveAt(s, i))
           /\ NoCall(s) => NoCall(RemoveAt(s, i))
           /\ s[i].stage = "llm" => NoCall(RemoveAt(s, i))
  <1>0. i \in 1..Len(s) /\ Len(s) \in Nat
    OBVIOUS
  <1>1. PICK r : r = RemoveAt(s, i)
    OBVIOUS
  <1>2. ASSUME NEW k \in DOMAIN r
        PROVE  /\ k \in Nat
               /\ (IF k < i THEN k ELSE k + 1) \in DOMAIN s
               /\ r[k] = s[IF k < i THEN k ELSE k + 1]
    <2>1. k \in 1..(Len(s) - 1) /\ r[k] = s[IF k < i THEN k ELSE k + 1]
      BY <1>1, <1>2, RemoveTurnPlace
    <2> QED
      BY <1>0, <2>1
  <1>3. ASSUME NEW k \in DOMAIN r, NEW l \in DOMAIN r,
               r[k].stage = "llm", r[l].stage = "llm"
        PROVE  k = l
    <2>1. (IF k < i THEN k ELSE k + 1) = (IF l < i THEN l ELSE l + 1)
      BY <1>2, <1>3 DEF CallsAlone
    <2> QED
      BY <1>0, <1>2, <2>1
  <1>4. ASSUME s[i].stage = "llm", NEW k \in DOMAIN r, r[k].stage = "llm"
        PROVE  FALSE
    <2>1. (IF k < i THEN k ELSE k + 1) = i
      BY <1>2, <1>4 DEF CallsAlone
    <2> QED
      BY <1>0, <1>2, <2>1
  <1>5. NoCall(s) => NoCall(r)
    BY <1>2 DEF NoCall
  <1> QED
    BY <1>1, <1>3, <1>4, <1>5 DEF CallsAlone, NoCall

\* Starting a turn adds at most one model call.
LEMMA AppendedCalls ==
    ASSUME NEW s \in Seq(Turn), NEW t \in Turn
    PROVE  /\ NoCall(s) => CallsAlone(Append(s, t))
           /\ CallsAlone(s) /\ t.stage # "llm" => CallsAlone(Append(s, t))
           /\ NoCall(s) /\ t.stage # "llm" => NoCall(Append(s, t))
  <1>1. PICK r : r = Append(s, t)
    OBVIOUS
  <1>2. Len(s) \in Nat /\ DOMAIN s = 1..Len(s)
    OBVIOUS
  <1>3. ASSUME NEW k \in DOMAIN r
        PROVE  (k \in DOMAIN s /\ r[k] = s[k]) \/ (k = Len(s) + 1 /\ r[k] = t)
    <2>1. k \in 1..(Len(s) + 1)
      BY <1>1, <1>2, <1>3
    <2>2. CASE k \in 1..Len(s)
      BY <1>1, <1>2, <2>2
    <2>3. CASE k = Len(s) + 1
      BY <1>1, <1>2, <2>3
    <2> QED
      BY <1>2, <2>1, <2>2, <2>3
  <1> HIDE <1>1
  <1>4. NoCall(s) => CallsAlone(r)
    BY <1>2, <1>3 DEF NoCall, CallsAlone
  <1>5. CallsAlone(s) /\ t.stage # "llm" => CallsAlone(r)
    BY <1>3 DEF CallsAlone
  <1>6. NoCall(s) /\ t.stage # "llm" => NoCall(r)
    BY <1>3 DEF NoCall
  <1> QED
    BY <1>1, <1>4, <1>5, <1>6

\* Asking the model, or declining to, keeps the budget: a call starts only
\* below it, and one that finds another pending sets overlapped.
LEMMA ModelBudget ==
    ASSUME TypeOK, BudgetInv, NEW cmd \in Cmd, NEW pending \in Seq(Turn),
           CallsAlone(turns) => CallsAlone(pending),
           CallsAlone(turns) /\ NoCall(turns) => NoCall(pending),
           _process_command_with_llm(cmd, pending)
    PROVE  BudgetInv'
  <1> USE SessionAssumption DEF SessionAssumption
  <1>1. CASE turns' = pending /\ UNCHANGED <<tokens, overlapped>>
    BY <1>1 DEF BudgetInv, OnePending, TokenOvershootOne
  <1>2. CASE ~TokenBudgetExhausted /\ SendRequest(cmd, pending)
    <2>1. overlapped' = (overlapped \/ ~NoCall(pending))
      BY <1>2 DEF SendRequest, NoCall
    <2>2. tokens' = tokens /\ (MaxTokens > 0 => tokens < MaxTokens)
      BY <1>2 DEF SendRequest, TokenBudgetExhausted, TypeOK
    <2>3. PICK t \in Turn : turns' = Append(pending, t)
      <3>1. [cmd |-> cmd, stage |-> "llm", chunks |-> FALSE] \in Turn
        BY DEF Turn
      <3> QED
        BY <1>2, <3>1 DEF SendRequest
    <2>4. NoCall(pending) => CallsAlone(turns')
      BY <2>3, AppendedCalls
    <2>5. OnePending'
      BY <2>1, <2>2, <2>4 DEF OnePending
    <2>6. TokenOvershootOne'
      BY <2>1, <2>2 DEF BudgetInv, TokenOvershootOne
    <2> QED
      BY <2>5, <2>6 DEF BudgetInv
  <1> QED
    BY <1>1, <1>2 DEF _process_command_with_llm, Refuse

\* Every step keeps the budget.
LEMMA BudgetStep ==
    ASSUME TypeOK, BudgetInv, [Next]_vars
    PROVE  BudgetInv'
  <1> USE DEF modelVars, promptVars, lineVars, programVars
  <1>T. turns \in Seq(Turn) /\ tokens \in Nat
    BY DEF TypeOK
  <1>1. CASE UNCHANGED <<turns, tokens, overlapped>>
    BY <1>1 DEF BudgetInv, OnePending, TokenOvershootOne
  <1>2. ASSUME NEW line \in Lines, lineReceived(line)
        PROVE  UNCHANGED <<turns, tokens, overlapped>>
    BY <1>2 DEF lineReceived
  <1>3. CASE SkipSegment \/ EndChain \/ Fastpath \/ Exit \/ StartProgram
             \/ EmitDeterministic
    BY <1>1, <1>3 DEF SkipSegment, EndChain, Fastpath, Exit, StartProgram,
                      EmitDeterministic
  <1>4. CASE InterceptDownload
    <2>1. Head(chain).cmd \in Cmd
      BY <1>4, HeadType DEF InterceptDownload, AtSegment
    <2>2. PICK c \in Cmd : turns' = Append(turns, [cmd |-> c,
                                    stage |-> "fetch", chunks |-> FALSE])
      BY <1>4, <2>1 DEF InterceptDownload
    <2>3. PICK t \in Turn : turns' = Append(turns, t) /\ t.stage = "fetch"
      <3>1. [cmd |-> c, stage |-> "fetch", chunks |-> FALSE] \in Turn
        BY DEF Turn
      <3> QED
        BY <2>2, <3>1
    <2>4. /\ CallsAlone(turns) => CallsAlone(turns')
          /\ NoCall(turns) => NoCall(turns')
      BY <1>T, <2>3, AppendedCalls
    <2>5. UNCHANGED <<tokens, overlapped>>
      BY <1>4 DEF InterceptDownload
    <2> QED
      BY <2>4, <2>5 DEF BudgetInv, OnePending, TokenOvershootOne
  <1>5. CASE AskModel
    <2>1. Head(chain).cmd \in Cmd
      BY <1>5, HeadType DEF AskModel, AtSegment
    <2> QED
      BY <1>5, <1>T, <2>1, ModelBudget DEF AskModel
  <1>6. ASSUME NEW i \in DOMAIN turns, FetchDone(i)
        PROVE  BudgetInv'
    <2>1. turns[i] \in Turn
      BY <1>T
    <2>2. turns[i].cmd \in Cmd
      BY <2>1 DEF Turn
    <2>3. RemoveAt(turns, i) \in Seq(Turn)
      BY <1>T, RemoveTurn
    <2>4. CallsAlone(turns) =>
            /\ CallsAlone(RemoveAt(turns, i))
            /\ NoCall(turns) => NoCall(RemoveAt(turns, i))
      BY <1>T, RemovedCalls
    <2>5. _process_command_with_llm(turns[i].cmd, RemoveAt(turns, i))
      BY <1>6 DEF FetchDone
    <2> QED
      BY <2>2, <2>3, <2>4, <2>5, ModelBudget
  <1>7. ASSUME NEW i \in DOMAIN turns, HandleError(i)
        PROVE  BudgetInv'
    <2>1. turns' = RemoveAt(turns, i) /\ UNCHANGED <<tokens, overlapped>>
      BY <1>7 DEF HandleError
    <2>2. CallsAlone(turns) => /\ CallsAlone(turns')
                               /\ NoCall(turns) => NoCall(turns')
      BY <1>T, <2>1, RemovedCalls
    <2> QED
      BY <2>1, <2>2 DEF BudgetInv, OnePending, TokenOvershootOne
  <1>8. ASSUME NEW i \in DOMAIN turns, HandleResponse(i) \/ HandleEmpty(i)
        PROVE  BudgetInv'
    <2>1. /\ turns' = RemoveAt(turns, i) /\ turns[i].stage = "llm"
          /\ overlapped' = overlapped
          /\ RecordUsage
      BY <1>8 DEF HandleResponse, HandleEmpty
    <2>2. CallsAlone(turns) => CallsAlone(turns') /\ NoCall(turns')
      BY <1>T, <2>1, RemovedCalls
    <2>3. PICK spent \in Spend \cup {0} : tokens' = tokens + spent
      BY <2>1 DEF RecordUsage
    <2>4. MaxTokens > 0 /\ ~overlapped => tokens' < MaxTokens + spent
      <3>1. ~NoCall(turns)
        BY <2>1 DEF NoCall
      <3>2. MaxTokens > 0 /\ ~overlapped => tokens < MaxTokens
        BY <3>1 DEF BudgetInv, OnePending
      <3>3. MaxTokens \in Nat /\ spent \in Nat
        BY SessionAssumption DEF SessionAssumption
      <3> QED
        BY <1>T, <2>3, <3>2, <3>3
    <2>5. TokenOvershootOne'
      BY <2>1, <2>4 DEF TokenOvershootOne
    <2>6. OnePending'
      BY <2>1, <2>2 DEF BudgetInv, OnePending
    <2> QED
      BY <2>5, <2>6 DEF BudgetInv
  <1>9. ASSUME NEW i \in DOMAIN turns, StreamChunk(i) \/ BodyBegins(i)
        PROVE  BudgetInv'
    <2>1. /\ turns' = [turns EXCEPT ![i].chunks = TRUE]
          /\ UNCHANGED <<tokens, overlapped>>
      BY <1>9 DEF StreamChunk, BodyBegins
    <2>2. /\ DOMAIN turns' = DOMAIN turns
          /\ \A k \in DOMAIN turns : turns'[k].stage = turns[k].stage
      <3>1. \A k \in DOMAIN turns : turns[k] \in Turn
        BY <1>T
      <3> QED
        BY <2>1, <3>1 DEF Turn
    <2>3. (CallsAlone(turns) => CallsAlone(turns'))
          /\ (NoCall(turns) => NoCall(turns'))
      BY <2>2 DEF CallsAlone, NoCall
    <2> QED
      BY <2>1, <2>3 DEF BudgetInv, OnePending, TokenOvershootOne
  <1>10. CASE WritePrompt \/ ProgramExits \/ ProgramRefresh \/ RequestEnd
              \/ connectionLost \/ UNCHANGED vars
    BY <1>1, <1>10 DEF WritePrompt, ProgramExits, ProgramRefresh, RequestEnd,
                       connectionLost, vars
  <1> QED
    BY <1>1, <1>2, <1>3, <1>4, <1>5, <1>6, <1>7, <1>8, <1>9, <1>10
       DEF Next, Dispatch, Resolve

\* While model calls do not overlap, the spent tokens exceed the budget by
\* less than what a single response costs: _token_budget_exhausted is asked
\* before every call, and nothing is spent between that and the call's end.
THEOREM BudgetOvershootOne == Spec => []TokenOvershootOne
  <1>1. Init => BudgetInv
    <2> SUFFICES ASSUME Init PROVE BudgetInv
      OBVIOUS
    <2>1. OnePending
      BY DEF Init, OnePending, CallsAlone, NoCall
    <2>2. MaxTokens > 0 => tokens < MaxTokens + 0
      BY SessionAssumption DEF Init, SessionAssumption
    <2> QED
      BY <2>1, <2>2 DEF BudgetInv, TokenOvershootOne
  <1>2. TypeOK /\ BudgetInv /\ [Next]_vars => BudgetInv'
    BY BudgetStep
  <1>3. BudgetInv => TokenOvershootOne
    BY DEF BudgetInv
  <1> QED
    BY <1>1, <1>2, <1>3, TypeCorrect, PTL DEF Spec

-----------------------------------------------------------------------------
(* The request *)

\* A set of numbers that is not empty has a least one.
LEMMA LeastNumber ==
    ASSUME NEW T \in SUBSET Nat, T # {}
    PROVE  \E n \in T : \A m \in T : n <= m
  <1>1. PICK R : /\ IsWellFoundedOn(R, Nat)
                 /\ \A m, n \in Nat : m < n => <<m, n>> \in R
    BY NatLessThanWellFounded DEF OpToRel
  <1>2. T \subseteq Nat
    OBVIOUS
  <1>3. \E n \in T : \A m \in T : ~(<<m, n>> \in R)
    <2>1. IsWellFoundedOn(R, Nat)
      BY <1>1
    <2> HIDE <1>1
    <2> QED
      BY <1>2, <2>1, WFMin
  <1>4. PICK n \in T : \A m \in T : ~(<<m, n>> \in R)
    BY <1>3
  <1>5. ASSUME NEW m \in T PROVE n <= m
    <2>1. m \in Nat /\ n \in Nat /\ ~(m < n)
      BY <1>1, <1>4
    <2> QED
      BY <2>1
  <1> QED
    BY <1>5

\* The window of a conversation that ends with a command, without its leading
\* answers, starts and ends with a command.
LEMMA WindowValid ==
    ASSUME SessionAssumption,
           NEW h \in Seq({"user", "assistant"}), Len(h) > 0,
           h[Len(h)] = "user"
    PROVE  LET m == RequestMessages(h)
           IN  m # <<>> /\ m[1] = "user" /\ m[Len(m)] = "user"
  <1> DEFINE Role == {"user", "assistant"}
  <1>0. Window \in Nat /\ Window > 0 /\ Len(h) \in Nat
    BY DEF SessionAssumption
  <1>1. PICK recent \in Seq(Role) :
            /\ recent = (IF Len(h) > Window
                         THEN SubSeq(h, Len(h) - Window + 1, Len(h)) ELSE h)
            /\ Len(recent) > 0
            /\ recent[Len(recent)] = "user"
    <2>1. CASE Len(h) > Window
      <3>1. /\ SubSeq(h, Len(h) - Window + 1, Len(h)) \in Seq(Role)
            /\ Len(SubSeq(h, Len(h) - Window + 1, Len(h))) = Window
        BY <1>0, <2>1
      <3>2. SubSeq(h, Len(h) - Window + 1, Len(h))[Window] = h[Len(h)]
        BY <1>0, <2>1
      <3> QED
        BY <1>0, <2>1, <3>1, <3>2
    <2>2. CASE ~(Len(h) > Window)
      BY <2>2
    <2> QED
      BY <2>1, <2>2
  <1>2. PICK n : n = Len(recent) /\ n \in Nat /\ n > 0
    BY <1>1
  <1>3. DOMAIN recent = 1..n /\ \A k \in 1..n : recent[k] \in Role
    BY <1>2
  <1>4. PICK first : first = {i \in DOMAIN recent :
                        /\ recent[i] = "user"
                        /\ \A j \in 1..(i - 1) : recent[j] = "assistant"}
    OBVIOUS
  <1>5. first # {}
    <2>1. PICK U : U = {k \in 1..n : recent[k] = "user"}
      OBVIOUS
    <2>2. U \in SUBSET Nat /\ n \in U
      BY <1>1, <1>2, <2>1
    <2>3. PICK i \in U : \A k \in U : i <= k
      BY <2>2, LeastNumber
    <2>4. ASSUME NEW j \in 1..(i - 1) PROVE recent[j] = "assistant"
      <3>1. j \in 1..n /\ ~(i <= j)
        BY <1>2, <2>1, <2>3
      <3>2. recent[j] # "user"
        BY <2>1, <2>3, <3>1
      <3> QED
        BY <1>3, <3>1, <3>2
    <2>5. i \in first
      BY <1>3, <1>4, <2>1, <2>3, <2>4
    <2> QED
      BY <2>5
  <1>6. PICK i \in first : i = CHOOSE k \in first : TRUE
    BY <1>5
  <1>7. i \in 1..n /\ recent[i] = "user"
    BY <1>3, <1>4, <1>6
  <1>8. RequestMessages(h) = SubSeq(recent, i, n)
    BY <1>1, <1>2, <1>4, <1>5, <1>6, Zenon DEF RequestMessages
  <1>9. PICK m \in Seq(Role) :
            /\ m = SubSeq(recent, i, n) /\ Len(m) = n - i + 1
            /\ m[1] = recent[i] /\ m[n - i + 1] = recent[n]
    <2>1. /\ SubSeq(recent, i, n) \in Seq(Role)
          /\ Len(SubSeq(recent, i, n)) = n - i + 1
          /\ \A k \in 1..(n - i + 1) :
                SubSeq(recent, i, n)[k] = recent[i + k - 1]
      BY <1>2, <1>7
    <2>2. /\ 1 \in 1..(n - i + 1) /\ n - i + 1 \in 1..(n - i + 1)
          /\ i + 1 - 1 = i /\ i + (n - i + 1) - 1 = n
      BY <1>2, <1>7
    <2> QED
      BY <2>1, <2>2
  <1>10. m # <<>>
    <2>1. Len(m) # 0
      BY <1>2, <1>7, <1>9
    <2>2. Len(<<>>) = 0
      OBVIOUS
    <2> QED
      BY <2>1, <2>2, Zenon
  <1> QED
    BY <1>1, <1>2, <1>7, <1>8, <1>9, <1>10

\* Every request the model is sent starts with a user turn and ends with the
\* command, whatever window is configured and however answers were lost or
\* overlapped.
THEOREM RequestsValid == Spec => RequestValid
  <1>1. ASSUME TypeOK, NEW cmd, NEW pending,
               _process_command_with_llm(cmd, pending), requests' # requests
        PROVE  command_history' = Append(command_history, "user")
    BY <1>1 DEF _process_command_with_llm, Refuse, SendRequest
  <1>2. ASSUME TypeOK, Next, requests' # requests
        PROVE  command_history' = Append(command_history, "user")
    <2> USE DEF modelVars
    <2>1. CASE AskModel
      BY <1>1, <1>2, <2>1 DEF AskModel
    <2>2. ASSUME NEW i \in DOMAIN turns, FetchDone(i)
          PROVE  command_history' = Append(command_history, "user")
      BY <1>1, <1>2, <2>2 DEF FetchDone
    <2>3. ASSUME NEW i \in DOMAIN turns,
                 HandleError(i) \/ HandleResponse(i) \/ HandleEmpty(i)
                    \/ StreamChunk(i) \/ BodyBegins(i)
          PROVE  FALSE
      BY <1>2, <2>3 DEF HandleError, HandleResponse, HandleEmpty, StreamChunk, BodyBegins
    <2>4. ASSUME NEW line \in Lines, lineReceived(line)
          PROVE  FALSE
      BY <1>2, <2>4 DEF lineReceived
    <2>5. ~(SkipSegment \/ EndChain \/ Fastpath \/ Exit \/ EmitDeterministic
            \/ StartProgram \/ InterceptDownload)
      BY <1>2 DEF SkipSegment, EndChain, Fastpath, Exit, EmitDeterministic,
                  StartProgram, InterceptDownload
    <2>6. ~(WritePrompt \/ ProgramExits \/ ProgramRefresh \/ RequestEnd
            \/ connectionLost)
      BY <1>2 DEF WritePrompt, ProgramExits, ProgramRefresh, RequestEnd,
                  connectionLost
    <2> QED
      BY <1>2, <2>1, <2>2, <2>3, <2>4, <2>5, <2>6 DEF Next, Dispatch, Resolve
  <1>3. ASSUME TypeOK, Next, requests' # requests
        PROVE  LET m == RequestMessages(command_history')
               IN  m # <<>> /\ m[1] = "user" /\ m[Len(m)] = "user"
    <2>1. PICK h : h = Append(command_history, "user")
      OBVIOUS
    <2>2. command_history \in Seq({"user", "assistant"})
      BY <1>3 DEF TypeOK
    <2>3. /\ h \in Seq({"user", "assistant"}) /\ Len(h) > 0
          /\ h[Len(h)] = "user"
      BY <2>1, <2>2
    <2>4. command_history' = h
      BY <1>2, <1>3, <2>1
    <2> QED
      BY <2>3, <2>4, SessionAssumption, WindowValid
  <1>4. TypeOK /\ [Next]_vars =>
            [requests' # requests =>
                LET m == RequestMessages(command_history')
                IN  m # <<>> /\ m[1] = "user" /\ m[Len(m)] = "user"]_vars
    BY <1>3
  <1> QED
    BY <1>4, TypeCorrect, PTL DEF Spec, RequestValid

=============================================================================
