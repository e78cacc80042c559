----------------------------- MODULE LLMSession -----------------------------
(***************************************************************************)
(* One interactive session of the LLM backend (cowrie/llm/protocol.py):     *)
(* HoneyPotBaseProtocol and HoneyPotInteractiveProtocol between the client  *)
(* and the model.                                                           *)
(*                                                                          *)
(* Everything runs on the reactor.  A line is dispatched in one reactor     *)
(* event, segment by segment, so nothing else happens while `chain' holds   *)
(* segments.  What outlives the event are downloads and model calls         *)
(* (`turns', which finish in any order), prompts delayed by jitter, and the *)
(* refresh timer of a full-screen program; more lines, or the end of the    *)
(* connection, may arrive before any of them.                               *)
(*                                                                          *)
(* Abstractions: a line is the sequence of segments split_chain makes of it *)
(* (one segment when it declines); a command is known by which stage of the *)
(* ladder handles it (Kind) and the fact family of its answer (Family); the *)
(* text of an answer is the command it answers; a conversation is the roles *)
(* of its messages; tokens are counted in units of a response's cost.       *)
(***************************************************************************)
EXTENDS Integers, Sequences, SequencesExt

CONSTANTS
    Cmd,            \* commands
    Kind,           \* the stage that handles each command
    Fact,           \* fact families
    Family,         \* the fact family of each command, or NoFact
    Lines,          \* the lines a client may send: sequences of segments
    MaxCommands,    \* max_commands_per_session
    MaxTokens,      \* max_tokens_per_session, 0 for no limit
    Spend,          \* the costs a response may report
    Window,         \* history_window_turns
    Settings,       \* configurations: deterministic_responses, whether
                    \* fastpath_jitter_ms_max > 0, stream, whether the provider
                    \* supports streaming, and whether its calls are bounded
                    \* (over HTTP, with request_timeout > 0)
    MaxLines,       \* bound: lines a client sends
    NoFact, NoCmd

Kinds == {"fast", "exit", "su", "info", "fail", "top", "vi", "wget", "ask"}

Operator == {"", ";", "&&", "||"}

Segment == [op : Operator, cmd : Cmd]

ASSUME SessionAssumption ==
    /\ Kind \in [Cmd -> Kinds]
    /\ Family \in [Cmd -> Fact \cup {NoFact}]
    /\ NoFact \notin Fact
    /\ NoCmd \notin Cmd
    /\ Lines \subseteq Seq(Segment) \ {<<>>}
    /\ MaxCommands \in Nat /\ MaxTokens \in Nat /\ MaxLines \in Nat
    /\ Window \in Nat \ {0}
    /\ Spend \subseteq Nat
    /\ Settings \subseteq [deterministic : BOOLEAN, jitter : BOOLEAN,
                            stream : BOOLEAN, provider : BOOLEAN,
                            bounded : BOOLEAN]

VARIABLES
    config,           \* the configuration, one of Settings
    term,             \* the terminal: "up", "closing" (end requested), "gone"
    program,          \* _program
    timers,           \* pending _do_program_refresh calls
    tracked,          \* _refresh_call is one of them
    chain,            \* segments of the current line still to be dispatched
    chained,          \* the current line has several (_suppress_prompt)
    succeeded,        \* the exit status `&&' and `||' look at
    users,            \* length of world.user_stack
    jitter,           \* prompts scheduled by _show_prompt
    turns,            \* downloads and model calls under way
    command_count,
    tokens,           \* _session_tokens
    last_llm_command,
    command_history,  \* roles of the recorded messages
    told_facts,       \* world.told_facts: command recorded, command answered
    lines,            \* lines received
    unanswered,       \* lines received minus prompts drawn since the first
    requests,         \* requests sent to the model
    overlapped        \* history: a model call began while another was pending

programVars == <<program, timers, tracked>>
lineVars == <<chain, chained, succeeded>>
promptVars == <<jitter, unanswered>>
modelVars == <<command_count, tokens, last_llm_command, command_history,
               requests, overlapped>>
vars == <<term, programVars, lineVars, users, promptVars, turns, modelVars,
          told_facts, lines, config>>

\* No line is being dispatched: the reactor may serve another event.
Idle == chain = <<>> /\ ~chained

----------------------------------------------------------------------------
(* Prompts *)

\* _write_prompt_safe
DrawPrompt ==
    unanswered' = IF term = "gone" THEN unanswered ELSE unanswered - 1

\* _show_prompt, with no jitter and after suppression was lifted.
PromptNow == DrawPrompt /\ UNCHANGED jitter

\* _show_prompt of a local stage: suppressed in a chain, otherwise jittered.
PromptLocal ==
    \/ chained /\ UNCHANGED promptVars
    \/ ~chained /\ config.jitter /\ jitter' = jitter + 1 /\ UNCHANGED unanswered
    \/ ~chained /\ ~config.jitter /\ PromptNow

WritePrompt_Unscheduled == FALSE

\* The delay of a jittered prompt is over.
WritePrompt ==
    /\ Idle
    /\ jitter > 0
    /\ jitter' = jitter - 1
    /\ DrawPrompt
    /\ UNCHANGED <<term, programVars, lineVars, users, turns, modelVars,
                   told_facts, lines, config>>

----------------------------------------------------------------------------
(* Dispatch of a line *)

\* keystrokes reach the line editor only when no program is on the screen.
lineReceived(line) ==
    /\ Idle
    /\ term # "gone"
    /\ program = "none"
    /\ lines < MaxLines
    /\ lines' = lines + 1
    /\ unanswered' = unanswered + 1
    /\ chain' = line
    /\ chained' = (Len(line) > 1)
    /\ succeeded' = TRUE
    /\ UNCHANGED <<term, programVars, users, jitter, turns, modelVars,
                   told_facts, config>>

should_run(operator, previous_succeeded) ==
    CASE operator = "&&" -> previous_succeeded
      [] operator = "||" -> ~previous_succeeded
      [] OTHER -> TRUE

\* The segment to dispatch is of one of the kinds.
AtSegment(kinds) ==
    /\ chain # <<>>
    /\ chained => should_run(Head(chain).op, succeeded)
    /\ Kind[Head(chain).cmd] \in kinds

\* A local stage handled the segment; a line of one segment ends with it.
Handled(ok) ==
    /\ chain' = Tail(chain)
    /\ succeeded' = ok
    /\ UNCHANGED chained

\* "a skipped segment is not a failure"
SkipSegment ==
    /\ chained /\ chain # <<>>
    /\ ~should_run(Head(chain).op, succeeded)
    /\ Handled(TRUE)
    /\ UNCHANGED <<term, programVars, users, promptVars, turns, modelVars,
                   told_facts, lines, config>>

\* The end of _dispatch_chain: every segment was handled locally.
EndChain ==
    /\ chained /\ chain = <<>>
    /\ chained' = FALSE
    /\ PromptNow
    /\ UNCHANGED <<term, programVars, chain, succeeded, users, turns,
                   modelVars, told_facts, lines, config>>

\* _try_fastpath: an empty line, cd, pwd, clear.
Fastpath ==
    /\ AtSegment({"fast"})
    /\ Handled(TRUE)
    /\ PromptLocal
    /\ UNCHANGED <<term, programVars, users, turns, modelVars, told_facts,
                   lines, config>>

\* _try_fastpath on exit: leave the su shell, or ask for the end of the
\* connection.  A chain goes on with its next segment all the same.
Exit ==
    /\ AtSegment({"exit"})
    /\ Handled(TRUE)
    /\ IF users > 0
       THEN users' = users - 1 /\ PromptLocal /\ UNCHANGED term
       ELSE term' = "closing" /\ UNCHANGED <<users, promptVars>>
    /\ UNCHANGED <<programVars, turns, modelVars, told_facts, lines, config>>

\* record_claim under the family of the command named, if it has one.
Recorded(cmd, answered) ==
    IF cmd = NoCmd \/ Family[cmd] = NoFact THEN told_facts
    ELSE [told_facts EXCEPT ![Family[cmd]] = <<cmd, answered>>]

\* _emit_deterministic.  A chain does not consult deterministic_responses.
EmitDeterministic ==
    /\ AtSegment({"info", "fail"})
    /\ chained \/ config.deterministic
    /\ Handled(Kind[Head(chain).cmd] = "info")
    /\ PromptLocal
    /\ told_facts' = Recorded(Head(chain).cmd, Head(chain).cmd)
    /\ UNCHANGED <<term, programVars, users, turns, modelVars, lines, config>>

\* _try_interactive; only top has a refresh interval.
StartProgram ==
    /\ AtSegment({"top", "vi"})
    /\ Handled(TRUE)
    /\ program' = Kind[Head(chain).cmd]
    /\ IF program' = "top" THEN timers' = timers + 1 /\ tracked' = TRUE
                           ELSE UNCHANGED <<timers, tracked>>
    /\ UNCHANGED <<term, users, promptVars, turns, modelVars, told_facts,
                   lines, config>>

Turn == [cmd : Cmd, stage : {"fetch", "llm"}, chunks : BOOLEAN]

\* _try_download_intercept: the model is asked when the fetch is done.
InterceptDownload ==
    /\ AtSegment({"wget"})
    /\ Handled(TRUE)
    /\ turns' = Append(turns, [cmd |-> Head(chain).cmd, stage |-> "fetch",
                               chunks |-> FALSE])
    /\ UNCHANGED <<term, programVars, users, promptVars, modelVars, told_facts,
                   lines, config>>

----------------------------------------------------------------------------
(* Asking the model *)

OverCommandCap_Late == command_count > MaxCommands

OverCommandCap == command_count + 1 > MaxCommands

TokenBudgetExhausted_Strict == MaxTokens > 0 /\ tokens > MaxTokens

TokenBudgetExhausted == MaxTokens > 0 /\ tokens >= MaxTokens

Remembered_First(cmd) ==
    IF last_llm_command = NoCmd THEN cmd ELSE last_llm_command

Remembered(cmd) == cmd

\* The roles sent: the window of the history without leading answers.
RequestMessages_Raw(history) ==
    IF Len(history) > Window
    THEN SubSeq(history, Len(history) - Window + 1, Len(history)) ELSE history

RequestMessages(history) ==
    LET recent == IF Len(history) > Window
                  THEN SubSeq(history, Len(history) - Window + 1, Len(history))
                  ELSE history
        first == {i \in DOMAIN recent :
                    /\ recent[i] = "user"
                    /\ \A j \in 1..(i - 1) : recent[j] = "assistant"}
    IN  IF first = {} THEN <<>>
        ELSE SubSeq(recent, CHOOSE i \in first : TRUE, Len(recent))

\* _process_command_with_llm past its caps, with `pending' the turns that
\* remain under way.
SendRequest(cmd, pending) ==
    /\ last_llm_command' = Remembered(cmd)
    /\ command_history' = Append(command_history, "user")
    /\ requests' = requests + 1
    /\ overlapped' = (overlapped \/ \E i \in DOMAIN pending :
                                        pending[i].stage = "llm")
    /\ turns' = Append(pending, [cmd |-> cmd, stage |-> "llm",
                                 chunks |-> FALSE])
    /\ UNCHANGED <<tokens, promptVars>>

Refuse_Silent(pending) ==
    /\ turns' = pending
    /\ UNCHANGED <<tokens, last_llm_command, command_history, requests,
                   overlapped, promptVars>>

\* "cannot fork: Resource temporarily unavailable", and the prompt.
Refuse(pending) ==
    /\ turns' = pending
    /\ PromptNow
    /\ UNCHANGED <<tokens, last_llm_command, command_history, requests,
                   overlapped>>

SessionAlive_Assumed == TRUE

\* connectionLost dropped the avatar, which building the prompt needs.
SessionAlive == term # "gone"

_process_command_with_llm(cmd, pending) ==
    /\ command_count' = command_count + 1
    /\ \/ /\ OverCommandCap \/ TokenBudgetExhausted
          /\ Refuse(pending)
       \/ /\ ~OverCommandCap /\ ~TokenBudgetExhausted
          /\ IF SessionAlive
             THEN SendRequest(cmd, pending)
             ELSE \* AttributeError, which ends in _handle_llm_error
                  /\ turns' = pending
                  /\ last_llm_command' = cmd
                  /\ command_history' = Append(command_history, "user")
                  /\ UNCHANGED <<tokens, requests, overlapped, promptVars>>

\* The mutations of a command mirrored into the world: su pushes a user.
Pushed(cmd) == IF Kind[cmd] = "su" THEN 1 ELSE 0

\* No local stage takes the segment: the model answers it and the rest of the
\* line as one prompt.  A chain has applied the segment's mutations once when
\* it tried the local stages, and applies them again to the rest of the line.
AskModel ==
    /\ \/ AtSegment({"su", "ask"})
       \/ AtSegment({"info", "fail"}) /\ ~chained /\ ~config.deterministic
    /\ users' = users + (IF chained THEN 2 ELSE 1) * Pushed(Head(chain).cmd)
    /\ _process_command_with_llm(Head(chain).cmd, turns)
    /\ chain' = <<>>
    /\ chained' = FALSE
    /\ UNCHANGED <<term, programVars, succeeded, told_facts, lines, config>>

\* on_result of a download: the model narrates what was fetched.
FetchDone(i) ==
    /\ Idle
    /\ turns[i].stage = "fetch"
    /\ _process_command_with_llm(turns[i].cmd, RemoveAt(turns, i))
    /\ UNCHANGED <<term, programVars, lineVars, users, told_facts, lines, config>>

\* _handle_llm_error: the download or the model call failed.
HandleError(i) ==
    /\ Idle
    /\ turns' = RemoveAt(turns, i)
    /\ PromptNow
    /\ UNCHANGED <<term, programVars, lineVars, users, modelVars, told_facts,
                   lines, config>>

\* _on_stream_chunk
StreamChunk(i) ==
    /\ Idle
    /\ turns[i].stage = "llm"
    /\ config.stream /\ config.provider
    /\ ~turns[i].chunks
    /\ turns' = [turns EXCEPT ![i].chunks = TRUE]
    /\ UNCHANGED <<term, programVars, lineVars, users, promptVars, modelVars,
                   told_facts, lines, config>>

\* The headers of a download are there, or its FTP or TFTP connection: the body
\* is collected, for which no time limit is set (treq's bounds the headers).
BodyBegins(i) ==
    /\ Idle
    /\ turns[i].stage = "fetch"
    /\ ~turns[i].chunks
    /\ turns' = [turns EXCEPT ![i].chunks = TRUE]
    /\ UNCHANGED <<term, programVars, lineVars, users, promptVars, modelVars,
                   told_facts, lines, config>>

\* _record_usage: a turn reports its cost, or nothing.
RecordUsage == \E spent \in Spend \cup {0} : tokens' = tokens + spent

\* _handle_llm_response with a text.  A streamed turn writes only a newline.
HandleResponse(i) ==
    /\ Idle
    /\ turns[i].stage = "llm"
    /\ turns' = RemoveAt(turns, i)
    /\ RecordUsage
    /\ IF term = "gone"
       THEN UNCHANGED <<command_history, told_facts, promptVars>>
       ELSE /\ command_history' = Append(command_history, "assistant")
            /\ told_facts' = Recorded(last_llm_command, turns[i].cmd)
            /\ PromptNow
    /\ UNCHANGED <<term, programVars, lineVars, users, command_count,
                   last_llm_command, requests, overlapped, lines, config>>

\* _handle_llm_response with "": the provider failed or timed out.
HandleEmpty(i) ==
    /\ Idle
    /\ turns[i].stage = "llm"
    /\ turns' = RemoveAt(turns, i)
    /\ RecordUsage
    /\ PromptNow
    /\ UNCHANGED <<term, programVars, lineVars, users, command_count,
                   last_llm_command, command_history, requests, overlapped,
                   told_facts, lines, config>>

Resolve(i) ==
    FetchDone(i) \/ HandleError(i) \/ HandleResponse(i) \/ HandleEmpty(i)

----------------------------------------------------------------------------
(* Full-screen programs *)

\* Cancel _refresh_call, if it is set.
CancelRefresh ==
    /\ timers' = IF tracked THEN timers - 1 ELSE timers
    /\ tracked' = FALSE

\* keystrokeReceived with the key that ends the program, or one on which it
\* raises: _exit_program.  Other keys only redraw the program's screen.
ProgramExits ==
    /\ Idle
    /\ program # "none"
    /\ program' = "none"
    /\ CancelRefresh
    /\ PromptNow
    /\ UNCHANGED <<term, lineVars, users, turns, modelVars, told_facts, lines,
                   config>>

\* _do_program_refresh, which forgets _refresh_call whichever timer fired.
ProgramRefresh ==
    /\ Idle
    /\ timers > 0
    /\ IF program = "top" THEN tracked' = TRUE /\ UNCHANGED timers
                          ELSE tracked' = FALSE /\ timers' = timers - 1
    /\ UNCHANGED <<term, program, lineVars, users, promptVars, turns, modelVars,
                   told_facts, lines, config>>

----------------------------------------------------------------------------
(* The connection *)

\* CTRL-D outside a program, EOF, or interactive_timeout, which no input
\* postpones: the end of the connection is requested.
RequestEnd ==
    /\ Idle
    /\ term = "up"
    /\ term' = "closing"
    /\ UNCHANGED <<programVars, lineVars, users, promptVars, turns, modelVars,
                   told_facts, lines, config>>

connectionLost ==
    /\ Idle
    /\ term # "gone"
    /\ term' = "gone"
    /\ program' = "none"
    /\ CancelRefresh
    /\ UNCHANGED <<lineVars, users, promptVars, turns, modelVars, told_facts,
                   lines, config>>

----------------------------------------------------------------------------

\* connectionMade has drawn the first prompt.
Init ==
    /\ config \in Settings
    /\ term = "up"
    /\ program = "none" /\ timers = 0 /\ tracked = FALSE
    /\ chain = <<>> /\ chained = FALSE /\ succeeded = TRUE
    /\ users = 0
    /\ jitter = 0 /\ unanswered = 0
    /\ turns = <<>>
    /\ command_count = 0 /\ tokens = 0 /\ requests = 0
    /\ last_llm_command = NoCmd
    /\ command_history = <<>>
    /\ told_facts = [f \in Fact |-> <<NoCmd, NoCmd>>]
    /\ lines = 0
    /\ overlapped = FALSE

\* The steps of the event that dispatches a line.
Dispatch ==
    \/ SkipSegment
    \/ EndChain
    \/ Fastpath
    \/ Exit
    \/ EmitDeterministic
    \/ StartProgram
    \/ InterceptDownload
    \/ AskModel

Next ==
    \/ \E line \in Lines : lineReceived(line)
    \/ Dispatch
    \/ WritePrompt
    \/ \E i \in DOMAIN turns : Resolve(i) \/ StreamChunk(i) \/ BodyBegins(i)
    \/ ProgramExits
    \/ ProgramRefresh
    \/ RequestEnd
    \/ connectionLost

Spec == Init /\ [][Next]_vars

\* A turn that a time limit ends: a download until its body begins, and a model
\* call through _with_timeout, which LangChain's calls do not pass.
Bounded(turn) == IF turn.stage = "fetch" THEN ~turn.chunks ELSE config.bounded

BoundedTurnEnds ==
    \E i \in DOMAIN turns :
        Bounded(turns[i]) /\ (Resolve(i) \/ BodyBegins(i))

\* The dispatch of a line does not wait for anything.  Delayed calls are made.
\* Turns with a time limit go on.  A connection whose end was requested ends.
Fairness ==
    /\ WF_vars(Dispatch)
    /\ WF_vars(WritePrompt)
    /\ WF_vars(BoundedTurnEnds)
    /\ WF_vars(term = "closing" /\ connectionLost)

FairSpec == Spec /\ Fairness

----------------------------------------------------------------------------
(* Properties *)

\* Every variable of the session has its type; in particular no refresh timer
\* is cancelled twice.
TypeOK ==
    /\ config \in Settings
    /\ term \in {"up", "closing", "gone"}
    /\ program \in {"none", "top", "vi"}
    /\ timers \in Nat /\ tracked \in BOOLEAN
    /\ tracked => timers > 0
    /\ chain \in Seq(Segment)
    /\ chained \in BOOLEAN /\ succeeded \in BOOLEAN
    /\ users \in Nat
    /\ jitter \in Nat /\ unanswered \in Int
    /\ turns \in Seq(Turn)
    /\ command_count \in Nat /\ tokens \in Nat /\ requests \in Nat
    /\ last_llm_command \in Cmd \cup {NoCmd}
    /\ command_history \in Seq({"user", "assistant"})
    /\ told_facts \in [Fact -> (Cmd \cup {NoCmd}) \X (Cmd \cup {NoCmd})]
    /\ lines \in 0..MaxLines
    /\ overlapped \in BOOLEAN

\* The prompts that are still to come.
Promised ==
    (IF Idle THEN 0 ELSE 1) + jitter + Len(turns)
        + (IF program = "none" THEN 0 ELSE 1)

\* The docstring of _record_claim names the worst failure: a session left with
\* no output and no prompt.  Every line without a prompt is being dispatched,
\* or has a delayed prompt, a pending turn or a program that will draw one.
NoLineStranded == term = "up" => unanswered <= Promised

\* The cost cap of _process_command_with_llm: however lines, downloads and
\* answers interleave, the model is asked at most max_commands_per_session
\* times.
WithinCommandCap == requests <= MaxCommands

\* The docstring of _token_budget_exhausted: the cap is overshot by a single
\* response at most, as long as no two model calls are pending at once.
TokenOvershootOne ==
    (MaxTokens > 0 /\ ~overlapped) =>
        \E s \in Spend \cup {0} : tokens < MaxTokens + s

\* ClaimFact.command is "the command that produced this answer": the ledger
\* never files an answer under another command, as long as no two model calls
\* are pending at once.
ClaimsTruthful ==
    ~overlapped => \A f \in Fact : told_facts[f][1] = told_facts[f][2]

\* A download that ends after the client hung up does not spend a model call.
NoSpendAfterHangup == [][term = "gone" => requests' = requests]_vars

\* The comment in _process_command_with_llm, "so the request is always valid":
\* a request starts with a user turn and ends with the command, however the
\* window cuts a history in which calls overlapped or failed.
RequestValid ==
    [][requests' # requests =>
        LET m == RequestMessages(command_history')
        IN  m # <<>> /\ m[1] = "user" /\ m[Len(m)] = "user"]_vars

\* No body of a download and no model call without a time limit is under way.
NoneUnbounded == \A i \in DOMAIN turns : Bounded(turns[i])

\* The client gets its prompt back after every line, or starts a program, or the
\* session ends, unless a download's body or a call without a time limit stalls:
\* then only interactive_timeout, if there is one, ends the wait.
PromptReturns ==
    []<>NoneUnbounded =>
        (unanswered > 0
            ~> (unanswered <= 0 \/ program # "none" \/ term # "up"))

=============================================================================
