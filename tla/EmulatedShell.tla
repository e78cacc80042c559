---------------------------- MODULE EmulatedShell ----------------------------
(***************************************************************************)
(* A session of the emulated shell: the command stack of                   *)
(* HoneyPotBaseProtocol, the shells and commands on it, and the pipe that  *)
(* joins the commands of a line (shell/honeypot.py, protocol.py,           *)
(* command.py, pipe.py).                                                   *)
(*                                                                         *)
(* Everything runs in the reactor's thread.  An event (a line, a key, a    *)
(* timer) calls a handler, and handlers call one another: a command that   *)
(* exits resumes the shell below it, which starts the next command before  *)
(* the first one's start() has returned.  What is still to be done when a  *)
(* call returns is kept in frames, the topmost last; the next event is     *)
(* taken when it is empty.                                                 *)
(*                                                                         *)
(* A line is the sequence of items the lexer finds in it:                  *)
(*   [k |-> "cmd", stages]  a pipeline, a sequence of stages               *)
(*   [k |-> "sub", lines]   ( ... ), $( ... ) or `...`, its commands       *)
(*   [k |-> "set"]          assignments only, or a redirection alone       *)
(*   [k |-> "stop"]         a misplaced && or (, which ends the lexing     *)
(*   [k |-> "bad"]          a quote that is not closed                     *)
(* and a stage is a command with the argument that matters to the stack: a *)
(* line for sh, a command for busybox and sudo.                            *)
(***************************************************************************)
EXTENDS EmulatedCommands, Integers, FiniteSets, Bags, BagsExt, SequencesExt

CONSTANTS
    Text,        \* the lines by name
    Execs,       \* the names of the lines a client may ask to execute
    Typed,       \* Typed[n]: the names of the lines it may type as its n-th
    MaxKeys      \* how many CTRL-C and CTRL-D it types

Items == UNION {Range(Text[l]) : l \in DOMAIN Text}
Stages == UNION {Range(i.stages) : i \in {j \in Items : j.k = "cmd"}}

\* Items and stages have the forms above.  What sudo and busybox run is a stage
\* that can be found.
ItemOK(i) ==
    \/ i.k = "cmd" /\ i.stages \in Seq(Stages) \ {<<>>}
    \/ i.k = "sub" /\ i.lines \in Seq(DOMAIN Text)
    \/ i.k \in {"set", "stop", "bad"}

StageOK(s) ==
    /\ s = [c |-> s.c, arg |-> s.arg]
    /\ s.c \in DOMAIN commands \cup {"missing", "badredirect"}
    /\ s.c \in {"sh_c", "sh_file", "scriptcmd"} => s.arg \in DOMAIN Text
    /\ s.c \in {"sudo", "busybox"} => s.arg \in Stages /\ s.arg.c \in DOMAIN commands

ASSUME TextAssumption ==
    /\ \A l \in DOMAIN Text : Text[l] \in Seq(Items)
    /\ \A i \in Items : ItemOK(i)
    /\ \A s \in Stages : StageOK(s)
    /\ Execs \subseteq DOMAIN Text
    /\ \A n \in DOMAIN Typed : Typed[n] \subseteq DOMAIN Text
    /\ MaxKeys \in Nat

MAX_SCRIPT_DEPTH == 5

VARIABLES
    conn,        \* "open"; "ending" after processEnded; "lost"
    exec,        \* the session is a HoneyPotExecProtocol
    stack,       \* cmdstack, as names of objects, the top last
    heap,        \* the shells and commands by name
    frames,      \* the calls under way, the innermost last
    source,      \* what the reactor is calling: "input", "exec" or "timer"
    pp,          \* the pipe: the stage that runs, then its next_commands
    calls,       \* timers and Deferreds outstanding: a bag of <<object, event>>
    noecho,      \* password_input
    typed,       \* how many lines and keys were typed
    keys,
    mark         \* what has happened, for the properties (see Mark)

shellVars == <<conn, exec, stack, heap, frames, source, pp, calls, noecho,
               typed, keys, mark>>

-----------------------------------------------------------------------------
(* Objects and frames. *)

Shell(interactive) == [k |-> "shell", interactive |-> interactive, cmdpending |-> <<>>]

\* said: how a download was reported.  raised: a handler of the command ended in an
\* exception, its own or one of what it called.
Command(s, phase) ==
    [k |-> "cmd", c |-> s.c, arg |-> s.arg, phase |-> phase, said |-> {},
     raised |-> FALSE]

Frame(k, o, arg) == [k |-> k, o |-> o, arg |-> arg]
Ops(o, ops) == IF ops = <<>> THEN <<>> ELSE <<Frame("ops", o, ops)>>
run(o) == Frame("run", o, <<>>)
lex(o, items) == Frame("lex", o, items)
nest(line) == Frame("nest", 0, <<line>>)
out == Frame("out", 0, <<>>)

Top == Last(frames)
Return == Front(frames)

Named(s, f, c) ==
    (Range(s) \cup {f[i].o : i \in DOMAIN f} \cup {d[1] : d \in BagToSet(c)}) \ {0}

\* A name no object that is still referred to has.
Fresh == LET used == Named(stack, frames, calls)
         IN  CHOOSE n \in 1..(Cardinality(used) + 1) : n \notin used

IsShell(o) == heap[o].k = "shell"
Pending(o) == heap[o].cmdpending

\* The heap with x under the name o.
Put(o, x) == [n \in DOMAIN heap \cup {o} |-> IF n = o THEN x ELSE heap[n]]
Queue(o, items) == Put(o, [heap[o] EXCEPT !.cmdpending = items])

\* The heap becomes h; objects nothing refers to are forgotten.
Keep(h) == heap' = [n \in Named(stack', frames', calls') |-> h[n]]

\* processEnded: the channel is closed, the handler goes on.
Ended(c) == IF c = "open" THEN "ending" ELSE c

\* Marks: "skewed", a pop() took something else than the shell it was meant
\* for, or an exception kept it from being reached; "cut", an inlineCallbacks
\* kept an exception of a command that was started while it ran; "prompted", a
\* shell drew a prompt with something above it; "raised", an exception reached
\* the reactor; "interrupted", a command got a CTRL-C.
Mark(m) == mark' = mark \cup m

\* showPrompt of shell o, with the stack as it is.
PromptMark(o) ==
    IF heap[o].interactive /\ (stack = <<>> \/ Last(stack) # o)
    THEN {"prompted"} ELSE {}

-----------------------------------------------------------------------------
(* Exceptions. *)

\* An exception unwinds to the line that is being lexed, whose shell reports
\* a syntax error, forgets its commands and prompts, or to an inlineCallbacks,
\* which keeps it; else to the reactor.  An input event that raises loses the
\* connection; a timer or an exec request is only logged.
Catches == {i \in DOMAIN frames : frames[i].k \in {"lex", "async"}}

\* What the exception leaves undone: the frames from the i-th, and of commands of
\* h the one whose operation raised.
Undone(i, kind) == \E j \in i..Len(frames) : frames[j].k = kind
Unwound(h, i) ==
    LET os == {frames[j].o : j \in {k \in i..Len(frames) : frames[k].k = "ops"}}
    IN  [n \in DOMAIN h |-> IF n \in os THEN [h[n] EXCEPT !.raised = TRUE] ELSE h[n]]

Raise(marks) ==
    \/ /\ Catches # {}
       /\ UNCHANGED <<conn, stack, pp>>
       /\ \E i \in Catches :
             LET f == frames[i]
             IN  /\ \A j \in Catches : j <= i
                 /\ frames' = SubSeq(frames, 1, i - 1)
                 /\ Mark(marks \cup (IF Undone(i, "pop") THEN {"skewed"} ELSE {})
                               \cup (IF Undone(i, "out") THEN {"cut"} ELSE {})
                               \cup (IF f.k = "lex" THEN PromptMark(f.o) ELSE {}))
                 /\ Keep(Unwound(IF f.k = "lex" THEN Queue(f.o, <<>>) ELSE heap, i))
    \/ /\ Catches = {}
       /\ frames' = <<>>
       /\ Mark(marks \cup {"raised"} \cup (IF Undone(1, "pop") THEN {"skewed"} ELSE {}))
       /\ IF source = "input"
          THEN conn' = "lost" /\ stack' = <<>> /\ pp' = <<>>
          ELSE UNCHANGED <<conn, stack, pp>>
       /\ Keep(Unwound(heap, 1))

-----------------------------------------------------------------------------
(* HoneyPotShell. *)

\* lineReceived: the items in order.  A nested command runs while the rest
\* of the line is not lexed yet.
Lex ==
    /\ Top.k = "lex"
    /\ UNCHANGED <<conn, stack, pp, calls, noecho>>
    /\ LET o == Top.o
           i == IF Top.arg = <<>> THEN [k |-> "end"] ELSE Head(Top.arg)
           rest == lex(o, Tail(Top.arg))
       IN  \/ /\ i.k = "end"
              /\ frames' = Return \o IF Pending(o) = <<>> THEN <<>> ELSE <<run(o)>>
              /\ Mark(IF Pending(o) = <<>> THEN PromptMark(o) ELSE {})
              /\ Keep(heap)
           \/ /\ i.k = "stop"
              /\ frames' = Append(Return, lex(o, <<>>))
              /\ UNCHANGED mark
              /\ Keep(heap)
           \/ /\ i.k \in {"cmd", "set"}
              /\ frames' = Append(Return, rest)
              /\ UNCHANGED mark
              /\ Keep(Queue(o, Append(Pending(o), i)))
           \/ /\ i.k = "bad"
              /\ frames' = Return
              /\ Mark(PromptMark(o))
              /\ Keep(Queue(o, <<>>))
           \/ /\ i.k = "sub"
              /\ frames' = Return \o <<rest>> \o
                     [n \in DOMAIN i.lines |-> nest(Reverse(i.lines)[n])]
              /\ UNCHANGED mark
              /\ Keep(heap)

\* _execute_single_command_with_redirect and execute_commands: a shell is
\* pushed and reads the line ...
Nest ==
    /\ Top.k = "nest"
    /\ UNCHANGED <<conn, pp, calls, noecho, mark>>
    /\ LET o == Fresh
       IN  /\ stack' = Append(stack, o)
           /\ frames' = Return \o <<Frame("pop", o, <<>>), lex(o, Text[Head(Top.arg)])>>
           /\ Keep(Put(o, Shell(FALSE)))

\* ... and whatever is on top then is popped.
Pop ==
    /\ Top.k = "pop"
    /\ UNCHANGED <<calls, noecho>>
    /\ \/ stack = <<>> /\ Raise({"skewed"})
       \/ /\ stack # <<>>
          /\ stack' = Front(stack)
          /\ frames' = Return
          /\ Mark(IF Last(stack) # Top.o THEN {"skewed"} ELSE {})
          /\ UNCHANGED <<conn, pp>>
          /\ Keep(heap)

\* resume: setInsertMode is a method of interactive sessions only.
Resume ==
    /\ Top.k = "resume"
    /\ UNCHANGED <<calls, noecho>>
    /\ \/ exec /\ heap[Top.o].interactive /\ Raise({})
       \/ /\ ~(exec /\ heap[Top.o].interactive)
          /\ frames' = Append(Return, run(Top.o))
          /\ UNCHANGED <<conn, stack, pp, mark>>
          /\ Keep(heap)

\* runCommand when nothing is pending: a prompt, the end of a non-interactive
\* session, or nothing if the pipe goes on.
RunNothing ==
    /\ Top.k = "run"
    /\ Pending(Top.o) = <<>>
    /\ LET o == Top.o
           alone == Len(pp) = 1
       IN  /\ conn' = IF alone /\ ~heap[o].interactive /\ Len(stack) = 1
                      THEN Ended(conn) ELSE conn
           /\ Mark(IF alone THEN PromptMark(o) ELSE {})
    /\ frames' = Return
    /\ UNCHANGED <<stack, pp, calls, noecho>>
    /\ Keep(heap)

\* runCommand: the next pipeline.  A command that is not found, or a file that
\* cannot be redirected to, keeps every stage from running.  Starting a
\* pipeline forgets the one that was current, whatever is left of it.
RunCommand ==
    /\ Top.k = "run"
    /\ Pending(Top.o) # <<>>
    /\ UNCHANGED <<stack, calls, noecho>>
    /\ LET o == Top.o
           item == Head(Pending(o))
           h == Queue(o, Tail(Pending(o)))
           more == Len(Pending(o)) > 1
           names == IF item.k = "cmd" THEN {s.c : s \in Range(item.stages)} ELSE {}
       IN  \/ /\ item.k = "set" \/ names \cap {"missing", "badredirect"} # {}
              /\ frames' = IF more THEN frames ELSE Return
              /\ Mark(IF more THEN {} ELSE PromptMark(o))
              /\ conn' = IF "missing" \in names /\ exec /\ ~more
                         THEN Ended(conn) ELSE conn
              /\ UNCHANGED pp
              /\ Keep(h)
           \/ /\ item.k = "cmd" /\ names \cap {"missing", "badredirect"} = {}
              /\ pp' = item.stages
              /\ frames' = Append(Return, Frame("call", 0, <<>>))
              /\ UNCHANGED <<conn, mark>>
              /\ Keep(h)

-----------------------------------------------------------------------------
(* The protocol and the pipe. *)

\* call_command for the stage at the head of the pipe: the command is pushed
\* and started; then the pipe, whichever it is by then, goes on.
CallCommand ==
    /\ Top.k = "call"
    /\ UNCHANGED <<calls, noecho>>
    /\ \/ stack = <<>> /\ Raise({})
       \/ /\ stack # <<>>
          /\ LET o == Fresh
                 s == Head(pp)
             IN  \E r \in RulesFor(s.c, "new", "start") :
                    /\ stack' = Append(stack, o)
                    /\ frames' = Return \o <<out>> \o Ops(o, r.ops)
                    /\ Keep(Put(o, Command(s, r.to)))
          /\ UNCHANGED <<conn, pp, mark>>

\* outConnectionLost: the next command of the pipe that is current.
OutConnectionLost ==
    /\ Top.k = "out"
    /\ IF Len(pp) > 1
       THEN pp' = Tail(pp) /\ frames' = Append(Return, Frame("call", 0, <<>>))
       ELSE pp' = pp /\ frames' = Return
    /\ UNCHANGED <<conn, stack, calls, noecho, mark>>
    /\ Keep(heap)

-----------------------------------------------------------------------------
(* HoneyPotCommand and the operations of the commands. *)

Does(ops) == Top.k = "ops" /\ Head(Top.arg)[1] \in ops

\* The operations left of this handler, below what this one calls.
Rest == Return \o Ops(Top.o, Tail(Top.arg))

\* exit(): the command leaves the stack and what is on top then is resumed.
\* Leaving twice raises ValueError, unless the stack is gone.
Leaves(o, h) ==
    \/ /\ stack = <<>>
       /\ conn' = Ended(conn)
       /\ frames' = Rest
       /\ UNCHANGED <<stack, pp, mark>>
       /\ Keep(h)
    \/ /\ stack # <<>> /\ o \notin Range(stack)
       /\ Raise({})
    \/ /\ o \in Range(stack)
       /\ LET left == RemoveFirst(stack, o)
          IN  /\ stack' = left
              /\ frames' = Rest \o
                     IF left # <<>> /\ IsShell(Last(left))
                     THEN <<Frame("resume", Last(left), <<>>)>> ELSE <<>>
       /\ UNCHANGED <<conn, pp, mark>>
       /\ Keep(h)

Exit ==
    /\ Does({"exit"})
    /\ UNCHANGED <<calls, noecho>>
    /\ Leaves(Top.o, heap)

Said(o, what) == Put(o, [heap[o] EXCEPT !.said = @ \cup {what}])


\* collectioncomplete: an exception of exit() is the errback's.
Report ==
    /\ Does({"report"})
    /\ UNCHANGED <<calls, noecho>>
    /\ \/ /\ stack # <<>> /\ Top.o \notin Range(stack)
          /\ frames' = Return \o Ops(Top.o, <<Op("failed"), exit>>)
          /\ UNCHANGED <<conn, stack, pp, mark>>
          /\ Keep(Said(Top.o, "done"))
       \/ /\ stack = <<>> \/ Top.o \in Range(stack)
          /\ Leaves(Top.o, Said(Top.o, "done"))

Log ==
    /\ Does({"done", "failed"})
    /\ frames' = Rest
    /\ UNCHANGED <<conn, stack, pp, calls, noecho, mark>>
    /\ Keep(Said(Top.o, Head(Top.arg)[1]))

\* _download_success of ftpget and tftp: mkfile may be refused, and the protocol
\* has no user any more once the connection is lost.
Store ==
    /\ Does({"store"})
    /\ UNCHANGED <<conn, stack, pp, calls, noecho, mark>>
    /\ \/ /\ conn # "lost"
          /\ frames' = Rest
          /\ Keep(heap)
       \/ /\ frames' = Return \o Ops(Top.o, IF Head(Top.arg) = store("failed")
                                            THEN <<Op("failed"), exit>>
                                            ELSE <<Op("raise")>>)
          /\ Keep(Put(Top.o, [heap[Top.o] EXCEPT !.phase = "refused"]))

\* Timers, and password_input.
Schedule ==
    /\ Does({"call", "cancel", "noecho", "echo"})
    /\ LET op == Head(Top.arg)
           c == IF Len(op) = 2 THEN <<Top.o, op[2]>> ELSE <<>>
       IN  /\ calls' = CASE op[1] = "call" -> BagAdd(calls, c)
                        [] op[1] = "cancel" -> BagRemove(calls, c)
                        [] OTHER -> calls
           /\ noecho' = CASE op[1] = "noecho" -> TRUE
                         [] op[1] = "echo" -> FALSE
                         [] OTHER -> noecho
    /\ frames' = Rest
    /\ UNCHANGED <<conn, stack, pp, mark>>
    /\ Keep(heap)

\* processEnded on a terminal that is gone raises, and so do the faults of a
\* command of its own.
EndOrRaise ==
    /\ Does({"end", "raise"})
    /\ UNCHANGED <<calls, noecho>>
    /\ LET ends == Does({"end"}) /\ conn # "lost"
       IN  \/ ~ends /\ Raise({})
           \/ /\ ends
              /\ conn' = Ended(conn)
              /\ frames' = Rest
              /\ UNCHANGED <<stack, pp, mark>>
              /\ Keep(heap)

\* _script_depth: the scripts under way.
ScriptDepth == Cardinality({i \in DOMAIN frames : frames[i].k = "scripted"})

\* execute_commands, and execute_script_file or Command_scriptcmd, refused at
\* the fifth level.
RunLine ==
    /\ Does({"nest", "script"})
    /\ LET script == Does({"script"})
       IN  frames' = IF script /\ ScriptDepth >= MAX_SCRIPT_DEPTH THEN Rest
                     ELSE Rest \o (IF script THEN <<Frame("scripted", 0, <<>>)>> ELSE <<>>)
                               \o <<nest(heap[Top.o].arg)>>
    /\ UNCHANGED <<conn, stack, pp, calls, noecho, mark>>
    /\ Keep(heap)

\* An inlineCallbacks begins; it, or a script's finally, returns.
Async ==
    /\ Does({"async"})
    /\ frames' = Return \o <<Frame("async", 0, <<>>)>> \o Ops(Top.o, Tail(Top.arg))
    /\ UNCHANGED <<conn, stack, pp, calls, noecho, mark>>
    /\ Keep(heap)

Leave ==
    /\ Top.k \in {"async", "scripted"}
    /\ frames' = Return
    /\ UNCHANGED <<conn, stack, pp, calls, noecho, mark>>
    /\ Keep(heap)

\* interactive_shell: a shell takes the place of the command.
InteractiveShell ==
    /\ Does({"shell"})
    /\ UNCHANGED <<conn, pp, calls, noecho, mark>>
    /\ LET o == Fresh
       IN  /\ stack' = RemoveFirst(Append(stack, o), Top.o)
           /\ frames' = Rest
           /\ Keep(Put(o, Shell(TRUE)))

\* Command_exit: what is below the top is taken for the shell to leave.
PopShell ==
    /\ Does({"popshell"})
    /\ UNCHANGED <<calls, noecho>>
    /\ LET n == Len(stack)
           awaited == \E i \in DOMAIN frames : frames[i].k = "pop" /\ frames[i].o = stack[n - 1]
       IN  /\ stack' = RemoveAt(stack, n - 1)
           /\ conn' = IF n - 1 < 2 THEN Ended(conn) ELSE conn
           /\ Mark(IF awaited \/ ~IsShell(stack[n - 1]) THEN {"skewed"} ELSE {})
    /\ frames' = Rest
    /\ UNCHANGED pp
    /\ Keep(heap)

\* insert_command: the argument becomes the next stage of the current pipe;
\* busybox then starts it itself.
InsertCommand ==
    /\ Does({"insert", "next"})
    /\ IF Does({"insert"})
       THEN /\ pp' = <<Head(pp), heap[Top.o].arg>> \o Tail(pp)
            /\ frames' = Rest
       ELSE /\ pp' = pp
            /\ frames' = Append(Rest, out)
    /\ UNCHANGED <<conn, stack, calls, noecho, mark>>
    /\ Keep(heap)

Step ==
    /\ frames # <<>>
    /\ \/ Lex \/ Nest \/ Pop \/ Resume \/ RunNothing \/ RunCommand
       \/ CallCommand \/ OutConnectionLost
       \/ Exit \/ Report \/ Log \/ Store \/ Schedule \/ EndOrRaise
       \/ RunLine \/ Async \/ Leave \/ InteractiveShell \/ PopShell
       \/ InsertCommand
    /\ UNCHANGED <<exec, source, typed, keys>>

-----------------------------------------------------------------------------
(* Events: the reactor calls a handler when the last one has returned. *)

Idle == frames = <<>>

\* An event of object o in its phase, with the first of its operations next.
Handles(o, event, src) ==
    \E r \in RulesFor(heap[o].c, heap[o].phase, event) :
       /\ frames' = Ops(o, r.ops)
       /\ source' = src
       /\ Keep(IF r.to = "same" THEN heap ELSE Put(o, [heap[o] EXCEPT !.phase = r.to]))

HasRule(o, event) == RulesFor(heap[o].c, heap[o].phase, event) # {}

\* HoneyPotCommand.lineReceived splits the line into words: one pipeline, or
\* a command whose name holds the separator.
Queued(items) ==
    IF Len(items) = 1 /\ items[1].k \in {"cmd", "set"} THEN items[1]
    ELSE [k |-> "cmd", stages |-> <<[c |-> "missing", arg |-> "none"]>>]

\* A line for what is on top: a shell reads it, a command that asks takes it,
\* any other queues it for the first shell.  An unclosed quote, or something
\* else than a shell at the bottom, raises.
LineReceived ==
    /\ Idle /\ ~exec /\ conn # "lost"
    /\ typed < Len(Typed)
    /\ typed' = typed + 1
    /\ UNCHANGED <<exec, calls, noecho, keys>>
    /\ \E l \in Typed[typed + 1] :
         \/ /\ stack = <<>>
            /\ conn' = Ended(conn)
            /\ UNCHANGED <<stack, heap, frames, source, pp, mark>>
         \/ /\ stack # <<>> /\ IsShell(Last(stack))
            /\ frames' = <<lex(Last(stack), Text[l])>>
            /\ source' = "input"
            /\ UNCHANGED <<conn, stack, heap, pp, mark>>
         \/ /\ stack # <<>> /\ ~IsShell(Last(stack)) /\ HasRule(Last(stack), "line")
            /\ UNCHANGED <<conn, stack, pp, mark>>
            /\ Handles(Last(stack), "line", "input")
         \/ /\ stack # <<>> /\ ~IsShell(Last(stack)) /\ ~HasRule(Last(stack), "line")
            /\ source' = "input"
            /\ IF \E i \in Range(Text[l]) : i.k = "bad" \/ ~IsShell(Head(stack))
               THEN /\ conn' = "lost" /\ stack' = <<>> /\ pp' = <<>> /\ frames' = <<>>
                    /\ Mark({"raised"})
                    /\ Keep(heap)
               ELSE /\ UNCHANGED <<conn, stack, pp, frames, mark>>
                    /\ Keep(Queue(Head(stack), Append(Pending(Head(stack)), Queued(Text[l]))))

\* handle_CTRL_C: a shell prompts again, a command exits.
CtrlC ==
    /\ Idle /\ ~exec /\ conn # "lost" /\ stack # <<>>
    /\ keys < MaxKeys
    /\ keys' = keys + 1
    /\ ~IsShell(Last(stack))
    /\ UNCHANGED <<conn, exec, stack, pp, calls, noecho, typed>>
    /\ Mark({"interrupted"})
    /\ \/ HasRule(Last(stack), "ctrl_c") /\ Handles(Last(stack), "ctrl_c", "input")
       \/ /\ ~HasRule(Last(stack), "ctrl_c")
          /\ frames' = Ops(Last(stack), <<exit>>)
          /\ source' = "input"
          /\ Keep(heap)

\* handle_CTRL_D: a shell ends the session, a command that reads stops.
CtrlD ==
    /\ Idle /\ ~exec /\ conn # "lost" /\ stack # <<>>
    /\ keys < MaxKeys
    /\ keys' = keys + 1
    /\ UNCHANGED <<exec, stack, pp, calls, noecho, typed, mark>>
    /\ \/ /\ IsShell(Last(stack))
          /\ conn' = Ended(conn)
          /\ UNCHANGED <<frames, heap, source>>
       \/ /\ ~IsShell(Last(stack)) /\ HasRule(Last(stack), "ctrl_d")
          /\ UNCHANGED conn
          /\ Handles(Last(stack), "ctrl_d", "input")

\* A timer or a Deferred, whether or not its command is still there.
Fire(c) ==
    /\ Idle
    /\ calls' = BagRemove(calls, c)
    /\ UNCHANGED <<conn, exec, stack, pp, noecho, typed, keys, mark>>
    /\ Handles(c[1], c[2], "timer")

\* timeoutConnection, or eofReceived.
TimeoutConnection ==
    /\ Idle /\ conn = "open"
    /\ conn' = "ending"
    /\ UNCHANGED <<exec, stack, heap, frames, source, pp, calls, noecho, typed, keys, mark>>

ConnectionLost ==
    /\ Idle /\ conn # "lost"
    /\ conn' = "lost" /\ stack' = <<>> /\ pp' = <<>>
    /\ UNCHANGED <<exec, frames, source, calls, noecho, typed, keys, mark>>
    /\ Keep(heap)

-----------------------------------------------------------------------------

\* connectionMade: an interactive session prompts, an exec session runs its
\* line at once.
ShellInit ==
    /\ conn = "open" /\ stack = <<1>> /\ pp = <<>> /\ calls = EmptyBag
    /\ noecho = FALSE /\ typed = 0 /\ keys = 0 /\ mark = {}
    /\ \/ /\ exec = FALSE /\ source = "input"
          /\ heap = [n \in {1} |-> Shell(TRUE)]
          /\ frames = <<>>
       \/ /\ exec = TRUE /\ source = "exec"
          /\ heap = [n \in {1} |-> Shell(FALSE)]
          /\ \E l \in Execs : frames = <<lex(1, Text[l])>>

\* Timers that start themselves again for ever.
Endless(o) == heap[o].k = "cmd" /\ heap[o].phase = "endless"

OfPeer(c) == c[2] \in OfPeers

FireTimer == \E c \in BagToSet(calls) : ~Endless(c[1]) /\ ~OfPeer(c) /\ Fire(c)
FireDownload == \E c \in BagToSet(calls) : OfPeer(c) /\ Fire(c)
FireEndless == \E c \in BagToSet(calls) : Endless(c[1]) /\ Fire(c)

ShellNext ==
    \/ Step
    \/ LineReceived \/ CtrlC \/ CtrlD
    \/ FireTimer \/ FireDownload \/ FireEndless
    \/ TimeoutConnection \/ ConnectionLost

\* The reactor finishes the handler it has called, and calls the timers that are
\* due in every turn of its loop, whatever else it is kept busy with.  What other
\* hosts do may never come.
ShellSpec ==
    /\ ShellInit /\ [][ShellNext]_shellVars
    /\ WF_shellVars(Step) /\ SF_shellVars(FireTimer)

-----------------------------------------------------------------------------
(* Properties. *)

\* The variables have their types, every name stands for an object, and every
\* timer has a handler, whatever became of its command since.
ShellTypeOK ==
    /\ conn \in {"open", "ending", "lost"} /\ exec \in BOOLEAN
    /\ source \in {"input", "exec", "timer"} /\ noecho \in BOOLEAN
    /\ mark \subseteq {"skewed", "prompted", "raised", "interrupted", "cut"}
    /\ DOMAIN heap = Named(stack, frames, calls)
    /\ \A o \in DOMAIN heap : heap[o].k \in {"shell", "cmd"}
    /\ IsABag(calls)
    /\ \A c \in BagToSet(calls) : ~IsShell(c[1]) /\ HasRule(c[1], c[2])

\* A tftp that has stopped its timer and may have heard the last of the server.
Untimed(o) == heap[o].k = "cmd" /\ heap[o].phase = "untimed"

\* A command that is waiting: for a line or CTRL-D, for a timer of its own, or for
\* an answer that was asked for.
Waits(o) ==
    /\ heap[o].k = "cmd"
    /\ \/ HasRule(o, "line") \/ HasRule(o, "ctrl_d")
       \/ ~Untimed(o) /\ \E c \in BagToSet(calls) : c[1] = o

\* execute_commands and _execute_single_command_with_redirect take the top of
\* the stack for the shell they pushed.  It is, unless the line left a command
\* waiting or a shell open above it, or left the shell itself with exit.
NestedShellOnTop ==
    frames # <<>> /\ Top.k = "pop" /\ mark \cap {"skewed", "cut"} = {} =>
        \/ Last(stack) = Top.o
        \/ Waits(Last(stack)) \/ Untimed(Last(stack))
        \/ IsShell(Last(stack)) /\ heap[Last(stack)].interactive

\* A command left on the stack that nothing but CTRL-C removes: the code leaves one
\* whose own handler raised before its exit() (ftpget and apt-get when the file
\* cannot be made, what raises in start() of an exec session), and an untimed tftp.
Abandoned(o) == heap[o].k = "cmd" /\ heap[o].raised

\* Between events the stack of a session whose pops were right has the login
\* shell at the bottom and above it only shells a client can type to, commands
\* that something will still wake, and the abandoned ones above: an exception
\* leaves no other command behind.
NoDeadCommand ==
    Idle /\ conn = "open" /\ mark \cap {"skewed", "cut"} = {} =>
        /\ stack # <<>> /\ IsShell(Head(stack))
        /\ \A i \in 2..Len(stack) :
             \/ Waits(stack[i]) \/ Untimed(stack[i]) \/ Abandoned(stack[i])
             \/ IsShell(stack[i]) /\ heap[stack[i]].interactive

\* A shell draws its prompt only when it is what the client types to, unless a
\* pop() took the wrong object.
PromptOnTop == "prompted" \in mark => "skewed" \in mark

\* What a client types is echoed again once the command that asked for a
\* password has left the stack, unless it was interrupted.
EchoRestored ==
    Idle /\ conn # "lost" /\ noecho /\ mark \cap {"skewed", "raised", "interrupted", "cut"} = {} =>
        \E o \in Range(stack) : heap[o].k = "cmd" /\ heap[o].c \in {"passwd", "ssh", "adduser"}

\* A timer or a download that outlives the connection has resumed nothing.
NothingRevived == conn = "lost" => stack = <<>> /\ pp = <<>>

\* Whatever order lines, keys, timers and the loss of the connection come in,
\* the command stack stays sound: the parts above.
ShellInv ==
    /\ ShellTypeOK
    /\ NestedShellOnTop
    /\ NoDeadCommand
    /\ PromptOnTop
    /\ EchoRestored
    /\ NothingRevived


\* Every event comes to an end, also a script that runs itself.
EventEnds == ~Idle ~> Idle

\* Timers end after the connection, but for those of yes and of an unbounded
\* ping.
TimersDrain ==
    (conn = "lost" /\ \A o \in DOMAIN heap : ~Endless(o))
        ~> \A c \in BagToSet(calls) : OfPeer(c)

\* Some command of these is on the stack, and did not raise.
Holds(cs) ==
    \E o \in Range(stack) : heap[o].k = "cmd" /\ heap[o].c \in cs /\ ~heap[o].raised

\* A command that waits only for timers gives the stack back ...
TimedCommandsLeave == Holds({"sleep", "apt"}) ~> ~Holds({"sleep", "apt"})

\* ... and so does a download, if what it asks of other hosts comes to an end: no
\* time limit of the code ends it.
Downloads == {"wget", "curl", "ftpget", "tftp"}
PeersEnd == []<>(Idle /\ \A c \in BagToSet(calls) : ~OfPeer(c))
DownloadsLeave == PeersEnd => (Holds(Downloads) ~> ~Holds(Downloads))

\* What the reactor runs to its end does end: events, the timers of a lost
\* session, the commands that wait only for timers, and the downloads whose
\* servers end.
ShellSettles == EventEnds /\ TimersDrain /\ TimedCommandsLeave /\ DownloadsLeave
=============================================================================
