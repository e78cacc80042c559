------------------------------ MODULE ScpSession ------------------------------
(***************************************************************************)
(* A command run by SSH on the LLM backend (HoneyPotExecProtocol in        *)
(* llm/protocol.py): an upload with scp, for which the ScpSink of          *)
(* llm/scp.py plays the receiver, a download with scp, which is refused,   *)
(* or a command that the model answers.                                    *)
(*                                                                         *)
(* The sender is external and keeps to the protocol of scp: a burst (a     *)
(* control line, or the bytes of a file and a NUL), then an answer, then   *)
(* the next.  Its bytes reach the sink one by one through Twisted's        *)
(* ServerProtocol, also external, which reads them as keys and keeps an    *)
(* ESC for itself.  A control line is modelled as its text and a newline,  *)
(* a byte of a file by its place in it.                                    *)
(***************************************************************************)
EXTENDS Integers, Sequences, SequencesExt

CONSTANTS Uploads,     \* what may be sent: sequences of Record
          MaxBytes,    \* ScpSink.max_bytes
          DataLimit    \* download_limit_size; 0 is no limit

\* An upload is a sequence of records: a file with the bytes in it that are
\* ESC, the start or the end of a directory, or times.
Record == [k : {"C"}, size : Nat, esc : SUBSET Nat] \cup [k : {"D", "E", "T"}]

\* What reaches the sink: bytes of files and of control lines.
NUL == [k |-> "nul"]
LF == [k |-> "lf"]
Byte(f, i, esc) == [k |-> IF esc THEN "esc" ELSE "byte", at |-> <<f, i>>]

\* The first bytes of a file.
Start(f, n) == [i \in 1 .. n |-> Byte(f, i, FALSE)]

\* What there is to keep of so many bytes.
Capped(bytes) == IF bytes < MaxBytes THEN bytes ELSE MaxBytes

\* What the n-th record adds: a file of which the cap leaves the start, or a
\* directory that is entered or left.
With(a, n, r) ==
    IF r.k = "C"
    THEN [a EXCEPT !.bytes = @ + r.size,
                   !.files = Append(@, Start(n, Capped(a.bytes + r.size) - Capped(a.bytes)))]
    ELSE [a EXCEPT !.depth = CASE r.k = "D" -> @ + 1 [] r.k = "E" -> @ - 1 [] OTHER -> @]

\* What the first records of an upload amount to.
Amount(u) ==
    LET first[n \in 0 .. Len(u)] ==
            IF n = 0 THEN [bytes |-> 0, files |-> <<>>, depth |-> 0]
            ELSE With(first[n - 1], n, u[n])
    IN  first

\* A sender leaves every directory that it enters, and no other.
ASSUME ScpAssumption ==
    /\ \A u \in Uploads :
          /\ u \in Seq(Record)
          /\ \A n \in 0 .. Len(u) : Amount(u)[n].depth >= 0
          /\ Amount(u)[Len(u)].depth = 0
    /\ MaxBytes \in Nat /\ DataLimit \in Nat

VARIABLES
    execcmd,     \* "sink" (scp -t), "source" (scp -f) or "model"
    upload,      \* what the sender sends
    plan,        \* the burst it sends next: the line or the body of a record
    eof,         \* it has closed its side: "no", "sent", or "read" here
    wire,        \* bytes on their way to the sink
    acks,        \* answers on their way back
    received,    \* bytesReceived
    escaped,     \* ServerProtocol has seen an ESC
    sink,        \* the ScpSink
    stored,      \* the uploads persisted, in order
    finalized,   \* _scp_finalized
    timer,       \* the 60 seconds of the session run
    asked,       \* the model has not answered yet
    channel      \* "open", "closing" after processEnded, "closed"

execVars == <<execcmd, upload, plan, eof, wire, acks, received, escaped, sink,
              stored, finalized, timer, asked, channel>>

-----------------------------------------------------------------------------
(* The sender *)

\* A file is two bursts, anything else one.
Burst(place) ==
    IF place.part = "line" THEN <<upload[place.i], LF>>
    ELSE [b \in 1 .. upload[place.i].size |-> Byte(place.i, b, b \in upload[place.i].esc)] \o <<NUL>>

After(place) ==
    IF place.part = "line" /\ upload[place.i].k = "C" THEN [place EXCEPT !.part = "body"]
    ELSE [i |-> place.i + 1, part |-> "line"]

AllSent == plan.i > Len(upload)

SenderSends ==
    /\ acks > 0 /\ eof = "no" /\ ~AllSent
    /\ wire' = wire \o Burst(plan)
    /\ plan' = After(plan)
    /\ acks' = acks - 1
    /\ UNCHANGED <<execcmd, upload, eof, received, escaped, sink, stored, finalized, timer, asked, channel>>

\* After the last answer, or when it is interrupted.
SenderEnds ==
    /\ eof = "no" /\ eof' = "sent"
    /\ UNCHANGED <<execcmd, upload, plan, wire, acks, received, escaped, sink, stored, finalized, timer, asked, channel>>

-----------------------------------------------------------------------------
(* ScpSink *)

\* cur is what was read of the current file.
NewSink == [phase |-> "control", buf |-> <<>>, remaining |-> 0, cur |-> <<>>,
            dirs |-> <<>>, files |-> <<>>, total |-> 0, out |-> 0]

\* out counts the answers that a call of feed() gives.
Ack(s) == [s EXCEPT !.out = @ + 1]

\* A file without bytes is complete with its control line.  What is not
\* understood, and the rest of a body that was cut short, is answered too.
_handle_control(s, line) ==
    IF line = <<>> THEN Ack(s)
    ELSE CASE line[1].k = "C" /\ line[1].size > 0 ->
                Ack([s EXCEPT !.cur = <<>>, !.remaining = line[1].size, !.phase = "data"])
           [] line[1].k = "C" /\ line[1].size = 0 ->
                Ack([s EXCEPT !.files = Append(@, <<>>), !.remaining = 0])
           [] line[1].k = "D" -> Ack([s EXCEPT !.dirs = Append(@, line[1])])
           [] line[1].k = "E" /\ s.dirs # <<>> -> Ack([s EXCEPT !.dirs = Front(@)])
           [] OTHER -> Ack(s)

\* A byte of a file.  Past the cap it is counted but not kept.
ReadData(s, b) ==
    LET keep == s.total < MaxBytes
        cur == IF keep THEN Append(s.cur, b) ELSE s.cur
        t == [s EXCEPT !.cur = cur, !.remaining = @ - 1, !.total = IF keep THEN @ + 1 ELSE @]
    IN  IF t.remaining > 0 THEN t
        ELSE Ack([t EXCEPT !.files = Append(@, cur), !.cur = <<>>, !.phase = "control"])

\* Nothing here raises on what a sender sends, so feed()'s error phase is left
\* out.
_feed(s, b) ==
    CASE s.phase = "data" -> ReadData(s, b)
      [] s.phase = "control" /\ b = NUL -> s
      [] s.phase = "control" /\ b = LF -> _handle_control([s EXCEPT !.buf = <<>>], s.buf)
      [] OTHER -> [s EXCEPT !.buf = Append(@, b)]

\* ServerProtocol.dataReceived: an ESC is not passed on, the byte after it is.
\* With some bytes it makes up a function key, which keystrokeReceived cannot add
\* to its input: the exception ends the connection, a case of connectionLost.
Key(state, b) ==
    IF state.escaped THEN [escaped |-> FALSE, sink |-> _feed(state.sink, b)]
    ELSE IF b.k = "esc" THEN [state EXCEPT !.escaped = TRUE]
    ELSE [state EXCEPT !.sink = _feed(state.sink, b)]

\* The keys of a packet, one after another.
Keys(packet) ==
    LET after[n \in 0 .. Len(packet)] ==
            IF n = 0 THEN [escaped |-> escaped, sink |-> [sink EXCEPT !.out = 0]]
            ELSE Key(after[n - 1], packet[n])
    IN  after[Len(packet)]

-----------------------------------------------------------------------------
(* The session *)

processEnded == channel' = IF channel = "open" THEN "closing" ELSE channel

\* Mutant: EOF finalises again what the limit finalised.
_finalize_scp_Again ==
    /\ finalized' = TRUE
    /\ stored' = stored \o sink.files
    /\ processEnded

_finalize_scp ==
    /\ finalized' = TRUE
    /\ IF finalized THEN UNCHANGED <<stored, channel>>
       ELSE stored' = stored \o sink.files /\ processEnded

End == IF execcmd = "sink" THEN _finalize_scp
       ELSE processEnded /\ UNCHANGED <<stored, finalized>>

\* A packet of the client.  Past the limit it is dropped, and taken for the
\* end of the input.
dataReceived(n) ==
    /\ channel # "closed" /\ n \in 1 .. Len(wire)
    /\ wire' = SubSeq(wire, n + 1, Len(wire))
    /\ received' = received + n
    /\ IF DataLimit > 0 /\ received' > DataLimit
       THEN End /\ UNCHANGED <<escaped, sink, acks>>
       ELSE /\ LET r == Keys(SubSeq(wire, 1, n))
               IN  /\ sink' = r.sink /\ escaped' = r.escaped
                   /\ acks' = acks + r.sink.out
            /\ UNCHANGED <<stored, finalized, channel>>
    /\ UNCHANGED <<execcmd, upload, plan, eof, timer, asked>>

eofReceived ==
    /\ channel # "closed" /\ wire = <<>>
    /\ eof = "sent" /\ eof' = "read"
    /\ End
    /\ UNCHANGED <<execcmd, upload, plan, wire, acks, received, escaped, sink, timer, asked>>

\* _handle_exec_response, _handle_exec_error: nothing once the terminal is gone.
_handle_exec_response ==
    /\ asked /\ asked' = FALSE
    /\ IF channel = "closed" THEN UNCHANGED channel ELSE processEnded
    /\ UNCHANGED <<execcmd, upload, plan, eof, wire, acks, received, escaped, sink, stored, finalized, timer>>

timeoutConnection ==
    /\ timer /\ timer' = FALSE
    /\ processEnded
    /\ UNCHANGED <<execcmd, upload, plan, eof, wire, acks, received, escaped, sink, stored, finalized, asked>>

\* What was captured and not finalised is dropped with the sink.
connectionLost ==
    /\ channel # "closed" /\ channel' = "closed"
    /\ timer' = FALSE
    /\ UNCHANGED <<execcmd, upload, plan, eof, wire, acks, received, escaped, sink, stored, finalized, asked>>

\* connectionMade: the first answer of the sink, the refusal, or the question.
ExecInit ==
    /\ execcmd \in {"sink", "source", "model"}
    /\ upload \in IF execcmd = "sink" THEN Uploads ELSE {<<>>}
    /\ plan = [i |-> 1, part |-> "line"]
    /\ eof = "no" /\ wire = <<>> /\ received = 0 /\ escaped = FALSE
    /\ acks = IF execcmd = "sink" THEN 1 ELSE 0
    /\ sink = NewSink /\ stored = <<>> /\ finalized = FALSE
    /\ timer = TRUE
    /\ asked = (execcmd = "model")
    /\ channel = IF execcmd = "source" THEN "closing" ELSE "open"

ExecNext ==
    \/ SenderSends \/ SenderEnds
    \/ \E n \in 1 .. Len(wire) : dataReceived(n)
    \/ eofReceived \/ _handle_exec_response \/ timeoutConnection \/ connectionLost

-----------------------------------------------------------------------------
\* The sink is where its buffers say, and within its cap.
ScpTypeOK ==
    /\ execcmd \in {"sink", "source", "model"} /\ channel \in {"open", "closing", "closed"}
    /\ sink.phase = "control" => sink.cur = <<>> /\ sink.remaining = 0
    /\ sink.phase = "data" => sink.remaining > 0 /\ sink.buf = <<>>
    /\ sink.total <= MaxBytes
    /\ acks \in 0 .. 1
    /\ channel = "closed" => ~timer

\* What the sink has to keep of an upload: each file whole, until the cap.
Wanted(u) == Amount(u)[Len(u)].files

\* An upload of which the terminal swallows a byte.
Swallowed == \E i \in DOMAIN upload : upload[i].k = "C" /\ upload[i].esc # {}
HasEmpty == \E i \in DOMAIN upload : upload[i].k = "C" /\ upload[i].size = 0

\* "Ack the file": a sender that keeps to the protocol is never left waiting for
\* an answer that nothing on its way will bring, unless a file of its upload is
\* empty, which is answered once instead of twice, or holds an ESC.
SenderAnswered ==
    execcmd = "sink" /\ channel = "open" /\ eof = "no" /\ wire = <<>> /\ acks = 0 =>
        Swallowed \/ HasEmpty

\* However the bytes are cut into packets and wherever the upload ends, what is
\* persisted is what was sent, from its start, each file once and whole up to
\* the cap; after an upload that ran to its end it is all of it, and the
\* directories that were entered have been left.
UploadsWhole ==
    ~Swallowed =>
        /\ IsPrefix(stored, Wanted(upload))
        /\ finalized /\ AllSent /\ wire = <<>> /\ (DataLimit = 0 \/ received <= DataLimit) =>
              stored = Wanted(upload) /\ sink.dirs = <<>>

\* The sink answers its sender and keeps what was sent, within its cap: the
\* parts above.
ScpInv == ScpTypeOK /\ SenderAnswered /\ UploadsWhole

\* "setTimeout(60)": whatever the sender does, and if the model never answers,
\* the command ends.
ExecEnds == <>(channel # "open")
=============================================================================
