------------------------------- MODULE FileProofs ------------------------------
(***************************************************************************)
(* Theorems about the files of a session.  Those transferred to it         *)
(* (Transfers): for files of every length, every set of the server's ports *)
(* and every range of block numbers.  Those of the virtual file system     *)
(* (TreeSessions): for every heap of entries, every pickle, every operand  *)
(* and every archive.                                                      *)
(***************************************************************************)
EXTENDS TreeSessions, Transfers, FiniteSetTheorems, WellFoundedInduction, TLAPS

\* A block on its way was sent by its transfer, and carries its place in the
\* file modulo the range of the numbers.
BlocksSent ==
    \A m \in toClient :
        /\ m.tid \in Tids
        /\ m.op = "DATA" => /\ m.block \in 1 .. pos[m.tid]
                            /\ m.num = m.block % Wrap
                            /\ m.short <=> m.block = length

\* While the client waits, it has written as many blocks as it counted, and no
\* transfer of the server is more than one block ahead of it: a transfer goes on
\* only when a block is acknowledged, and only what is written is acknowledged.
OneAhead ==
    result = "wait" => /\ current_block = Len(artifact)
                       /\ \A t \in Tids : pos[t] <= current_block + 1

\* The inductive invariant.
TransferIInv ==
    /\ length \in Nat /\ pos \in [Tids -> 0 .. length]
    /\ length = 0 => result = "none" /\ toServer = {} /\ toClient = {}
    /\ artifact \in Seq(Nat)
    /\ port = "open" => retry_count < TFTP_MAX_RETRIES
    /\ BlocksSent
    /\ OneAhead
    /\ TransferInv

\* Numbers start again at 0 only after the last one.
LEMMA Numbers ==
    ASSUME NEW i \in Nat
    PROVE  /\ i % Wrap \in 0 .. Wrap - 1
           /\ i < Wrap => i % Wrap = i
           /\ i = Wrap => i % Wrap = 0
  BY TFTPAssumption DEF TFTPAssumption

LEMMA TransferInitInv == Init => TransferIInv
  <1> SUFFICES ASSUME Init PROVE TransferIInv
    OBVIOUS
  <1> USE TFTPAssumption DEF TFTPAssumption
  <1>1. CASE TransferInit
    BY <1>1 DEF TransferInit, TransferIInv, BlocksSent, OneAhead, TransferInv, TransferTypeOK,
                PrefixWritten, CompleteWhenOk, AckedIsWritten, RRQ, NoTid
  <1>2. CASE NoTransfer
    BY <1>2 DEF NoTransfer, TransferIInv, BlocksSent, OneAhead, TransferInv, TransferTypeOK,
                PrefixWritten, CompleteWhenOk, AckedIsWritten, RRQ, NoTid
  <1> QED
    BY <1>1, <1>2 DEF Init

\* What the number of a received block says while the client waits: the block
\* that is expected, or one that is written.
LEMMA ExpectedBlock ==
    ASSUME TransferIInv, result = "wait", NEW m \in toClient, m.op = "DATA"
    PROVE  /\ m.block \in 1 .. current_block + 1
           /\ m.block \in 1 .. length
           /\ m.num = current_block + 1 => m.block = current_block + 1
           /\ m.num = current_block => current_block \in 1 .. Len(artifact)
  <1>1. /\ m.tid \in Tids /\ m.block \in 1 .. pos[m.tid] /\ m.num = m.block % Wrap
        /\ pos[m.tid] \in 0 .. length
        /\ pos[m.tid] <= current_block + 1
        /\ current_block \in 0 .. Wrap - 1
        /\ current_block = Len(artifact)
    BY DEF TransferIInv, BlocksSent, OneAhead, TransferInv, TransferTypeOK
  <1>2. /\ length \in Nat /\ Wrap \in Nat /\ Wrap > 1
    BY TFTPAssumption DEF TransferIInv, TFTPAssumption
  <1>3. m.block \in 1 .. current_block + 1 /\ m.block \in 1 .. length
    BY <1>1, <1>2
  <1>4. /\ m.block < Wrap => m.num = m.block
        /\ m.block = Wrap => m.num = 0
    <2>1. m.block \in Nat
      BY <1>3
    <2>2. m.block < Wrap => m.block % Wrap = m.block
      BY <2>1, Numbers
    <2>3. m.block = Wrap => m.block % Wrap = 0
      BY <2>1, Numbers
    <2> QED
      BY <1>1, <2>2, <2>3
  <1> QED
    BY <1>1, <1>2, <1>3, <1>4

\* A datagram that is received leaves the others as they were.
LEMMA ReceivedRest ==
    ASSUME TransferIInv, NEW m \in toClient, NEW again \in BOOLEAN, datagramReceived(m, again)
    PROVE  /\ length' \in Nat /\ length' # 0 /\ pos' \in [Tids -> 0 .. length']
           /\ BlocksSent'
           /\ server_tid' \in Tids \cup {NoTid}
           /\ retry_count' \in 0 .. TFTP_MAX_RETRIES
           /\ retry_count' < TFTP_MAX_RETRIES
           /\ port # "closed"
  <1> USE TFTPAssumption DEF TFTPAssumption
  <1>1. toClient' \subseteq toClient
    BY DEF datagramReceived
  <1>2. BlocksSent'
    BY <1>1 DEF TransferIInv, BlocksSent, datagramReceived
  <1>3. m.tid \in Tids
    BY DEF TransferIInv, BlocksSent
  <1> QED
    BY <1>2, <1>3 DEF TransferIInv, TransferInv, TransferTypeOK, datagramReceived

\* The block that is expected.
LEMMA NextBlockInv ==
    ASSUME TransferIInv, NEW m \in toClient, NEW again \in BOOLEAN, datagramReceived(m, again),
           m.op = "DATA", NextBlock(m)
    PROVE  TransferIInv'
  <1> USE TFTPAssumption DEF TFTPAssumption
  <1>1. /\ length' = length /\ pos' = pos
        /\ m.num \in 0 .. Wrap - 1
        /\ m.short <=> m.block = length
    <2>1. m.tid \in Tids /\ m.block \in 1 .. pos[m.tid] /\ pos[m.tid] \in 0 .. length /\ length \in Nat
      BY DEF TransferIInv, BlocksSent
    <2>2. m.block \in Nat
      BY <2>1
    <2> QED
      BY <2>2, Numbers DEF TransferIInv, BlocksSent, datagramReceived
  <1>2. CASE AfterEnd(m)
    <2>1. TransferTypeOK'
      BY <1>1, <1>2, ReceivedRest DEF AfterEnd, TransferIInv, TransferInv, TransferTypeOK
    <2>2. PrefixWritten' /\ CompleteWhenOk' /\ AckedIsWritten' /\ OneAhead'
      BY <1>1, <1>2 DEF AfterEnd, TransferIInv, TransferInv, PrefixWritten, CompleteWhenOk,
                        AckedIsWritten, OneAhead
    <2> QED
      BY <1>2, <2>1, <2>2, ReceivedRest DEF AfterEnd, TransferIInv, TransferInv
  <1>3. CASE result = "wait"
    <2>1. /\ m.num = current_block + 1 /\ m.block = current_block + 1
          /\ current_block = Len(artifact) /\ artifact \in Seq(Nat)
          /\ current_block \in 0 .. Wrap - 1
          /\ \A t \in Tids : pos[t] \in Nat /\ pos[t] <= current_block + 1
      BY <1>3, ExpectedBlock
         DEF NextBlock, TransferIInv, OneAhead, TransferInv, TransferTypeOK
    <2>2. /\ current_block' = current_block + 1
          /\ artifact' = Append(artifact, m.block)
          /\ toServer' = toServer \cup {ACK(server_tid', current_block + 1)}
          /\ IF m.short THEN result' = "ok" /\ port' = "closing"
                        ELSE result' = "wait" /\ port' = port
      BY <1>3, <2>1 DEF NextBlock, AfterEnd, Fire, sendACK
    <2>3. /\ artifact' \in Seq(Nat) /\ Len(artifact') = Len(artifact) + 1
          /\ \A i \in 1 .. Len(artifact) : artifact'[i] = artifact[i]
          /\ artifact'[Len(artifact) + 1] = Len(artifact) + 1
      BY <2>1, <2>2
    <2>4. PrefixWritten'
      <3>1. \A i \in 1 .. Len(artifact) : artifact'[i] = i
        BY <2>3 DEF PrefixWritten, TransferIInv, TransferInv
      <3>2. \A i \in 1 .. Len(artifact') : i \in 1 .. Len(artifact) \/ i = Len(artifact) + 1
        BY <2>1, <2>3
      <3> QED
        BY <2>3, <3>1, <3>2 DEF PrefixWritten
    <2>5. CompleteWhenOk'
      BY <1>1, <2>1, <2>2, <2>3 DEF CompleteWhenOk
    <2>6. AckedIsWritten'
      BY <1>3, <2>1, <2>2, <2>3 DEF AckedIsWritten, ACK, TransferIInv, TransferInv
    <2>7. OneAhead'
      BY <1>1, <2>1, <2>2, <2>3 DEF OneAhead
    <2>8. TransferTypeOK'
      BY <1>1, <1>3, <2>1, <2>2, ReceivedRest
         DEF TransferTypeOK, TransferIInv, TransferInv
    <2> QED
      BY <2>3, <2>4, <2>5, <2>6, <2>7, <2>8, ReceivedRest DEF TransferIInv, TransferInv
  <1> QED
    BY <1>2, <1>3 DEF NextBlock

\* Any other datagram writes nothing.
LEMMA OtherDatagramInv ==
    ASSUME TransferIInv, NEW m \in toClient, NEW again \in BOOLEAN, datagramReceived(m, again),
           \/ m.op = "DATA" /\ (RepeatedBlock(m) \/ OtherBlock(m))
           \/ handleERROR(m) \/ UnexpectedOpcode(m)
    PROVE  TransferIInv'
  <1> USE TFTPAssumption DEF TFTPAssumption
  <1>1. /\ length' = length /\ pos' = pos /\ artifact' = artifact /\ current_block' = current_block
        /\ \/ result' = result /\ port' = port
           \/ /\ port' = "closing"
              /\ result' = IF result = "wait" THEN "error" ELSE result
    BY DEF datagramReceived, RepeatedBlock, OtherBlock, handleERROR, UnexpectedOpcode, Fire
  <1>2. TransferTypeOK'
    BY <1>1, ReceivedRest DEF TransferIInv, TransferInv, TransferTypeOK
  <1>3. PrefixWritten' /\ CompleteWhenOk' /\ OneAhead'
    BY <1>1 DEF TransferIInv, TransferInv, PrefixWritten, CompleteWhenOk, OneAhead
  <1>4. AckedIsWritten'
    <2>1. CASE m.op = "DATA" /\ RepeatedBlock(m)
      <3>1. result = "wait" => m.num \in 1 .. Len(artifact)
        BY <2>1, ExpectedBlock DEF RepeatedBlock
      <3> QED
        BY <1>1, <2>1, <3>1
           DEF RepeatedBlock, sendACK, ACK, AckedIsWritten, TransferIInv, TransferInv
    <2>2. CASE toServer' = toServer
      BY <1>1, <2>2 DEF AckedIsWritten, TransferIInv, TransferInv
    <2> QED
      BY <2>1, <2>2 DEF OtherBlock, handleERROR, UnexpectedOpcode
  <1> QED
    BY <1>1, <1>2, <1>3, <1>4, ReceivedRest DEF TransferIInv, TransferInv

\* The timers of the client.
LEMMA TimerInv ==
    ASSUME TransferIInv, handleTimeout \/ stopProtocol
    PROVE  TransferIInv'
  <1> USE TFTPAssumption DEF TFTPAssumption
  <1>1. /\ length' = length /\ pos' = pos /\ artifact' = artifact /\ current_block' = current_block
        /\ toClient' = toClient
    BY DEF handleTimeout, stopProtocol
  <1>2. BlocksSent'
    BY <1>1 DEF TransferIInv, BlocksSent
  <1>3. CASE handleTimeout
    <2>1. /\ port = "open" /\ result = "wait"
          /\ current_block = Len(artifact)
          /\ retry_count \in Nat /\ retry_count < TFTP_MAX_RETRIES
          /\ retry_count' = retry_count + 1 /\ server_tid' = server_tid
      BY <1>3 DEF handleTimeout, TransferIInv, TransferInv, TransferTypeOK, OneAhead
    <2>2. CASE retry_count' >= TFTP_MAX_RETRIES
      <3>1. port' = "closing" /\ result' = "error" /\ toServer' = toServer
        BY <1>3, <2>1, <2>2 DEF handleTimeout, Fire
      <3> QED
        BY <1>1, <1>2, <2>1, <3>1
           DEF TransferIInv, TransferInv, TransferTypeOK, PrefixWritten, CompleteWhenOk,
               AckedIsWritten, OneAhead
    <2>3. CASE ~(retry_count' >= TFTP_MAX_RETRIES)
      <3>1. /\ port' = port /\ result' = result
            /\ \/ current_block = 0 /\ toServer' = toServer \cup {RRQ}
               \/ current_block # 0 /\ toServer' = toServer \cup {ACK(server_tid', current_block)}
        BY <1>3, <2>3 DEF handleTimeout, sendRRQ, sendACK
      <3>2. AckedIsWritten'
        BY <1>1, <2>1, <3>1 DEF AckedIsWritten, ACK, RRQ, TransferIInv, TransferInv
      <3> QED
        BY <1>1, <1>2, <2>1, <2>3, <3>1, <3>2
           DEF TransferIInv, TransferInv, TransferTypeOK, PrefixWritten, CompleteWhenOk, OneAhead
    <2> QED
      BY <2>2, <2>3
  <1>4. CASE stopProtocol
    BY <1>1, <1>2, <1>4
       DEF stopProtocol, TransferIInv, TransferInv, TransferTypeOK, PrefixWritten, CompleteWhenOk,
           AckedIsWritten, OneAhead
  <1> QED
    BY <1>3, <1>4

\* A block that a transfer sends, for the first time or again.
LEMMA BlockSent ==
    ASSUME TransferIInv, NEW t \in Tids, NEW i \in 1 .. length, length' = length,
           pos' \in [Tids -> 0 .. length], \A u \in Tids : pos'[u] >= pos[u], i <= pos'[t],
           toClient' = toClient \cup {DATA(t, i)}
    PROVE  BlocksSent'
  <1>1. /\ DATA(t, i).tid = t /\ DATA(t, i).op = "DATA"
        /\ DATA(t, i).block = i /\ DATA(t, i).num = i % Wrap
    BY DEF DATA
  <1>2. DATA(t, i).short <=> i = length
    BY DEF DATA
  <1>3. ASSUME NEW m \in toClient, m.op = "DATA", m.tid \in Tids, m.block \in 1 .. pos[m.tid]
        PROVE  m.block \in 1 .. pos'[m.tid]
    BY <1>3 DEF TransferIInv
  <1>4. i \in 1 .. pos'[t]
    OBVIOUS
  <1>5. ASSUME NEW m \in toClient'
        PROVE  /\ m.tid \in Tids
               /\ m.op = "DATA" => /\ m.block \in 1 .. pos'[m.tid]
                                   /\ m.num = m.block % Wrap
                                   /\ m.short <=> m.block = length
    <2>1. CASE m \in toClient
      BY <1>3, <2>1 DEF TransferIInv, BlocksSent
    <2>2. CASE m = DATA(t, i)
      BY <1>1, <1>2, <1>4, <2>2
    <2> QED
      BY <2>1, <2>2
  <1> QED
    BY <1>5 DEF BlocksSent

\* The server and the network change nothing of the client.
LEMMA NetworkInv ==
    ASSUME TransferIInv, (\E t \in Tids : Hear(t) \/ Advance(t) \/ Repeat(t)) \/ Lose
    PROVE  TransferIInv'
  <1> USE TFTPAssumption DEF TFTPAssumption
  <1>1. /\ length' = length /\ artifact' = artifact /\ current_block' = current_block
        /\ result' = result /\ port' = port /\ server_tid' = server_tid
        /\ retry_count' = retry_count /\ timeout_call' = timeout_call
        /\ toServer' \subseteq toServer
    BY DEF Hear, Advance, Repeat, Lose, client
  <1>2. TransferInv'
    BY <1>1 DEF TransferIInv, TransferInv, TransferTypeOK, PrefixWritten, CompleteWhenOk,
                AckedIsWritten
  <1>3. /\ pos' \in [Tids -> 0 .. length'] /\ BlocksSent' /\ OneAhead'
    <2>1. ASSUME NEW t \in Tids, Hear(t) PROVE pos' \in [Tids -> 0 .. length'] /\ BlocksSent' /\ OneAhead'
      <3>1. CASE pos' = [pos EXCEPT ![t] = 1] /\ toClient' = toClient \cup {DATA(t, 1)}
        <4>1. RRQ \in toServer /\ pos[t] = 0
          BY <2>1 DEF Hear
        <4>2. length >= 1
          BY <4>1 DEF TransferIInv
        <4>3. /\ pos' \in [Tids -> 0 .. length]
              /\ pos'[t] = 1
              /\ \A u \in Tids : pos'[u] >= pos[u]
          BY <3>1, <4>1, <4>2 DEF TransferIInv
        <4>4. BlocksSent'
          BY <1>1, <3>1, <4>2, <4>3, BlockSent DEF TransferIInv
        <4> QED
          BY <1>1, <3>1, <4>1, <4>3, <4>4 DEF TransferIInv, TransferInv, TransferTypeOK, OneAhead
      <3>2. CASE /\ pos' = pos
                 /\ \E op \in {"ERROR", "other"} : toClient' = toClient \cup {[op |-> op, tid |-> t]}
        BY <1>1, <3>2 DEF TransferIInv, BlocksSent, OneAhead
      <3> QED
        BY <2>1, <3>1, <3>2 DEF Hear
    <2>2. ASSUME NEW t \in Tids, Advance(t) PROVE pos' \in [Tids -> 0 .. length'] /\ BlocksSent' /\ OneAhead'
      <3>1. /\ pos[t] \in 1 .. length - 1 /\ ACK(t, pos[t] % Wrap) \in toServer
            /\ pos' = [pos EXCEPT ![t] = @ + 1]
            /\ toClient' = toClient \cup {DATA(t, pos[t] + 1)}
        BY <2>2 DEF Advance
      <3>2. result = "wait" => pos[t] + 1 <= current_block + 1
        <4> SUFFICES ASSUME result = "wait" PROVE pos[t] <= current_block
          BY <3>1 DEF TransferIInv, TransferInv, TransferTypeOK
        <4>1. /\ current_block = Len(artifact) /\ current_block \in 0 .. Wrap - 1
              /\ pos[t] <= current_block + 1 /\ length \in Nat
          BY DEF TransferIInv, TransferInv, TransferTypeOK, OneAhead
        <4>2. pos[t] % Wrap \in 1 .. current_block
          BY <3>1, <4>1 DEF TransferIInv, TransferInv, AckedIsWritten, ACK
        <4>3. /\ pos[t] < Wrap => pos[t] % Wrap = pos[t]
              /\ pos[t] = Wrap => pos[t] % Wrap = 0
          <5>1. pos[t] \in Nat
            BY <3>1
          <5>2. pos[t] < Wrap => pos[t] % Wrap = pos[t]
            BY <5>1, Numbers
          <5>3. pos[t] = Wrap => pos[t] % Wrap = 0
            BY <5>1, Numbers
          <5> QED
            BY <5>2, <5>3
        <4> QED
          BY <3>1, <4>1, <4>2, <4>3
      <3>3. /\ pos' \in [Tids -> 0 .. length]
            /\ pos'[t] = pos[t] + 1
            /\ \A u \in Tids : pos'[u] >= pos[u]
            /\ pos[t] + 1 \in 1 .. length
        BY <3>1 DEF TransferIInv
      <3>4. BlocksSent'
        BY <1>1, <3>1, <3>3, BlockSent
      <3> QED
        BY <1>1, <3>1, <3>2, <3>3, <3>4 DEF TransferIInv, OneAhead
    <2>3. ASSUME NEW t \in Tids, Repeat(t) PROVE pos' \in [Tids -> 0 .. length'] /\ BlocksSent' /\ OneAhead'
      <3>1. pos' = pos /\ pos[t] \in 1 .. length /\ toClient' = toClient \cup {DATA(t, pos[t])}
        BY <2>3 DEF Repeat, TransferIInv
      <3>2. BlocksSent'
        BY <1>1, <3>1, BlockSent DEF TransferIInv
      <3> QED
        BY <1>1, <3>1, <3>2 DEF TransferIInv, OneAhead
    <2>4. CASE Lose
      BY <1>1, <2>4 DEF Lose, TransferIInv, BlocksSent, OneAhead
    <2> QED
      BY <2>1, <2>2, <2>3, <2>4
  <1>4. length # 0 \/ (toServer' = {} /\ toClient' = {})
    <2> SUFFICES ASSUME length = 0 PROVE toServer' = {} /\ toClient' = {}
      OBVIOUS
    <2>1. toServer = {} /\ toClient = {} /\ \A t \in Tids : pos[t] = 0
      BY DEF TransferIInv
    <2> QED
      BY <2>1 DEF Hear, Advance, Repeat, Lose
  <1> QED
    BY <1>1, <1>2, <1>3, <1>4 DEF TransferIInv

LEMMA TransferNextInv == TransferIInv /\ [Next]_<<vars, execVars>> => TransferIInv'
  <1> SUFFICES ASSUME TransferIInv, [Next]_<<vars, execVars>> PROVE TransferIInv'
    OBVIOUS
  <1>1. ASSUME NEW m \in toClient, NEW again \in BOOLEAN, datagramReceived(m, again)
        PROVE  TransferIInv'
    <2>1. handleDATA(m) \/ handleERROR(m) \/ UnexpectedOpcode(m)
      BY <1>1 DEF datagramReceived
    <2> QED
      BY <1>1, <2>1, NextBlockInv, OtherDatagramInv DEF handleDATA
  <1>2. CASE UNCHANGED vars
    BY <1>2 DEF vars, client, TransferIInv, BlocksSent, OneAhead, TransferInv, TransferTypeOK,
                PrefixWritten, CompleteWhenOk, AckedIsWritten
  <1> QED
    BY <1>1, <1>2, TimerInv, NetworkInv DEF Next, TransferNext

\* However datagrams are lost, repeated and reordered, and however many
\* transfers the server runs at once (datagramReceived compares no address), the
\* client writes the file from its start, each block once, acknowledges only
\* what it has written, reports "ok" only with the whole file, and retries at
\* most TFTP_MAX_RETRIES times.
THEOREM TransferCorrect == Spec => []TransferInv
  <1>1. TransferIInv => TransferInv
    BY DEF TransferIInv
  <1> QED
    BY <1>1, TransferInitInv, TransferNextInv, PTL DEF Spec

-----------------------------------------------------------------------------
(* An upload by scp: what the bytes on their way mean to the sink *)

Bytes == Record \cup {NUL, LF} \cup [k : {"byte", "esc"}, at : Nat \X Nat]

SinkType(s) ==
    /\ s \in [phase : {"control", "data"}, buf : Seq(Bytes), remaining : Nat, cur : Seq(Bytes),
              dirs : Seq(Bytes), files : Seq(Seq(Bytes)), total : 0 .. MaxBytes, out : Nat]
    /\ s.phase = "control" => s.cur = <<>> /\ s.remaining = 0
    /\ s.phase = "data" => s.remaining > 0 /\ s.buf = <<>>

Over == DataLimit > 0 /\ received > DataLimit

\* The sink waits for a control line.
Idle(s) == s.phase = "control" /\ s.buf = <<>>

\* The sink has kept what n records and b bytes of the next amount to.
Tracks(s, n, b) ==
    ~Swallowed =>
        LET a == Amount(upload)[n]
        IN  /\ s.files = a.files /\ Len(s.dirs) = a.depth
            /\ s.total = Capped(a.bytes + b)
            /\ s.cur = Start(n + 1, Capped(a.bytes + b) - Capped(a.bytes))

\* What follows b bytes of the body of a record.
Rest(i, b) ==
    [x \in 1 .. upload[i].size - b + 1 |->
        IF x = upload[i].size - b + 1 THEN NUL ELSE Byte(i, b + x, b + x \in upload[i].esc)]

\* The sink has answered all it was sent, but for a NUL it will ignore.
Answered(place, a, w, e, s) ==
    /\ a = 1 /\ ~e
    /\ IF place.part = "line" THEN w \in {<<>>, <<NUL>>} /\ Idle(s) /\ Tracks(s, place.i - 1, 0)
       ELSE /\ w = <<>>
            /\ IF upload[place.i].size = 0 THEN Idle(s) /\ Tracks(s, place.i, 0)
               ELSE /\ s.phase = "data" /\ s.remaining = upload[place.i].size /\ s.cur = <<>>
                    /\ Tracks(s, place.i - 1, 0)

\* A control line is on its way.
LineSent(place, a, w, e, s) ==
    /\ a = 0 /\ ~e /\ s.phase = "control"
    /\ \E i \in DOMAIN upload :
          /\ place = After([i |-> i, part |-> "line"]) /\ Tracks(s, i - 1, 0)
          /\ \/ s.buf = <<>> /\ w \in {<<upload[i], LF>>, <<NUL, upload[i], LF>>}
             \/ s.buf = <<upload[i]>> /\ w = <<LF>>

\* A body is on its way.  An ESC in it leaves the sink behind.
BodySent(place, a, w, e, s) ==
    /\ a = 0 /\ place.part = "line"
    /\ \E i \in DOMAIN upload : place.i = i + 1 /\ upload[i].k = "C" /\ \E b \in 0 .. upload[i].size :
          /\ w = Rest(i, b)
          /\ IF upload[i].size = 0 THEN ~e /\ Idle(s) /\ Tracks(s, i, 0)
             ELSE /\ s.phase = "data"
                  /\ s.remaining >= upload[i].size - b
                  /\ e => Swallowed /\ s.remaining > upload[i].size - b
                  /\ ~Swallowed => s.remaining = upload[i].size - b
                  /\ Tracks(s, i - 1, b)

\* The sender waits for an answer that does not come.
Stuck(place, a, w, e, s) ==
    /\ a = 0 /\ w = <<>> /\ ~e /\ place.part = "line"
    /\ \/ Swallowed
       \/ HasEmpty /\ Idle(s) /\ Tracks(s, place.i - 1, 0)

\* With the burst at the place to be sent next, a answers on their way back and
\* the bytes w on their way, the sink is s, and the terminal has seen an ESC or
\* not.
Agree(place, a, w, e, s) ==
    \/ Answered(place, a, w, e, s) \/ LineSent(place, a, w, e, s)
    \/ BodySent(place, a, w, e, s) \/ Stuck(place, a, w, e, s)

Placed(place) ==
    /\ place \in [i : 1 .. Len(upload) + 1, part : {"line", "body"}]
    /\ place.part = "body" => place.i \in DOMAIN upload /\ upload[place.i].k = "C"

\* The inductive invariant.
ScpIInv ==
    /\ execcmd \in {"sink", "source", "model"} /\ channel \in {"open", "closing", "closed"}
    /\ upload \in Uploads \cup {<<>>} /\ received \in Nat /\ escaped \in BOOLEAN /\ acks \in 0 .. 1
    /\ Placed(plan) /\ wire \in Seq(Bytes) /\ SinkType(sink)
    /\ channel = "closed" => ~timer
    /\ IF finalized THEN channel # "open" /\ execcmd = "sink" ELSE stored = <<>>
    /\ execcmd = "sink" => IF Over THEN finalized ELSE Agree(plan, acks, wire, escaped, sink)
    /\ execcmd # "sink" => upload = <<>> /\ acks = 0 /\ wire = <<>>
    /\ ~Swallowed => \E n \in 0 .. Len(upload) : stored = Amount(upload)[n].files
    /\ finalized /\ ~Over => eof = "read" /\ wire = <<>> /\ stored = sink.files

\* Counting up from 0 reaches every number.
LEMMA CountUp ==
    ASSUME NEW k \in Nat, NEW T, 0 \in T, \A n \in 0 .. k - 1 : n \in T => n + 1 \in T
    PROVE  \A n \in 0 .. k : n \in T
  <1> DEFINE Bad == {n \in 0 .. k : n \notin T}
  <1> SUFFICES ASSUME Bad # {} PROVE FALSE
    OBVIOUS
  <1>1. PICK R : /\ IsWellFoundedOn(R, Nat)
                 /\ \A m, n \in Nat : m < n => <<m, n>> \in R
    BY NatLessThanWellFounded DEF OpToRel
  <1>2. \E n \in Bad : \A m \in Bad : ~(<<m, n>> \in R)
    <2>1. IsWellFoundedOn(R, Nat) /\ Bad \subseteq Nat
      BY <1>1
    <2> HIDE <1>1 DEF Bad
    <2> QED
      BY <2>1, WFMin
  <1>3. PICK n \in Bad : \A m \in Bad : ~(<<m, n>> \in R)
    BY <1>2
  <1>4. n # 0 /\ n - 1 \in 0 .. k - 1 /\ n - 1 \in 0 .. k /\ n - 1 < n
    OBVIOUS
  <1>5. n - 1 \notin T
    BY <1>4
  <1>6. n - 1 \in Bad /\ <<n - 1, n>> \in R
    BY <1>1, <1>4, <1>5
  <1> QED
    BY <1>3, <1>6

Nothing == [bytes |-> 0, files |-> <<>>, depth |-> 0]

\* What n + 1 records amount to, from what n amount to.
LEMMA AmountRuns ==
    ASSUME NEW u \in Seq(Record)
    PROVE  /\ Amount(u)[0] = Nothing
           /\ \A n \in 1 .. Len(u) : Amount(u)[n] = With(Amount(u)[n - 1], n, u[n])
  <1> DEFINE k == Len(u)
             Rec(n, g) == g = [i \in 0 .. n |-> IF i = 0 THEN Nothing ELSE With(g[i - 1], i, u[i])]
             T == {n \in 0 .. k : \E g : Rec(n, g)}
  <1>1. k \in Nat
    OBVIOUS
  <1>2. \E g : Rec(0, g)
    <2>1. Rec(0, [i \in 0 .. 0 |-> Nothing])
      OBVIOUS
    <2> QED
      BY <2>1
  <1>3. ASSUME NEW n \in 0 .. k - 1, n \in T
        PROVE  n + 1 \in T
    <2>1. PICK g : Rec(n, g)
      BY <1>3
    <2> DEFINE h == [i \in 0 .. n + 1 |-> IF i = n + 1 THEN With(g[n], n + 1, u[n + 1]) ELSE g[i]]
    <2>2. ASSUME NEW i \in 0 .. n + 1
          PROVE  h[i] = IF i = 0 THEN Nothing ELSE With(h[i - 1], i, u[i])
      BY <2>1
    <2>3. Rec(n + 1, h)
      BY <2>2
    <2>4. n + 1 \in 0 .. k
      BY <1>1
    <2> HIDE DEF h
    <2> QED
      BY <2>3, <2>4
  <1>4. \A n \in 0 .. k : n \in T
    <2>1. 0 \in T
      BY <1>1, <1>2
    <2> HIDE DEF T, k
    <2> QED
      BY <1>1, <1>3, <2>1, CountUp
  <1>5. \E g : Rec(k, g)
    BY <1>1, <1>4
  <1>6. PICK g : Rec(k, g) /\ Amount(u) = g
    BY <1>5 DEF Amount, Nothing
  <1> QED
    BY <1>1, <1>6

LEMMA Records ==
    ASSUME NEW r \in Record
    PROVE  /\ r \in Bytes /\ r.k \in {"C", "D", "E", "T"} /\ r # NUL /\ r # LF
           /\ r.k = "C" => r.size \in Nat
  BY DEF Record, Bytes, NUL, LF

LEMMA FileBytes ==
    ASSUME NEW i \in Nat, NEW b \in Nat, NEW esc \in BOOLEAN
    PROVE  /\ Byte(i, b, esc) \in Bytes /\ Byte(i, b, esc).k = IF esc THEN "esc" ELSE "byte"
           /\ Byte(i, b, esc) # NUL /\ Byte(i, b, esc) # LF
  BY DEF Byte, Bytes, NUL, LF

\* What the cap leaves of a file is a part of it.
LEMMA Caps ==
    ASSUME ScpAssumption, NEW n \in Nat, NEW m \in Nat
    PROVE  /\ Capped(n) \in 0 .. MaxBytes /\ Capped(n + m) - Capped(n) \in 0 .. m
           /\ Capped(n + 1) = IF Capped(n) < MaxBytes THEN Capped(n) + 1 ELSE Capped(n)
  BY DEF ScpAssumption, Capped

LEMMA Starts ==
    ASSUME NEW i \in Nat, NEW n \in Nat
    PROVE  /\ Start(i, n) \in Seq(Bytes) /\ Len(Start(i, n)) = n
           /\ \A x \in 1 .. n : Start(i, n)[x] = Byte(i, x, FALSE)
           /\ n = 0 => Start(i, n) = <<>>
  <1>1. \A x \in 1 .. n : Byte(i, x, FALSE) \in Bytes
    <2> TAKE x \in 1 .. n
    <2>1. x \in Nat
      OBVIOUS
    <2> QED
      BY <2>1, FileBytes
  <1>2. PICK f : f = Start(i, n)
    OBVIOUS
  <1>3. f \in [1 .. n -> Bytes] /\ \A x \in 1 .. n : f[x] = Byte(i, x, FALSE)
    BY <1>1, <1>2 DEF Start
  <1>4. f \in Seq(Bytes) /\ Len(f) = n /\ (n = 0 => f = <<>>)
    BY <1>3
  <1> QED
    BY <1>2, <1>3, <1>4

LEMMA WithType ==
    ASSUME ScpAssumption, NEW a \in [bytes : Nat, files : Seq(Seq(Bytes)), depth : Int],
           NEW n \in Nat, NEW r \in Record
    PROVE  /\ With(a, n, r) \in [bytes : Nat, files : Seq(Seq(Bytes)), depth : Int]
           /\ IsPrefix(a.files, With(a, n, r).files)
  <1> DEFINE kept == Start(n, Capped(a.bytes + r.size) - Capped(a.bytes))
  <1>1. CASE r.k = "C"
    <2>1. kept \in Seq(Bytes)
      <3>1. Capped(a.bytes + r.size) - Capped(a.bytes) \in Nat
        <4>1. r.size \in Nat /\ a.bytes \in Nat
          BY <1>1, Records
        <4>2. Capped(a.bytes + r.size) - Capped(a.bytes) \in 0 .. r.size
          BY <4>1, Caps
        <4> QED
          BY <4>1, <4>2
      <3> QED
        BY <3>1, Starts
    <2>2. With(a, n, r) = [a EXCEPT !.bytes = @ + r.size, !.files = Append(@, kept)]
      BY <1>1 DEF With
    <2> HIDE DEF kept
    <2>3. a.files \in Seq(Seq(Bytes)) /\ With(a, n, r).files = Append(a.files, kept)
      BY <2>2
    <2>4. IsPrefix(a.files, Append(a.files, kept))
      <3>1. /\ Len(a.files) <= Len(Append(a.files, kept))
            /\ \A x \in 1 .. Len(a.files) : Append(a.files, kept)[x] = a.files[x]
        BY <2>1, <2>3
      <3> QED
        BY <2>3, <3>1 DEF IsPrefix
    <2>5. With(a, n, r) \in [bytes : Nat, files : Seq(Seq(Bytes)), depth : Int]
      <3>1. r.size \in Nat /\ Append(a.files, kept) \in Seq(Seq(Bytes))
        BY <1>1, <2>1, <2>3, Records
      <3>2. With(a, n, r) = [bytes |-> a.bytes + r.size, files |-> Append(a.files, kept), depth |-> a.depth]
        BY <2>2
      <3> QED
        BY <3>1, <3>2
    <2> QED
      BY <2>3, <2>4, <2>5
  <1>2. CASE r.k # "C"
    <2>1. With(a, n, r) = [a EXCEPT !.depth = CASE r.k = "D" -> @ + 1 [] r.k = "E" -> @ - 1 [] OTHER -> @]
      BY <1>2 DEF With
    <2>2. PICK d : d = CASE r.k = "D" -> a.depth + 1 [] r.k = "E" -> a.depth - 1 [] OTHER -> a.depth
      OBVIOUS
    <2>3. d \in Int
      BY <2>2
    <2>4. With(a, n, r) = [a EXCEPT !.depth = d]
      BY <2>1, <2>2
    <2> QED
      BY <2>3, <2>4 DEF IsPrefix
  <1> QED
    BY <1>1, <1>2

LEMMA AmountType ==
    ASSUME ScpAssumption, NEW u \in Seq(Record)
    PROVE  \A n \in 0 .. Len(u) :
              /\ Amount(u)[n] \in [bytes : Nat, files : Seq(Seq(Bytes)), depth : Int]
              /\ IsPrefix(Amount(u)[n].files, Amount(u)[Len(u)].files)
  <1> DEFINE k == Len(u)
             A == [bytes : Nat, files : Seq(Seq(Bytes)), depth : Int]
             T == {n \in 0 .. k : Amount(u)[n] \in A}
             P == {n \in 0 .. k : IsPrefix(Amount(u)[k - n].files, Amount(u)[k].files)}
  <1>1. k \in Nat
    OBVIOUS
  <1>2. ASSUME NEW n \in 0 .. k - 1, Amount(u)[n] \in A
        PROVE  Amount(u)[n + 1] \in A /\ IsPrefix(Amount(u)[n].files, Amount(u)[n + 1].files)
    <2>1. Amount(u)[n + 1] = With(Amount(u)[n], n + 1, u[n + 1]) /\ u[n + 1] \in Record
      <3>1. n + 1 \in 1 .. Len(u) /\ (n + 1) - 1 = n
        BY <1>1
      <3> QED
        BY <3>1, AmountRuns
    <2>2. n + 1 \in Nat
      BY <1>1
    <2>3. PICK a \in A : a = Amount(u)[n]
      BY <1>2
    <2>4. With(a, n + 1, u[n + 1]) \in A /\ IsPrefix(a.files, With(a, n + 1, u[n + 1]).files)
      BY <2>1, <2>2, WithType
    <2> HIDE DEF A
    <2> QED
      BY <2>1, <2>3, <2>4
  <1>3. \A n \in 0 .. k : Amount(u)[n] \in A
    <2>1. 0 \in T
      <3>1. Nothing \in A
        BY DEF Nothing
      <3>2. Amount(u)[0] = Nothing
        BY AmountRuns
      <3> QED
        BY <1>1, <3>1, <3>2
    <2>2. \A n \in 0 .. k - 1 : n \in T => n + 1 \in T
      <3> TAKE n \in 0 .. k - 1
      <3>1. n + 1 \in 0 .. k
        BY <1>1
      <3> QED
        BY <1>2, <3>1
    <2>3. \A n \in 0 .. k : n \in T
      <3> HIDE DEF T, k
      <3> QED
        BY <1>1, <2>1, <2>2, CountUp
    <2> QED
      BY <2>3
  <1>4. \A n \in 0 .. k : IsPrefix(Amount(u)[n].files, Amount(u)[k].files)
    <2>1. 0 \in P
      <3>1. Amount(u)[k] \in A
        BY <1>1, <1>3
      <3> QED
        BY <1>1, <3>1 DEF IsPrefix
    <2>2. ASSUME NEW n \in 0 .. k - 1, n \in P
          PROVE  n + 1 \in P
      <3> DEFINE m == k - (n + 1)
      <3>1. m \in 0 .. k - 1 /\ m \in 0 .. k /\ m + 1 \in 0 .. k /\ k \in 0 .. k /\ m + 1 = k - n /\ n + 1 \in 0 .. k
        BY <1>1
      <3>2. IsPrefix(Amount(u)[m].files, Amount(u)[m + 1].files)
        BY <1>2, <1>3, <3>1
      <3>3. IsPrefix(Amount(u)[m + 1].files, Amount(u)[k].files)
        BY <2>2, <3>1
      <3>4. \A x \in {m, m + 1, k} : Amount(u)[x].files \in Seq(Seq(Bytes))
        BY <1>3, <3>1
      <3>5. IsPrefix(Amount(u)[m].files, Amount(u)[k].files)
        <4> HIDE DEF m, k
        <4>1. \A f, g, h \in Seq(Seq(Bytes)) : IsPrefix(f, g) /\ IsPrefix(g, h) => IsPrefix(f, h)
          <5> SUFFICES ASSUME NEW f \in Seq(Seq(Bytes)), NEW g \in Seq(Seq(Bytes)), NEW h \in Seq(Seq(Bytes)),
                              IsPrefix(f, g), IsPrefix(g, h)
                       PROVE  IsPrefix(f, h)
            OBVIOUS
          <5>1. Len(f) <= Len(g) /\ Len(g) <= Len(h)
            BY DEF IsPrefix
          <5>2. \A x \in 1 .. Len(f) : f[x] = g[x]
            <6> TAKE x \in 1 .. Len(f)
            <6>1. f[x] = SubSeq(f, 1, Len(f))[x] /\ g[x] = SubSeq(g, 1, Len(f))[x]
              BY <5>1
            <6> QED
              BY <6>1 DEF IsPrefix
          <5>3. \A x \in 1 .. Len(f) : g[x] = h[x]
            <6> TAKE x \in 1 .. Len(f)
            <6>1. g[x] = SubSeq(g, 1, Len(g))[x] /\ h[x] = SubSeq(h, 1, Len(g))[x]
              BY <5>1
            <6> QED
              BY <6>1 DEF IsPrefix
          <5>4. \A x \in 1 .. Len(f) : SubSeq(f, 1, Len(f))[x] = SubSeq(h, 1, Len(f))[x]
            BY <5>1, <5>2, <5>3
          <5> QED
            BY <5>1, <5>4 DEF IsPrefix
        <4> QED
          BY <3>2, <3>3, <3>4, <4>1
      <3> QED
        BY <3>1, <3>5
    <2>3. \A n \in 0 .. k : n \in P
      <3> HIDE DEF P, k
      <3> QED
        BY <1>1, <2>1, <2>2, CountUp
    <2> TAKE n \in 0 .. k
    <2>4. k - n \in 0 .. k /\ k - (k - n) = n
      BY <1>1
    <2> QED
      BY <2>3, <2>4
  <1> QED
    BY <1>3, <1>4

-----------------------------------------------------------------------------
(* An upload by scp: the bytes reach the sink *)

\* The sink t that the byte b of a file makes of the sink s.
ByteMakes(s, b, t) ==
    LET cur == IF s.total < MaxBytes THEN Append(s.cur, b) ELSE s.cur
    IN  /\ SinkType(t) /\ t.dirs = s.dirs /\ t.buf = <<>>
        /\ t.total = IF s.total < MaxBytes THEN s.total + 1 ELSE s.total
        /\ IF s.remaining > 1
           THEN /\ t.phase = "data" /\ t.remaining = s.remaining - 1
                /\ t.cur = cur /\ t.files = s.files /\ t.out = s.out
           ELSE /\ t.phase = "control" /\ t.remaining = 0
                /\ t.cur = <<>> /\ t.files = Append(s.files, cur) /\ t.out = s.out + 1

LEMMA DataRead ==
    ASSUME ScpAssumption, NEW s, SinkType(s), s.phase = "data", NEW b \in Bytes
    PROVE  ByteMakes(s, b, _feed(s, b))
  <1> DEFINE t == _feed(s, b)
             cur == IF s.total < MaxBytes THEN Append(s.cur, b) ELSE s.cur
  <1> HIDE DEF t
  <1>1. /\ s \in [phase : {"control", "data"}, buf : Seq(Bytes), remaining : Nat, cur : Seq(Bytes),
                  dirs : Seq(Bytes), files : Seq(Seq(Bytes)), total : 0 .. MaxBytes, out : Nat]
        /\ s.remaining > 0 /\ s.buf = <<>>
    BY DEF SinkType
  <1>2. PICK total : total = IF s.total < MaxBytes THEN s.total + 1 ELSE s.total
    OBVIOUS
  <1>3. cur \in Seq(Bytes) /\ total \in 0 .. MaxBytes
    BY <1>1, <1>2 DEF ScpAssumption
  <1>4. t = IF s.remaining > 1
            THEN [phase |-> "data", buf |-> <<>>, remaining |-> s.remaining - 1, cur |-> cur,
                  dirs |-> s.dirs, files |-> s.files, total |-> total, out |-> s.out]
            ELSE [phase |-> "control", buf |-> <<>>, remaining |-> 0, cur |-> <<>>,
                  dirs |-> s.dirs, files |-> Append(s.files, cur), total |-> total, out |-> s.out + 1]
    <2>1. t = ReadData(s, b)
      BY DEF _feed, t
    <2>2. PICK u : u = [s EXCEPT !.cur = cur, !.remaining = @ - 1, !.total = total]
      OBVIOUS
    <2>3. t = IF u.remaining > 0 THEN u
              ELSE Ack([u EXCEPT !.files = Append(@, cur), !.cur = <<>>, !.phase = "control"])
      BY <1>2, <2>1, <2>2 DEF ReadData
    <2>4. u = [phase |-> "data", buf |-> <<>>, remaining |-> s.remaining - 1, cur |-> cur,
               dirs |-> s.dirs, files |-> s.files, total |-> total, out |-> s.out]
      BY <1>1, <2>2
    <2>5. u.remaining > 0 <=> s.remaining > 1
      BY <1>1, <2>4
    <2>6. CASE s.remaining > 1
      BY <2>3, <2>4, <2>5, <2>6
    <2>7. CASE ~(s.remaining > 1)
      <3>1. t = Ack([u EXCEPT !.files = Append(@, cur), !.cur = <<>>, !.phase = "control"])
        BY <2>3, <2>5, <2>7
      <3>2. s.remaining - 1 = 0
        BY <1>1, <2>7
      <3>3. t = [phase |-> "control", buf |-> <<>>, remaining |-> s.remaining - 1, cur |-> <<>>,
                 dirs |-> s.dirs, files |-> Append(s.files, cur), total |-> total, out |-> s.out + 1]
        BY <2>4, <3>1 DEF Ack
      <3> QED
        BY <2>7, <3>2, <3>3
    <2> QED
      BY <2>6, <2>7
  <1> HIDE DEF cur
  <1>5. ASSUME s.remaining > 1
        PROVE  /\ SinkType(t) /\ t.dirs = s.dirs /\ t.buf = <<>> /\ t.total = total
               /\ t.phase = "data" /\ t.remaining = s.remaining - 1
               /\ t.cur = cur /\ t.files = s.files /\ t.out = s.out
    <2>1. s.remaining - 1 \in Nat \ {0}
      BY <1>1, <1>5
    <2> QED
      BY <1>1, <1>2, <1>3, <1>4, <1>5, <2>1 DEF SinkType
  <1>6. ASSUME ~(s.remaining > 1)
        PROVE  /\ SinkType(t) /\ t.dirs = s.dirs /\ t.buf = <<>> /\ t.total = total
               /\ t.phase = "control" /\ t.remaining = 0
               /\ t.cur = <<>> /\ t.files = Append(s.files, cur) /\ t.out = s.out + 1
    <2>1. Append(s.files, cur) \in Seq(Seq(Bytes)) /\ s.out + 1 \in Nat
      BY <1>1, <1>3
    <2> QED
      BY <1>1, <1>2, <1>3, <1>4, <1>6, <2>1 DEF SinkType
  <1> QED
    BY <1>2, <1>5, <1>6 DEF ByteMakes, cur, t

LEMMA LineRead ==
    ASSUME NEW s, SinkType(s), s.phase = "control", NEW r \in Record
    PROVE  /\ _feed(s, NUL) = s
           /\ _feed(s, r) = [s EXCEPT !.buf = Append(@, r)] /\ SinkType(_feed(s, r))
  <1>1. s.buf \in Seq(Bytes) /\ r \in Bytes
    BY Records DEF SinkType
  <1>2. NUL # LF
    BY DEF NUL, LF
  <1>3. _feed(s, NUL) = s /\ _feed(s, r) = [s EXCEPT !.buf = Append(@, r)]
    BY <1>2, Records DEF _feed
  <1>4. SinkType([s EXCEPT !.buf = Append(@, r)])
    <2>1. Append(s.buf, r) \in Seq(Bytes)
      BY <1>1
    <2>2. PICK buf : buf = Append(s.buf, r)
      OBVIOUS
    <2>3. SinkType([s EXCEPT !.buf = buf])
      BY <2>1, <2>2 DEF SinkType
    <2> QED
      BY <2>2, <2>3
  <1> QED
    BY <1>3, <1>4

\* The sink t that the control line r makes of the sink s.
LineMakes(s, r, t) ==
    /\ SinkType(t) /\ t.out = s.out + 1 /\ t.buf = <<>> /\ t.cur = <<>> /\ t.total = s.total
    /\ IF r.k = "C"
       THEN /\ t.dirs = s.dirs
            /\ IF r.size = 0 THEN t.phase = "control" /\ t.files = Append(s.files, <<>>)
               ELSE t.phase = "data" /\ t.remaining = r.size /\ t.files = s.files
       ELSE /\ t.phase = "control" /\ t.files = s.files
            /\ Len(t.dirs) = CASE r.k = "D" -> Len(s.dirs) + 1
                               [] r.k = "E" /\ s.dirs # <<>> -> Len(s.dirs) - 1
                               [] OTHER -> Len(s.dirs)

LEMMA LineDone ==
    ASSUME NEW s, SinkType(s), s.phase = "control", NEW r \in Record, s.buf = <<r>>, NEW t, t = _feed(s, LF)
    PROVE  LineMakes(s, r, t)
  <1>1. /\ s \in [phase : {"control", "data"}, buf : Seq(Bytes), remaining : Nat, cur : Seq(Bytes),
                  dirs : Seq(Bytes), files : Seq(Seq(Bytes)), total : 0 .. MaxBytes, out : Nat]
        /\ s.cur = <<>> /\ s.remaining = 0
    BY DEF SinkType
  <1> DEFINE S(phase, remaining, dirs, files) ==
                [phase |-> phase, buf |-> <<>>, remaining |-> remaining, cur |-> <<>>,
                 dirs |-> dirs, files |-> files, total |-> s.total, out |-> s.out + 1]
  <1>2. PICK z : z = [s EXCEPT !.buf = <<>>]
    OBVIOUS
  <1>3. z = [phase |-> "control", buf |-> <<>>, remaining |-> 0, cur |-> <<>>,
             dirs |-> s.dirs, files |-> s.files, total |-> s.total, out |-> s.out]
    BY <1>1, <1>2
  <1>4. t = _handle_control(z, <<r>>)
    <2>1. NUL # LF
      BY DEF NUL, LF
    <2> QED
      BY <1>2, <2>1 DEF _feed
  <1>5. <<r>> # <<>> /\ <<r>>[1] = r /\ r \in Bytes /\ (r.k = "C" => r.size \in Nat)
    BY Records
  <1>6. CASE r.k = "C" /\ r.size > 0
    <2>1. t = Ack([z EXCEPT !.cur = <<>>, !.remaining = r.size, !.phase = "data"])
      BY <1>4, <1>5, <1>6 DEF _handle_control
    <2>2. t = S("data", r.size, s.dirs, s.files)
      BY <1>3, <2>1 DEF Ack
    <2> QED
      BY <1>1, <1>5, <1>6, <2>2 DEF SinkType, LineMakes
  <1>7. CASE r.k = "C" /\ ~(r.size > 0)
    <2>1. r.size = 0
      BY <1>5, <1>7
    <2>2. t = Ack([z EXCEPT !.files = Append(@, <<>>), !.remaining = 0])
      BY <1>4, <1>5, <1>7, <2>1 DEF _handle_control
    <2>3. t = S("control", 0, s.dirs, Append(s.files, <<>>))
      BY <1>3, <2>2 DEF Ack
    <2>4. Append(s.files, <<>>) \in Seq(Seq(Bytes))
      <3>1. <<>> \in Seq(Bytes)
        OBVIOUS
      <3> QED
        BY <1>1, <3>1
    <2> QED
      BY <1>1, <1>7, <2>1, <2>3, <2>4 DEF SinkType, LineMakes
  <1>8. CASE r.k = "D"
    <2>1. t = Ack([z EXCEPT !.dirs = Append(@, r)])
      BY <1>4, <1>5, <1>8 DEF _handle_control
    <2>2. t = S("control", 0, Append(s.dirs, r), s.files)
      BY <1>3, <2>1 DEF Ack
    <2> QED
      BY <1>1, <1>5, <1>8, <2>2 DEF SinkType, LineMakes
  <1>9. CASE r.k = "E" /\ s.dirs # <<>>
    <2>1. t = Ack([z EXCEPT !.dirs = Front(@)])
      BY <1>3, <1>4, <1>5, <1>9 DEF _handle_control
    <2>2. t = S("control", 0, Front(s.dirs), s.files)
      BY <1>3, <2>1 DEF Ack
    <2>3. Front(s.dirs) \in Seq(Bytes) /\ Len(Front(s.dirs)) = Len(s.dirs) - 1
      <3>1. s.dirs \in Seq(Bytes) /\ Len(s.dirs) - 1 \in Nat
        BY <1>1, <1>9
      <3>2. PICK q : q = s.dirs
        OBVIOUS
      <3>3. q \in Seq(Bytes) /\ Len(q) - 1 \in 0 .. Len(q)
        BY <3>1, <3>2
      <3>4. SubSeq(q, 1, Len(q) - 1) \in Seq(Bytes) /\ Len(SubSeq(q, 1, Len(q) - 1)) = Len(q) - 1
        BY <3>3
      <3> QED
        BY <3>2, <3>4 DEF Front
    <2> QED
      BY <1>1, <1>9, <2>2, <2>3 DEF SinkType, LineMakes
  <1>10. CASE r.k = "T" \/ (r.k = "E" /\ s.dirs = <<>>)
    <2>1. t = Ack(z)
      BY <1>3, <1>4, <1>5, <1>10 DEF _handle_control
    <2>2. t = S("control", 0, s.dirs, s.files)
      BY <1>3, <2>1 DEF Ack
    <2> QED
      BY <1>1, <1>10, <2>2 DEF SinkType, LineMakes
  <1>11. r.k = "C" \/ r.k = "D" \/ r.k = "E" \/ r.k = "T"
    BY Records
  <1> QED
    BY <1>6, <1>7, <1>8, <1>9, <1>10, <1>11

LEMMA OneMoreElement ==
    ASSUME NEW S, NEW c \in Seq(S), NEW d \in Seq(S), Len(d) = Len(c) + 1, \A x \in 1 .. Len(c) : c[x] = d[x]
    PROVE  Append(c, d[Len(d)]) = d
  <1>1. PICK y \in S : y = d[Len(d)]
    OBVIOUS
  <1>2. Append(c, y) \in Seq(S) /\ Len(Append(c, y)) = Len(d)
    OBVIOUS
  <1>3. \A x \in 1 .. Len(d) : Append(c, y)[x] = d[x]
    BY <1>1
  <1> QED
    BY <1>1, <1>2, <1>3

\* One byte more is kept as far as the cap allows.
LEMMA KeptMore ==
    ASSUME ScpAssumption, NEW n \in Nat, NEW b \in Nat, NEW i \in Nat,
           NEW c, c = Start(i, Capped(n + b) - Capped(n))
    PROVE  (IF Capped(n + b) < MaxBytes THEN Append(c, Byte(i, b + 1, FALSE)) ELSE c)
              = Start(i, Capped(n + (b + 1)) - Capped(n))
  <1>1. MaxBytes \in Nat
    BY DEF ScpAssumption
  <1>2. CASE Capped(n + b) < MaxBytes
    <2>1. Capped(n + b) - Capped(n) = b /\ Capped(n + (b + 1)) - Capped(n) = b + 1
      BY <1>1, <1>2 DEF Capped
    <2>2. c = Start(i, b) /\ c \in Seq(Bytes)
      <3>1. c = Start(i, b)
        BY <2>1
      <3> QED
        BY <3>1, Starts
    <2>3. PICK m \in Nat : m = b + 1
      OBVIOUS
    <2>4. PICK d : d = Start(i, m) /\ d \in Seq(Bytes)
      BY Starts
    <2>5. Len(c) = b /\ Len(d) = b + 1 /\ d[Len(d)] = Byte(i, b + 1, FALSE)
      <3>1. Len(c) = b
        BY <2>2, Starts
      <3>2. m \in 1 .. m
        BY <2>3
      <3>3. Len(d) = m /\ d[m] = Byte(i, m, FALSE)
        BY <2>4, <3>2, Starts
      <3>4. d[Len(d)] = Byte(i, m, FALSE)
        BY <3>3
      <3> QED
        BY <2>3, <3>1, <3>3, <3>4
    <2>6. \A x \in 1 .. Len(c) : c[x] = d[x]
      <3> TAKE x \in 1 .. Len(c)
      <3>1. x \in 1 .. b /\ x \in 1 .. m
        BY <2>3, <2>5
      <3>2. c[x] = Byte(i, x, FALSE)
        BY <2>2, <3>1, Starts
      <3>3. d[x] = Byte(i, x, FALSE)
        BY <2>4, <3>1, Starts
      <3> QED
        BY <3>2, <3>3
    <2>7. Append(c, d[Len(d)]) = d
      BY <2>2, <2>4, <2>5, <2>6, OneMoreElement
    <2> QED
      BY <1>2, <2>1, <2>3, <2>4, <2>5, <2>7
  <1>3. CASE ~(Capped(n + b) < MaxBytes)
    <2>1. Capped(n + (b + 1)) = Capped(n + b)
      BY <1>1, <1>3 DEF Capped
    <2> QED
      BY <1>3, <2>1
  <1> QED
    BY <1>2, <1>3

\* The sink has kept what an upload amounts to before a control line: it has
\* after it.
LEMMA LineTracked ==
    ASSUME ScpAssumption, upload \in Seq(Record), \A n \in 0 .. Len(upload) : Amount(upload)[n].depth >= 0,
           NEW i \in DOMAIN upload, NEW s, SinkType(s), s.phase = "control", Tracks(s, i - 1, 0),
           NEW t, LineMakes(s, upload[i], t)
    PROVE  IF upload[i].k = "C" /\ upload[i].size > 0 THEN Tracks(t, i - 1, 0) ELSE Tracks(t, i, 0)
  <1> SUFFICES ASSUME ~Swallowed
               PROVE  IF upload[i].k = "C" /\ upload[i].size > 0 THEN Tracks(t, i - 1, 0) ELSE Tracks(t, i, 0)
    BY DEF Tracks
  <1>1. PICK r \in Record : r = upload[i]
    OBVIOUS
  <1>2. i \in 1 .. Len(upload) /\ i - 1 \in 0 .. Len(upload) /\ i \in 0 .. Len(upload) /\ i \in Nat
    OBVIOUS
  <1>3. PICK a \in [bytes : Nat, files : Seq(Seq(Bytes)), depth : Int] : a = Amount(upload)[i - 1]
    BY <1>2, AmountType
  <1>4. Amount(upload)[i] = With(a, i, r) /\ With(a, i, r).depth >= 0
    BY <1>1, <1>2, <1>3, AmountRuns
  <1>5. /\ s.files = a.files /\ Len(s.dirs) = a.depth /\ s.total = Capped(a.bytes)
    BY <1>3 DEF Tracks
  <1>6. LineMakes(s, r, t) /\ s.dirs \in Seq(Bytes)
    BY <1>1 DEF SinkType
  <1>7. \A j, n \in Nat : Start(j, Capped(n + 0) - Capped(n)) = <<>>
    <2> TAKE j, n \in Nat
    <2>1. n + 0 = n /\ Capped(n) \in Int
      BY Caps
    <2>2. Capped(n + 0) - Capped(n) = 0
      BY <2>1
    <2> QED
      BY <2>2, Starts
  <1>8. CASE r.k = "C" /\ r.size > 0
    <2>1. a.bytes + 0 = a.bytes /\ i - 1 + 1 = i /\ a.bytes \in Nat
      BY <1>2
    <2>2. Start(i - 1 + 1, Capped(a.bytes + 0) - Capped(a.bytes)) = <<>>
      BY <1>2, <1>7, <2>1
    <2>3. /\ t.files = a.files /\ Len(t.dirs) = a.depth /\ t.total = Capped(a.bytes + 0)
          /\ t.cur = Start(i - 1 + 1, Capped(a.bytes + 0) - Capped(a.bytes))
      BY <1>5, <1>6, <1>8, <2>1, <2>2 DEF LineMakes
    <2>4. Tracks(t, i - 1, 0)
      BY <1>3, <2>3 DEF Tracks
    <2> QED
      BY <1>1, <1>8, <2>4
  <1>9. ASSUME t.files = With(a, i, r).files, Len(t.dirs) = With(a, i, r).depth,
               With(a, i, r).bytes = a.bytes
        PROVE  Tracks(t, i, 0)
    <2>1. t.total = Capped(a.bytes + 0) /\ t.cur = <<>>
      BY <1>5, <1>6 DEF LineMakes
    <2>2. Start(i + 1, Capped(a.bytes + 0) - Capped(a.bytes)) = <<>>
      <3>1. i + 1 \in Nat /\ a.bytes \in Nat
        BY <1>2
      <3> QED
        BY <1>7, <3>1
    <2> QED
      BY <1>4, <1>9, <2>1, <2>2 DEF Tracks
  <1>10. CASE r.k = "C" /\ ~(r.size > 0)
    <2>1. r.size = 0
      BY <1>10, Records
    <2>2. With(a, i, r) = [a EXCEPT !.bytes = @ + 0, !.files = Append(@, <<>>)]
      BY <1>2, <1>7, <1>10, <2>1 DEF With
    <2>3. t.files = With(a, i, r).files /\ Len(t.dirs) = With(a, i, r).depth /\ With(a, i, r).bytes = a.bytes
      BY <1>5, <1>6, <1>10, <2>1, <2>2 DEF LineMakes
    <2> QED
      BY <1>1, <1>9, <1>10, <2>3
  <1>11. CASE r.k # "C"
    <2>1. With(a, i, r) = [a EXCEPT !.depth = CASE r.k = "D" -> @ + 1 [] r.k = "E" -> @ - 1 [] OTHER -> @]
      BY <1>11 DEF With
    <2>2. /\ With(a, i, r).files = a.files /\ With(a, i, r).bytes = a.bytes
          /\ With(a, i, r).depth = CASE r.k = "D" -> a.depth + 1 [] r.k = "E" -> a.depth - 1 [] OTHER -> a.depth
      BY <2>1
    <2>3. /\ t.files = s.files
          /\ Len(t.dirs) = CASE r.k = "D" -> Len(s.dirs) + 1
                             [] r.k = "E" /\ s.dirs # <<>> -> Len(s.dirs) - 1
                             [] OTHER -> Len(s.dirs)
      BY <1>6, <1>11 DEF LineMakes
    <2>4. Len(t.dirs) = With(a, i, r).depth
      <3>1. CASE r.k = "D"
        BY <1>5, <2>2, <2>3, <3>1
      <3>2. CASE r.k = "E"
        <4>1. Len(s.dirs) - 1 >= 0
          BY <1>4, <1>5, <2>2, <3>2
        <4>2. s.dirs # <<>>
          BY <4>1
        <4> QED
          BY <1>5, <2>2, <2>3, <3>2, <4>2
      <3>3. CASE r.k \notin {"D", "E"}
        BY <1>5, <2>2, <2>3, <3>3
      <3> QED
        BY <3>1, <3>2, <3>3
    <2> QED
      BY <1>1, <1>5, <1>9, <1>11, <2>2, <2>3, <2>4
  <1> QED
    BY <1>8, <1>10, <1>11

\* The sink has kept what an upload amounts to before a byte of a file: it has
\* after it.
LEMMA ByteTracked ==
    ASSUME ScpAssumption, upload \in Seq(Record),
           NEW i \in DOMAIN upload, upload[i].k = "C", NEW b \in Nat, b < upload[i].size,
           NEW s, SinkType(s), s.phase = "data", ~Swallowed, s.remaining = upload[i].size - b,
           Tracks(s, i - 1, b), NEW t, t = _feed(s, Byte(i, b + 1, FALSE))
    PROVE  IF b + 1 < upload[i].size THEN Tracks(t, i - 1, b + 1) ELSE Tracks(t, i, 0)
  <1> DEFINE size == upload[i].size
             body(n, m) == Start(i, Capped(n + m) - Capped(n))
  <1>1. PICK r \in Record : r = upload[i]
    OBVIOUS
  <1>2. /\ i \in 1 .. Len(upload) /\ i - 1 \in 0 .. Len(upload) /\ i \in Nat /\ i - 1 + 1 = i
        /\ size \in Nat
    BY <1>1, Records
  <1>3. PICK a \in [bytes : Nat, files : Seq(Seq(Bytes)), depth : Int] : a = Amount(upload)[i - 1]
    BY <1>2, AmountType
  <1>4. /\ s.files = a.files /\ Len(s.dirs) = a.depth /\ s.total = Capped(a.bytes + b)
        /\ s.cur = body(a.bytes, b)
    BY <1>2, <1>3 DEF Tracks
  <1>5. PICK y \in Bytes : y = Byte(i, b + 1, FALSE)
    <2>1. \A m \in Nat : Byte(i, m, FALSE) \in Bytes
      BY <1>2, FileBytes
    <2>2. b + 1 \in Nat
      OBVIOUS
    <2> QED
      BY <2>1, <2>2
  <1>6. PICK cur : cur = IF s.total < MaxBytes THEN Append(s.cur, y) ELSE s.cur
    OBVIOUS
  <1>7. cur = body(a.bytes, b + 1)
    <2>1. cur = IF Capped(a.bytes + b) < MaxBytes THEN Append(body(a.bytes, b), Byte(i, b + 1, FALSE))
                ELSE body(a.bytes, b)
      BY <1>4, <1>5, <1>6
    <2>2. a.bytes \in Nat
      OBVIOUS
    <2>3. PICK c : c = body(a.bytes, b)
      OBVIOUS
    <2>4. (IF Capped(a.bytes + b) < MaxBytes THEN Append(c, Byte(i, b + 1, FALSE)) ELSE c) = body(a.bytes, b + 1)
      <3>1. PICK n \in Nat : n = a.bytes
        BY <2>2
      <3>2. c = Start(i, Capped(n + b) - Capped(n))
        BY <2>3, <3>1
      <3>3. (IF Capped(n + b) < MaxBytes THEN Append(c, Byte(i, b + 1, FALSE)) ELSE c)
               = Start(i, Capped(n + (b + 1)) - Capped(n))
        <4>1. i \in Nat
          BY <1>2
        <4>2. \A j \in Nat : c = Start(j, Capped(n + b) - Capped(n)) =>
                (IF Capped(n + b) < MaxBytes THEN Append(c, Byte(j, b + 1, FALSE)) ELSE c)
                  = Start(j, Capped(n + (b + 1)) - Capped(n))
          BY KeptMore
        <4> QED
          BY <3>2, <4>1, <4>2
      <3> QED
        BY <3>1, <3>3
    <2> QED
      BY <2>1, <2>3, <2>4
  <1>8. /\ t.dirs = s.dirs /\ t.total = IF s.total < MaxBytes THEN s.total + 1 ELSE s.total
        /\ IF s.remaining > 1 THEN t.cur = cur /\ t.files = s.files
           ELSE t.cur = <<>> /\ t.files = Append(s.files, cur)
    <2>1. t = _feed(s, y)
      BY <1>5
    <2>2. ByteMakes(s, y, t)
      BY <2>1, DataRead
    <2> QED
      BY <1>6, <2>2 DEF ByteMakes
  <1>9. t.total = Capped(a.bytes + (b + 1))
    <2>1. Capped(a.bytes + b + 1) = IF Capped(a.bytes + b) < MaxBytes THEN Capped(a.bytes + b) + 1 ELSE Capped(a.bytes + b)
      <3>1. a.bytes + b \in Nat
        OBVIOUS
      <3> QED
        BY <3>1, Caps
    <2>2. a.bytes + b + 1 = a.bytes + (b + 1)
      OBVIOUS
    <2> QED
      BY <1>4, <1>8, <2>1, <2>2
  <1>10. CASE b + 1 < size
    <2>1. s.remaining > 1
      BY <1>2, <1>10
    <2>2. Tracks(t, i - 1, b + 1)
      BY <1>2, <1>3, <1>4, <1>7, <1>8, <1>9, <2>1 DEF Tracks
    <2> QED
      BY <1>10, <2>2
  <1>11. CASE ~(b + 1 < size)
    <2>1. b + 1 = size /\ ~(s.remaining > 1)
      BY <1>2, <1>11
    <2>2. With(a, i, r) = [a EXCEPT !.bytes = @ + size, !.files = Append(@, body(a.bytes, size))]
      BY <1>1 DEF With
    <2>3. Amount(upload)[i] = With(a, i, r)
      BY <1>1, <1>2, <1>3, AmountRuns
    <2>4. /\ t.files = Append(a.files, body(a.bytes, size)) /\ Len(t.dirs) = a.depth
          /\ t.total = Capped(a.bytes + size) /\ t.cur = <<>>
      BY <1>4, <1>7, <1>8, <1>9, <2>1
    <2>5. /\ t.files = With(a, i, r).files /\ Len(t.dirs) = With(a, i, r).depth
          /\ With(a, i, r).bytes = a.bytes + size
      BY <2>2, <2>4
    <2>6. /\ t.total = Capped(a.bytes + size + 0)
          /\ Start(i + 1, Capped(a.bytes + size + 0) - Capped(a.bytes + size)) = <<>>
      <3>1. PICK n \in Nat : n = a.bytes + size
        BY <1>2
      <3>2. n + 0 = n /\ Capped(n) \in Int
        BY Caps
      <3>3. Capped(n + 0) - Capped(n) = 0 /\ i + 1 \in Nat
        BY <1>2, <3>2
      <3>4. Start(i + 1, Capped(n + 0) - Capped(n)) = <<>>
        BY <3>3, Starts
      <3> QED
        BY <2>4, <3>1, <3>2, <3>4
    <2>7. Tracks(t, i, 0)
      BY <2>3, <2>4, <2>5, <2>6 DEF Tracks
    <2> QED
      BY <1>11, <2>7
  <1> QED
    BY <1>10, <1>11

LEMMA RestBytes ==
    ASSUME upload \in Seq(Record), NEW i \in DOMAIN upload, upload[i].k = "C", NEW b \in 0 .. upload[i].size
    PROVE  /\ Rest(i, b) \in Seq(Bytes) /\ Rest(i, b) # <<>>
           /\ b = upload[i].size => Rest(i, b) = <<NUL>>
           /\ b < upload[i].size => /\ Rest(i, b)[1] = Byte(i, b + 1, b + 1 \in upload[i].esc)
                                    /\ Tail(Rest(i, b)) = Rest(i, b + 1)
  <1>1. PICK size \in Nat : size = upload[i].size
    <2>1. upload[i] \in Record
      OBVIOUS
    <2> QED
      BY <2>1, Records
  <1>2. i \in Nat /\ b \in 0 .. size
    BY <1>1
  <1> DEFINE y(x) == IF x = size + 1 THEN NUL ELSE Byte(i, x, x \in upload[i].esc)
             rest(n) == [x \in 1 .. size - n + 1 |-> y(n + x)]
  <1>3. \A x \in Nat : y(x) \in Bytes
    <2>1. NUL \in Bytes
      BY DEF Bytes
    <2>2. \A x \in Nat : Byte(i, x, x \in upload[i].esc) \in Bytes
      <3> TAKE x \in Nat
      <3>1. Byte(i, x, TRUE) \in Bytes /\ Byte(i, x, FALSE) \in Bytes
        BY <1>2, FileBytes
      <3>2. Byte(i, x, x \in upload[i].esc) \in {Byte(i, x, TRUE), Byte(i, x, FALSE)}
        BY DEF Byte
      <3> QED
        BY <3>1, <3>2
    <2> QED
      BY <2>1, <2>2
  <1>4. \A n \in 0 .. size + 1 : Rest(i, n) = rest(n)
    <2> TAKE n \in 0 .. size + 1
    <2>1. \A x \in 1 .. size - n + 1 : n + x = size + 1 <=> x = size - n + 1
      BY <1>1
    <2> QED
      BY <1>1, <2>1 DEF Rest
  <1> HIDE DEF y
  <1>5. ASSUME NEW n \in 0 .. size
        PROVE  /\ rest(n) \in Seq(Bytes) /\ Len(rest(n)) = size - n + 1
               /\ \A x \in 1 .. size - n + 1 : rest(n)[x] = y(n + x)
    <2>1. \A x \in 1 .. size - n + 1 : y(n + x) \in Bytes
      <3> TAKE x \in 1 .. size - n + 1
      <3>1. n + x \in Nat
        BY <1>1
      <3> QED
        BY <1>3, <3>1
    <2>2. PICK f : f = rest(n)
      OBVIOUS
    <2>3. f \in [1 .. size - n + 1 -> Bytes] /\ \A x \in 1 .. size - n + 1 : f[x] = y(n + x)
      BY <2>1, <2>2
    <2>4. PICK m \in Nat : m = size - n + 1
      BY <1>1
    <2>5. f \in [1 .. m -> Bytes]
      BY <2>3, <2>4
    <2>6. f \in Seq(Bytes) /\ Len(f) = m
      BY <2>5
    <2> QED
      BY <2>2, <2>3, <2>4, <2>6
  <1> HIDE DEF rest
  <1>6. PICK f \in Seq(Bytes) : f = rest(b)
    BY <1>2, <1>5
  <1>7. Len(f) = size - b + 1 /\ \A x \in 1 .. size - b + 1 : f[x] = y(b + x)
    BY <1>2, <1>5, <1>6
  <1>8. ASSUME b = size
        PROVE  f = <<NUL>>
    <2>1. Len(f) = 1 /\ f[1] = y(size + 1)
      BY <1>2, <1>7, <1>8
    <2>2. f[1] = NUL
      BY <2>1 DEF y
    <2> QED
      BY <2>1, <2>2
  <1>9. ASSUME b < size
        PROVE  f[1] = Byte(i, b + 1, b + 1 \in upload[i].esc) /\ Tail(f) = rest(b + 1)
    <2>1. f[1] = y(b + 1)
      BY <1>2, <1>7
    <2>2. b + 1 # size + 1
      BY <1>2, <1>9
    <2>3. f[1] = Byte(i, b + 1, b + 1 \in upload[i].esc)
      BY <2>1, <2>2 DEF y
    <2>4. b + 1 \in 0 .. size
      BY <1>2, <1>9
    <2>5. PICK g \in Seq(Bytes) : g = rest(b + 1)
      BY <1>5, <2>4
    <2>6. Len(g) = size - b /\ \A x \in 1 .. size - b : g[x] = y(b + 1 + x)
      <3>1. Len(g) = size - (b + 1) + 1 /\ \A x \in 1 .. size - (b + 1) + 1 : g[x] = y(b + 1 + x)
        BY <1>5, <2>4, <2>5
      <3>2. size - (b + 1) + 1 = size - b
        BY <1>2
      <3> QED
        BY <3>1, <3>2
    <2>7. f # <<>> /\ Tail(f) \in Seq(Bytes) /\ Len(Tail(f)) = size - b
      BY <1>2, <1>6, <1>7, <1>9
    <2>8. ASSUME NEW x \in 1 .. size - b
          PROVE  Tail(f)[x] = g[x]
      <3>1. x + 1 \in 1 .. size - b + 1 /\ b + (x + 1) = b + 1 + x
        BY <1>2
      <3>2. Tail(f)[x] = f[x + 1]
        BY <1>6, <1>7, <2>7, <3>1
      <3>3. f[x + 1] = y(b + (x + 1))
        BY <1>7, <3>1
      <3>4. g[x] = y(b + 1 + x)
        BY <2>6
      <3> QED
        BY <3>1, <3>2, <3>3, <3>4
    <2>9. Tail(f) = g
      BY <2>6, <2>7, <2>8
    <2> QED
      BY <2>3, <2>5, <2>9
  <1>10. f # <<>>
    BY <1>2, <1>7
  <1>11. Rest(i, b) = f /\ (b < size => Rest(i, b + 1) = rest(b + 1))
    <2>1. b \in 0 .. size + 1 /\ b + 1 \in 0 .. size + 1
      BY <1>2
    <2> QED
      BY <1>4, <1>6, <2>1
  <1> QED
    BY <1>1, <1>6, <1>8, <1>9, <1>10, <1>11

\* A body as it is sent.
LEMMA BodyBurst ==
    ASSUME upload \in Seq(Record), NEW i \in DOMAIN upload, upload[i].k = "C"
    PROVE  Burst([i |-> i, part |-> "body"]) = Rest(i, 0)
  <1>1. PICK size \in Nat : size = upload[i].size
    <2>1. upload[i] \in Record
      OBVIOUS
    <2> QED
      BY <2>1, Records
  <1> DEFINE y(x) == Byte(i, x, x \in upload[i].esc)
  <1>2. PICK f : f = [x \in 1 .. size |-> y(x)]
    OBVIOUS
  <1>3. Burst([i |-> i, part |-> "body"]) = f \o <<NUL>>
    BY <1>1, <1>2 DEF Burst
  <1>4. Rest(i, 0) = [x \in 1 .. size + 1 |-> IF x = size + 1 THEN NUL ELSE y(x)]
    <2>1. size - 0 + 1 = size + 1 /\ \A x \in 1 .. size + 1 : 0 + x = x
      BY <1>1
    <2> QED
      BY <1>1, <2>1 DEF Rest
  <1>5. Rest(i, 0) \in Seq(Bytes)
    <2>1. 0 \in 0 .. upload[i].size
      BY <1>1
    <2> QED
      BY <2>1, RestBytes
  <1> HIDE DEF y
  <1>6. PICK S : S = {y(x) : x \in 1 .. size} \cup {NUL} \cup Bytes
    OBVIOUS
  <1>7. f \in Seq(S) /\ Len(f) = size /\ \A x \in 1 .. size : f[x] = y(x)
    <2>1. f \in [1 .. size -> S] /\ \A x \in 1 .. size : f[x] = y(x)
      BY <1>2, <1>6
    <2>2. f \in Seq(S) /\ Len(f) = size
      BY <1>1, <2>1
    <2> QED
      BY <2>1, <2>2
  <1>8. PICK g \in Seq(S) : g = Rest(i, 0)
    <2>1. Rest(i, 0) \in Seq(S)
      BY <1>5, <1>6
    <2> QED
      BY <2>1
  <1>9. /\ Len(g) = size + 1 /\ g[size + 1] = NUL /\ \A x \in 1 .. size : g[x] = y(x)
    <2>1. DOMAIN g = 1 .. size + 1
      BY <1>4, <1>8
    <2>2. size + 1 \in 1 .. size + 1 /\ \A x \in 1 .. size : x \in 1 .. size + 1 /\ x # size + 1
      BY <1>1
    <2>3. g[size + 1] = NUL /\ \A x \in 1 .. size : g[x] = y(x)
      BY <1>4, <1>8, <2>2
    <2>4. Len(g) = size + 1
      BY <1>1, <2>1
    <2> QED
      BY <2>3, <2>4
  <1>10. Append(f, g[Len(g)]) = g
    BY <1>7, <1>8, <1>9, OneMoreElement
  <1>11. f \o <<NUL>> = Append(f, NUL)
    <2>1. NUL \in S
      BY <1>6
    <2> QED
      BY <1>7, <2>1
  <1> QED
    BY <1>3, <1>8, <1>9, <1>10, <1>11

-----------------------------------------------------------------------------
(* A key *)

LEMMA OneKey ==
    ASSUME NEW e \in BOOLEAN, NEW s, NEW b
    PROVE  /\ e \/ b.k # "esc" => Key([escaped |-> e, sink |-> s], b) = [escaped |-> FALSE, sink |-> _feed(s, b)]
           /\ ~e /\ b.k = "esc" => Key([escaped |-> e, sink |-> s], b) = [escaped |-> TRUE, sink |-> s]
  BY DEF Key

\* The NUL after a body is ignored.
LEMMA KeyAfterBody ==
    ASSUME NEW place, NEW c \in Nat, NEW w, w # <<>>, NEW e \in BOOLEAN, NEW s, SinkType(s),
           Answered(place, c + s.out, w, e, s), NEW st, st = Key([escaped |-> e, sink |-> s], w[1])
    PROVE  /\ st.escaped = FALSE /\ SinkType(st.sink)
           /\ Agree(place, c + st.sink.out, Tail(w), FALSE, st.sink)
  <1>1. place.part = "line" /\ w = <<NUL>> /\ ~e /\ s.phase = "control"
    BY DEF Answered, Idle
  <1>2. NUL.k # "esc" /\ NUL # LF
    BY DEF NUL, LF
  <1>3. _feed(s, NUL) = s
    BY <1>1, <1>2 DEF _feed
  <1>4. w[1] = NUL /\ Tail(w) = <<>>
    BY <1>1
  <1>5. st = [escaped |-> FALSE, sink |-> s]
    <2>1. Key([escaped |-> e, sink |-> s], NUL) = [escaped |-> FALSE, sink |-> _feed(s, NUL)]
      BY <1>2, OneKey
    <2> QED
      BY <1>3, <1>4, <2>1
  <1>6. Answered(place, c + s.out, <<>>, FALSE, s)
    BY <1>1 DEF Answered
  <1>7. st.escaped = FALSE /\ st.sink = s
    BY <1>5
  <1>8. Agree(place, c + s.out, Tail(w), FALSE, s)
    BY <1>4, <1>6 DEF Agree
  <1> QED
    BY <1>7, <1>8

\* A control line is read, and answered at its end.
LEMMA KeyOfLine ==
    ASSUME ScpAssumption, upload \in Seq(Record), \A n \in 0 .. Len(upload) : Amount(upload)[n].depth >= 0,
           NEW place, NEW c \in Nat, NEW w, w # <<>>, NEW e \in BOOLEAN, NEW s, SinkType(s),
           LineSent(place, c + s.out, w, e, s), NEW st, st = Key([escaped |-> e, sink |-> s], w[1])
    PROVE  /\ st.escaped = FALSE /\ SinkType(st.sink)
           /\ Agree(place, c + st.sink.out, Tail(w), FALSE, st.sink)
  <1>1. c + s.out = 0 /\ e = FALSE /\ s.phase = "control"
    BY DEF LineSent
  <1>2. PICK i \in DOMAIN upload :
          /\ place = After([i |-> i, part |-> "line"]) /\ Tracks(s, i - 1, 0)
          /\ \/ s.buf = <<>> /\ w \in {<<upload[i], LF>>, <<NUL, upload[i], LF>>}
             \/ s.buf = <<upload[i]>> /\ w = <<LF>>
    BY DEF LineSent
  <1>3. PICK r \in Record : r = upload[i]
    OBVIOUS
  <1>4. NUL.k # "esc" /\ LF.k # "esc" /\ r.k # "esc" /\ NUL # LF
    BY Records DEF NUL, LF
  <1>5. CASE s.buf = <<>> /\ w = <<NUL, r, LF>>
    <2>1. w[1] = NUL /\ Tail(w) = <<r, LF>>
      BY <1>5
    <2>2. _feed(s, NUL) = s
      BY <1>1, <1>3, LineRead
    <2>3. st.escaped = FALSE /\ st.sink = s
      <3>1. Key([escaped |-> e, sink |-> s], NUL) = [escaped |-> FALSE, sink |-> _feed(s, NUL)]
        BY <1>4, OneKey
      <3>2. st = [escaped |-> FALSE, sink |-> s]
        BY <2>1, <2>2, <3>1
      <3> QED
        BY <3>2
    <2>4. LineSent(place, c + s.out, <<r, LF>>, FALSE, s)
      BY <1>1, <1>2, <1>3, <1>5 DEF LineSent
    <2>5. Agree(place, c + s.out, <<r, LF>>, FALSE, s)
      BY <2>4 DEF Agree
    <2> QED
      BY <2>1, <2>3, <2>5
  <1>6. CASE s.buf = <<>> /\ w = <<r, LF>>
    <2>1. w[1] = r /\ Tail(w) = <<LF>>
      BY <1>6
    <2>2. PICK t : t = [s EXCEPT !.buf = Append(@, r)]
      OBVIOUS
    <2>3. _feed(s, r) = t /\ SinkType(t)
      BY <1>1, <2>2, LineRead
    <2>4. /\ t.phase = s.phase /\ t.buf = <<r>> /\ t.files = s.files /\ t.dirs = s.dirs
          /\ t.total = s.total /\ t.cur = s.cur /\ t.out = s.out
      <3>1. Append(s.buf, r) = <<r>>
        BY <1>6
      <3> QED
        BY <2>2, <3>1 DEF SinkType
    <2>5. st.escaped = FALSE /\ st.sink = t
      <3>1. Key([escaped |-> e, sink |-> s], r) = [escaped |-> FALSE, sink |-> _feed(s, r)]
        BY <1>4, OneKey
      <3>2. st = [escaped |-> FALSE, sink |-> t]
        BY <2>1, <2>3, <3>1
      <3> QED
        BY <3>2
    <2>6. Tracks(t, i - 1, 0)
      BY <1>2, <2>4 DEF Tracks
    <2>7. LineSent(place, c + t.out, <<LF>>, FALSE, t)
      BY <1>1, <1>2, <1>3, <2>4, <2>6 DEF LineSent
    <2>8. Agree(place, c + t.out, <<LF>>, FALSE, t)
      BY <2>7 DEF Agree
    <2> QED
      BY <2>1, <2>3, <2>5, <2>8
  <1>7. CASE s.buf = <<r>> /\ w = <<LF>>
    <2>1. w[1] = LF /\ Tail(w) = <<>>
      BY <1>7
    <2>2. PICK t : t = _feed(s, LF)
      OBVIOUS
    <2>3. LineMakes(s, r, t)
      BY <1>1, <1>7, <2>2, LineDone
    <2>4. st.escaped = FALSE /\ st.sink = t
      <3>1. Key([escaped |-> e, sink |-> s], LF) = [escaped |-> FALSE, sink |-> _feed(s, LF)]
        BY <1>4, OneKey
      <3>2. st = [escaped |-> FALSE, sink |-> t]
        BY <2>1, <2>2, <3>1
      <3> QED
        BY <3>2
    <2>5. SinkType(t) /\ t.buf = <<>> /\ t.cur = <<>> /\ c + t.out = 1
      BY <1>1, <2>3 DEF LineMakes, SinkType
    <2>6. IF r.k = "C" /\ r.size > 0 THEN Tracks(t, i - 1, 0) ELSE Tracks(t, i, 0)
      BY <1>1, <1>2, <1>3, <2>3, LineTracked
    <2>7. i \in Nat /\ i + 1 - 1 = i
      OBVIOUS
    <2>8. CASE r.k = "C"
      <3>1. place = [i |-> i, part |-> "body"] /\ r.size \in Nat
        BY <1>2, <1>3, <2>8, Records DEF After
      <3>2. CASE r.size = 0
        <4>1. Idle(t) /\ Tracks(t, i, 0)
          BY <2>3, <2>5, <2>6, <2>8, <3>2 DEF LineMakes, Idle
        <4>2. Answered(place, c + t.out, <<>>, FALSE, t)
          BY <1>3, <2>5, <3>1, <3>2, <4>1 DEF Answered
        <4>3. Agree(place, c + t.out, <<>>, FALSE, t)
          BY <4>2 DEF Agree
        <4> QED
          BY <2>1, <2>4, <2>5, <4>3
      <3>3. CASE r.size # 0
        <4>1. t.phase = "data" /\ t.remaining = r.size /\ Tracks(t, i - 1, 0)
          BY <2>3, <2>6, <2>8, <3>1, <3>3 DEF LineMakes
        <4>2. Answered(place, c + t.out, <<>>, FALSE, t)
          BY <1>3, <2>5, <3>1, <3>3, <4>1 DEF Answered
        <4>3. Agree(place, c + t.out, <<>>, FALSE, t)
          BY <4>2 DEF Agree
        <4> QED
          BY <2>1, <2>4, <2>5, <4>3
      <3> QED
        BY <3>2, <3>3
    <2>9. CASE r.k # "C"
      <3>1. place = [i |-> i + 1, part |-> "line"]
        BY <1>2, <1>3, <2>9 DEF After
      <3>2. Idle(t) /\ Tracks(t, i, 0)
        BY <2>3, <2>5, <2>6, <2>9 DEF LineMakes, Idle
      <3>3. Answered(place, c + t.out, <<>>, FALSE, t)
        BY <2>5, <2>7, <3>1, <3>2 DEF Answered
      <3>4. Agree(place, c + t.out, <<>>, FALSE, t)
        BY <3>3 DEF Agree
      <3> QED
        BY <2>1, <2>4, <2>5, <3>4
    <2> QED
      BY <2>8, <2>9
  <1> QED
    BY <1>2, <1>3, <1>5, <1>6, <1>7

\* A body is read, and answered at its end; an ESC in it is not counted.
LEMMA KeyOfBody ==
    ASSUME ScpAssumption, upload \in Seq(Record),
           NEW place, NEW c \in Nat, NEW w, w # <<>>, NEW e \in BOOLEAN, NEW s, SinkType(s),
           BodySent(place, c + s.out, w, e, s), NEW st, st = Key([escaped |-> e, sink |-> s], w[1])
    PROVE  /\ st.escaped \in BOOLEAN /\ SinkType(st.sink)
           /\ Agree(place, c + st.sink.out, Tail(w), st.escaped, st.sink)
  <1>1. c + s.out = 0 /\ place.part = "line"
    BY DEF BodySent
  <1>2. PICK i \in DOMAIN upload : place.i = i + 1 /\ upload[i].k = "C" /\ \E b \in 0 .. upload[i].size :
          /\ w = Rest(i, b)
          /\ IF upload[i].size = 0 THEN ~e /\ Idle(s) /\ Tracks(s, i, 0)
             ELSE /\ s.phase = "data"
                  /\ s.remaining >= upload[i].size - b
                  /\ e => Swallowed /\ s.remaining > upload[i].size - b
                  /\ ~Swallowed => s.remaining = upload[i].size - b
                  /\ Tracks(s, i - 1, b)
    BY DEF BodySent
  <1>3. PICK size \in Nat : size = upload[i].size
    <2>1. upload[i] \in Record
      OBVIOUS
    <2> QED
      BY <1>2, <2>1, Records
  <1>4. PICK b \in 0 .. size :
          /\ w = Rest(i, b)
          /\ IF size = 0 THEN ~e /\ Idle(s) /\ Tracks(s, i, 0)
             ELSE /\ s.phase = "data"
                  /\ s.remaining >= size - b
                  /\ e => Swallowed /\ s.remaining > size - b
                  /\ ~Swallowed => s.remaining = size - b
                  /\ Tracks(s, i - 1, b)
    BY <1>2, <1>3
  <1>5. /\ b = size => w[1] = NUL /\ Tail(w) = <<>>
        /\ b < size => w[1] = Byte(i, b + 1, b + 1 \in upload[i].esc) /\ Tail(w) = Rest(i, b + 1)
    <2>1. /\ b = size => w = <<NUL>>
          /\ b < size => w[1] = Byte(i, b + 1, b + 1 \in upload[i].esc) /\ Tail(w) = Rest(i, b + 1)
      BY <1>2, <1>3, <1>4, RestBytes
    <2>2. w = <<NUL>> => w[1] = NUL /\ Tail(w) = <<>>
      OBVIOUS
    <2> QED
      BY <2>1, <2>2
  <1>6. NUL.k # "esc" /\ NUL # LF /\ NUL \in Bytes /\ i \in Nat /\ i + 1 - 1 = i /\ b \in Nat
    BY DEF NUL, LF, Bytes
  <1>7. ASSUME NEW t, SinkType(t), st = [escaped |-> FALSE, sink |-> t],
               Agree(place, c + t.out, Tail(w), FALSE, t)
        PROVE  /\ st.escaped \in BOOLEAN /\ SinkType(st.sink)
               /\ Agree(place, c + st.sink.out, Tail(w), st.escaped, st.sink)
    <2>1. st.escaped = FALSE /\ st.sink = t
      BY <1>7
    <2> QED
      BY <1>7, <2>1
  <1>8. CASE size = 0
    <2>1. b = size /\ w[1] = NUL /\ Tail(w) = <<>> /\ ~e /\ Idle(s) /\ Tracks(s, i, 0)
      <3>1. b = size
        BY <1>8
      <3> QED
        BY <1>4, <1>5, <1>8, <3>1
    <2>2. _feed(s, NUL) = s
      BY <1>6, <2>1 DEF _feed, Idle
    <2>3. st = [escaped |-> FALSE, sink |-> s]
      <3>1. Key([escaped |-> e, sink |-> s], NUL) = [escaped |-> FALSE, sink |-> _feed(s, NUL)]
        BY <1>6, OneKey
      <3> QED
        BY <2>1, <2>2, <3>1
    <2>4. HasEmpty
      BY <1>2, <1>3, <1>8 DEF HasEmpty
    <2>5. Stuck(place, c + s.out, <<>>, FALSE, s)
      BY <1>1, <1>2, <1>6, <2>1, <2>4 DEF Stuck
    <2>6. Agree(place, c + s.out, Tail(w), FALSE, s)
      BY <2>1, <2>5 DEF Agree
    <2> QED
      BY <1>7, <2>3, <2>6
  <1>9. ASSUME size # 0, b < size, e \/ b + 1 \notin upload[i].esc
        PROVE  /\ st.escaped \in BOOLEAN /\ SinkType(st.sink)
               /\ Agree(place, c + st.sink.out, Tail(w), st.escaped, st.sink)
    <2>1. PICK y \in Bytes : y = w[1] /\ (~(b + 1 \in upload[i].esc) => y = Byte(i, b + 1, FALSE) /\ y.k # "esc")
      <3>1. b + 1 \in Nat
        BY <1>6
      <3>2. Byte(i, b + 1, TRUE) \in Bytes /\ Byte(i, b + 1, FALSE) \in Bytes /\ Byte(i, b + 1, FALSE).k # "esc"
        BY <1>6, <3>1, FileBytes
      <3>3. /\ b + 1 \in upload[i].esc => w[1] = Byte(i, b + 1, TRUE)
            /\ ~(b + 1 \in upload[i].esc) => w[1] = Byte(i, b + 1, FALSE)
        BY <1>5, <1>9 DEF Byte
      <3> QED
        BY <3>2, <3>3
    <2>2. PICK t : t = _feed(s, y)
      OBVIOUS
    <2>3. st = [escaped |-> FALSE, sink |-> t]
      <3>1. Key([escaped |-> e, sink |-> s], y) = [escaped |-> FALSE, sink |-> _feed(s, y)]
        BY <1>9, <2>1, OneKey
      <3> QED
        BY <2>1, <2>2, <3>1
    <2>4. ByteMakes(s, y, t) /\ s.phase = "data"
      BY <1>4, <1>9, <2>2, DataRead
    <2>5. SinkType(t) /\ t.buf = <<>> /\ s.remaining \in Nat \ {0}
      BY <2>4 DEF ByteMakes, SinkType
    <2>6. ASSUME ~Swallowed
          PROVE  /\ s.remaining = size - b
                 /\ IF b + 1 < size THEN Tracks(t, i - 1, b + 1) ELSE Tracks(t, i, 0)
      <3>1. ~(b + 1 \in upload[i].esc) /\ ~e
        BY <1>2, <1>4, <1>9, <2>6 DEF Swallowed
      <3>2. t = _feed(s, Byte(i, b + 1, FALSE))
        BY <2>1, <2>2, <3>1
      <3>3. s.remaining = size - b /\ Tracks(s, i - 1, b)
        BY <1>4, <1>9, <2>6
      <3>4. IF b + 1 < upload[i].size THEN Tracks(t, i - 1, b + 1) ELSE Tracks(t, i, 0)
        BY <1>2, <1>3, <1>6, <1>9, <2>4, <2>6, <3>2, <3>3, ByteTracked
      <3> QED
        BY <1>3, <3>3, <3>4
    <2>7. CASE s.remaining > 1
      <3>1. t.phase = "data" /\ t.remaining = s.remaining - 1 /\ c + t.out = 0
        BY <1>1, <2>4, <2>7 DEF ByteMakes
      <3>2. b + 1 \in 0 .. size /\ t.remaining >= size - (b + 1)
        BY <1>4, <1>9, <2>5, <3>1
      <3>3. ~Swallowed => t.remaining = size - (b + 1) /\ Tracks(t, i - 1, b + 1)
        BY <1>6, <2>6, <2>7, <3>1
      <3>4. Tracks(t, i - 1, b + 1)
        BY <3>3 DEF Tracks
      <3>5. BodySent(place, c + t.out, Tail(w), FALSE, t)
        BY <1>1, <1>2, <1>3, <1>5, <1>9, <3>1, <3>2, <3>3, <3>4 DEF BodySent
      <3>6. Agree(place, c + t.out, Tail(w), FALSE, t)
        BY <3>5 DEF Agree
      <3> QED
        BY <1>7, <2>3, <2>5, <3>6
    <2>8. CASE ~(s.remaining > 1)
      <3>1. t.phase = "control" /\ t.out = s.out + 1
        BY <2>4, <2>8 DEF ByteMakes
      <3>2. c + t.out = 1
        BY <1>1, <2>5, <3>1 DEF SinkType
      <3>3. b + 1 = size
        BY <1>4, <1>9, <2>5, <2>8
      <3>4. Tail(w) = <<NUL>>
        <4>1. b + 1 \in 0 .. upload[i].size
          BY <1>3, <3>3
        <4>2. Rest(i, b + 1) = <<NUL>>
          BY <1>2, <1>3, <3>3, <4>1, RestBytes
        <4> QED
          BY <1>5, <1>9, <4>2
      <3>5. Tracks(t, i, 0)
        <4>1. ~Swallowed => Tracks(t, i, 0)
          BY <2>6, <3>3
        <4> QED
          BY <4>1 DEF Tracks
      <3>6. Answered(place, c + t.out, Tail(w), FALSE, t)
        BY <1>1, <1>2, <1>6, <2>5, <3>1, <3>2, <3>4, <3>5 DEF Answered, Idle
      <3>7. Agree(place, c + t.out, Tail(w), FALSE, t)
        BY <3>6 DEF Agree
      <3> QED
        BY <1>7, <2>3, <2>5, <3>7
    <2> QED
      BY <2>7, <2>8
  <1>10. ASSUME size # 0, b < size, ~e, b + 1 \in upload[i].esc
         PROVE  /\ st.escaped \in BOOLEAN /\ SinkType(st.sink)
                /\ Agree(place, c + st.sink.out, Tail(w), st.escaped, st.sink)
    <2>1. w[1].k = "esc"
      BY <1>5, <1>10 DEF Byte
    <2>2. st = [escaped |-> TRUE, sink |-> s]
      BY <1>10, <2>1, OneKey
    <2>3. st.escaped = TRUE /\ st.sink = s
      BY <2>2
    <2>4. Swallowed
      BY <1>2, <1>10 DEF Swallowed
    <2>5. Tracks(s, i - 1, b + 1)
      BY <2>4 DEF Tracks
    <2>6. b + 1 \in 0 .. size /\ s.phase = "data" /\ s.remaining > size - (b + 1)
      <3>1. s.remaining \in Nat
        BY DEF SinkType
      <3> QED
        BY <1>4, <1>10, <3>1
    <2>7. BodySent(place, c + s.out, Tail(w), TRUE, s)
      <3>1. s.remaining >= size - (b + 1)
        BY <2>6 DEF SinkType
      <3> QED
        BY <1>1, <1>2, <1>3, <1>5, <1>10, <2>4, <2>5, <2>6, <3>1 DEF BodySent
    <2>8. Agree(place, c + s.out, Tail(w), TRUE, s)
      BY <2>7 DEF Agree
    <2> QED
      BY <2>3, <2>8
  <1>11. ASSUME size # 0, b = size
         PROVE  /\ st.escaped \in BOOLEAN /\ SinkType(st.sink)
                /\ Agree(place, c + st.sink.out, Tail(w), st.escaped, st.sink)
    <2>1. w[1] = NUL /\ Tail(w) = <<>> /\ s.phase = "data"
      <3>1. b = size /\ size # 0
        BY <1>11
      <3> QED
        BY <1>4, <1>5, <3>1
    <2>2. PICK t : t = _feed(s, NUL)
      OBVIOUS
    <2>3. st = [escaped |-> FALSE, sink |-> t]
      <3>1. Key([escaped |-> e, sink |-> s], NUL) = [escaped |-> FALSE, sink |-> _feed(s, NUL)]
        BY <1>6, OneKey
      <3> QED
        BY <2>1, <2>2, <3>1
    <2>4. ByteMakes(s, NUL, t)
      BY <1>6, <2>1, <2>2, DataRead
    <2>5. SinkType(t) /\ t.buf = <<>> /\ s.remaining \in Nat \ {0}
      BY <2>1, <2>4 DEF ByteMakes, SinkType
    <2>6. Swallowed
      BY <1>4, <1>11, <2>5
    <2>7. CASE s.remaining > 1
      <3>1. c + t.out = 0
        BY <1>1, <2>4, <2>7 DEF ByteMakes
      <3>2. Stuck(place, c + t.out, <<>>, FALSE, t)
        BY <1>1, <2>6, <3>1 DEF Stuck
      <3>3. Agree(place, c + t.out, Tail(w), FALSE, t)
        BY <2>1, <3>2 DEF Agree
      <3> QED
        BY <1>7, <2>3, <2>5, <3>3
    <2>8. CASE ~(s.remaining > 1)
      <3>1. t.phase = "control" /\ t.out = s.out + 1
        BY <2>4, <2>8 DEF ByteMakes
      <3>2. c + t.out = 1
        BY <1>1, <3>1 DEF SinkType
      <3>3. Tracks(t, place.i - 1, 0)
        BY <2>6 DEF Tracks
      <3>4. Answered(place, c + t.out, <<>>, FALSE, t)
        BY <1>1, <2>5, <3>1, <3>2, <3>3 DEF Answered, Idle
      <3>5. Agree(place, c + t.out, Tail(w), FALSE, t)
        BY <2>1, <3>4 DEF Agree
      <3> QED
        BY <1>7, <2>3, <2>5, <3>5
    <2> QED
      BY <2>7, <2>8
  <1>12. b < size \/ b = size
    OBVIOUS
  <1> QED
    BY <1>8, <1>9, <1>10, <1>11, <1>12

\* The terminal and its sink are where a sender that had c answers takes them to
\* be.
Keeps(place, c, w, state) ==
    /\ state.escaped \in BOOLEAN /\ SinkType(state.sink)
    /\ state = [escaped |-> state.escaped, sink |-> state.sink]
    /\ Agree(place, c + state.sink.out, w, state.escaped, state.sink)

\* And so they are after a key.
LEMMA KeyAgrees ==
    ASSUME ScpAssumption, upload \in Seq(Record), \A n \in 0 .. Len(upload) : Amount(upload)[n].depth >= 0,
           NEW place, NEW c \in Nat, NEW w, w # <<>>, NEW state, Keeps(place, c, w, state)
    PROVE  Keeps(place, c, Tail(w), Key(state, w[1]))
  <1>1. PICK e \in BOOLEAN : \E s : /\ state = [escaped |-> e, sink |-> s] /\ SinkType(s)
                                    /\ Agree(place, c + s.out, w, e, s)
    BY DEF Keeps
  <1> PICK s : /\ state = [escaped |-> e, sink |-> s] /\ SinkType(s)
               /\ Agree(place, c + s.out, w, e, s)
    BY <1>1
  <1> PICK st : st = Key([escaped |-> e, sink |-> s], w[1])
    OBVIOUS
  <1> SUFFICES /\ st.escaped \in BOOLEAN /\ SinkType(st.sink) /\ st = [escaped |-> st.escaped, sink |-> st.sink]
               /\ Agree(place, c + st.sink.out, Tail(w), st.escaped, st.sink)
    BY DEF Keeps
  <1>2. st = [escaped |-> st.escaped, sink |-> st.sink]
    <2>1. st = [escaped |-> FALSE, sink |-> _feed(s, w[1])] \/ st = [escaped |-> TRUE, sink |-> s]
      <3>1. PICK b : b = w[1]
        OBVIOUS
      <3>2. CASE e \/ b.k # "esc"
        <4>1. Key([escaped |-> e, sink |-> s], b) = [escaped |-> FALSE, sink |-> _feed(s, b)]
          BY <3>2, OneKey
        <4> QED
          BY <3>1, <4>1
      <3>3. CASE ~e /\ b.k = "esc"
        <4>1. Key([escaped |-> e, sink |-> s], b) = [escaped |-> TRUE, sink |-> s]
          BY <3>3, OneKey
        <4> QED
          BY <3>1, <4>1
      <3> QED
        BY <3>2, <3>3
    <2> QED
      BY <2>1
  <1>3. CASE Answered(place, c + s.out, w, e, s)
    <2>1. /\ st.escaped = FALSE /\ SinkType(st.sink)
          /\ Agree(place, c + st.sink.out, Tail(w), FALSE, st.sink)
      BY <1>3, KeyAfterBody
    <2> QED
      BY <1>2, <2>1
  <1>4. CASE LineSent(place, c + s.out, w, e, s)
    <2>1. /\ st.escaped = FALSE /\ SinkType(st.sink)
          /\ Agree(place, c + st.sink.out, Tail(w), FALSE, st.sink)
      BY <1>4, KeyOfLine
    <2> QED
      BY <1>2, <2>1
  <1>5. CASE BodySent(place, c + s.out, w, e, s)
    BY <1>2, <1>5, KeyOfBody
  <1>6. ~Stuck(place, c + s.out, w, e, s)
    BY DEF Stuck
  <1> QED
    BY <1>3, <1>4, <1>5, <1>6 DEF Agree

\* Answers that were counted before are none of this packet's.
LEMMA NoneCounted ==
    ASSUME NEW place, NEW a, NEW w, NEW e, NEW s, SinkType(s), Agree(place, a, w, e, s),
           NEW t, t = [s EXCEPT !.out = 0]
    PROVE  SinkType(t) /\ t.out = 0 /\ Agree(place, a, w, e, t)
  <1>1. /\ t.phase = s.phase /\ t.buf = s.buf /\ t.remaining = s.remaining /\ t.cur = s.cur
        /\ t.dirs = s.dirs /\ t.files = s.files /\ t.total = s.total /\ t.out = 0
    BY DEF SinkType
  <1>2. SinkType(t)
    BY DEF SinkType
  <1>3. \A n, b : Tracks(s, n, b) => Tracks(t, n, b)
    BY <1>1 DEF Tracks
  <1>4. Idle(s) => Idle(t)
    BY <1>1 DEF Idle
  <1>5. Answered(place, a, w, e, s) => Answered(place, a, w, e, t)
    BY <1>1, <1>3, <1>4 DEF Answered
  <1>6. LineSent(place, a, w, e, s) => LineSent(place, a, w, e, t)
    BY <1>1, <1>3 DEF LineSent
  <1>7. BodySent(place, a, w, e, s) => BodySent(place, a, w, e, t)
    BY <1>1, <1>3, <1>4 DEF BodySent
  <1>8. Stuck(place, a, w, e, s) => Stuck(place, a, w, e, t)
    BY <1>3, <1>4 DEF Stuck
  <1> QED
    BY <1>1, <1>2, <1>5, <1>6, <1>7, <1>8 DEF Agree

LEMMA KeysAgree ==
    ASSUME ScpAssumption, upload \in Seq(Record), \A n \in 0 .. Len(upload) : Amount(upload)[n].depth >= 0,
           acks \in Nat, wire \in Seq(Bytes), escaped \in BOOLEAN, SinkType(sink),
           Agree(plan, acks, wire, escaped, sink),
           NEW n \in 0 .. Len(wire), NEW st, st = Keys(SubSeq(wire, 1, n))
    PROVE  /\ st.escaped \in BOOLEAN /\ SinkType(st.sink)
           /\ Agree(plan, acks + st.sink.out, SubSeq(wire, n + 1, Len(wire)), st.escaped, st.sink)
  <1> DEFINE p == SubSeq(wire, 1, n)
             start == [escaped |-> escaped, sink |-> [sink EXCEPT !.out = 0]]
             Rec(m, g) == g = [i \in 0 .. m |-> IF i = 0 THEN start ELSE Key(g[i - 1], p[i])]
             T == {m \in 0 .. n : \E g : Rec(m, g)}
             w(m) == SubSeq(wire, m + 1, Len(wire))
             Good(m, z) == Keeps(plan, acks, w(m), z)
  <1>1. n \in Nat /\ Len(p) = n /\ \A i \in 1 .. n : p[i] = wire[i]
    OBVIOUS
  <1>2. \E g : Rec(n, g)
    <2>1. \E g : Rec(0, g)
      <3>1. Rec(0, [i \in 0 .. 0 |-> start])
        OBVIOUS
      <3> QED
        BY <3>1
    <2>2. 0 \in T
      BY <2>1
    <2>3. ASSUME NEW m \in 0 .. n - 1, m \in T
          PROVE  m + 1 \in T
      <3>1. PICK g : Rec(m, g)
        BY <2>3
      <3> DEFINE h == [i \in 0 .. m + 1 |-> IF i = m + 1 THEN Key(g[m], p[m + 1]) ELSE g[i]]
      <3>2. ASSUME NEW i \in 0 .. m + 1
            PROVE  h[i] = IF i = 0 THEN start ELSE Key(h[i - 1], p[i])
        <4> HIDE DEF p, start
        <4>1. \A j \in 0 .. m : g[j] = IF j = 0 THEN start ELSE Key(g[j - 1], p[j])
          BY <3>1
        <4>2. CASE i = m + 1
          <5>1. i # 0 /\ i - 1 = m /\ m \in 0 .. m + 1 /\ m # m + 1
            BY <1>1, <4>2
          <5>2. h[i] = Key(g[m], p[m + 1]) /\ h[m] = g[m]
            BY <4>2, <5>1
          <5> QED
            BY <4>2, <5>1, <5>2
        <4>3. CASE i \in 0 .. m
          <5>1. i # m + 1 /\ (i # 0 => i - 1 \in 0 .. m + 1 /\ i - 1 # m + 1)
            BY <1>1, <4>3
          <5>2. h[i] = g[i] /\ (i # 0 => h[i - 1] = g[i - 1])
            BY <5>1
          <5> QED
            BY <4>1, <4>3, <5>2
        <4> QED
          BY <1>1, <4>2, <4>3
      <3>3. Rec(m + 1, h)
        BY <3>2
      <3>4. m + 1 \in 0 .. n
        OBVIOUS
      <3> HIDE DEF h
      <3> QED
        BY <3>3, <3>4
    <2>4. \A m \in 0 .. n : m \in T
      <3> HIDE DEF T
      <3> QED
        BY <1>1, <2>2, <2>3, CountUp
    <2>5. n \in T
      <3> HIDE DEF T
      <3> QED
        BY <1>1, <2>4
    <2> HIDE DEF Rec
    <2> QED
      BY <2>5
  <1>3. PICK g : Rec(n, g) /\ Keys(p) = g[n]
    <2> HIDE DEF p
    <2> QED
      BY <1>1, <1>2 DEF Keys
  <1>4. g[0] = start /\ \A m \in 0 .. n - 1 : g[m + 1] = Key(g[m], wire[m + 1])
    <2>1. \A i \in 0 .. n : g[i] = IF i = 0 THEN start ELSE Key(g[i - 1], p[i])
      <3> HIDE DEF p, start
      <3> QED
        BY <1>3
    <2>2. ASSUME NEW m \in 0 .. n - 1
          PROVE  g[m + 1] = Key(g[m], wire[m + 1])
      <3>1. m + 1 \in 0 .. n /\ m + 1 # 0 /\ m + 1 - 1 = m /\ p[m + 1] = wire[m + 1]
        BY <1>1
      <3> HIDE DEF p, start
      <3> QED
        BY <2>1, <3>1
    <2>3. 0 \in 0 .. n
      BY <1>1
    <2>4. g[0] = start
      <3> HIDE DEF p, start
      <3> QED
        BY <2>1, <2>3
    <2> QED
      BY <2>2, <2>4
  <1>5. Good(0, g[0])
    <2>1. PICK z : z = [sink EXCEPT !.out = 0]
      OBVIOUS
    <2>2. SinkType(z) /\ z.out = 0 /\ Agree(plan, acks, wire, escaped, z)
      BY <2>1, NoneCounted
    <2>3. g[0] = [escaped |-> escaped, sink |-> z]
      BY <1>4, <2>1
    <2>4. g[0].escaped = escaped /\ g[0].sink = z
      BY <2>3
    <2>5. w(0) = wire /\ acks + 0 = acks
      OBVIOUS
    <2> QED
      BY <2>2, <2>3, <2>4, <2>5 DEF Keeps
  <1>6. ASSUME NEW m \in 0 .. n - 1, Good(m, g[m])
        PROVE  Good(m + 1, g[m + 1])
    <2>1. w(m) # <<>> /\ w(m)[1] = wire[m + 1] /\ Tail(w(m)) = w(m + 1)
      <3>1. m \in Nat /\ m < Len(wire)
        BY <1>1
      <3>2. w(m) \in Seq(Bytes) /\ Len(w(m)) = Len(wire) - m /\ \A x \in 1 .. Len(wire) - m : w(m)[x] = wire[m + x]
        BY <3>1
      <3>3. w(m + 1) \in Seq(Bytes) /\ Len(w(m + 1)) = Len(wire) - (m + 1) /\ \A x \in 1 .. Len(wire) - (m + 1) : w(m + 1)[x] = wire[(m + 1) + x]
        BY <3>1
      <3> HIDE DEF w
      <3>4. w(m) # <<>> /\ w(m)[1] = wire[m + 1]
        BY <3>1, <3>2
      <3>5. Tail(w(m)) \in Seq(Bytes) /\ Len(Tail(w(m))) = Len(wire) - (m + 1)
        BY <3>1, <3>2, <3>4
      <3>6. ASSUME NEW x \in 1 .. Len(wire) - (m + 1)
            PROVE  Tail(w(m))[x] = w(m + 1)[x]
        <4>1. x + 1 \in 1 .. Len(wire) - m /\ m + (x + 1) = (m + 1) + x
          BY <3>1
        <4>2. Tail(w(m))[x] = w(m)[x + 1]
          BY <3>2, <3>4, <3>5, <4>1
        <4> QED
          BY <3>2, <3>3, <4>1, <4>2
      <3>7. PICK q, v \in Seq(Bytes) : q = Tail(w(m)) /\ v = w(m + 1)
        BY <3>3, <3>5
      <3>8. Len(q) = Len(v) /\ \A x \in 1 .. Len(v) : q[x] = v[x]
        BY <3>3, <3>5, <3>6, <3>7
      <3>9. q = v
        BY <3>8
      <3> QED
        BY <3>4, <3>7, <3>9
    <2>2. g[m + 1] = Key(g[m], w(m)[1])
      BY <1>4, <2>1
    <2> HIDE DEF w
    <2>3. Keeps(plan, acks, w(m), g[m])
      BY <1>6
    <2>4. Keeps(plan, acks, Tail(w(m)), Key(g[m], w(m)[1]))
      BY <2>1, <2>3, KeyAgrees
    <2> QED
      BY <2>1, <2>2, <2>4
  <1>7. Good(n, g[n])
    <2> DEFINE G == {m \in 0 .. n : Good(m, g[m])}
    <2>1. 0 \in G
      BY <1>1, <1>5
    <2>2. \A m \in 0 .. n - 1 : m \in G => m + 1 \in G
      <3> HIDE DEF Good
      <3> QED
        BY <1>1, <1>6
    <2>3. \A m \in 0 .. n : m \in G
      <3> HIDE DEF G
      <3> QED
        BY <1>1, <2>1, <2>2, CountUp
    <2>4. n \in 0 .. n
      BY <1>1
    <2> HIDE DEF Good
    <2> QED
      BY <2>3, <2>4
  <1> QED
    BY <1>3, <1>7 DEF Keeps

-----------------------------------------------------------------------------
(* The steps of a command *)

LEMMA Sound ==
    ASSUME ScpAssumption, upload \in Uploads \cup {<<>>}
    PROVE  /\ upload \in Seq(Record) /\ \A n \in 0 .. Len(upload) : Amount(upload)[n].depth >= 0
           /\ Amount(upload)[Len(upload)].depth = 0
  <1>1. CASE upload \in Uploads
    BY <1>1 DEF ScpAssumption
  <1>2. CASE upload = <<>>
    <2>1. upload \in Seq(Record) /\ Len(upload) = 0
      BY <1>2
    <2>2. Amount(upload)[0] = Nothing
      BY <2>1, AmountRuns
    <2>3. Amount(upload)[0].depth = 0
      BY <2>2 DEF Nothing
    <2> QED
      BY <2>1, <2>3
  <1> QED
    BY <1>1, <1>2

\* What the sink has kept is what some records amount to.
LEMMA FilesKept ==
    ASSUME upload \in Seq(Record), NEW place, Placed(place), NEW a, NEW w, NEW e, NEW s,
           Agree(place, a, w, e, s), ~Swallowed
    PROVE  \E n \in 0 .. Len(upload) : s.files = Amount(upload)[n].files
  <1>1. \A n \in 0 .. Len(upload) : \A b : Tracks(s, n, b) => \E m \in 0 .. Len(upload) : s.files = Amount(upload)[m].files
    BY DEF Tracks
  <1>2. place.i \in 1 .. Len(upload) + 1 /\ (place.part = "body" => place.i \in DOMAIN upload)
    BY DEF Placed
  <1>3. \A i \in DOMAIN upload : i \in 0 .. Len(upload) /\ i - 1 \in 0 .. Len(upload)
    OBVIOUS
  <1>4. place.i - 1 \in 0 .. Len(upload)
    BY <1>2
  <1>5. \E n \in 0 .. Len(upload) : \E b : Tracks(s, n, b)
    <2>1. CASE Answered(place, a, w, e, s)
      <3>1. Tracks(s, place.i - 1, 0) \/ (place.i \in DOMAIN upload /\ Tracks(s, place.i, 0))
        BY <1>2, <2>1 DEF Answered, Placed
      <3> QED
        BY <1>3, <1>4, <3>1
    <2>2. CASE LineSent(place, a, w, e, s)
      BY <1>3, <2>2 DEF LineSent
    <2>3. CASE BodySent(place, a, w, e, s)
      <3>1. \E i \in DOMAIN upload : \E b : Tracks(s, i, 0) \/ Tracks(s, i - 1, b)
        BY <2>3 DEF BodySent
      <3> QED
        BY <1>3, <3>1
    <2>4. CASE Stuck(place, a, w, e, s)
      BY <1>4, <2>4 DEF Stuck
    <2> QED
      BY <2>1, <2>2, <2>3, <2>4 DEF Agree
  <1> QED
    BY <1>1, <1>5

LEMMA BurstType ==
    ASSUME upload \in Seq(Record), Placed(plan), ~AllSent, wire \in Seq(Bytes)
    PROVE  Placed(After(plan)) /\ wire \o Burst(plan) \in Seq(Bytes)
  <1>1. PICK i \in DOMAIN upload : plan.i = i /\ plan = [i |-> i, part |-> plan.part]
    BY DEF Placed, AllSent
  <1>2. PICK r \in Record : r = upload[i]
    OBVIOUS
  <1>3. i \in Nat /\ i + 1 \in 1 .. Len(upload) + 1 /\ i \in 1 .. Len(upload) + 1
    OBVIOUS
  <1>4. CASE plan.part = "line"
    <2>1. plan = [i |-> i, part |-> "line"]
      BY <1>1, <1>4
    <2>2. After(plan) = IF r.k = "C" THEN [i |-> i, part |-> "body"] ELSE [i |-> i + 1, part |-> "line"]
      BY <1>2, <2>1 DEF After
    <2>3. Placed(After(plan))
      BY <1>2, <1>3, <2>2 DEF Placed
    <2>4. Burst(plan) = <<r, LF>> /\ r \in Bytes /\ LF \in Bytes
      BY <1>2, <2>1, Records DEF Burst, Bytes
    <2> QED
      BY <2>3, <2>4
  <1>5. CASE plan.part = "body"
    <2>1. plan = [i |-> i, part |-> "body"] /\ r.k = "C" /\ r.size \in Nat
      BY <1>1, <1>2, <1>5, Records DEF Placed
    <2>2. After(plan) = [i |-> i + 1, part |-> "line"]
      BY <2>1 DEF After
    <2>3. Placed(After(plan))
      BY <1>3, <2>2 DEF Placed
    <2>4. 0 \in 0 .. upload[i].size
      BY <1>2, <2>1
    <2>5. Burst(plan) \in Seq(Bytes)
      BY <1>2, <2>1, <2>4, BodyBurst, RestBytes
    <2> QED
      BY <2>3, <2>5
  <1>6. plan.part \in {"line", "body"}
    BY DEF Placed
  <1> QED
    BY <1>4, <1>5, <1>6

LEMMA Joined ==
    ASSUME NEW S, NEW x \in S, NEW y \in S, NEW z \in S
    PROVE  <<x>> \o <<y, z>> = <<x, y, z>>
  <1>1. PICK p, q, t : p = <<x>> /\ q = <<y, z>> /\ t = <<x, y, z>>
    OBVIOUS
  <1>2. /\ p \in Seq(S) /\ Len(p) = 1 /\ p[1] = x
        /\ q \in Seq(S) /\ Len(q) = 2 /\ q[1] = y /\ q[2] = z
        /\ t \in Seq(S) /\ Len(t) = 3 /\ t[1] = x /\ t[2] = y /\ t[3] = z
    BY <1>1
  <1>3. /\ p \o q \in Seq(S) /\ Len(p \o q) = Len(p) + Len(q)
        /\ \A i \in 1 .. Len(p) + Len(q) : (p \o q)[i] = IF i <= Len(p) THEN p[i] ELSE q[i - Len(p)]
    <2>1. \A u, v \in Seq(S) : u \o v \in Seq(S) /\ Len(u \o v) = Len(u) + Len(v)
      OBVIOUS
    <2>2. \A u, v \in Seq(S) : \A i \in 1 .. Len(u) + Len(v) :
             (u \o v)[i] = IF i <= Len(u) THEN u[i] ELSE v[i - Len(u)]
      OBVIOUS
    <2>3. p \in Seq(S) /\ q \in Seq(S)
      BY <1>2
    <2> QED
      BY <2>1, <2>2, <2>3
  <1>4. \A i \in 1 .. 3 : i = 1 \/ i = 2 \/ i = 3
    OBVIOUS
  <1>5. Len(p \o q) = 3 /\ (p \o q)[1] = x /\ (p \o q)[2] = y /\ (p \o q)[3] = z
    BY <1>2, <1>3
  <1>6. \A i \in 1 .. 3 : (p \o q)[i] = t[i]
    BY <1>2, <1>4, <1>5
  <1>7. p \o q = t
    BY <1>2, <1>3, <1>5, <1>6
  <1> QED
    BY <1>1, <1>7
\* A burst is sent.
LEMMA BurstAgrees ==
    ASSUME upload \in Seq(Record), Placed(plan), ~AllSent, wire \in Seq(Bytes),
           Agree(plan, 1, wire, escaped, sink)
    PROVE  Agree(After(plan), 0, wire \o Burst(plan), escaped, sink)
  <1>1. Answered(plan, 1, wire, escaped, sink)
    BY DEF Agree, LineSent, BodySent, Stuck
  <1>2. PICK i \in DOMAIN upload : plan.i = i /\ plan = [i |-> i, part |-> plan.part]
    BY DEF Placed, AllSent
  <1>3. PICK r \in Record : r = upload[i]
    OBVIOUS
  <1>4. i \in Nat /\ i + 1 \in 1 .. Len(upload) + 1 /\ i \in 1 .. Len(upload) + 1 /\ i + 1 - 1 = i
    OBVIOUS
  <1>5. CASE plan.part = "line"
    <2>1. plan = [i |-> i, part |-> "line"]
      BY <1>2, <1>5
    <2>3. Burst(plan) = <<r, LF>> /\ wire \in {<<>>, <<NUL>>}
      BY <1>1, <1>3, <1>5, <2>1 DEF Burst, Answered
    <2>4. PICK w : w = wire \o Burst(plan)
      OBVIOUS
    <2>5. r \in Bytes /\ NUL \in Bytes /\ LF \in Bytes
      BY Records DEF Bytes
    <2>6. w \in {<<r, LF>>, <<NUL, r, LF>>} 
      <3>1. CASE wire = <<>>
        <4>1. w = <<r, LF>>
          BY <2>3, <2>4, <2>5, <3>1
        <4> QED
          BY <4>1
      <3>2. CASE wire = <<NUL>>
        <4>1. w = <<NUL, r, LF>>
          BY <2>3, <2>4, <2>5, <3>2, Joined
        <4> QED
          BY <4>1
      <3> QED
        BY <2>3, <3>1, <3>2
    <2>7. LineSent(After(plan), 0, w, escaped, sink)
      <3>1. ~escaped /\ Idle(sink) /\ Tracks(sink, i - 1, 0)
        BY <1>1, <1>2, <1>5 DEF Answered
      <3> QED
        BY <1>3, <2>1, <2>6, <3>1 DEF LineSent, Idle
    <2>8. Agree(After(plan), 0, w, escaped, sink)
      BY <2>7 DEF Agree
    <2> QED
      BY <2>4, <2>8
  <1>6. CASE plan.part = "body"
    <2>1. plan = [i |-> i, part |-> "body"] /\ r.k = "C" /\ r.size \in Nat
      BY <1>2, <1>3, <1>6, Records DEF Placed
    <2>2. After(plan) = [i |-> i + 1, part |-> "line"]
      BY <2>1 DEF After
    <2>4. 0 \in 0 .. upload[i].size
      BY <1>3, <2>1
    <2>5. wire \o Burst(plan) = Rest(i, 0) /\ Rest(i, 0) \in Seq(Bytes)
      <3>1. Burst(plan) = Rest(i, 0) /\ Rest(i, 0) \in Seq(Bytes)
        BY <1>3, <2>1, <2>4, BodyBurst, RestBytes
      <3>2. wire = <<>>
        BY <1>1, <1>6 DEF Answered
      <3> QED
        BY <3>1, <3>2
    <2>6. BodySent(After(plan), 0, Rest(i, 0), escaped, sink)
      <3>1. CASE r.size = 0
        <4>1. ~escaped /\ Idle(sink) /\ Tracks(sink, i, 0)
          BY <1>1, <1>2, <1>3, <1>6, <3>1 DEF Answered
        <4> QED
          BY <1>3, <2>1, <2>2, <2>4, <3>1, <4>1 DEF BodySent
      <3>2. CASE r.size # 0
        <4>1. ~escaped /\ sink.phase = "data" /\ sink.remaining = r.size /\ Tracks(sink, i - 1, 0)
          BY <1>1, <1>2, <1>3, <1>6, <3>2 DEF Answered
        <4>2. sink.remaining = r.size - 0 /\ sink.remaining >= r.size - 0
          BY <2>1, <4>1
        <4>3. \E b \in 0 .. upload[i].size :
                 /\ Rest(i, 0) = Rest(i, b)
                 /\ IF upload[i].size = 0 THEN ~escaped /\ Idle(sink) /\ Tracks(sink, i, 0)
                    ELSE /\ sink.phase = "data" /\ sink.remaining >= upload[i].size - b
                         /\ escaped => Swallowed /\ sink.remaining > upload[i].size - b
                         /\ ~Swallowed => sink.remaining = upload[i].size - b
                         /\ Tracks(sink, i - 1, b)
          BY <1>3, <2>4, <3>2, <4>1, <4>2
        <4> QED
          BY <1>3, <2>1, <2>2, <4>3 DEF BodySent
      <3> QED
        BY <3>1, <3>2
    <2>7. Agree(After(plan), 0, Rest(i, 0), escaped, sink)
      BY <2>6 DEF Agree
    <2> QED
      BY <2>5, <2>7
  <1>7. plan.part \in {"line", "body"}
    BY DEF Placed
  <1> QED
    BY <1>5, <1>6, <1>7

\* What an upload is, and what the bytes on their way mean, are the same after a
\* step that keeps the upload.
LEMMA SameUpload ==
    ASSUME upload' = upload
    PROVE  /\ \A place, a, w, e, s : Agree(place, a, w, e, s) => Agree(place, a, w, e, s)'
           /\ \A place : Placed(place) => Placed(place)'
           /\ Swallowed' <=> Swallowed
           /\ Len(upload') = Len(upload)
  <1>1. (Swallowed' <=> Swallowed) /\ (HasEmpty' <=> HasEmpty)
    BY DEF Swallowed, HasEmpty
  <1>2. \A s, n, b : Tracks(s, n, b)' <=> Tracks(s, n, b)
    BY <1>1 DEF Tracks
  <1>3. \A i, b : Rest(i, b)' = Rest(i, b)
    BY DEF Rest
  <1>4. \A place : After(place)' = After(place)
    BY DEF After
  <1>5. \A place, a, w, e, s : Answered(place, a, w, e, s) => Answered(place, a, w, e, s)'
    BY <1>2 DEF Answered
  <1>6. \A place, a, w, e, s : LineSent(place, a, w, e, s) => LineSent(place, a, w, e, s)'
    BY <1>2, <1>4 DEF LineSent
  <1>7. \A place, a, w, e, s : BodySent(place, a, w, e, s) => BodySent(place, a, w, e, s)'
    BY <1>1, <1>2, <1>3 DEF BodySent
  <1>8. \A place, a, w, e, s : Stuck(place, a, w, e, s) => Stuck(place, a, w, e, s)'
    BY <1>1, <1>2 DEF Stuck
  <1>9. \A place, a, w, e, s : Agree(place, a, w, e, s) => Agree(place, a, w, e, s)'
    BY <1>5, <1>6, <1>7, <1>8 DEF Agree
  <1>10. \A place : Placed(place) => Placed(place)'
    BY DEF Placed
  <1> QED
    BY <1>1, <1>9, <1>10

\* A step that neither moves a byte nor keeps a file.
LEMMA ScpQuiet ==
    ASSUME ScpIInv,
           UNCHANGED <<execcmd, upload, plan, wire, acks, received, escaped, sink, stored, finalized>>,
           channel' \in {"open", "closing", "closed"}, channel # "open" => channel' # "open",
           eof = "read" => eof' = "read", channel' = "closed" => ~timer'
    PROVE  ScpIInv'
  <1>1. Agree(plan, acks, wire, escaped, sink) => Agree(plan, acks, wire, escaped, sink)'
    BY SameUpload
  <1>2. Placed(plan)' /\ (Swallowed' <=> Swallowed) /\ (Over' <=> Over)
    BY SameUpload DEF ScpIInv, Over
  <1> QED
    BY <1>1, <1>2 DEF ScpIInv

LEMMA SenderSendsInv ==
    ASSUME ScpAssumption, ScpIInv, SenderSends
    PROVE  ScpIInv'
  <1>1. /\ upload' = upload /\ acks = 1 /\ acks' = 0 /\ ~AllSent /\ eof = "no" /\ eof' = eof
        /\ wire' = wire \o Burst(plan) /\ plan' = After(plan)
        /\ UNCHANGED <<execcmd, received, escaped, sink, stored, finalized, timer, channel>>
    <2>1. acks \in 0 .. 1
      BY DEF ScpIInv
    <2> QED
      BY <2>1 DEF SenderSends
  <1>2. execcmd = "sink"
    BY <1>1 DEF ScpIInv
  <1>3. upload \in Seq(Record) /\ (Swallowed' <=> Swallowed) /\ (Over' <=> Over)
    BY <1>1, Sound, SameUpload DEF ScpIInv, Over
  <1>4. Placed(After(plan)) /\ wire' \in Seq(Bytes)
    BY <1>1, <1>3, BurstType DEF ScpIInv
  <1>5. Placed(plan)'
    BY <1>1, <1>4, SameUpload
  <1>6. ~Over => Agree(plan, acks, wire, escaped, sink)'
    <2>1. SUFFICES ASSUME ~Over PROVE Agree(plan, acks, wire, escaped, sink)'
      OBVIOUS
    <2>2. Agree(plan, 1, wire, escaped, sink)
      BY <1>1, <1>2, <2>1 DEF ScpIInv
    <2>3. Agree(After(plan), 0, wire \o Burst(plan), escaped, sink)
      BY <1>1, <1>3, <2>2, BurstAgrees DEF ScpIInv
    <2> QED
      BY <1>1, <2>3, SameUpload
  <1>7. eof # "read" => ~(finalized /\ ~Over)
    BY DEF ScpIInv
  <1> QED
    BY <1>1, <1>2, <1>3, <1>4, <1>5, <1>6, <1>7 DEF ScpIInv

\* The input is over: the files that were kept are persisted, once.
LEMMA FinalizeInv ==
    ASSUME ScpAssumption, ScpIInv, execcmd = "sink", _finalize_scp,
           UNCHANGED <<execcmd, upload, plan, acks, escaped, sink, timer>>, received' \in Nat,
           wire' \in Seq(Bytes),
           \/ received' = received /\ wire' = wire /\ wire = <<>> /\ eof = "sent" /\ eof' = "read"
           \/ received' >= received /\ Over' /\ eof' = eof
    PROVE  ScpIInv'
  <1>1. upload \in Seq(Record) /\ (Swallowed' <=> Swallowed) /\ Placed(plan)' /\ Len(upload') = Len(upload)
    BY Sound, SameUpload DEF ScpIInv
  <1>2. /\ finalized' /\ finalized' \in BOOLEAN
        /\ IF finalized THEN UNCHANGED <<stored, channel>>
           ELSE /\ stored' = stored \o sink.files
                /\ channel' = IF channel = "open" THEN "closing" ELSE channel
    BY DEF _finalize_scp, processEnded
  <1>3. channel' \in {"closing", "closed"} /\ (channel' = "closed" => ~timer')
    BY <1>2 DEF ScpIInv
  <1>4. ~finalized => stored' = sink.files /\ ~Over /\ Agree(plan, acks, wire, escaped, sink)
    <2>1. SUFFICES ASSUME ~finalized PROVE stored' = sink.files /\ ~Over /\ Agree(plan, acks, wire, escaped, sink)
      OBVIOUS
    <2>2. stored = <<>> /\ ~Over /\ Agree(plan, acks, wire, escaped, sink) /\ SinkType(sink)
      BY <2>1 DEF ScpIInv
    <2>3. sink.files \in Seq(Seq(Bytes))
      BY <2>2 DEF SinkType
    <2>4. stored' = <<>> \o sink.files
      BY <1>2, <2>1, <2>2
    <2> QED
      BY <2>2, <2>3, <2>4
  <1>5. ~Swallowed' => \E n \in 0 .. Len(upload') : stored' = Amount(upload')[n].files
    <2>1. CASE finalized
      BY <1>1, <1>2, <2>1 DEF ScpIInv
    <2>2. CASE ~finalized
      <3>1. ~Swallowed => \E n \in 0 .. Len(upload) : sink.files = Amount(upload)[n].files
        BY <1>1, <1>4, <2>2, FilesKept DEF ScpIInv
      <3> QED
        BY <1>1, <1>4, <2>2, <3>1
    <2> QED
      BY <2>1, <2>2
  <1>6. ~Over' => /\ eof' = "read" /\ wire' = <<>> /\ stored' = sink'.files
                  /\ Agree(plan, acks, wire, escaped, sink)'
    <2>1. SUFFICES ASSUME ~Over'
                   PROVE  /\ eof' = "read" /\ wire' = <<>> /\ stored' = sink'.files
                          /\ Agree(plan, acks, wire, escaped, sink)'
      OBVIOUS
    <2>2. /\ received' = received /\ wire' = wire /\ wire = <<>> /\ eof = "sent" /\ eof' = "read"
          /\ ~Over
      BY <2>1 DEF Over
    <2>3. ~finalized
      BY <2>2 DEF ScpIInv
    <2>4. stored' = sink'.files /\ Agree(plan, acks, wire, escaped, sink)
      BY <1>4, <2>3
    <2> QED
      BY <2>2, <2>4, SameUpload
  <1>7. SinkType(sink)' /\ acks' \in 0 .. 1 /\ escaped' \in BOOLEAN /\ upload' \in Uploads \cup {<<>>}
    BY DEF ScpIInv
  <1>8. finalized' = TRUE
    BY DEF _finalize_scp
  <1> HIDE DEF Over
  <1> QED
    BY <1>1, <1>2, <1>3, <1>5, <1>6, <1>7, <1>8 DEF ScpIInv

LEMMA DataReceivedInv ==
    ASSUME ScpAssumption, ScpIInv, NEW n \in 1 .. Len(wire), dataReceived(n)
    PROVE  ScpIInv'
  <1>1. /\ wire \in Seq(Bytes) /\ wire # <<>> /\ received \in Nat /\ n \in Nat /\ n \in 0 .. Len(wire)
        /\ acks \in Nat /\ DataLimit \in Nat
    BY DEF ScpIInv, ScpAssumption
  <1>2. execcmd = "sink"
    BY <1>1 DEF ScpIInv
  <1>3. /\ wire' = SubSeq(wire, n + 1, Len(wire)) /\ received' = received + n
        /\ UNCHANGED <<execcmd, upload, plan, eof, timer, asked>>
    BY DEF dataReceived
  <1>4. wire' \in Seq(Bytes) /\ received' \in Nat /\ received' >= received
    BY <1>1, <1>3
  <1>5. CASE DataLimit > 0 /\ received' > DataLimit
    <2>1. _finalize_scp /\ UNCHANGED <<escaped, sink, acks>>
      BY <1>2, <1>5 DEF dataReceived, End
    <2>2. Over'
      BY <1>5 DEF Over
    <2> QED
      BY <1>2, <1>3, <1>4, <2>1, <2>2, FinalizeInv
  <1>6. CASE ~(DataLimit > 0 /\ received' > DataLimit)
    <2>1. PICK r : r = Keys(SubSeq(wire, 1, n))
      OBVIOUS
    <2>2. /\ sink' = r.sink /\ escaped' = r.escaped /\ acks' = acks + r.sink.out
          /\ UNCHANGED <<stored, finalized, channel>>
      BY <1>6, <2>1 DEF dataReceived
    <2>3. ~Over /\ ~Over'
      BY <1>1, <1>4, <1>6 DEF Over
    <2>4. /\ Agree(plan, acks, wire, escaped, sink) /\ SinkType(sink) /\ escaped \in BOOLEAN
          /\ Placed(plan) /\ ~finalized /\ stored = <<>>
      BY <1>1, <1>2, <2>3 DEF ScpIInv
    <2>5. /\ upload \in Seq(Record) /\ \A m \in 0 .. Len(upload) : Amount(upload)[m].depth >= 0
          /\ (Swallowed' <=> Swallowed) /\ Placed(plan)'
      BY <1>3, <2>4, Sound, SameUpload DEF ScpIInv
    <2>6. /\ r.escaped \in BOOLEAN /\ SinkType(r.sink)
          /\ Agree(plan, acks + r.sink.out, SubSeq(wire, n + 1, Len(wire)), r.escaped, r.sink)
      BY <1>1, <2>1, <2>4, <2>5, KeysAgree
    <2>7. Agree(plan, acks', wire', escaped', sink')
      BY <1>3, <2>2, <2>6
    <2>8. Agree(plan, acks, wire, escaped, sink)'
      BY <1>3, <2>7, SameUpload
    <2>9. acks' \in 0 .. 1
      BY <2>7 DEF Agree, Answered, LineSent, BodySent, Stuck
    <2> QED
      BY <1>2, <1>3, <1>4, <2>2, <2>3, <2>4, <2>5, <2>6, <2>8, <2>9 DEF ScpIInv
  <1> QED
    BY <1>5, <1>6

LEMMA ExecNextInv ==
    ASSUME ScpAssumption, ScpIInv, ExecNext
    PROVE  ScpIInv'
  <1>1. CASE SenderEnds
    BY <1>1, ScpQuiet DEF SenderEnds, ScpIInv
  <1>2. CASE _handle_exec_response
    BY <1>2, ScpQuiet DEF _handle_exec_response, processEnded, ScpIInv
  <1>3. CASE timeoutConnection
    BY <1>3, ScpQuiet DEF timeoutConnection, processEnded, ScpIInv
  <1>4. CASE connectionLost
    BY <1>4, ScpQuiet DEF connectionLost, ScpIInv
  <1>5. CASE eofReceived
    <2>1. CASE execcmd = "sink"
      <3>1. _finalize_scp /\ received \in Nat /\ wire \in Seq(Bytes)
        BY <1>5, <2>1 DEF eofReceived, End, ScpIInv
      <3> QED
        BY <1>5, <2>1, <3>1, FinalizeInv DEF eofReceived
    <2>2. CASE execcmd # "sink"
      <3>1. processEnded /\ UNCHANGED <<stored, finalized>>
        BY <1>5, <2>2 DEF eofReceived, End
      <3> QED
        BY <1>5, <3>1, ScpQuiet DEF eofReceived, processEnded, ScpIInv
    <2> QED
      BY <2>1, <2>2
  <1> QED
    BY <1>1, <1>2, <1>3, <1>4, <1>5, SenderSendsInv, DataReceivedInv DEF ExecNext

LEMMA ScpInitInv ==
    ASSUME ScpAssumption, Init
    PROVE  ScpIInv
  <1>1. /\ upload \in Uploads \cup {<<>>} /\ plan = [i |-> 1, part |-> "line"] /\ wire = <<>>
        /\ received = 0 /\ escaped = FALSE /\ sink = NewSink /\ stored = <<>> /\ finalized = FALSE
        /\ execcmd \in {"sink", "source", "model"} /\ acks = IF execcmd = "sink" THEN 1 ELSE 0
        /\ channel \in {"open", "closing", "closed"} /\ (channel = "closed" => ~timer)
        /\ (execcmd # "sink" => upload = <<>>)
    BY DEF Init, ExecInit, NoExec
  <1>2. upload \in Seq(Record) /\ MaxBytes \in Nat /\ DataLimit \in Nat
    BY <1>1, Sound DEF ScpAssumption
  <1>3. Placed(plan)
    BY <1>1, <1>2 DEF Placed
  <1>4. SinkType(sink)
    BY <1>1, <1>2 DEF SinkType, NewSink
  <1>5. Amount(upload)[0] = Nothing
    BY <1>2, AmountRuns
  <1>6. Tracks(sink, 0, 0)
    <2>1. Capped(0) = 0 /\ 0 + 0 = 0
      BY <1>2 DEF Capped
    <2>2. Start(1, 0) = <<>>
      BY DEF Start
    <2>3. sink.files = <<>> /\ sink.dirs = <<>> /\ sink.total = 0 /\ sink.cur = <<>>
      BY <1>1 DEF NewSink
    <2>4. Nothing.files = <<>> /\ Nothing.depth = 0 /\ Nothing.bytes = 0
      BY DEF Nothing
    <2> QED
      BY <1>5, <2>1, <2>2, <2>3, <2>4 DEF Tracks
  <1>7. Answered(plan, 1, wire, escaped, sink)
    <2>1. sink.phase = "control" /\ sink.buf = <<>> /\ plan.part = "line" /\ plan.i - 1 = 0
      BY <1>1 DEF NewSink
    <2> QED
      BY <1>1, <1>6, <2>1 DEF Answered, Idle
  <1>8. stored = Amount(upload)[0].files /\ 0 \in 0 .. Len(upload)
    BY <1>1, <1>2, <1>5 DEF Nothing
  <1>9. ~Over
    BY <1>1, <1>2 DEF Over
  <1>10. execcmd = "sink" => Agree(plan, acks, wire, escaped, sink)
    BY <1>1, <1>7 DEF Agree
  <1>11. wire \in Seq(Bytes) /\ received \in Nat
    BY <1>1
  <1>12. escaped \in BOOLEAN
    BY <1>1
  <1>13. acks \in 0 .. 1
    BY <1>1
  <1>14. execcmd # "sink" => acks = 0 /\ wire = <<>>
    BY <1>1
  <1> QED
    BY <1>1, <1>3, <1>4, <1>8, <1>9, <1>10, <1>11, <1>12, <1>13, <1>14 DEF ScpIInv

LEMMA ScpIsCorrect ==
    ASSUME ScpAssumption, ScpIInv
    PROVE  ScpInv
  <1>1. /\ upload \in Seq(Record) /\ Amount(upload)[Len(upload)].depth = 0
        /\ \A n \in 0 .. Len(upload) :
              /\ Amount(upload)[n] \in [bytes : Nat, files : Seq(Seq(Bytes)), depth : Int]
              /\ IsPrefix(Amount(upload)[n].files, Wanted(upload))
    BY Sound, AmountType DEF ScpIInv, Wanted
  <1>2. ScpTypeOK
    BY DEF ScpTypeOK, ScpIInv, SinkType
  <1>3. SenderAnswered
    <2>1. SUFFICES ASSUME execcmd = "sink", channel = "open", eof = "no", wire = <<>>, acks = 0
                   PROVE  Swallowed \/ HasEmpty
      BY DEF SenderAnswered
    <2>2. Agree(plan, 0, <<>>, escaped, sink)
      BY <2>1 DEF ScpIInv
    <2>3. ~Answered(plan, 0, <<>>, escaped, sink) /\ ~LineSent(plan, 0, <<>>, escaped, sink)
      BY DEF Answered, LineSent
    <2>4. ~BodySent(plan, 0, <<>>, escaped, sink)
      <3>1. \A i \in DOMAIN upload : upload[i].k = "C" => \A b \in 0 .. upload[i].size : Rest(i, b) # <<>>
        BY <1>1, RestBytes
      <3> QED
        BY <3>1 DEF BodySent
    <2>5. Stuck(plan, 0, <<>>, escaped, sink)
      BY <2>2, <2>3, <2>4 DEF Agree
    <2> QED
      BY <2>5 DEF Stuck
  <1>4. UploadsWhole
    <2>1. SUFFICES ASSUME ~Swallowed
                   PROVE  /\ IsPrefix(stored, Wanted(upload))
                          /\ finalized /\ AllSent /\ wire = <<>> /\ (DataLimit = 0 \/ received <= DataLimit) =>
                                stored = Wanted(upload) /\ sink.dirs = <<>>
      BY DEF UploadsWhole
    <2>2. IsPrefix(stored, Wanted(upload))
      BY <1>1, <2>1 DEF ScpIInv
    <2>3. ASSUME finalized, AllSent, wire = <<>>, DataLimit = 0 \/ received <= DataLimit
          PROVE  stored = Wanted(upload) /\ sink.dirs = <<>>
      <3>1. received \in Nat /\ DataLimit \in Nat /\ SinkType(sink) /\ Placed(plan)
        BY DEF ScpIInv, ScpAssumption
      <3>2. ~Over
        BY <2>3, <3>1 DEF Over
      <3>3. execcmd = "sink" /\ stored = sink.files /\ Agree(plan, acks, wire, escaped, sink)
        BY <2>3, <3>2 DEF ScpIInv
      <3>4. plan.i = Len(upload) + 1 /\ plan.part = "line"
        BY <1>1, <2>3, <3>1 DEF AllSent, Placed
      <3>5. Tracks(sink, plan.i - 1, 0)
        <4>1. ~BodySent(plan, acks, wire, escaped, sink)
          <5>1. \A i \in DOMAIN upload : upload[i].k = "C" => \A b \in 0 .. upload[i].size : Rest(i, b) # <<>>
            BY <1>1, RestBytes
          <5> QED
            BY <2>3, <5>1 DEF BodySent
        <4>2. ~LineSent(plan, acks, wire, escaped, sink)
          BY <2>3 DEF LineSent
        <4> QED
          BY <2>1, <3>3, <3>4, <4>1, <4>2 DEF Agree, Answered, Stuck
      <3>6. plan.i - 1 = Len(upload)
        BY <1>1, <3>4
      <3>7. sink.files = Amount(upload)[Len(upload)].files /\ Len(sink.dirs) = 0
        BY <1>1, <2>1, <3>5, <3>6 DEF Tracks
      <3>8. sink.dirs \in Seq(Bytes)
        BY <3>1 DEF SinkType
      <3> QED
        BY <3>3, <3>7, <3>8 DEF Wanted
    <2> QED
      BY <2>2, <2>3
  <1> QED
    BY <1>2, <1>3, <1>4 DEF ScpInv

LEMMA ScpNextInv ==
    ASSUME ScpAssumption, ScpIInv, [Next]_<<vars, execVars>>
    PROVE  ScpIInv'
  <1>1. CASE ExecNext
    BY <1>1, ExecNextInv
  <1>2. CASE UNCHANGED execVars
    BY <1>2, ScpQuiet DEF execVars, ScpIInv
  <1> QED
    BY <1>1, <1>2 DEF Next

\* However the bytes of an upload are cut into packets, and wherever it ends or
\* passes the limit, ScpSink answers each burst of its sender, but for an empty
\* file, and _finalize_scp persists what was sent from its start, each file once
\* and whole up to the cap: every upload, every cap and every limit.
THEOREM ScpCorrect == Spec => []ScpInv
  <1>1. Init => ScpIInv
    BY ScpAssumption, ScpInitInv
  <1>2. ScpIInv /\ [Next]_<<vars, execVars>> => ScpIInv'
    BY ScpAssumption, ScpNextInv
  <1>3. ScpIInv => ScpInv
    BY ScpAssumption, ScpIsCorrect
  <1> QED
    BY <1>1, <1>2, <1>3, PTL DEF Spec

-----------------------------------------------------------------------------
(* The file system: what a lookup returns *)

\* The least and the greatest of some numbers.
LEMMA MinIs ==
    ASSUME NEW S \in SUBSET Nat, S # {}
    PROVE  Min(S) \in S /\ \A y \in S : Min(S) <= y
  <1>1. \E x \in S : \A y \in S : x <= y
    <2> SUFFICES ASSUME \A x \in S : \E y \in S : y < x PROVE FALSE
      OBVIOUS
    <2> DEFINE T == {n \in Nat : \A y \in S : n < y}
    <2>1. PICK k : k \in S
      OBVIOUS
    <2>2. 0 \in T
      OBVIOUS
    <2>3. \A n \in 0 .. k - 1 : n \in T => n + 1 \in T
      OBVIOUS
    <2>4. k \in Nat
      BY <2>1
    <2>5. k \in T
      <3> HIDE DEF T
      <3>1. \A n \in 0 .. k : n \in T
        BY <2>2, <2>3, <2>4, CountUp
      <3> QED
        BY <2>4, <3>1
    <2> QED
      BY <2>1, <2>5 DEF T
  <1> QED
    BY <1>1 DEF Min

LEMMA MaxIs ==
    ASSUME NEW k \in Nat, NEW S \in SUBSET (0 .. k), S # {}
    PROVE  Max(S) \in S /\ \A y \in S : Max(S) >= y
  <1> DEFINE D == {k - x : x \in S}
  <1>1. D \in SUBSET Nat /\ D # {}
    <2>1. \A x \in S : k - x \in Nat
      OBVIOUS
    <2> QED
      BY <2>1
  <1>2. Min(D) \in D /\ \A y \in D : Min(D) <= y
    BY <1>1, MinIs
  <1>3. PICK x \in S : Min(D) = k - x
    BY <1>2
  <1>4. \A y \in S : x >= y
    <2> TAKE y \in S
    <2>1. k - y \in D
      OBVIOUS
    <2>2. k - x <= k - y
      BY <1>2, <1>3, <2>1
    <2> QED
      BY <2>2
  <1> QED
    BY <1>4 DEF Max

\* What a lookup returns is an entry in use, or says how it failed.
Outcome(t) == Used(t) \cup {None, Raised}

LEMMA UsedEntries ==
    ASSUME NEW t, WellFormed(t)
    PROVE  /\ Used(t) \subseteq Ids /\ Root \in Used(t) /\ Ids \subseteq Nat \ {0}
           /\ \A i \in Ids : /\ t[i] \in Entries /\ t[i].kids \in Seq(Ids)
                             /\ Children(t, i) = {t[i].kids[k] : k \in DOMAIN t[i].kids}
                             /\ \A k \in DOMAIN t[i].kids : t[i].kids[k] \in Used(t)
                             /\ t[i].target \in Seq(Names) /\ t[i].name \in Names
  <1>1. Used(t) \subseteq Ids /\ Ids \subseteq Nat \ {0}
    BY IdsAssumption DEF Used
  <1>2. Root \in Used(t)
    BY IdsAssumption DEF Used, WellFormed, Root
  <1>3. ASSUME NEW i \in Ids
        PROVE  /\ t[i] \in Entries /\ t[i].kids \in Seq(Ids)
               /\ Children(t, i) = {t[i].kids[k] : k \in DOMAIN t[i].kids}
               /\ \A k \in DOMAIN t[i].kids : t[i].kids[k] \in Used(t)
               /\ t[i].target \in Seq(Names) /\ t[i].name \in Names
    <2>1. t[i] \in Entries
      BY DEF WellFormed
    <2>2. t[i].kids \in Seq(Ids) /\ t[i].target \in Seq(Names) /\ t[i].name \in Names
      BY <2>1 DEF Entries
    <2>3. Children(t, i) = {t[i].kids[k] : k \in DOMAIN t[i].kids}
      BY DEF Children, ToSet
    <2>4. Children(t, i) \subseteq Used(t)
      BY DEF WellFormed
    <2> QED
      BY <2>1, <2>2, <2>3, <2>4
  <1> QED
    BY <1>1, <1>2, <1>3

LEMMA FirstIs ==
    ASSUME NEW t, WellFormed(t), NEW d \in Ids, NEW name
    PROVE  /\ First(t, d, name) = None =>  \A x \in Children(t, d) : t[x].name # name
           /\ First(t, d, name) # None => /\ First(t, d, name) \in Children(t, d)
                                          /\ First(t, d, name) \in Used(t)
                                          /\ t[First(t, d, name)].name = name
  <1> DEFINE places == Places(t, d, name)
             kids == t[d].kids
  <1>1. kids \in Seq(Ids) /\ Children(t, d) = {kids[k] : k \in DOMAIN kids}
        /\ \A k \in DOMAIN kids : kids[k] \in Used(t) /\ kids[k] # None
    BY UsedEntries DEF None
  <1>2. places = {i \in DOMAIN kids : t[kids[i]].name = name}
    BY DEF Places
  <1>3. places \in SUBSET Nat
    BY <1>1, <1>2
  <1>4. First(t, d, name) = IF places = {} THEN None ELSE kids[Min(places)]
    BY DEF First
  <1> HIDE DEF places, kids
  <1>5. CASE places = {}
    BY <1>1, <1>2, <1>4, <1>5
  <1>6. CASE places # {}
    <2>1. Min(places) \in places
      BY <1>3, <1>6, MinIs
    <2> QED
      BY <1>1, <1>2, <1>4, <1>6, <2>1
  <1> QED
    BY <1>5, <1>6

\* A walk of n pieces, from a walk of one piece less.
LEMMA WalkStep ==
    ASSUME NEW n \in Nat, NEW next
    PROVE  /\ Walk(0, next) = Root
           /\ Walk(n + 1, next) = IF Walk(n, next) <= 0 THEN Walk(n, next)
                                  ELSE next[n + 1][Walk(n, next)]
  <1> DEFINE Go(i, p) == IF p <= 0 THEN p ELSE next[i][p]
             Rec(k, g) == g = [i \in 0 .. k |-> IF i = 0 THEN Root ELSE Go(i, g[i - 1])]
  <1>1. ASSUME NEW m \in Nat
        PROVE  \E g : Rec(m, g) /\ Walk(m, next) = g[m]
    <2> DEFINE T == {k \in 0 .. m : \E g : Rec(k, g)}
    <2>1. 0 \in T
      <3>1. Rec(0, [i \in 0 .. 0 |-> Root])
        OBVIOUS
      <3>2. \E g : Rec(0, g)
        <4> HIDE DEF Rec
        <4> QED
          BY <3>1
      <3> QED
        BY <3>2
    <2>2. ASSUME NEW k \in 0 .. m - 1, k \in T
          PROVE  k + 1 \in T
      <3>1. PICK g : Rec(k, g)
        BY <2>2
      <3> DEFINE h == [i \in 0 .. k + 1 |-> IF i = k + 1 THEN Go(k + 1, g[k]) ELSE g[i]]
      <3>2. ASSUME NEW i \in 0 .. k + 1
            PROVE  h[i] = IF i = 0 THEN Root ELSE Go(i, h[i - 1])
        <4> HIDE DEF Go
        <4> QED
          BY <3>1
      <3>3. Rec(k + 1, h)
        <4> HIDE DEF Go
        <4> QED
          BY <3>2
      <3>4. k + 1 \in 0 .. m
        OBVIOUS
      <3> HIDE DEF h
      <3> QED
        BY <3>3, <3>4
    <2>3. m \in T
      <3> HIDE DEF T
      <3>1. \A k \in 0 .. m : k \in T
        BY <2>1, <2>2, CountUp
      <3> QED
        BY <3>1
    <2>4. \E g : Rec(m, g)
      BY <2>3
    <2> DEFINE w == CHOOSE g : Rec(m, g)
    <2>5. Rec(m, w)
      <3> HIDE DEF Rec
      <3> QED
        BY <2>4
    <2>6. Walk(m, next) = w[m]
      BY DEF Walk
    <2> HIDE DEF w
    <2> QED
      BY <2>5, <2>6
  <1>2. PICK f : Rec(n, f) /\ Walk(n, next) = f[n]
    <2> HIDE DEF Rec
    <2> QED
      BY <1>1
  <1>3. PICK g : Rec(n + 1, g) /\ Walk(n + 1, next) = g[n + 1]
    <2> HIDE DEF Rec
    <2>1. n + 1 \in Nat
      OBVIOUS
    <2> QED
      BY <1>1, <2>1
  <1> HIDE DEF Go
  <1>4. f[0] = Root /\ \A i \in 1 .. n : f[i] = Go(i, f[i - 1])
    BY <1>2
  <1>5. g[0] = Root /\ \A i \in 1 .. n + 1 : g[i] = Go(i, g[i - 1])
    BY <1>3
  <1>6. f[n] = g[n]
    <2> DEFINE T == {k \in 0 .. n : f[k] = g[k]}
    <2>1. 0 \in T
      BY <1>4, <1>5
    <2>2. ASSUME NEW k \in 0 .. n - 1, k \in T
          PROVE  k + 1 \in T
      <3>1. k + 1 \in 1 .. n /\ k + 1 \in 1 .. n + 1 /\ k + 1 \in 0 .. n /\ (k + 1) - 1 = k
        OBVIOUS
      <3>2. f[k + 1] = Go(k + 1, f[k]) /\ g[k + 1] = Go(k + 1, g[k])
        BY <1>4, <1>5, <3>1
      <3> QED
        BY <2>2, <3>1, <3>2
    <2> HIDE DEF T
    <2>3. \A k \in 0 .. n : k \in T
      BY <2>1, <2>2, CountUp
    <2> QED
      BY <2>3 DEF T
  <1>7. g[n + 1] = Go(n + 1, g[n])
    <2>1. n + 1 \in 1 .. n + 1 /\ (n + 1) - 1 = n
      OBVIOUS
    <2> QED
      BY <1>5, <2>1
  <1>8. Walk(0, next) = Root
    <2>1. PICK h : Rec(0, h) /\ Walk(0, next) = h[0]
      <3> HIDE DEF Rec
      <3> QED
        BY <1>1
    <2>2. h[0] = Root
      BY <2>1
    <2> QED
      BY <2>1, <2>2
  <1> QED
    BY <1>2, <1>3, <1>6, <1>7, <1>8 DEF Go

\* Where a walk may end, and that it depends on its pieces only.
LEMMA WalkType ==
    ASSUME NEW n \in Nat, NEW next, NEW S \in SUBSET Int, Root \in S,
           \A i \in 1 .. n : \A p \in S : p > 0 => next[i][p] \in S
    PROVE  Walk(n, next) \in S
  <1> DEFINE T == {k \in 0 .. n : Walk(k, next) \in S}
  <1>1. 0 \in T
    BY WalkStep
  <1>2. ASSUME NEW k \in 0 .. n - 1, k \in T
        PROVE  k + 1 \in T
    <2>1. k \in Nat /\ k + 1 \in 1 .. n /\ k + 1 \in 0 .. n
      OBVIOUS
    <2>2. PICK p \in S : p = Walk(k, next)
      BY <1>2
    <2>3. Walk(k + 1, next) = IF p <= 0 THEN p ELSE next[k + 1][p]
      BY <2>1, <2>2, WalkStep
    <2>4. Walk(k + 1, next) \in S
      <3>1. CASE p <= 0
        BY <2>2, <2>3, <3>1
      <3>2. CASE ~(p <= 0)
        <4>1. p \in S /\ p > 0
          BY <2>2, <3>2
        <4>2. next[k + 1][p] \in S
          BY <2>1, <4>1
        <4> QED
          BY <2>3, <3>2, <4>2
      <3> QED
        BY <3>1, <3>2
    <2> QED
      BY <2>1, <2>4
  <1> HIDE DEF T
  <1>3. \A k \in 0 .. n : k \in T
    BY <1>1, <1>2, CountUp
  <1> QED
    BY <1>3 DEF T

LEMMA WalkSame ==
    ASSUME NEW n \in Nat, NEW next, NEW other, NEW S \in SUBSET Int, Root \in S,
           \A i \in 1 .. n : \A p \in S : p > 0 => next[i][p] \in S /\ other[i][p] = next[i][p]
    PROVE  Walk(n, other) = Walk(n, next)
  <1> DEFINE T == {k \in 0 .. n : Walk(k, other) = Walk(k, next) /\ Walk(k, next) \in S}
  <1>1. 0 \in T
    BY WalkStep
  <1>2. ASSUME NEW k \in 0 .. n - 1, k \in T
        PROVE  k + 1 \in T
    <2>1. k \in Nat /\ k + 1 \in 1 .. n /\ k + 1 \in 0 .. n
      OBVIOUS
    <2>2. PICK p \in S : p = Walk(k, next)
      BY <1>2
    <2>3. Walk(k + 1, next) = IF p <= 0 THEN p ELSE next[k + 1][p]
      BY <2>1, <2>2, WalkStep
    <2>4. Walk(k + 1, other) = IF p <= 0 THEN p ELSE other[k + 1][p]
      <3>1. Walk(k, other) = p
        BY <1>2, <2>2
      <3> QED
        BY <2>1, <3>1, WalkStep
    <2>5. Walk(k + 1, next) \in S /\ Walk(k + 1, other) = Walk(k + 1, next)
      BY <2>1, <2>3, <2>4
    <2> QED
      BY <2>1, <2>5
  <1> HIDE DEF T
  <1>3. \A k \in 0 .. n : k \in T
    BY <1>1, <1>2, CountUp
  <1> QED
    BY <1>3 DEF T

LEMMA OutcomeIs ==
    ASSUME NEW t, WellFormed(t)
    PROVE  /\ Outcome(t) \in SUBSET Int /\ Root \in Outcome(t)
           /\ \A x \in Outcome(t) : (x > 0 => x \in Used(t)) /\ (~(x <= 0) => x \in Used(t))
           /\ None \in Outcome(t) /\ Raised \in Outcome(t)
           /\ Used(t) \subseteq Outcome(t)
           /\ \A x \in Outcome(t) : ~(x > 0) => x = None \/ x = Raised
  BY UsedEntries DEF Outcome, None, Raised

LEMMA CountedType ==
    ASSUME NEW t, WellFormed(t), NEW p \in Ids, NEW name, NEW comes,
           \A x \in Used(t) : comes[x] \in Outcome(t)
    PROVE  Counted(t, p, name, comes) \in Outcome(t)
  <1> DEFINE kids == t[p].kids
             hits == Places(t, p, name)
             bad == {i \in hits : comes[kids[i]] <= 0}
  <1>1. kids \in Seq(Ids) /\ \A i \in DOMAIN kids : kids[i] \in Used(t)
    BY UsedEntries
  <1>2. hits \subseteq DOMAIN kids
    BY DEF Places
  <1>3. Counted(t, p, name, comes) =
           IF t[p].bytes THEN Raised
           ELSE IF hits = {} THEN None
           ELSE comes[kids[IF bad # {} THEN Min(bad) ELSE Max(hits)]]
    BY DEF Counted
  <1>4. bad \subseteq hits
    OBVIOUS
  <1> HIDE DEF kids, hits, bad
  <1>5. hits # {} => (IF bad # {} THEN Min(bad) ELSE Max(hits)) \in DOMAIN kids
    <2>1. Len(kids) \in Nat /\ DOMAIN kids = 1 .. Len(kids)
      BY <1>1
    <2>2. hits \in SUBSET (0 .. Len(kids)) /\ bad \in SUBSET Nat
      BY <1>2, <1>4, <2>1
    <2>3. bad # {} => Min(bad) \in bad
      BY <2>2, MinIs
    <2>4. hits # {} => Max(hits) \in hits
      BY <2>1, <2>2, MaxIs
    <2> QED
      BY <1>2, <1>4, <2>3, <2>4
  <1>6. hits # {} => comes[kids[IF bad # {} THEN Min(bad) ELSE Max(hits)]] \in Outcome(t)
    BY <1>1, <1>5
  <1> QED
    BY <1>3, <1>6, OutcomeIs

LEMMA FollowedType ==
    ASSUME NEW t, WellFormed(t), NEW path \in Seq(Names), NEW follow,
           NEW linked, \A q \in Seq(Names) : linked[q] \in Outcome(t)
    PROVE  Followed(t, path, follow, linked) \in Outcome(t)
  <1> DEFINE n == Len(path)
             Comes(i) == [x \in Ids |->
                IF t[x].type # "link" \/ (~follow /\ path[i] = Last(path)) THEN x ELSE linked[t[x].target]]
             next == [i \in 1 .. n |-> [p \in Ids |-> Counted(t, p, path[i], Comes(i))]]
  <1>1. ASSUME NEW i \in 1 .. n, NEW p \in Outcome(t), p > 0
        PROVE  next[i][p] \in Outcome(t)
    <2>1. p \in Ids
      BY <1>1, OutcomeIs, UsedEntries
    <2>2. next[i][p] = Counted(t, p, path[i], Comes(i))
      BY <2>1
    <2>3. ASSUME NEW x \in Used(t) PROVE Comes(i)[x] \in Outcome(t)
      <3>1. x \in Ids /\ t[x].target \in Seq(Names) /\ x \in Outcome(t)
        BY OutcomeIs, UsedEntries
      <3>2. linked[t[x].target] \in Outcome(t)
        BY <3>1
      <3> QED
        BY <3>1, <3>2
    <2> HIDE DEF Comes, next
    <2> QED
      BY <2>1, <2>2, <2>3, CountedType
  <1>2. n \in Nat /\ Followed(t, path, follow, linked) = Walk(n, next)
    BY DEF Followed
  <1>3. Outcome(t) \in SUBSET Int /\ Root \in Outcome(t)
    BY OutcomeIs
  <1> HIDE DEF n, next
  <1> QED
    BY <1>1, <1>2, <1>3, WalkType

\* Links are followed as often as there are links.
LEMMA getfileType ==
    ASSUME NEW t, WellFormed(t), NEW path \in Seq(Names), NEW follow
    PROVE  getfile(t, path, follow) \in Outcome(t)
  <1> DEFINE k == Cardinality({i \in Ids : t[i].type = "link"})
             Body(x) == [q \in Seq(Names) |-> Followed(t, q, follow, x)]
             none == [target \in Seq(Names) |-> Raised]
             Rec(n, g) == g = [i \in 0 .. n |-> Body(IF i = 0 THEN none ELSE g[i - 1])]
             T == {n \in 0 .. k : \E g : Rec(n, g)}
  <1>1. k \in Nat
    <2>1. IsFiniteSet({i \in Ids : t[i].type = "link"})
      BY IdsAssumption, FS_Subset
    <2> QED
      BY <2>1, FS_CardinalityType
  <1>2. ASSUME NEW x, \A q \in Seq(Names) : x[q] \in Outcome(t)
        PROVE  \A q \in Seq(Names) : Body(x)[q] \in Outcome(t)
    <2> TAKE q \in Seq(Names)
    <2>1. Followed(t, q, follow, x) \in Outcome(t)
      BY <1>2, FollowedType
    <2> QED
      BY <2>1
  <1>3. \A q \in Seq(Names) : none[q] \in Outcome(t)
    BY OutcomeIs
  <1> HIDE DEF Body, none, k
  <1>4. 0 \in T
    <2> DEFINE h == [i \in 0 .. 0 |-> Body(none)]
    <2>1. Rec(0, h)
      OBVIOUS
    <2>2. 0 \in 0 .. k
      BY <1>1
    <2> HIDE DEF h, Rec
    <2> QED
      BY <2>1, <2>2
  <1>5. ASSUME NEW n \in 0 .. k - 1, n \in T
        PROVE  n + 1 \in T
    <2>1. PICK g : Rec(n, g)
      <3> HIDE DEF Rec
      <3> QED
        BY <1>5
    <2> DEFINE h == [i \in 0 .. n + 1 |-> IF i = n + 1 THEN Body(g[n]) ELSE g[i]]
    <2>2. ASSUME NEW i \in 0 .. n + 1
          PROVE  h[i] = Body(IF i = 0 THEN none ELSE h[i - 1])
      BY <2>1
    <2>3. Rec(n + 1, h)
      BY <2>2
    <2>4. n + 1 \in 0 .. k
      BY <1>1
    <2> HIDE DEF h, Rec
    <2> QED
      BY <2>3, <2>4
  <1>6. k \in T
    <2> HIDE DEF T
    <2>1. \A n \in 0 .. k : n \in T
      BY <1>1, <1>4, <1>5, CountUp
    <2> QED
      BY <1>1, <2>1
  <1>7. \E g : Rec(k, g)
    BY <1>6
  <1> DEFINE w == CHOOSE g : Rec(k, g)
  <1>8. Rec(k, w)
    <2> HIDE DEF Rec
    <2> QED
      BY <1>7
  <1>9. getfile(t, path, follow) = w[k][path]
    BY DEF getfile, k, Body, none
  <1>10. \A i \in 0 .. k : \A q \in Seq(Names) : w[i][q] \in Outcome(t)
    <2> DEFINE S == {i \in 0 .. k : \A q \in Seq(Names) : w[i][q] \in Outcome(t)}
    <2> HIDE DEF w
    <2>1. w[0] = Body(none) /\ \A n \in 0 .. k - 1 : w[n + 1] = Body(w[n])
      BY <1>1, <1>8
    <2>2. 0 \in S
      BY <1>1, <1>2, <1>3, <2>1
    <2>3. ASSUME NEW n \in 0 .. k - 1, n \in S PROVE n + 1 \in S
      <3>1. w[n + 1] = Body(w[n]) /\ n + 1 \in 0 .. k
        BY <1>1, <2>1
      <3> QED
        BY <1>2, <2>3, <3>1
    <2> HIDE DEF S
    <2>4. \A i \in 0 .. k : i \in S
      BY <1>1, <2>2, <2>3, CountUp
    <2> QED
      BY <2>4 DEF S
  <1> HIDE DEF w
  <1> QED
    BY <1>1, <1>9, <1>10

LEMMA Pieces ==
    ASSUME NEW path \in Seq(Names)
    PROVE  /\ Parent(path) \in Seq(Names) /\ Base(path) \in Names
           /\ path # <<>> => /\ Len(path) \in Nat \ {0} /\ Len(Parent(path)) = Len(path) - 1
                             /\ Base(path) = path[Len(path)]
                             /\ \A i \in 1 .. Len(path) - 1 : Parent(path)[i] = path[i]
  <1>1. CASE path = <<>>
    <2>1. Parent(path) = <<>> /\ Base(path) = ""
      BY <1>1 DEF Parent, Base
    <2>2. Base(path) \in Names
      BY <2>1, NamesAssumption
    <2>3. Parent(path) \in Seq(Names)
      BY <1>1, <2>1
    <2> QED
      BY <1>1, <2>2, <2>3
  <1>2. CASE path # <<>>
    <2>1. Len(path) \in Nat \ {0} /\ Base(path) = path[Len(path)] /\ Base(path) \in Names
      BY <1>2 DEF Base, Last
    <2>2. Parent(path) = SubSeq(path, 1, Len(path) - 1)
      BY <1>2 DEF Parent, Front
    <2>3. /\ Parent(path) \in Seq(Names) /\ Len(Parent(path)) = Len(path) - 1
          /\ \A i \in 1 .. Len(path) - 1 : Parent(path)[i] = path[i]
      <3> DEFINE n == Len(path) - 1
      <3>1. n \in Nat /\ n <= Len(path)
        BY <2>1
      <3>2. SubSeq(path, 1, n) = [i \in 1 .. n |-> path[i]]
        BY <3>1
      <3>3. \A i \in 1 .. n : path[i] \in Names
        BY <3>1
      <3> HIDE DEF n
      <3>4. SubSeq(path, 1, n) \in Seq(Names) /\ Len(SubSeq(path, 1, n)) = n
        BY <3>1, <3>2, <3>3
      <3>5. \A i \in 1 .. n : SubSeq(path, 1, n)[i] = path[i]
        BY <3>2
      <3> QED
        BY <2>2, <3>4, <3>5 DEF n
    <2> QED
      BY <2>1, <2>3
  <1> QED
    BY <1>1, <1>2

LEMMA get_pathType ==
    ASSUME NEW t, WellFormed(t), NEW path \in Seq(Names)
    PROVE  /\ get_path(t, path) \in Used(t) \cup {Raised, NotFound}
           /\ get_path(t, path) \in Used(t) => get_path(t, Parent(path)) \in Used(t)
  <1> DEFINE S == Used(t) \cup {Raised, NotFound}
             Go(p, name) == LET c == First(t, p, name)
                                f == getfile(t, t[c].target, TRUE)
                            IN  IF t[p].bytes \/ c = None THEN NotFound
                                ELSE IF t[c].type # "link" THEN c
                                ELSE IF f = None THEN NotFound ELSE f
             Hop(q) == [i \in 1 .. Len(q) |-> [p \in Ids |-> Go(p, q[i])]]
  <1>1. ASSUME NEW p \in Ids, NEW name PROVE Go(p, name) \in S
    <2>1. CASE t[p].bytes \/ First(t, p, name) = None
      BY <2>1
    <2>2. CASE First(t, p, name) # None
      <3>1. First(t, p, name) \in Used(t)
        BY <2>2, FirstIs
      <3>2. t[First(t, p, name)].target \in Seq(Names)
        BY <3>1, UsedEntries
      <3>3. getfile(t, t[First(t, p, name)].target, TRUE) \in Used(t) \cup {None, Raised}
        BY <3>2, getfileType DEF Outcome
      <3> QED
        BY <3>1, <3>3
    <2> QED
      BY <2>1, <2>2
  <1>2. \A q : get_path(t, q) = Walk(Len(q), Hop(q))
    BY DEF get_path
  <1>3. /\ S \in SUBSET Int /\ Root \in S
        /\ \A p \in S : (p > 0 => p \in Used(t)) /\ (p \in Used(t) => p > 0) /\ (~(p <= 0) <=> p > 0)
    BY UsedEntries DEF Raised, NotFound
  <1> HIDE DEF Go, S
  <1>4. ASSUME NEW q \in Seq(Names), NEW i \in 1 .. Len(q), NEW p \in S, p > 0
        PROVE  Hop(q)[i][p] = Go(p, q[i]) /\ Hop(q)[i][p] \in S
    <2>1. p \in Ids
      BY <1>3, <1>4, UsedEntries
    <2>2. Hop(q)[i][p] = Go(p, q[i])
      BY <2>1
    <2> QED
      BY <1>1, <2>1, <2>2
  <1> HIDE DEF Hop
  <1>5. ASSUME NEW q \in Seq(Names) PROVE Walk(Len(q), Hop(q)) \in S
    BY <1>3, <1>4, WalkType
  <1>6. ASSUME path # <<>>, get_path(t, path) \in Used(t)
        PROVE  get_path(t, Parent(path)) \in Used(t)
    <2>1. PICK n \in Nat : n = Len(path) - 1
      BY <1>6, Pieces
    <2>2. /\ Parent(path) \in Seq(Names) /\ Len(Parent(path)) = n /\ Len(path) = n + 1
          /\ \A i \in 1 .. n : Parent(path)[i] = path[i]
      <3>1. /\ Len(path) \in Nat \ {0} /\ Len(Parent(path)) = Len(path) - 1
            /\ \A i \in 1 .. Len(path) - 1 : Parent(path)[i] = path[i]
        BY <1>6, Pieces
      <3>2. Parent(path) \in Seq(Names)
        BY Pieces
      <3> QED
        BY <2>1, <3>1, <3>2
    <2>3. Walk(n, Hop(path)) = Walk(n, Hop(Parent(path)))
      <3>1. ASSUME NEW i \in 1 .. n, NEW p \in S, p > 0
            PROVE  /\ Hop(Parent(path))[i][p] \in S
                   /\ Hop(path)[i][p] = Hop(Parent(path))[i][p]
        <4>1. i \in 1 .. Len(path) /\ i \in 1 .. Len(Parent(path))
          BY <2>2
        <4> QED
          BY <1>4, <2>2, <3>1, <4>1
      <3> QED
        BY <1>3, <3>1, WalkSame
    <2>4. get_path(t, Parent(path)) = Walk(n, Hop(path)) /\ Walk(n, Hop(path)) \in S
      BY <1>2, <1>5, <2>2, <2>3
    <2>5. Walk(n, Hop(path)) <= 0 => get_path(t, path) = Walk(n, Hop(path))
      BY <1>2, <2>2, WalkStep
    <2> QED
      BY <1>3, <1>6, <2>4, <2>5
  <1>7. path = <<>> => Parent(path) = path
    BY DEF Parent
  <1>8. get_path(t, path) \in S
    BY <1>2, <1>5
  <1> QED
    BY <1>6, <1>7, <1>8 DEF S

LEMMA resolve_pathType ==
    ASSUME NEW at \in Seq(Names), NEW arg \in [abs : BOOLEAN, parts : Seq(Names), slash : BOOLEAN]
    PROVE  resolve_path(arg, at) \in Seq(Names)
  <1> DEFINE n == Len(arg.parts)
             from == IF arg.abs THEN <<>> ELSE at
             Rec(k, g) == g = [i \in 0 .. k |-> IF i = 0 THEN from ELSE Resolved(g[i - 1], arg.parts[i])]
             T == {k \in 0 .. n : \E g : Rec(k, g)}
  <1>1. n \in Nat /\ from \in Seq(Names) /\ \A i \in 1 .. n : arg.parts[i] \in Names
    <2>1. arg.parts \in Seq(Names)
      OBVIOUS
    <2>2. n \in Nat /\ \A i \in 1 .. n : arg.parts[i] \in Names
      BY <2>1
    <2>3. from \in Seq(Names)
      <3>1. CASE arg.abs
        BY <3>1
      <3>2. CASE ~arg.abs
        BY <3>2
      <3> QED
        BY <3>1, <3>2
    <2> QED
      BY <2>2, <2>3
  <1>2. ASSUME NEW path \in Seq(Names), NEW part \in Names PROVE Resolved(path, part) \in Seq(Names)
    <2>1. Parent(path) \in Seq(Names)
      BY Pieces
    <2>2. Append(path, part) \in Seq(Names)
      OBVIOUS
    <2> QED
      BY <2>1, <2>2 DEF Resolved
  <1> HIDE DEF n, from
  <1>3. 0 \in T
    <2> DEFINE h == [i \in 0 .. 0 |-> from]
    <2>1. Rec(0, h)
      OBVIOUS
    <2>2. 0 \in 0 .. n
      BY <1>1
    <2> HIDE DEF h, Rec
    <2> QED
      BY <2>1, <2>2
  <1>4. ASSUME NEW k \in 0 .. n - 1, k \in T
        PROVE  k + 1 \in T
    <2>1. PICK g : Rec(k, g)
      <3> HIDE DEF Rec
      <3> QED
        BY <1>4
    <2> DEFINE h == [i \in 0 .. k + 1 |-> IF i = k + 1 THEN Resolved(g[k], arg.parts[k + 1]) ELSE g[i]]
    <2>2. ASSUME NEW i \in 0 .. k + 1
          PROVE  h[i] = IF i = 0 THEN from ELSE Resolved(h[i - 1], arg.parts[i])
      BY <2>1
    <2>3. Rec(k + 1, h)
      BY <2>2
    <2>4. k + 1 \in 0 .. n
      BY <1>1
    <2> HIDE DEF h, Rec
    <2> QED
      BY <2>3, <2>4
  <1>5. n \in T
    <2> HIDE DEF T
    <2>1. \A k \in 0 .. n : k \in T
      BY <1>1, <1>3, <1>4, CountUp
    <2> QED
      BY <1>1, <2>1
  <1> DEFINE w == CHOOSE g : Rec(n, g)
  <1>6. Rec(n, w)
    <2>1. \E g : Rec(n, g)
      BY <1>5
    <2> HIDE DEF Rec
    <2> QED
      BY <2>1
  <1>7. resolve_path(arg, at) = w[n]
    BY DEF resolve_path, n, from
  <1>8. \A k \in 0 .. n : w[k] \in Seq(Names)
    <2> DEFINE S == {k \in 0 .. n : w[k] \in Seq(Names)}
    <2> HIDE DEF w
    <2>1. w[0] = from /\ \A k \in 0 .. n - 1 : w[k + 1] = Resolved(w[k], arg.parts[k + 1])
      BY <1>1, <1>6
    <2>2. 0 \in S
      BY <1>1, <2>1
    <2>3. ASSUME NEW k \in 0 .. n - 1, k \in S PROVE k + 1 \in S
      <3>1. w[k + 1] = Resolved(w[k], arg.parts[k + 1]) /\ k + 1 \in 0 .. n /\ k + 1 \in 1 .. n
        BY <1>1, <2>1
      <3> QED
        BY <1>1, <1>2, <2>3, <3>1
    <2> HIDE DEF S
    <2>4. \A k \in 0 .. n : k \in S
      BY <1>1, <2>2, <2>3, CountUp
    <2> QED
      BY <2>4 DEF S
  <1> HIDE DEF w
  <1> QED
    BY <1>1, <1>7, <1>8

\* The editor's lookup goes on from that of the path above.
LEMMA getpathIs ==
    ASSUME NEW t, WellFormed(t), NEW path \in Seq(Names)
    PROVE  /\ getpath(t, path) \in Outcome(t)
           /\ path = <<>> => getpath(t, path) = Root
           /\ path # <<>> =>
                 getpath(t, path) = IF getpath(t, Parent(path)) <= 0 THEN getpath(t, Parent(path))
                                    ELSE IF t[getpath(t, Parent(path))].bytes THEN Raised
                                    ELSE First(t, getpath(t, Parent(path)), Base(path))
  <1> DEFINE Go(p, name) == IF t[p].bytes THEN Raised ELSE First(t, p, name)
             Hop(q) == [i \in 1 .. Len(q) |-> [p \in Ids |-> Go(p, q[i])]]
  <1>1. ASSUME NEW p \in Ids, NEW name PROVE Go(p, name) \in Outcome(t)
    BY FirstIs, OutcomeIs
  <1>2. \A q : getpath(t, q) = Walk(Len(q), Hop(q))
    BY DEF getpath
  <1>3. ASSUME NEW p \in Outcome(t), p > 0 PROVE p \in Ids
    BY <1>3, OutcomeIs, UsedEntries
  <1> HIDE DEF Go
  <1>4. ASSUME NEW q \in Seq(Names), NEW i \in 1 .. Len(q), NEW p \in Outcome(t), p > 0
        PROVE  Hop(q)[i][p] = Go(p, q[i]) /\ Hop(q)[i][p] \in Outcome(t)
    BY <1>1, <1>3, <1>4
  <1>5. Outcome(t) \in SUBSET Int /\ Root \in Outcome(t)
    BY OutcomeIs
  <1> HIDE DEF Hop
  <1>6. ASSUME NEW q \in Seq(Names) PROVE Walk(Len(q), Hop(q)) \in Outcome(t)
    BY <1>4, <1>5, WalkType
  <1>7. path = <<>> => Walk(Len(path), Hop(path)) = Root
    BY WalkStep
  <1>8. ASSUME path # <<>>
        PROVE  getpath(t, path) = IF getpath(t, Parent(path)) <= 0 THEN getpath(t, Parent(path))
                                  ELSE Go(getpath(t, Parent(path)), Base(path))
    <2>1. PICK n \in Nat : n = Len(path) - 1
      BY <1>8, Pieces
    <2>2. /\ Parent(path) \in Seq(Names) /\ Len(Parent(path)) = n /\ Len(path) = n + 1
          /\ Base(path) = path[n + 1] /\ \A i \in 1 .. n : Parent(path)[i] = path[i]
      <3>1. /\ Len(path) \in Nat \ {0} /\ Len(Parent(path)) = Len(path) - 1 /\ Base(path) = path[Len(path)]
            /\ \A i \in 1 .. Len(path) - 1 : Parent(path)[i] = path[i]
        BY <1>8, Pieces
      <3>2. Parent(path) \in Seq(Names)
        BY Pieces
      <3> QED
        BY <2>1, <3>1, <3>2
    <2>3. Walk(n, Hop(path)) = Walk(n, Hop(Parent(path)))
      <3>1. ASSUME NEW i \in 1 .. n, NEW p \in Outcome(t), p > 0
            PROVE  /\ Hop(Parent(path))[i][p] \in Outcome(t)
                   /\ Hop(path)[i][p] = Hop(Parent(path))[i][p]
        <4>1. i \in 1 .. Len(path) /\ i \in 1 .. Len(Parent(path))
          BY <2>2
        <4> QED
          BY <1>4, <2>2, <3>1, <4>1
      <3> QED
        BY <1>5, <3>1, WalkSame
    <2>4. getpath(t, Parent(path)) = Walk(n, Hop(path))
      BY <1>2, <2>2, <2>3
    <2>5. getpath(t, Parent(path)) \in Outcome(t)
      BY <1>2, <1>6, <2>2
    <2>6. getpath(t, path) = IF Walk(n, Hop(path)) <= 0 THEN Walk(n, Hop(path))
                             ELSE Hop(path)[n + 1][Walk(n, Hop(path))]
      BY <1>2, <2>2, WalkStep
    <2>7. ~(Walk(n, Hop(path)) <= 0) => Hop(path)[n + 1][Walk(n, Hop(path))] = Go(Walk(n, Hop(path)), path[n + 1])
      <3>1. n + 1 \in 1 .. Len(path)
        BY <2>2
      <3>2. PICK p \in Outcome(t) : p = Walk(n, Hop(path))
        BY <2>4, <2>5
      <3> QED
        BY <1>4, <1>5, <3>1, <3>2
    <2> QED
      BY <2>2, <2>4, <2>6, <2>7
  <1> QED
    BY <1>2, <1>6, <1>7, <1>8 DEF Go

-----------------------------------------------------------------------------
(* The file system: what is reached *)

\* What is under some entries is the least set that holds them and the
\* children of its members: it is found in as many steps as there are entries.
Closed(t, X) == \A i \in X : Children(t, i) \cap Ids \subseteq X

LEMMA BelowIs ==
    ASSUME NEW t, NEW S \in SUBSET Ids
    PROVE  /\ S \subseteq Below(t, S) /\ Below(t, S) \subseteq Ids
           /\ \A X : S \subseteq X /\ Closed(t, X) => Below(t, S) \subseteq X
           /\ Below(t, S) = S => Closed(t, S)
           /\ Closed(t, S) => Below(t, S) = S
  BY DEF Below, Closed

LEMMA UnderIs ==
    ASSUME NEW t, NEW S \in SUBSET Ids
    PROVE  /\ S \subseteq Under(t, S) /\ Under(t, S) \subseteq Ids
           /\ Closed(t, Under(t, S))
           /\ \A X \in SUBSET Ids : S \subseteq X /\ Closed(t, X) => Under(t, S) \subseteq X
  <1> DEFINE k == Cardinality(Ids)
             Rec(n, g) == g = [i \in 0 .. n |-> IF i = 0 THEN S ELSE Below(t, g[i - 1])]
             T == {n \in 0 .. k : \E g : Rec(n, g)}
  <1>1. k \in Nat
    BY IdsAssumption, FS_CardinalityType
  <1> HIDE DEF k
  <1>2. 0 \in T
    <2> DEFINE h == [i \in 0 .. 0 |-> S]
    <2>1. Rec(0, h)
      OBVIOUS
    <2>2. 0 \in 0 .. k
      BY <1>1
    <2> HIDE DEF h, Rec
    <2> QED
      BY <2>1, <2>2
  <1>3. ASSUME NEW n \in 0 .. k - 1, n \in T
        PROVE  n + 1 \in T
    <2>1. PICK g : Rec(n, g)
      <3> HIDE DEF Rec
      <3> QED
        BY <1>3
    <2> DEFINE h == [i \in 0 .. n + 1 |-> IF i = n + 1 THEN Below(t, g[n]) ELSE g[i]]
    <2>2. ASSUME NEW i \in 0 .. n + 1
          PROVE  h[i] = IF i = 0 THEN S ELSE Below(t, h[i - 1])
      BY <2>1
    <2>3. Rec(n + 1, h)
      BY <2>2
    <2>4. n + 1 \in 0 .. k
      BY <1>1
    <2> HIDE DEF h, Rec
    <2> QED
      BY <2>3, <2>4
  <1>4. k \in T
    <2> HIDE DEF T
    <2>1. \A n \in 0 .. k : n \in T
      BY <1>1, <1>2, <1>3, CountUp
    <2> QED
      BY <1>1, <2>1
  <1> DEFINE w == CHOOSE g : Rec(k, g)
  <1>5. Rec(k, w)
    <2>1. \E g : Rec(k, g)
      BY <1>4
    <2> HIDE DEF Rec
    <2> QED
      BY <2>1
  <1>6. Under(t, S) = w[k]
    BY DEF Under, k
  <1> HIDE DEF w
  <1>7. w[0] = S /\ \A n \in 0 .. k - 1 : w[n + 1] = Below(t, w[n])
    BY <1>1, <1>5
  <1>8. \A n \in 0 .. k : /\ w[n] \subseteq Ids /\ S \subseteq w[n]
                          /\ Closed(t, w[n]) \/ Cardinality(w[n]) >= n
                          /\ \A X \in SUBSET Ids : S \subseteq X /\ Closed(t, X) => w[n] \subseteq X
    <2> DEFINE P(n) == /\ w[n] \subseteq Ids /\ S \subseteq w[n]
                       /\ Closed(t, w[n]) \/ Cardinality(w[n]) >= n
                       /\ \A X \in SUBSET Ids : S \subseteq X /\ Closed(t, X) => w[n] \subseteq X
               U == {n \in 0 .. k : P(n)}
    <2>1. 0 \in U
      <3>1. IsFiniteSet(S)
        BY IdsAssumption, FS_Subset
      <3>2. Cardinality(S) >= 0
        BY <3>1, FS_CardinalityType
      <3> QED
        BY <1>1, <1>7, <3>2
    <2>2. ASSUME NEW n \in 0 .. k - 1, n \in U
          PROVE  n + 1 \in U
      <3>1. P(n) /\ w[n + 1] = Below(t, w[n]) /\ n + 1 \in 0 .. k
        BY <1>1, <1>7, <2>2
      <3>2. /\ w[n] \subseteq w[n + 1] /\ w[n + 1] \subseteq Ids
            /\ \A X : w[n] \subseteq X /\ Closed(t, X) => w[n + 1] \subseteq X
            /\ w[n + 1] = w[n] => Closed(t, w[n])
            /\ Closed(t, w[n]) => w[n + 1] = w[n]
        BY <3>1, BelowIs
      <3>3. Closed(t, w[n + 1]) \/ Cardinality(w[n + 1]) >= n + 1
        <4>1. CASE w[n + 1] = w[n]
          BY <3>2, <4>1
        <4>2. CASE w[n + 1] # w[n]
          <5>1. IsFiniteSet(w[n + 1]) /\ w[n] \in SUBSET w[n + 1]
            BY <3>2, IdsAssumption, FS_Subset
          <5>2. /\ Cardinality(w[n]) <= Cardinality(w[n + 1]) /\ Cardinality(w[n]) # Cardinality(w[n + 1])
                /\ IsFiniteSet(w[n])
            BY <4>2, <5>1, FS_Subset
          <5>3. Cardinality(w[n]) \in Nat /\ Cardinality(w[n + 1]) \in Nat
            BY <5>1, <5>2, FS_CardinalityType
          <5>4. Cardinality(w[n]) >= n
            BY <3>1, <3>2, <4>2
          <5>5. n \in Nat
            OBVIOUS
          <5> HIDE DEF P, U
          <5> QED
            BY <5>2, <5>3, <5>4, <5>5
        <4> QED
          BY <4>1, <4>2
      <3>4. \A X \in SUBSET Ids : S \subseteq X /\ Closed(t, X) => w[n + 1] \subseteq X
        BY <3>1, <3>2
      <3>5. S \subseteq w[n + 1]
        BY <3>1, <3>2
      <3> QED
        BY <3>1, <3>2, <3>3, <3>4, <3>5
    <2> HIDE DEF U
    <2>3. \A n \in 0 .. k : n \in U
      BY <1>1, <2>1, <2>2, CountUp
    <2> QED
      BY <2>3 DEF U
  <1>9. /\ w[k] \subseteq Ids /\ S \subseteq w[k]
        /\ Closed(t, w[k]) \/ Cardinality(w[k]) >= k
        /\ \A X \in SUBSET Ids : S \subseteq X /\ Closed(t, X) => w[k] \subseteq X
    BY <1>1, <1>8
  <1>10. Closed(t, w[k])
    <2>1. SUFFICES ASSUME Cardinality(w[k]) >= k PROVE Closed(t, w[k])
      BY <1>9
    <2>2. IsFiniteSet(w[k]) /\ Cardinality(w[k]) <= k /\ (k = Cardinality(w[k]) => w[k] = Ids)
      BY <1>9, IdsAssumption, FS_Subset DEF k
    <2>3. Cardinality(w[k]) \in Nat
      BY <2>2, FS_CardinalityType
    <2>4. w[k] = Ids
      BY <1>1, <2>1, <2>2, <2>3
    <2> QED
      BY <2>4 DEF Closed
  <1> QED
    BY <1>6, <1>9, <1>10

\* In a well formed heap what is reached is in use.
LEMMA ReachableIs ==
    ASSUME NEW t, WellFormed(t)
    PROVE  /\ Root \in Reachable(t) /\ Reachable(t) \subseteq Used(t)
           /\ \A i \in Reachable(t) : Children(t, i) \subseteq Reachable(t)
           /\ \A X \in SUBSET Ids : Root \in X /\ Closed(t, X) => Reachable(t) \subseteq X
  <1>1. {Root} \in SUBSET Ids
    BY UsedEntries
  <1>2. Closed(t, Used(t)) /\ Used(t) \in SUBSET Ids /\ Root \in Used(t)
    BY UsedEntries DEF WellFormed, Closed
  <1>3. /\ {Root} \subseteq Reachable(t) /\ Reachable(t) \subseteq Ids
        /\ Closed(t, Reachable(t))
        /\ \A X \in SUBSET Ids : {Root} \subseteq X /\ Closed(t, X) => Reachable(t) \subseteq X
    BY <1>1, UnderIs DEF Reachable
  <1>4. \A i \in Reachable(t) : Children(t, i) \subseteq Reachable(t)
    <2> TAKE i \in Reachable(t)
    <2>1. i \in Ids
      BY <1>3
    <2>2. Children(t, i) \subseteq Ids
      BY <2>1, UsedEntries DEF WellFormed
    <2> QED
      BY <1>3, <2>2 DEF Closed
  <1> QED
    BY <1>2, <1>3, <1>4

LEMMA EntryIs ==
    ASSUME NEW name \in Names, NEW type \in {"free", "dir", "file", "link"}
    PROVE  /\ Entry(name, type) \in Entries /\ Entry(name, type).type = type /\ Entry(name, type).name = name
           /\ Entry(name, type).kids = <<>> /\ ~Entry(name, type).bytes
  <1> DEFINE e == Entry(name, type)
  <1>1. e = [name |-> name, type |-> type, bytes |-> FALSE, kids |-> <<>>, target |-> <<>>, real |-> FALSE]
    BY DEF Entry
  <1>2. <<>> \in Seq(Ids) /\ <<>> \in Seq(Names) /\ FALSE \in BOOLEAN
    OBVIOUS
  <1>3. e \in Entries
    BY <1>1, <1>2 DEF Entries
  <1> QED
    BY <1>1, <1>3

\* Collecting the garbage keeps the heap well formed, and what it keeps is what
\* is reached.
LEMMA CollectIs ==
    ASSUME NEW t, WellFormed(t)
    PROVE  /\ WellFormed(Collect(t))
           /\ Reachable(Collect(t)) = Reachable(t)
           /\ Used(Collect(t)) = Reachable(t)
           /\ Collect(Collect(t)) = Collect(t)
           /\ \A i \in Reachable(t) : Collect(t)[i] = t[i]
           /\ \A i \in Ids \ Reachable(t) : Collect(t)[i] = Free
  <1> DEFINE u == Collect(t)
             live == Reachable(t)
  <1>1. Root \in live /\ live \subseteq Used(t) /\ live \subseteq Ids
    BY ReachableIs, UsedEntries
  <1>2. u = [i \in Ids |-> IF i \in live THEN t[i] ELSE Free]
    BY DEF Collect
  <1>3. Free \in Entries /\ Free.type = "free" /\ Free.kids = <<>> /\ ~Free.bytes
    BY NamesAssumption, EntryIs DEF Free
  <1>4. /\ \A i \in live : u[i] = t[i]
        /\ \A i \in Ids \ live : u[i] = Free
    BY <1>1, <1>2
  <1> HIDE DEF u
  <1>5. Used(u) = live
    <2>1. \A i \in Ids : u[i].type # "free" <=> i \in live
      BY <1>1, <1>3, <1>4 DEF Used
    <2> QED
      BY <1>1, <2>1 DEF Used
  <1>6. Children(u, Root) = Children(t, Root) /\ \A i \in live : Children(u, i) = Children(t, i)
    BY <1>1, <1>4 DEF Children
  <1>7. \A i \in Ids \ live : Children(u, i) = {}
    BY <1>3, <1>4 DEF Children, ToSet
  <1>8. WellFormed(u)
    <2>1. u \in [Ids -> Entries]
      BY <1>1, <1>2, <1>3, UsedEntries
    <2>2. u[Root].type = "dir"
      BY <1>1, <1>4 DEF WellFormed
    <2>3. ASSUME NEW i \in Ids
          PROVE  Children(u, i) \subseteq Used(u) /\ (u[i].bytes => u[i].kids = <<>>)
      <3>1. CASE i \in live
        <4>1. Children(u, i) \subseteq live
          BY <1>6, <3>1, ReachableIs
        <4>2. u[i].bytes => u[i].kids = <<>>
          BY <1>4, <3>1 DEF WellFormed
        <4> QED
          BY <1>5, <4>1, <4>2
      <3>2. CASE i \notin live
        BY <1>3, <1>4, <1>7, <3>2
      <3> QED
        BY <3>1, <3>2
    <2> QED
      BY <2>1, <2>2, <2>3 DEF WellFormed
  <1>9. Reachable(u) = live
    <2>1. Reachable(u) \subseteq live
      BY <1>5, <1>8, ReachableIs
    <2>2. Root \in Reachable(u) /\ Reachable(u) \in SUBSET Ids
      BY <1>1, <1>8, <2>1, ReachableIs
    <2>3. Closed(t, Reachable(u))
      BY <1>6, <1>8, <2>1, ReachableIs DEF Closed
    <2> QED
      BY <2>1, <2>2, <2>3, ReachableIs
  <1>10. Collect(u) = u
    <2>1. \A i \in Ids : (IF i \in live THEN u[i] ELSE Free) = u[i]
      BY <1>4
    <2>2. Collect(u) = [i \in Ids |-> IF i \in live THEN u[i] ELSE Free]
      BY <1>9 DEF Collect
    <2> QED
      BY <1>2, <1>4, <2>1, <2>2
  <1> QED
    BY <1>4, <1>5, <1>8, <1>9, <1>10 DEF u

-----------------------------------------------------------------------------
(* The file system: what an edit leaves *)

\* r is s without some of its elements, up to their order.
Thinned(r, s) == \E from \in [DOMAIN r -> DOMAIN s] :
                    /\ \A i, j \in DOMAIN r : from[i] = from[j] => i = j
                    /\ \A i \in DOMAIN r : r[i] = s[from[i]]

LEMMA RemovedIs ==
    ASSUME NEW S, NEW s \in Seq(S), NEW e
    PROVE  /\ RemoveFirst(s, e) \in Seq(S)
           /\ Thinned(RemoveFirst(s, e), s)
           /\ (\A i, j \in DOMAIN s : s[i] = s[j] => i = j)
                => \A i \in DOMAIN RemoveFirst(s, e) : RemoveFirst(s, e)[i] # e
  <1> DEFINE r == RemoveFirst(s, e)
             I == {i \in 1 .. Len(s) : s[i] = e}
             n == Len(s)
  <1>1. n \in Nat /\ DOMAIN s = 1 .. n /\ \A i \in 1 .. n : s[i] \in S
    OBVIOUS
  <1>2. CASE I = {}
    <2>1. r = s
      BY <1>2 DEF RemoveFirst
    <2>2. Thinned(s, s)
      <3> DEFINE from == [i \in DOMAIN s |-> i]
      <3>1. /\ from \in [DOMAIN s -> DOMAIN s]
            /\ \A i, j \in DOMAIN s : from[i] = from[j] => i = j
            /\ \A i \in DOMAIN s : s[i] = s[from[i]]
        OBVIOUS
      <3> HIDE DEF from
      <3> QED
        BY <3>1 DEF Thinned
    <2>3. \A i \in DOMAIN s : s[i] # e
      BY <1>1, <1>2
    <2> HIDE DEF r
    <2> QED
      BY <2>1, <2>2, <2>3 DEF r
  <1>3. CASE I # {}
    <2>1. I \in SUBSET Nat
      OBVIOUS
    <2>2. PICK k \in I : k = Min(I)
      BY <1>3, <2>1, MinIs
    <2>3. r = SubSeq(s, 1, k - 1) \o SubSeq(s, k + 1, n)
      <3>1. \E i \in 1 .. Len(s) : s[i] = e
        BY <1>3
      <3>2. SelectInSeq(s, LAMBDA v : v = e) = Min(I)
        BY <1>3 DEF SelectInSeq
      <3>3. r = RemoveAt(s, k)
        BY <2>2, <3>1, <3>2 DEF RemoveFirst
      <3> QED
        BY <3>3 DEF RemoveAt
    <2>4. k \in 1 .. n /\ s[k] = e
      BY <2>2
    <2> HIDE DEF I
    <2> DEFINE a == SubSeq(s, 1, k - 1)
               b == SubSeq(s, k + 1, n)
               From(i) == IF i < k THEN i ELSE i + 1
    <2>5. a \in Seq(S) /\ Len(a) = k - 1 /\ \A i \in 1 .. k - 1 : a[i] = s[i]
      <3>1. a = [i \in 1 .. k - 1 |-> s[i]]
        BY <1>1, <2>4
      <3>2. k - 1 \in Nat /\ \A i \in 1 .. k - 1 : s[i] \in S
        BY <1>1, <2>4
      <3> HIDE DEF a
      <3> QED
        BY <3>1, <3>2
    <2>6. b \in Seq(S) /\ Len(b) = n - k /\ \A i \in 1 .. n - k : b[i] = s[i + k]
      <3>1. b = [i \in 1 .. n - k |-> s[i + k]]
        BY <1>1, <2>4
      <3>2. n - k \in Nat /\ \A i \in 1 .. n - k : s[i + k] \in S
        BY <1>1, <2>4
      <3> HIDE DEF b
      <3> QED
        BY <3>1, <3>2
    <2> HIDE DEF a, b
    <2>7. r = a \o b
      BY <2>3 DEF a, b
    <2> HIDE DEF r
    <2>8. r \in Seq(S) /\ Len(r) = n - 1
      <3>1. a \o b \in Seq(S) /\ Len(a \o b) = Len(a) + Len(b)
        BY <2>5, <2>6
      <3>2. Len(a) + Len(b) = n - 1
        BY <1>1, <2>4, <2>5, <2>6
      <3> QED
        BY <2>7, <3>1, <3>2
    <2>9. DOMAIN r = 1 .. n - 1
      BY <2>8
    <2>10. ASSUME NEW i \in 1 .. n - 1 PROVE r[i] = s[From(i)] /\ From(i) \in 1 .. n /\ From(i) # k
      <3>1. CASE i < k
        <4>1. r[i] = a[i]
          BY <1>1, <2>4, <2>5, <2>6, <2>7, <3>1
        <4> QED
          BY <1>1, <2>4, <2>5, <3>1, <4>1
      <3>2. CASE ~(i < k)
        <4>1. r[i] = b[i - (k - 1)]
          BY <1>1, <2>4, <2>5, <2>6, <2>7, <3>2
        <4>2. i - (k - 1) \in 1 .. n - k /\ (i - (k - 1)) + k = i + 1
          BY <1>1, <2>4, <3>2
        <4>3. b[i - (k - 1)] = s[i + 1]
          BY <2>6, <4>2
        <4> QED
          BY <1>1, <2>4, <3>2, <4>1, <4>3
      <3> QED
        BY <3>1, <3>2
    <2>11. Thinned(r, s)
      <3> DEFINE from == [i \in 1 .. n - 1 |-> From(i)]
      <3>1. from \in [1 .. n - 1 -> 1 .. n]
        BY <2>10
      <3>2. \A i, j \in 1 .. n - 1 : from[i] = from[j] => i = j
        BY <1>1, <2>4
      <3>3. \A i \in 1 .. n - 1 : r[i] = s[from[i]]
        BY <2>10
      <3> HIDE DEF from
      <3> QED
        BY <1>1, <2>9, <3>1, <3>2, <3>3 DEF Thinned
    <2>12. (\A i, j \in DOMAIN s : s[i] = s[j] => i = j) => \A i \in DOMAIN r : r[i] # e
      BY <1>1, <2>4, <2>9, <2>10
    <2> QED
      BY <2>8, <2>11, <2>12 DEF r
  <1> QED
    BY <1>2, <1>3

\* One entry takes the place of another.
LEMMA EditIs ==
    ASSUME NEW t, WellFormed(t), NEW i \in Ids, NEW e \in Entries, e.type # "free",
           i = Root => e.type = "dir", e.bytes => e.kids = <<>>,
           \A k \in DOMAIN e.kids : e.kids[k] \in Used(t) \cup {i}
    PROVE  /\ WellFormed([t EXCEPT ![i] = e])
           /\ Used([t EXCEPT ![i] = e]) = Used(t) \cup {i}
           /\ [t EXCEPT ![i] = e][i] = e
           /\ \A j \in Ids \ {i} : [t EXCEPT ![i] = e][j] = t[j]
  <1> DEFINE u == [t EXCEPT ![i] = e]
  <1>1. t \in [Ids -> Entries] /\ t[Root].type = "dir" /\ Root \in Ids
    BY UsedEntries DEF WellFormed
  <1>2. u \in [Ids -> Entries] /\ u[i] = e /\ \A j \in Ids \ {i} : u[j] = t[j]
    BY <1>1
  <1> HIDE DEF u
  <1>3. Used(u) = Used(t) \cup {i}
    <2>1. \A j \in Ids : u[j].type # "free" <=> j \in Used(t) \cup {i}
      BY <1>2 DEF Used
    <2> QED
      BY <2>1, UsedEntries DEF Used
  <1>4. u[Root].type = "dir"
    BY <1>1, <1>2
  <1>5. ASSUME NEW j \in Ids
        PROVE  Children(u, j) \subseteq Used(u) /\ (u[j].bytes => u[j].kids = <<>>)
    <2>1. CASE j = i
      <3>1. Children(u, j) = {e.kids[k] : k \in DOMAIN e.kids}
        BY <1>2, <2>1 DEF Children, ToSet
      <3> QED
        BY <1>2, <1>3, <2>1, <3>1
    <2>2. CASE j # i
      <3>1. u[j] = t[j]
        BY <1>2, <2>2
      <3>2. Children(u, j) = Children(t, j)
        BY <3>1 DEF Children
      <3> QED
        BY <1>3, <3>1, <3>2 DEF WellFormed
    <2> QED
      BY <2>1, <2>2
  <1>6. WellFormed(u)
    BY <1>2, <1>4, <1>5 DEF WellFormed
  <1> QED
    BY <1>2, <1>3, <1>6 DEF u

\* The entries of a directory, or the name of an entry, change.
LEMMA KidsEdit ==
    ASSUME NEW t, WellFormed(t), NEW d \in Used(t), NEW kids \in Seq(Ids),
           \A k \in DOMAIN kids : kids[k] \in Used(t), t[d].bytes => kids = <<>>
    PROVE  /\ WellFormed([t EXCEPT ![d].kids = kids])
           /\ Used([t EXCEPT ![d].kids = kids]) = Used(t)
           /\ [t EXCEPT ![d].kids = kids][d].kids = kids
           /\ [t EXCEPT ![d].kids = kids][d].name = t[d].name
           /\ [t EXCEPT ![d].kids = kids][d].type = t[d].type
           /\ [t EXCEPT ![d].kids = kids][d].bytes = t[d].bytes
           /\ \A j \in Ids \ {d} : [t EXCEPT ![d].kids = kids][j] = t[j]
  <1> DEFINE e == [t[d] EXCEPT !.kids = kids]
  <1>1. d \in Ids /\ t \in [Ids -> Entries] /\ t[d] \in Entries /\ t[d].type # "free" /\ (d = Root => t[d].type = "dir")
    BY UsedEntries DEF WellFormed, Used
  <1>2. e \in Entries
    BY <1>1 DEF Entries
  <1>3. e.kids = kids /\ e.name = t[d].name /\ e.type = t[d].type /\ e.bytes = t[d].bytes
    BY <1>1 DEF Entries
  <1>4. [t EXCEPT ![d].kids = kids] = [t EXCEPT ![d] = e]
    OBVIOUS
  <1> HIDE DEF e
  <1>5. /\ WellFormed([t EXCEPT ![d] = e])
        /\ Used([t EXCEPT ![d] = e]) = Used(t) \cup {d}
        /\ [t EXCEPT ![d] = e][d] = e
        /\ \A j \in Ids \ {d} : [t EXCEPT ![d] = e][j] = t[j]
    BY <1>1, <1>2, <1>3, EditIs
  <1> QED
    BY <1>3, <1>4, <1>5

LEMMA NameEdit ==
    ASSUME NEW t, WellFormed(t), NEW x \in Used(t), NEW name \in Names
    PROVE  /\ WellFormed([t EXCEPT ![x].name = name])
           /\ Used([t EXCEPT ![x].name = name]) = Used(t)
           /\ [t EXCEPT ![x].name = name][x].name = name
           /\ [t EXCEPT ![x].name = name][x].kids = t[x].kids
           /\ [t EXCEPT ![x].name = name][x].type = t[x].type
           /\ [t EXCEPT ![x].name = name][x].bytes = t[x].bytes
           /\ \A j \in Ids \ {x} : [t EXCEPT ![x].name = name][j] = t[j]
  <1> DEFINE e == [t[x] EXCEPT !.name = name]
  <1>1. /\ x \in Ids /\ t \in [Ids -> Entries] /\ t[x] \in Entries /\ t[x].type # "free"
        /\ (x = Root => t[x].type = "dir") /\ (t[x].bytes => t[x].kids = <<>>)
        /\ \A k \in DOMAIN t[x].kids : t[x].kids[k] \in Used(t)
    BY UsedEntries DEF WellFormed, Used
  <1>2. e \in Entries
    BY <1>1 DEF Entries
  <1>3. e.kids = t[x].kids /\ e.name = name /\ e.type = t[x].type /\ e.bytes = t[x].bytes
    BY <1>1 DEF Entries
  <1>4. [t EXCEPT ![x].name = name] = [t EXCEPT ![x] = e]
    OBVIOUS
  <1> HIDE DEF e
  <1>5. /\ WellFormed([t EXCEPT ![x] = e])
        /\ Used([t EXCEPT ![x] = e]) = Used(t) \cup {x}
        /\ [t EXCEPT ![x] = e][x] = e
        /\ \A j \in Ids \ {x} : [t EXCEPT ![x] = e][j] = t[j]
    BY <1>1, <1>2, <1>3, EditIs
  <1> QED
    BY <1>3, <1>4, <1>5

LEMMA AttachIs ==
    ASSUME NEW t, WellFormed(t), NEW d \in Used(t), ~t[d].bytes, NEW x \in Used(t)
    PROVE  /\ WellFormed(Attach(t, d, x)) /\ Used(Attach(t, d, x)) = Used(t)
           /\ Attach(t, d, x)[d].kids = Append(t[d].kids, x)
           /\ Attach(t, d, x)[d].name = t[d].name /\ Attach(t, d, x)[d].type = t[d].type
           /\ Attach(t, d, x)[d].bytes = t[d].bytes
           /\ \A j \in Ids \ {d} : Attach(t, d, x)[j] = t[j]
  <1>1. d \in Ids /\ x \in Ids /\ t[d].kids \in Seq(Ids) /\ \A k \in DOMAIN t[d].kids : t[d].kids[k] \in Used(t)
    BY UsedEntries
  <1> DEFINE kids == Append(t[d].kids, x)
  <1>2. kids \in Seq(Ids) /\ \A k \in DOMAIN kids : kids[k] \in Used(t)
    BY <1>1
  <1>3. Attach(t, d, x) = [t EXCEPT ![d].kids = kids]
    BY DEF Attach
  <1> HIDE DEF kids
  <1>4. /\ WellFormed([t EXCEPT ![d].kids = kids])
        /\ Used([t EXCEPT ![d].kids = kids]) = Used(t)
        /\ [t EXCEPT ![d].kids = kids][d].kids = kids
        /\ [t EXCEPT ![d].kids = kids][d].name = t[d].name
        /\ [t EXCEPT ![d].kids = kids][d].type = t[d].type
        /\ [t EXCEPT ![d].kids = kids][d].bytes = t[d].bytes
        /\ \A j \in Ids \ {d} : [t EXCEPT ![d].kids = kids][j] = t[j]
    BY <1>2, KidsEdit
  <1> QED
    BY <1>3, <1>4 DEF kids

LEMMA DetachIs ==
    ASSUME NEW t, WellFormed(t), NEW d \in Used(t), NEW x
    PROVE  /\ WellFormed(Detach(t, d, x)) /\ Used(Detach(t, d, x)) = Used(t)
           /\ Thinned(Detach(t, d, x)[d].kids, t[d].kids)
           /\ (\A i, j \in DOMAIN t[d].kids : t[d].kids[i] = t[d].kids[j] => i = j)
                => \A i \in DOMAIN Detach(t, d, x)[d].kids : Detach(t, d, x)[d].kids[i] # x
           /\ Detach(t, d, x)[d].name = t[d].name /\ Detach(t, d, x)[d].type = t[d].type
           /\ Detach(t, d, x)[d].bytes = t[d].bytes
           /\ \A j \in Ids \ {d} : Detach(t, d, x)[j] = t[j]
  <1>1. d \in Ids /\ t[d].kids \in Seq(Ids) /\ \A k \in DOMAIN t[d].kids : t[d].kids[k] \in Used(t)
    BY UsedEntries
  <1> DEFINE kids == RemoveFirst(t[d].kids, x)
  <1>2. /\ kids \in Seq(Ids) /\ Thinned(kids, t[d].kids)
        /\ (\A i, j \in DOMAIN t[d].kids : t[d].kids[i] = t[d].kids[j] => i = j)
             => \A i \in DOMAIN kids : kids[i] # x
    BY <1>1, RemovedIs
  <1>3. \A k \in DOMAIN kids : kids[k] \in Used(t)
    BY <1>1, <1>2 DEF Thinned
  <1>4. t[d].bytes => kids = <<>>
    <2>1. t[d].bytes => t[d].kids = <<>>
      BY <1>1 DEF WellFormed
    <2>2. RemoveFirst(<<>>, x) = <<>>
      BY DEF RemoveFirst
    <2> QED
      BY <2>1, <2>2
  <1>5. Detach(t, d, x) = [t EXCEPT ![d].kids = kids]
    BY DEF Detach
  <1> HIDE DEF kids
  <1>6. /\ WellFormed([t EXCEPT ![d].kids = kids])
        /\ Used([t EXCEPT ![d].kids = kids]) = Used(t)
        /\ [t EXCEPT ![d].kids = kids][d].kids = kids
        /\ [t EXCEPT ![d].kids = kids][d].name = t[d].name
        /\ [t EXCEPT ![d].kids = kids][d].type = t[d].type
        /\ [t EXCEPT ![d].kids = kids][d].bytes = t[d].bytes
        /\ \A j \in Ids \ {d} : [t EXCEPT ![d].kids = kids][j] = t[j]
    BY <1>2, <1>3, <1>4, KidsEdit
  <1> QED
    BY <1>2, <1>5, <1>6

\* The content of a file, in the pickle or beside it.
LEMMA RealEdit ==
    ASSUME NEW t, WellFormed(t), NEW f \in Used(t)
    PROVE  WellFormed([t EXCEPT ![f].real = TRUE])
  <1> DEFINE e == [t[f] EXCEPT !.real = TRUE]
  <1>1. /\ f \in Ids /\ t[f] \in Entries /\ t[f].type # "free"
        /\ (f = Root => t[f].type = "dir") /\ (t[f].bytes => t[f].kids = <<>>)
        /\ \A k \in DOMAIN t[f].kids : t[f].kids[k] \in Used(t)
    BY UsedEntries DEF WellFormed, Used
  <1>2. e \in Entries
    BY <1>1 DEF Entries
  <1>3. e.kids = t[f].kids /\ e.type = t[f].type /\ e.bytes = t[f].bytes
    BY <1>1 DEF Entries
  <1>4. [t EXCEPT ![f].real = TRUE] = [t EXCEPT ![f] = e]
    OBVIOUS
  <1> HIDE DEF e
  <1>5. WellFormed([t EXCEPT ![f] = e])
    BY <1>1, <1>2, <1>3, EditIs
  <1> QED
    BY <1>4, <1>5

Emptied(t, f, u) == /\ WellFormed(u) /\ u[f].kids = <<>> /\ u[f].name = t[f].name
                    /\ \A j \in Ids \ {f} : u[j] = t[j]

LEMMA BytesEdit ==
    ASSUME NEW t, WellFormed(t), NEW f \in Used(t)
    PROVE  Emptied(t, f, [t EXCEPT ![f].bytes = TRUE, ![f].kids = <<>>])
  <1> DEFINE e == [t[f] EXCEPT !.bytes = TRUE, !.kids = <<>>]
  <1>1. /\ f \in Ids /\ t[f] \in Entries /\ t[f].type # "free" /\ (f = Root => t[f].type = "dir")
        /\ t \in [Ids -> Entries]
    BY UsedEntries DEF WellFormed, Used
  <1>2. e \in Entries
    <2>1. <<>> \in Seq(Ids) /\ TRUE \in BOOLEAN
      OBVIOUS
    <2>2. [t[f] EXCEPT !.bytes = TRUE] \in Entries
      BY <1>1, <2>1 DEF Entries
    <2>3. e = [[t[f] EXCEPT !.bytes = TRUE] EXCEPT !.kids = <<>>]
      OBVIOUS
    <2> QED
      BY <2>1, <2>2, <2>3 DEF Entries
  <1>3. e.kids = <<>> /\ e.type = t[f].type /\ e.name = t[f].name
    BY <1>1 DEF Entries
  <1>4. [t EXCEPT ![f].bytes = TRUE, ![f].kids = <<>>] = [t EXCEPT ![f] = e]
    BY <1>1
  <1> HIDE DEF e
  <1>5. \A k \in DOMAIN e.kids : e.kids[k] \in Used(t) \cup {f}
    BY <1>3
  <1>6. /\ WellFormed([t EXCEPT ![f] = e])
        /\ [t EXCEPT ![f] = e][f] = e
        /\ \A j \in Ids \ {f} : [t EXCEPT ![f] = e][j] = t[j]
    BY <1>1, <1>2, <1>3, <1>5, EditIs
  <1> QED
    BY <1>3, <1>4, <1>6 DEF Emptied

\* u is t with a free entry x filled with e and put into a directory d.
Put(t, d, x, e, u) ==
    /\ WellFormed(u) /\ Used(u) = Used(t) \cup {x} /\ u[x] = e
    /\ u[d].kids = Append(t[d].kids, x) /\ u[d].name = t[d].name
    /\ u[d].type = t[d].type /\ u[d].bytes = t[d].bytes
    /\ \A j \in Ids \ {d, x} : u[j] = t[j]

LEMMA PutIs ==
    ASSUME NEW t, WellFormed(t), NEW d \in Used(t), ~t[d].bytes, NEW x \in Ids \ Used(t),
           NEW e \in Entries, e.type # "free", e.bytes => e.kids = <<>>,
           \A k \in DOMAIN e.kids : e.kids[k] \in Used(t)
    PROVE  Put(t, d, x, e, Attach([t EXCEPT ![x] = e], d, x))
  <1> DEFINE v == [t EXCEPT ![x] = e]
  <1>1. d \in Ids /\ d # x /\ x # Root
    BY UsedEntries
  <1>2. /\ WellFormed(v) /\ Used(v) = Used(t) \cup {x} /\ v[x] = e
        /\ \A j \in Ids \ {x} : v[j] = t[j]
    <2>1. x \in Ids /\ (x = Root => e.type = "dir") /\ \A k \in DOMAIN e.kids : e.kids[k] \in Used(t) \cup {x}
      BY <1>1
    <2>2. /\ WellFormed([t EXCEPT ![x] = e])
          /\ Used([t EXCEPT ![x] = e]) = Used(t) \cup {x}
          /\ [t EXCEPT ![x] = e][x] = e
          /\ \A j \in Ids \ {x} : [t EXCEPT ![x] = e][j] = t[j]
      <3> HIDE DEF v
      <3>1. PICK i \in Ids : i = x
        OBVIOUS
      <3>2. i = Root => e.type = "dir"
        BY <2>1, <3>1
      <3>3. \A k \in DOMAIN e.kids : e.kids[k] \in Used(t) \cup {i}
        BY <2>1, <3>1
      <3>4. WellFormed([t EXCEPT ![i] = e])
        BY <3>2, <3>3, EditIs
      <3>5. /\ Used([t EXCEPT ![i] = e]) = Used(t) \cup {i}
            /\ \A j \in Ids \ {i} : [t EXCEPT ![i] = e][j] = t[j]
        BY <3>2, <3>3, EditIs
      <3>6. [t EXCEPT ![i] = e][i] = e
        BY DEF WellFormed
      <3> QED
        BY <3>1, <3>4, <3>5, <3>6
    <2> HIDE DEF v
    <2> QED
      BY <2>2 DEF v
  <1> HIDE DEF v
  <1>3. d \in Used(v) /\ ~v[d].bytes /\ x \in Used(v) /\ v[d] = t[d]
    BY <1>1, <1>2
  <1>4. /\ WellFormed(Attach(v, d, x)) /\ Used(Attach(v, d, x)) = Used(v)
        /\ Attach(v, d, x)[d].kids = Append(v[d].kids, x)
        /\ Attach(v, d, x)[d].name = v[d].name /\ Attach(v, d, x)[d].type = v[d].type
        /\ Attach(v, d, x)[d].bytes = v[d].bytes
        /\ \A j \in Ids \ {d} : Attach(v, d, x)[j] = v[j]
    BY <1>2, <1>3, AttachIs
  <1> QED
    BY <1>1, <1>2, <1>3, <1>4 DEF v, Put

LEMMA FreshIs ==
    ASSUME NEW t, ~Full(t)
    PROVE  Fresh(t) \in Ids \ Used(t)
  <1>1. Ids \ Used(t) \in SUBSET Nat /\ Ids \ Used(t) # {}
    BY IdsAssumption DEF Full, Used
  <1> QED
    BY <1>1, MinIs DEF Fresh

LEMMA AddIs ==
    ASSUME NEW t, WellFormed(t), NEW d \in Used(t), ~t[d].bytes,
           NEW name \in Names, NEW type \in {"dir", "file"}
    PROVE  WellFormed(Add(t, d, Entry(name, type)))
  <1> DEFINE e == Entry(name, type)
             x == Fresh(t)
  <1>1. e \in Entries /\ e.type # "free" /\ e.kids = <<>>
    BY EntryIs
  <1>2. CASE Full(t)
    BY <1>2 DEF Add
  <1>3. CASE ~Full(t)
    <2>1. x \in Ids \ Used(t)
      BY <1>3, FreshIs
    <2>2. Add(t, d, e) = Attach([t EXCEPT ![x] = e], d, x)
      BY <1>3 DEF Add
    <2> HIDE DEF x, e
    <2>3. Put(t, d, x, e, Attach([t EXCEPT ![x] = e], d, x))
      BY <1>1, <2>1, PutIs
    <2> QED
      BY <2>2, <2>3 DEF e, Put
  <1> QED
    BY <1>2, <1>3

-----------------------------------------------------------------------------
(* The file system: what a call leaves *)

\* A result with a well formed heap.
Whole(s) == /\ s = Result(s.t, s.n, s.out)
            /\ WellFormed(s.t) /\ s.n \in 0 .. MaxNew + 1
            /\ s.out \in {"ok", "full", "refused", "raised"}

LEMMA ResultIs ==
    ASSUME NEW t, WellFormed(t), NEW n \in 0 .. MaxNew + 1, NEW o \in {"ok", "full", "refused", "raised"}
    PROVE  Whole(Result(t, n, o)) /\ Result(t, n, o).t = t /\ Result(t, n, o).n = n /\ Result(t, n, o).out = o
  BY DEF Whole, Result

LEMMA EndedIs ==
    ASSUME NEW s, Whole(s), NEW o \in {"ok", "full", "refused", "raised"}, NEW r, r = [s EXCEPT !.out = o]
    PROVE  Whole(r) /\ r.t = s.t /\ r.n = s.n /\ r.out = o
  <1>1. s = Result(s.t, s.n, s.out) /\ WellFormed(s.t) /\ s.n \in 0 .. MaxNew + 1
    BY DEF Whole
  <1>2. r = Result(s.t, s.n, o)
    BY <1>1 DEF Result
  <1> QED
    BY <1>1, <1>2, ResultIs

\* A directory that entries can be put into.
LEMMA ListedIs ==
    ASSUME NEW t, WellFormed(t), NEW path \in Seq(Names)
    PROVE  /\ Listed(t, get_path(t, path)) => get_path(t, path) \in Used(t) /\ ~t[get_path(t, path)].bytes
           /\ ~(get_path(t, path) <= 0) => get_path(t, path) \in Used(t)
           /\ get_path(t, path) > 0 => get_path(t, path) \in Used(t)
           /\ Listed(t, get_path(t, path)) => get_path(t, path) > 0
           /\ get_path(t, path) \notin {Raised, NotFound} => get_path(t, path) \in Used(t)
           /\ get_path(t, path) \in Used(t) => get_path(t, path) > 0
  <1>1. get_path(t, path) \in Used(t) \cup {Raised, NotFound}
    BY get_pathType
  <1>2. /\ get_path(t, path) > 0 => get_path(t, path) \in Used(t)
        /\ ~(get_path(t, path) <= 0) => get_path(t, path) \in Used(t)
    BY <1>1 DEF Raised, NotFound
  <1>3. get_path(t, path) \in Used(t) => get_path(t, path) > 0
    BY UsedEntries
  <1> QED
    BY <1>1, <1>2, <1>3 DEF Listed

LEMMA mkfileIs ==
    ASSUME NEW s, Whole(s), NEW path \in Seq(Names)
    PROVE  /\ Whole(mkfile(s, path)) /\ mkfile(s, path).out \in {"ok", "full", "raised"}
           /\ mkfile(s, path).out # "ok" => mkfile(s, path).t = s.t
  <1> DEFINE d == get_path(s.t, Parent(path))
             old == First(s.t, d, Base(path))
             t1 == IF old = None THEN s.t ELSE Detach(s.t, d, old)
  <1>1. Parent(path) \in Seq(Names) /\ Base(path) \in Names /\ WellFormed(s.t) /\ s.n \in 0 .. MaxNew + 1
    BY Pieces DEF Whole
  <1>2. CASE s.n > MaxNew
    <2>1. mkfile(s, path) = [s EXCEPT !.out = "full"]
      BY <1>1, <1>2, MaxNewAssumption DEF mkfile
    <2> QED
      BY <2>1, EndedIs
  <1>3. CASE s.n <= MaxNew /\ (IsSpecial(Parent(path)) \/ ~Listed(s.t, d))
    <2>1. mkfile(s, path) = [s EXCEPT !.out = "raised"]
      BY <1>1, <1>3, MaxNewAssumption DEF mkfile
    <2> QED
      BY <2>1, EndedIs
  <1>4. CASE s.n <= MaxNew /\ ~(IsSpecial(Parent(path)) \/ ~Listed(s.t, d))
    <2>1. mkfile(s, path) = Result(Add(t1, d, Entry(Base(path), "file")), s.n + 1, "ok")
      BY <1>1, <1>4, MaxNewAssumption DEF mkfile
    <2>2. d \in Used(s.t) /\ ~s.t[d].bytes
      BY <1>1, <1>4, ListedIs
    <2> HIDE DEF d
    <2>3. /\ WellFormed(Detach(s.t, d, old)) /\ Used(Detach(s.t, d, old)) = Used(s.t)
          /\ Detach(s.t, d, old)[d].bytes = s.t[d].bytes
      BY <1>1, <2>2, DetachIs
    <2>4. WellFormed(t1) /\ d \in Used(t1) /\ ~t1[d].bytes
      BY <1>1, <2>2, <2>3
    <2> HIDE DEF t1
    <2>5. WellFormed(Add(t1, d, Entry(Base(path), "file")))
      BY <1>1, <2>4, AddIs
    <2>6. s.n + 1 \in 0 .. MaxNew + 1
      BY <1>1, <1>4, MaxNewAssumption
    <2> QED
      BY <2>1, <2>5, <2>6, ResultIs
  <1> QED
    BY <1>1, <1>2, <1>3, <1>4, MaxNewAssumption

LEMMA mkdirIs ==
    ASSUME NEW s, Whole(s), NEW path \in Seq(Names)
    PROVE  /\ Whole(mkdir(s, path)) /\ mkdir(s, path).out \in {"ok", "raised"}
           /\ mkdir(s, path).out # "ok" => mkdir(s, path).t = s.t
  <1> DEFINE d == get_path(s.t, Parent(path))
  <1>1. Parent(path) \in Seq(Names) /\ Base(path) \in Names /\ WellFormed(s.t) /\ s.n \in 0 .. MaxNew + 1
    BY Pieces DEF Whole
  <1>2. CASE s.n > MaxNew \/ path = <<>> \/ ~Listed(s.t, d)
    <2>1. mkdir(s, path) = [s EXCEPT !.out = "raised"]
      BY <1>2 DEF mkdir
    <2> QED
      BY <2>1, EndedIs
  <1>3. CASE ~(s.n > MaxNew \/ path = <<>> \/ ~Listed(s.t, d))
    <2>1. mkdir(s, path) = Result(Add(s.t, d, Entry(Base(path), "dir")), s.n + 1, "ok")
      BY <1>3 DEF mkdir
    <2>2. d \in Used(s.t) /\ ~s.t[d].bytes
      BY <1>1, <1>3, ListedIs
    <2> HIDE DEF d
    <2>3. WellFormed(Add(s.t, d, Entry(Base(path), "dir")))
      BY <1>1, <2>2, AddIs
    <2>4. s.n + 1 \in 0 .. MaxNew + 1
      BY <1>1, <1>3, MaxNewAssumption
    <2> QED
      BY <2>1, <2>3, <2>4, ResultIs
  <1> QED
    BY <1>2, <1>3

LEMMA update_realfileIs ==
    ASSUME NEW s, Whole(s), NEW path \in Seq(Names)
    PROVE  Whole(update_realfile(s, path)) /\ update_realfile(s, path).out \in {s.out, "raised"}
  <1> DEFINE f == getfile(s.t, path, TRUE)
  <1>1. f \in Outcome(s.t) /\ WellFormed(s.t) /\ s = Result(s.t, s.n, s.out)
        /\ s.n \in 0 .. MaxNew + 1 /\ s.out \in {"ok", "full", "refused", "raised"}
    BY getfileType DEF Whole
  <1>2. CASE s.out = "raised" \/ f <= 0
    <2>1. update_realfile(s, path) = [s EXCEPT !.out = "raised"]
      BY <1>2 DEF update_realfile
    <2> QED
      BY <2>1, EndedIs
  <1>3. CASE ~(s.out = "raised" \/ f <= 0)
    <2>1. f \in Used(s.t)
      <3>1. f \in Outcome(s.t) /\ ~(f <= 0)
        BY <1>1, <1>3
      <3> HIDE DEF f
      <3> QED
        BY <1>1, <3>1, OutcomeIs
    <2>2. update_realfile(s, path) = [s EXCEPT !.t[f].real = TRUE]
      BY <1>3 DEF update_realfile
    <2> HIDE DEF f
    <2>3. [s EXCEPT !.t[f].real = TRUE] = Result([s.t EXCEPT ![f].real = TRUE], s.n, s.out)
      <3> DEFINE u == [s.t EXCEPT ![f].real = TRUE]
      <3>1. [s EXCEPT !.t[f].real = TRUE] = [s EXCEPT !.t = u]
        OBVIOUS
      <3> HIDE DEF u
      <3>2. [s EXCEPT !.t = u] = Result(u, s.n, s.out)
        BY <1>1 DEF Result
      <3> QED
        BY <3>1, <3>2 DEF u
    <2>4. WellFormed([s.t EXCEPT ![f].real = TRUE])
      BY <1>1, <2>1, RealEdit
    <2> QED
      BY <1>1, <2>2, <2>3, <2>4, ResultIs
  <1> QED
    BY <1>2, <1>3

LEMMA openIs ==
    ASSUME NEW s, Whole(s), NEW path \in Seq(Names), NEW creat
    PROVE  Whole(open(s, path, creat)) /\ open(s, path, creat).out # "refused"
  <1> DEFINE made == mkfile(s, path)
  <1>1. Whole(made) /\ made.out # "refused"
    BY mkfileIs
  <1>2. open(s, path, creat) = IF made.out = "raised" THEN made
                               ELSE IF ~creat THEN [made EXCEPT !.out = "raised"] ELSE update_realfile(made, path)
    BY DEF open, Fails
  <1> HIDE DEF made
  <1>3. Whole([made EXCEPT !.out = "raised"]) /\ [made EXCEPT !.out = "raised"].out # "refused"
    <2>1. PICK r : r = [made EXCEPT !.out = "raised"]
      OBVIOUS
    <2>2. Whole(r) /\ r.out = "raised"
      BY <1>1, <2>1, EndedIs
    <2> QED
      BY <2>1, <2>2
  <1>4. Whole(update_realfile(made, path)) /\ update_realfile(made, path).out # "refused"
    BY <1>1, update_realfileIs
  <1> QED
    BY <1>1, <1>2, <1>3, <1>4

LEMMA mkdir2Is ==
    ASSUME NEW s, Whole(s), NEW path \in Seq(Names)
    PROVE  Whole(mkdir2(s, path)) /\ mkdir2(s, path).out \in {"ok", "raised"}
           /\ (mkdir2(s, path).out # "ok" => mkdir2(s, path).t = s.t)
  <1>1. CASE getfile(s.t, path, TRUE) # None
    <2>1. mkdir2(s, path) = [s EXCEPT !.out = "raised"]
      BY <1>1 DEF mkdir2, Fails
    <2> QED
      BY <2>1, EndedIs
  <1>2. CASE getfile(s.t, path, TRUE) = None
    <2>1. mkdir2(s, path) = mkdir(s, path)
      BY <1>2 DEF mkdir2
    <2> QED
      BY <2>1, mkdirIs
  <1> QED
    BY <1>1, <1>2

\* A removal by rmdir or by remove.
LEMMA RemovalIs ==
    ASSUME NEW s, Whole(s), NEW d \in Used(s.t), NEW x
    PROVE  Whole(Result(Detach(s.t, d, x), s.n, "ok")) /\ Result(Detach(s.t, d, x), s.n, "ok").out = "ok"
  <1>1. WellFormed(Detach(s.t, d, x)) /\ s.n \in 0 .. MaxNew + 1
    BY DetachIs DEF Whole
  <1> QED
    BY <1>1, ResultIs

LEMMA rmdirIs ==
    ASSUME NEW s, Whole(s), NEW path \in Seq(Names)
    PROVE  Whole(rmdir(s, path)) /\ rmdir(s, path).out \in {"ok", "raised"}
           /\ (rmdir(s, path).out # "ok" => rmdir(s, path).t = s.t)
  <1> DEFINE x == IF path = <<>> THEN None ELSE getfile(s.t, path, FALSE)
             p == get_path(s.t, path)
             d == get_path(s.t, Parent(path))
             bad == x <= 0 \/ s.t[x].type # "dir" \/ p <= 0 \/ s.t[p].kids # <<>> \/ d <= 0
             hit == First(s.t, d, Base(path))
  <1>1. rmdir(s, path) = IF bad THEN [s EXCEPT !.out = "raised"] ELSE Result(Detach(s.t, d, hit), s.n, "ok")
    BY DEF rmdir, Fails
  <1>2. ~bad => d \in Used(s.t)
    <2>1. ~bad => ~(d <= 0)
      OBVIOUS
    <2>2. ~(d <= 0) => d \in Used(s.t)
      BY Pieces, ListedIs DEF Whole
    <2> QED
      BY <2>1, <2>2
  <1> HIDE DEF bad, d, hit
  <1> QED
    BY <1>1, <1>2, RemovalIs, EndedIs

LEMMA removeIs ==
    ASSUME NEW s, Whole(s), NEW path \in Seq(Names)
    PROVE  Whole(remove(s, path)) /\ remove(s, path).out \in {"ok", "raised"}
           /\ (remove(s, path).out # "ok" => remove(s, path).t = s.t)
  <1> DEFINE x == getfile(s.t, path, FALSE)
             d == get_path(s.t, Parent(path))
             bad == x <= 0 \/ d <= 0 \/ ~Holds(s.t, d, x)
  <1>1. remove(s, path) = IF bad THEN [s EXCEPT !.out = "raised"] ELSE Result(Detach(s.t, d, x), s.n, "ok")
    BY DEF remove, Fails
  <1>2. ~bad => d \in Used(s.t)
    <2>1. ~bad => ~(d <= 0)
      OBVIOUS
    <2>2. ~(d <= 0) => d \in Used(s.t)
      BY Pieces, ListedIs DEF Whole
    <2> QED
      BY <2>1, <2>2
  <1> HIDE DEF bad, d, x
  <1> QED
    BY <1>1, <1>2, RemovalIs, EndedIs

LEMMA renameIs ==
    ASSUME NEW s, Whole(s), NEW oldpath \in Seq(Names), NEW newpath \in Seq(Names)
    PROVE  Whole(rename(s, oldpath, newpath)) /\ rename(s, oldpath, newpath).out # "refused"
  <1> DEFINE old == getfile(s.t, oldpath, TRUE)
             new == getfile(s.t, newpath, TRUE)
             d == get_path(s.t, Parent(oldpath))
             t0 == Detach(s.t, d, old)
             t1 == [t0 EXCEPT ![old].name = Base(newpath)]
             d2 == get_path(t1, Parent(newpath))
             bad == old <= 0 \/ new # None \/ d <= 0 \/ ~Holds(s.t, d, old)
  <1>1. rename(s, oldpath, newpath) = IF bad THEN [s EXCEPT !.out = "raised"]
                                      ELSE IF ~Listed(t1, d2) THEN Result(t1, s.n, "raised")
                                      ELSE Result(Attach(t1, d2, old), s.n, "ok")
    BY DEF rename, Fails
  <1>2. WellFormed(s.t) /\ s.n \in 0 .. MaxNew + 1 /\ Parent(oldpath) \in Seq(Names)
        /\ Parent(newpath) \in Seq(Names) /\ Base(newpath) \in Names
    BY Pieces DEF Whole
  <1>3. CASE bad
    BY <1>1, <1>3, EndedIs
  <1>4. CASE ~bad
    <2>1. d \in Used(s.t)
      <3>1. ~(d <= 0)
        BY <1>4
      <3>2. ~(d <= 0) => d \in Used(s.t)
        BY <1>2, ListedIs
      <3> QED
        BY <3>1, <3>2
    <2>2. old \in Used(s.t)
      <3>1. old \in Outcome(s.t) /\ ~(old <= 0)
        BY <1>2, <1>4, getfileType
      <3> HIDE DEF old
      <3> QED
        BY <1>2, <3>1, OutcomeIs
    <2> HIDE DEF d, old, new
    <2>3. WellFormed(t0) /\ Used(t0) = Used(s.t)
      BY <1>2, <2>1, DetachIs
    <2> HIDE DEF t0
    <2>4. WellFormed(t1) /\ Used(t1) = Used(s.t)
      BY <1>2, <2>2, <2>3, NameEdit
    <2> HIDE DEF t1
    <2>5. Listed(t1, d2) => d2 \in Used(t1) /\ ~t1[d2].bytes
      BY <1>2, <2>4, ListedIs
    <2> HIDE DEF d2
    <2>6. Listed(t1, d2) => WellFormed(Attach(t1, d2, old))
      BY <2>2, <2>4, <2>5, AttachIs
    <2>7. Whole(Result(t1, s.n, "raised")) /\ Result(t1, s.n, "raised").out # "refused"
      BY <1>2, <2>4, ResultIs
    <2>8. /\ Listed(t1, d2) => Whole(Result(Attach(t1, d2, old), s.n, "ok"))
          /\ Result(Attach(t1, d2, old), s.n, "ok").out # "refused"
      BY <1>2, <2>6, ResultIs DEF Result
    <2> QED
      BY <1>1, <1>4, <2>7, <2>8
  <1> QED
    BY <1>3, <1>4

-----------------------------------------------------------------------------
(* The file system: a deep copy *)

\* The smaller of two finite sets fits into the other.
LEMMA InjectionExists ==
    ASSUME NEW A, NEW B, IsFiniteSet(A), IsFiniteSet(B), Cardinality(A) <= Cardinality(B)
    PROVE  \E h \in [A -> B] : \A x, y \in A : h[x] = h[y] => x = y
  <1> DEFINE a == Cardinality(A)
             b == Cardinality(B)
  <1>1. a \in Nat /\ b \in Nat /\ ExistsBijection(1 .. a, A) /\ ExistsBijection(1 .. b, B)
    BY FS_CardinalityType
  <1>2. a <= b
    OBVIOUS
  <1> HIDE DEF a, b
  <1>3. PICK f \in [1 .. a -> A] : \A x \in A : \E i \in 1 .. a : f[i] = x
    BY <1>1 DEF ExistsBijection, Bijection, Surjection
  <1>4. PICK g \in [1 .. b -> B] : \A i, j \in 1 .. b : g[i] = g[j] => i = j
    BY <1>1 DEF ExistsBijection, Bijection, Injection, IsInjective
  <1> DEFINE At0(x) == CHOOSE i \in 1 .. a : f[i] = x
  <1>5. \A x \in A : At0(x) \in 1 .. a /\ f[At0(x)] = x
    BY <1>3
  <1> HIDE DEF At0
  <1>6. \A x \in A : At0(x) \in 1 .. b
    BY <1>1, <1>2, <1>5
  <1> DEFINE h == [x \in A |-> g[At0(x)]]
  <1>7. h \in [A -> B]
    BY <1>4, <1>6
  <1>8. \A x, y \in A : h[x] = h[y] => x = y
    BY <1>4, <1>5, <1>6
  <1> HIDE DEF h
  <1> QED
    BY <1>7, <1>8

\* u is t with a copy of what is under x, each entry i of it copied to m[i].
CopyOf(t, x, u, m) ==
    LET from == Under(t, {x})
    IN  /\ m \in [from -> Ids \ Used(t)]
        /\ \A i, j \in from : m[i] = m[j] => i = j
        /\ \A i \in from : u[m[i]] = [t[i] EXCEPT !.kids = [k \in DOMAIN t[i].kids |-> m[t[i].kids[k]]]]
        /\ \A j \in Ids : (\A i \in from : m[i] # j) => u[j] = t[j]
        /\ u = [j \in Ids |-> u[j]]

LEMMA CopiedAs ==
    ASSUME NEW t, WellFormed(t), NEW x \in Used(t), Fits(t, x)
    PROVE  \E m : CopyOf(t, x, Copied(t, x).t, m) /\ Copied(t, x).x = m[x]
  <1> DEFINE from == Under(t, {x})
             IsIn(f) == \A i, j \in from : f[i] = f[j] => i = j
             m == CHOOSE f \in [from -> Ids \ Used(t)] : IsIn(f)
             Of(j) == CHOOSE i \in from : m[i] = j
             u == [j \in Ids |-> IF \E i \in from : m[i] = j
                                 THEN [t[Of(j)] EXCEPT !.kids = [k \in DOMAIN t[Of(j)].kids |-> m[t[Of(j)].kids[k]]]]
                                 ELSE t[j]]
  <1>1. Copied(t, x).t = u /\ Copied(t, x).x = m[x]
    BY DEF Copied
  <1>2. \E f \in [from -> Ids \ Used(t)] : IsIn(f)
    <2>1. {x} \in SUBSET Ids
      BY UsedEntries
    <2>2. from \subseteq Ids
      BY <2>1, UnderIs
    <2>3. IsFiniteSet(from) /\ IsFiniteSet(Ids \ Used(t))
      BY <2>2, IdsAssumption, FS_Subset
    <2>4. Cardinality(from) <= Cardinality(Ids \ Used(t))
      BY DEF Fits
    <2> HIDE DEF from
    <2> QED
      BY <2>3, <2>4, InjectionExists
  <1>3. m \in [from -> Ids \ Used(t)] /\ IsIn(m)
    <2> HIDE DEF from, IsIn
    <2> QED
      BY <1>2
  <1> HIDE DEF m
  <1>4. ASSUME NEW i \in from
        PROVE  u[m[i]] = [t[i] EXCEPT !.kids = [k \in DOMAIN t[i].kids |-> m[t[i].kids[k]]]]
    <2>1. m[i] \in Ids /\ \E j \in from : m[j] = m[i]
      BY <1>3
    <2>2. Of(m[i]) = i
      BY <1>3
    <2> HIDE DEF from, Of
    <2> QED
      BY <2>1, <2>2
  <1>5. \A j \in Ids : (\A i \in from : m[i] # j) => u[j] = t[j]
    OBVIOUS
  <1>6. u = [j \in Ids |-> u[j]]
    OBVIOUS
  <1> HIDE DEF u
  <1>7. CopyOf(t, x, u, m)
    BY <1>3, <1>4, <1>5, <1>6 DEF CopyOf
  <1> QED
    BY <1>1, <1>7

\* What a copy is: new entries, with the names and the content of the old.
Copies(t, x, u, m) ==
    /\ \A j \in Used(u) : j \in Used(t) \/ \E i \in Under(t, {x}) : j = m[i]
    /\ \A i \in Under(t, {x}) :
        /\ u[m[i]].name = t[i].name /\ DOMAIN u[m[i]].kids = DOMAIN t[i].kids
        /\ u[m[i]].bytes = t[i].bytes
        /\ \A k \in DOMAIN t[i].kids : t[i].kids[k] \in Under(t, {x}) /\ u[m[i]].kids[k] = m[t[i].kids[k]]

LEMMA CopyIs ==
    ASSUME NEW t, WellFormed(t), NEW x \in Used(t), NEW u, NEW m, CopyOf(t, x, u, m)
    PROVE  /\ WellFormed(u) /\ m[x] \in Ids \ Used(t) /\ m[x] \in Used(u)
           /\ x \in Under(t, {x}) /\ Under(t, {x}) \subseteq Used(t)
           /\ Used(t) \subseteq Used(u)
           /\ \A j \in Used(t) : u[j] = t[j]
           /\ \A j \in Ids : (\A i \in Under(t, {x}) : m[i] # j) => u[j] = t[j]
           /\ Copies(t, x, u, m)
  <1> DEFINE from == Under(t, {x})
             img == {m[i] : i \in from}
             New(i) == [k \in DOMAIN t[i].kids |-> m[t[i].kids[k]]]
  <1>1. x \in from /\ from \subseteq Used(t) /\ \A i \in from : Children(t, i) \subseteq from
    <2>1. {x} \in SUBSET Ids /\ Used(t) \in SUBSET Ids /\ {x} \subseteq Used(t)
      BY UsedEntries
    <2>2. Closed(t, Used(t))
      BY UsedEntries DEF WellFormed, Closed
    <2>3. from \subseteq Used(t) /\ x \in from /\ Closed(t, from)
      BY <2>1, <2>2, UnderIs
    <2>4. \A i \in from : Children(t, i) \subseteq Ids
      BY <2>1, <2>3 DEF WellFormed
    <2> HIDE DEF from
    <2> QED
      BY <2>3, <2>4 DEF Closed
  <1>2. /\ m \in [from -> Ids \ Used(t)]
        /\ \A i \in from : u[m[i]] = [t[i] EXCEPT !.kids = New(i)]
        /\ \A j \in Ids : (\A i \in from : m[i] # j) => u[j] = t[j]
        /\ u = [j \in Ids |-> u[j]]
    BY DEF CopyOf
  <1> HIDE DEF from
  <1>3. \A j \in Used(t) : u[j] = t[j]
    BY <1>2, UsedEntries
  <1>4. ASSUME NEW i \in from
        PROVE  /\ New(i) \in Seq(Ids) /\ DOMAIN New(i) = DOMAIN t[i].kids
               /\ \A k \in DOMAIN t[i].kids : t[i].kids[k] \in from /\ New(i)[k] = m[t[i].kids[k]]
    <2>1. i \in Ids /\ t[i].kids \in Seq(Ids) /\ Children(t, i) = {t[i].kids[k] : k \in DOMAIN t[i].kids}
      BY <1>1, UsedEntries
    <2>2. \A k \in DOMAIN t[i].kids : t[i].kids[k] \in from
      BY <1>1, <2>1
    <2>3. \A k \in DOMAIN t[i].kids : m[t[i].kids[k]] \in Ids
      BY <1>2, <2>2
    <2>4. PICK n \in Nat : n = Len(t[i].kids)
      BY <2>1
    <2>5. DOMAIN t[i].kids = 1 .. n
      BY <2>1, <2>4
    <2>6. New(i) \in [1 .. n -> Ids]
      BY <2>3, <2>5
    <2>7. New(i) \in Seq(Ids)
      <3> HIDE DEF New
      <3> QED
        BY <2>6
    <2> QED
      BY <2>2, <2>7
  <1>5. ASSUME NEW i \in from
        PROVE  /\ u[m[i]] \in Entries /\ u[m[i]].name = t[i].name /\ u[m[i]].type = t[i].type
               /\ u[m[i]].bytes = t[i].bytes /\ u[m[i]].kids = New(i)
    <2>1. t[i] \in Entries /\ New(i) \in Seq(Ids) /\ u[m[i]] = [t[i] EXCEPT !.kids = New(i)]
      BY <1>1, <1>2, <1>4, UsedEntries
    <2> HIDE DEF New
    <2> QED
      BY <2>1 DEF Entries
  <1> HIDE DEF New
  <1>6. \A j \in Ids \ img : u[j] = t[j]
    BY <1>2
  <1>7. img \subseteq Ids \ Used(t)
    BY <1>2
  <1>8. Used(u) = Used(t) \cup img
    <2>1. \A j \in img : u[j].type # "free"
      BY <1>1, <1>5 DEF Used
    <2>2. \A j \in Ids : u[j].type # "free" <=> j \in Used(t) \cup img
      BY <1>6, <2>1, <1>7 DEF Used
    <2> QED
      BY <1>7, <2>2, UsedEntries DEF Used
  <1>9. WellFormed(u)
    <2>1. \A j \in Ids : u[j] \in Entries
      BY <1>5, <1>6, UsedEntries
    <2>2. u \in [Ids -> Entries]
      BY <1>2, <2>1
    <2>3. u[Root].type = "dir"
      BY <1>3, UsedEntries DEF WellFormed
    <2>4. ASSUME NEW j \in Ids
          PROVE  Children(u, j) \subseteq Used(u) /\ (u[j].bytes => u[j].kids = <<>>)
      <3>1. CASE j \notin img
        <4>1. u[j] = t[j] /\ Children(u, j) = Children(t, j)
          BY <1>6, <3>1 DEF Children
        <4> QED
          BY <1>8, <4>1 DEF WellFormed
      <3>2. CASE j \in img
        <4>1. PICK i \in from : j = m[i]
          BY <3>2
        <4>2. u[j].kids = New(i) /\ u[j].bytes = t[i].bytes
          BY <1>5, <4>1
        <4>3. Children(u, j) \subseteq img
          <5>1. Children(u, j) = {New(i)[k] : k \in DOMAIN New(i)}
            BY <4>2 DEF Children, ToSet
          <5> QED
            BY <1>4, <5>1
        <4>4. t[i].bytes => New(i) = <<>>
          <5>1. t[i].bytes => t[i].kids = <<>>
            BY <1>1, UsedEntries DEF WellFormed
          <5>2. New(i) \in Seq(Ids) /\ DOMAIN New(i) = DOMAIN t[i].kids
            BY <1>4
          <5>3. t[i].bytes => DOMAIN New(i) = {}
            BY <5>1, <5>2
          <5>4. \A q \in Seq(Ids) : DOMAIN q = {} => q = <<>>
            <6> TAKE q \in Seq(Ids)
            <6>1. DOMAIN q = 1 .. Len(q) /\ Len(q) \in Nat
              OBVIOUS
            <6>2. DOMAIN q = {} => Len(q) = 0
              BY <6>1
            <6> QED
              BY <6>2
          <5> QED
            BY <5>2, <5>3, <5>4
        <4> QED
          BY <1>8, <4>2, <4>3, <4>4
      <3> QED
        BY <3>1, <3>2
    <2> QED
      BY <2>2, <2>3, <2>4 DEF WellFormed
  <1>10. m[x] \in Ids \ Used(t) /\ m[x] \in Used(u)
    BY <1>1, <1>2, <1>8
  <1>11. \A i \in from : /\ u[m[i]].name = t[i].name /\ DOMAIN u[m[i]].kids = DOMAIN t[i].kids
                         /\ u[m[i]].bytes = t[i].bytes
                         /\ \A k \in DOMAIN t[i].kids : /\ t[i].kids[k] \in from
                                                       /\ u[m[i]].kids[k] = m[t[i].kids[k]]
    BY <1>4, <1>5
  <1> QED
    BY <1>1, <1>2, <1>3, <1>8, <1>9, <1>10, <1>11 DEF from, Copies

-----------------------------------------------------------------------------
(* The file system: what a command leaves *)

\* Who may leave a part of the work behind.
Six == {"mv", "rename", "open", "tar", "git", "download"}
\* The heap is sound, and untouched when the call says so.
Harmless(op, s) == /\ Whole(s)
                   /\ s.out = "refused" => s.t = tree
                   /\ s.out \in {"raised", "full"} /\ op \notin Six => s.t = tree
Checks == {"ok", "refused", "raised"}

TreeIInv == /\ TreeTypeOK
            /\ cwd \in Seq(Names)
            /\ front = "fsctl" => IsTree(tree) /\ ~Doubled(tree)

LEMMA StateIs ==
    ASSUME TreeTypeOK
    PROVE  /\ Whole(State) /\ State.t = tree /\ State.n = newcount /\ State.out = "ok"
           /\ \A op : Harmless(op, State)
  <1>1. WellFormed(tree) /\ newcount \in 0 .. MaxNew + 1
    BY DEF TreeTypeOK
  <1>2. Whole(State) /\ State.t = tree /\ State.n = newcount /\ State.out = "ok"
    BY <1>1, ResultIs DEF State
  <1> QED
    BY <1>2 DEF Harmless

LEMMA EndsIs ==
    ASSUME TreeTypeOK, NEW op, NEW o \in {"ok", "full", "refused", "raised"}
    PROVE  Harmless(op, Ends(o)) /\ Ends(o).t = tree /\ Ends(o).out = o
  <1> DEFINE r == Ends(o)
  <1>1. r = [State EXCEPT !.out = o]
    BY DEF Ends
  <1> HIDE DEF r
  <1>2. Whole(r) /\ r.t = State.t /\ r.out = o
    BY <1>1, StateIs, EndedIs
  <1>3. r.t = tree
    BY <1>2, StateIs
  <1>4. Harmless(op, r)
    BY <1>2, <1>3 DEF Harmless
  <1> QED
    BY <1>2, <1>3, <1>4 DEF r

LEMMA GuardedIs ==
    ASSUME TreeTypeOK, NEW op, NEW checks \in Seq(Checks), NEW s,
           (\A i \in DOMAIN checks : checks[i] = "ok") => Harmless(op, s)
    PROVE  Harmless(op, Guarded(checks, s))
  <1> DEFINE stops == {i \in DOMAIN checks : checks[i] # "ok"}
  <1>1. CASE stops = {}
    <2>1. Guarded(checks, s) = s
      BY <1>1 DEF Guarded
    <2>2. \A i \in DOMAIN checks : checks[i] = "ok"
      BY <1>1
    <2> QED
      BY <2>1, <2>2
  <1>2. CASE stops # {}
    <2>1. Guarded(checks, s) = Ends(checks[Min(stops)])
      BY <1>2 DEF Guarded
    <2>2. stops \in SUBSET Nat
      OBVIOUS
    <2>3. Min(stops) \in stops
      BY <1>2, <2>2, MinIs
    <2>4. \A i \in stops : checks[i] \in Checks
      OBVIOUS
    <2>5. PICK o \in Checks : o = checks[Min(stops)]
      BY <2>3, <2>4
    <2>6. Harmless(op, Ends(o)) /\ Ends(o).t = tree
      BY EndsIs DEF Checks
    <2>7. Guarded(checks, s) = Ends(o)
      BY <2>1, <2>5
    <2> QED
      BY <2>6, <2>7
  <1> QED
    BY <1>1, <1>2

LEMMA GuardedAs ==
    ASSUME TreeTypeOK, NEW checks \in Seq(Checks), NEW s
    PROVE  \/ Guarded(checks, s) = s /\ \A i \in DOMAIN checks : checks[i] = "ok"
           \/ Guarded(checks, s).t = tree
  <1> DEFINE stops == {i \in DOMAIN checks : checks[i] # "ok"}
  <1>1. CASE stops = {}
    <2>1. Guarded(checks, s) = s
      BY <1>1 DEF Guarded
    <2>2. \A i \in DOMAIN checks : checks[i] = "ok"
      BY <1>1
    <2> QED
      BY <2>1, <2>2
  <1>2. CASE stops # {}
    <2>1. Guarded(checks, s) = Ends(checks[Min(stops)])
      BY <1>2 DEF Guarded
    <2>2. stops \in SUBSET Nat
      OBVIOUS
    <2>3. Min(stops) \in stops
      BY <1>2, <2>2, MinIs
    <2>4. \A i \in stops : checks[i] \in Checks
      OBVIOUS
    <2>5. PICK o \in Checks : o = checks[Min(stops)]
      BY <2>3, <2>4
    <2>6. Ends(o).t = tree
      BY EndsIs DEF Checks
    <2>7. Guarded(checks, s) = Ends(o)
      BY <2>1, <2>5
    <2> QED
      BY <2>6, <2>7
  <1> QED
    BY <1>1, <1>2

LEMMA CheckIs ==
    /\ \A f : Found(f) \in Checks
    /\ \A c : \A o \in Checks : When(c, o) \in Checks
  BY DEF Found, When, Checks

\* A call of the shell or of SFTP, once its result is known to be sound.
RefusalKept == \/ last'.out = "refused"
               \/ /\ last'.out \in {"raised", "full"}
                  /\ last'.op \notin {"mv", "rename", "open", "tar", "git", "download"}
               => tree' = tree

LEMMA CallKeeps ==
    ASSUME TreeIInv, NEW op, NEW paths, NEW s, Harmless(op, s), Did(op, paths, s), cwd' \in Seq(Names),
           front = "fsctl" => IsTree(Collect(s.t)) /\ ~Doubled(Collect(s.t))
    PROVE  TreeIInv' /\ RefusalKept
  <1>1. /\ WellFormed(s.t) /\ s.n \in 0 .. MaxNew + 1 /\ s.out \in {"ok", "full", "refused", "raised"}
        /\ s.out = "refused" => s.t = tree
        /\ s.out \in {"raised", "full"} /\ op \notin Six => s.t = tree
    BY DEF Harmless, Whole
  <1>2. /\ tree' = Collect(s.t) /\ newcount' = s.n /\ front' = front
        /\ last' = [op |-> op, paths |-> paths, out |-> s.out]
    BY DEF Did
  <1>3. WellFormed(tree') /\ Collect(tree') = tree'
    BY <1>1, <1>2, CollectIs
  <1>4. last'.out = s.out /\ last'.op = op
    BY <1>2
  <1>5. TreeTypeOK'
    BY <1>1, <1>2, <1>3, <1>4 DEF TreeTypeOK, TreeIInv
  <1>6. TreeIInv'
    BY <1>2, <1>5 DEF TreeIInv
  <1>7. s.t = tree => tree' = tree
    BY <1>2 DEF TreeIInv, TreeTypeOK
  <1>8. RefusalKept
    BY <1>1, <1>4, <1>7 DEF RefusalKept, Six
  <1> QED
    BY <1>6, <1>8

LEMMA ShellKeeps ==
    ASSUME TreeIInv, NEW op, NEW paths, NEW s, Harmless(op, s), Shell(op, paths, s) \/ Sftp(op, paths, s)
    PROVE  TreeIInv' /\ RefusalKept
  <1>1. Did(op, paths, s) /\ cwd' \in Seq(Names) /\ front # "fsctl"
    BY DEF Shell, Sftp, TreeIInv
  <1> QED
    BY <1>1, CallKeeps

\* Where the operands of a call lead.
LEMMA AtIs ==
    ASSUME TreeIInv, NEW arg \in Args
    PROVE  /\ At(arg) \in Seq(Names) /\ Parent(At(arg)) \in Seq(Names) /\ Base(At(arg)) \in Names
           /\ arg.parts \in Seq(Names) /\ Typed(arg) \in Names /\ Base(arg.parts) \in Names
  <1>1. arg \in [abs : BOOLEAN, parts : Seq(Names), slash : BOOLEAN] /\ cwd \in Seq(Names)
    BY TreeAssumption DEF TreeIInv
  <1>2. At(arg) \in Seq(Names)
    BY <1>1, resolve_pathType DEF At
  <1>3. arg.parts \in Seq(Names)
    BY <1>1
  <1>4. Base(arg.parts) \in Names
    BY <1>3, Pieces
  <1>5. Typed(arg) \in Names
    BY <1>4, NamesAssumption DEF Typed
  <1> QED
    BY <1>2, <1>3, <1>4, <1>5, Pieces

LEMMA LookupIs ==
    ASSUME TreeIInv, NEW path \in Seq(Names)
    PROVE  /\ Lookup(path) \in Outcome(tree)
           /\ Lookup(path) > 0 => Lookup(path) \in Used(tree)
           /\ ~(Lookup(path) <= 0) => Lookup(path) \in Used(tree)
           /\ Found(Lookup(path)) = "ok" => Lookup(path) \in Used(tree)
  <1> DEFINE f == Lookup(path)
  <1>1. f \in Outcome(tree) /\ WellFormed(tree)
    BY getfileType DEF Lookup, TreeIInv, TreeTypeOK
  <1> HIDE DEF f
  <1>2. (f > 0 => f \in Used(tree)) /\ (~(f <= 0) => f \in Used(tree))
    BY <1>1, OutcomeIs
  <1>3. Found(f) = "ok" => f \in Used(tree)
    BY <1>1 DEF Found, Outcome
  <1> QED
    BY <1>1, <1>2, <1>3 DEF f

-----------------------------------------------------------------------------
(* The commands of the shell *)

\* A lookup that must find something, then what is done.
LEMMA Command_cdKeeps ==
    ASSUME TreeIInv, NEW arg \in Args, Command_cd(arg)
    PROVE  TreeIInv' /\ RefusalKept
  <1>1. PICK o \in {"ok", "refused"} : Did("cd", <<>>, Ends(o))
    BY DEF Command_cd
  <1>2. Harmless("cd", Ends(o))
    BY EndsIs DEF TreeIInv
  <1>3. cwd' \in Seq(Names) /\ front # "fsctl"
    BY AtIs DEF Command_cd, TreeIInv
  <1> QED
    BY <1>1, <1>2, <1>3, CallKeeps

LEMMA Command_touchKeeps ==
    ASSUME TreeIInv, NEW arg \in Args, Command_touch(arg)
    PROVE  TreeIInv' /\ RefusalKept
  <1> DEFINE p == At(arg)
             f == Lookup(p)
             checks == <<Found(Lookup(Parent(p))), When(f = Raised, "raised")>>
             s == IF f > 0 THEN State ELSE IF IsSpecial(p) THEN Ends("refused") ELSE mkfile(State, p)
  <1>1. TreeTypeOK /\ p \in Seq(Names)
    BY AtIs DEF TreeIInv
  <1>2. Shell("touch", <<p>>, Guarded(checks, s))
    BY DEF Command_touch
  <1>3. checks \in Seq(Checks)
    BY CheckIs DEF Checks
  <1>4. Harmless("touch", s)
    <2>1. Harmless("touch", State) /\ Harmless("touch", Ends("refused"))
      BY <1>1, StateIs, EndsIs
    <2>2. Harmless("touch", mkfile(State, p))
      BY <1>1, StateIs, mkfileIs DEF Harmless
    <2> QED
      BY <2>1, <2>2
  <1> HIDE DEF checks, s, p
  <1>5. Harmless("touch", Guarded(checks, s))
    BY <1>1, <1>3, <1>4, GuardedIs
  <1> QED
    BY <1>2, <1>5, ShellKeeps

LEMMA Command_nohupKeeps ==
    ASSUME TreeIInv, Command_nohup("n")
    PROVE  TreeIInv' /\ RefusalKept
  <1> DEFINE p == Append(cwd, "n")
             f == Lookup(p)
             checks == <<When(f = Raised, "raised")>>
             s == IF f > 0 THEN State ELSE mkfile(State, p)
  <1>1. TreeTypeOK /\ p \in Seq(Names)
    BY TreeAssumption DEF TreeIInv
  <1>2. Shell("touch", <<p>>, Guarded(checks, s))
    BY DEF Command_nohup
  <1>3. checks \in Seq(Checks)
    BY CheckIs DEF Checks
  <1> HIDE DEF p
  <1>4. Harmless("touch", s)
    <2>1. Harmless("touch", State)
      BY <1>1, StateIs
    <2>2. Harmless("touch", mkfile(State, p))
      BY <1>1, StateIs, mkfileIs DEF Harmless
    <2> QED
      BY <2>1, <2>2
  <1> HIDE DEF checks, s
  <1>5. Harmless("touch", Guarded(checks, s))
    BY <1>1, <1>3, <1>4, GuardedIs
  <1> QED
    BY <1>2, <1>5, ShellKeeps

LEMMA Command_wgetKeeps ==
    ASSUME TreeIInv, NEW arg \in Args, Command_wget(arg)
    PROVE  TreeIInv' /\ RefusalKept
  <1> DEFINE p == At(arg)
             checks == <<Found(Lookup(Parent(p))), When(~isdir(tree, Parent(p)), "refused")>>
             made == mkfile(State, p)
             s == update_realfile(made, p)
  <1>1. TreeTypeOK /\ p \in Seq(Names)
    BY AtIs DEF TreeIInv
  <1>2. Shell("download", <<p>>, Guarded(checks, s))
    BY DEF Command_wget
  <1>3. checks \in Seq(Checks)
    BY CheckIs DEF Checks
  <1>4. Harmless("download", s)
    <2>1. Whole(made) /\ made.out \in {"ok", "full", "raised"}
      BY <1>1, StateIs, mkfileIs
    <2> HIDE DEF made
    <2>2. Whole(s) /\ s.out \in {made.out, "raised"}
      BY <1>1, <2>1, update_realfileIs
    <2> QED
      BY <2>1, <2>2 DEF Harmless, Six
  <1> HIDE DEF checks, s
  <1>5. Harmless("download", Guarded(checks, s))
    BY <1>1, <1>3, <1>4, GuardedIs
  <1> QED
    BY <1>2, <1>5, ShellKeeps

LEMMA Command_mkdirKeeps ==
    ASSUME TreeIInv, NEW arg \in Args, Command_mkdir(arg)
    PROVE  TreeIInv' /\ RefusalKept
  <1> DEFINE p == At(arg)
             checks == <<When(Lookup(p) = Raised, "raised"), When(Lookup(p) > 0, "refused")>>
             s == mkdir(State, p)
  <1>1. TreeTypeOK /\ p \in Seq(Names)
    BY AtIs DEF TreeIInv
  <1>2. Shell("mkdir", <<p>>, Guarded(checks, s))
    BY DEF Command_mkdir
  <1>3. checks \in Seq(Checks)
    BY CheckIs DEF Checks
  <1>4. Harmless("mkdir", s)
    BY <1>1, StateIs, mkdirIs DEF Harmless
  <1> HIDE DEF checks, s
  <1>5. Harmless("mkdir", Guarded(checks, s))
    BY <1>1, <1>3, <1>4, GuardedIs
  <1> QED
    BY <1>2, <1>5, ShellKeeps

LEMMA Command_rmdirKeeps ==
    ASSUME TreeIInv, NEW arg \in Args, Command_rmdir(arg)
    PROVE  TreeIInv' /\ RefusalKept
  <1> DEFINE p == At(arg)
             x == get_path(tree, p)
             d == get_path(tree, Parent(p))
             hit == First(tree, d, Typed(arg))
             checks == <<When(x = Raised, "raised"), When(x = NotFound, "refused"),
                         When(x > 0 /\ (tree[x].kids # <<>> \/ tree[x].bytes), "refused")>>
             s == IF hit = None \/ tree[hit].type # "dir" THEN Ends("refused")
                  ELSE Result(Detach(tree, d, hit), newcount, "ok")
  <1>1. TreeTypeOK /\ p \in Seq(Names) /\ Parent(p) \in Seq(Names) /\ WellFormed(tree) /\ newcount \in 0 .. MaxNew + 1
    BY AtIs DEF TreeIInv, TreeTypeOK
  <1>2. Shell("rmdir", <<p>>, Guarded(checks, s))
    BY DEF Command_rmdir
  <1>3. checks \in Seq(Checks)
    BY CheckIs DEF Checks
  <1>4. ASSUME \A i \in DOMAIN checks : checks[i] = "ok"
        PROVE  Harmless("rmdir", s)
    <2>1. checks[1] = "ok" /\ checks[2] = "ok"
      BY <1>4
    <2>2. x # Raised /\ x # NotFound
      BY <2>1 DEF When
    <2>3. d \in Used(tree)
      BY <1>1, <2>2, get_pathType
    <2> HIDE DEF d, hit
    <2>4. WellFormed(Detach(tree, d, hit))
      BY <1>1, <2>3, DetachIs
    <2>5. Harmless("rmdir", Result(Detach(tree, d, hit), newcount, "ok"))
      BY <1>1, <2>4, ResultIs DEF Harmless
    <2>6. Harmless("rmdir", Ends("refused"))
      BY <1>1, EndsIs
    <2> QED
      BY <2>5, <2>6
  <1> HIDE DEF checks, s
  <1>5. Harmless("rmdir", Guarded(checks, s))
    BY <1>1, <1>3, <1>4, GuardedIs
  <1> QED
    BY <1>2, <1>5, ShellKeeps

LEMMA WithoutIs ==
    ASSUME NEW kids \in Seq(Ids), NEW gone
    PROVE  /\ Without(kids, gone) \in Seq(Ids)
           /\ \A i \in DOMAIN Without(kids, gone) : \E j \in DOMAIN kids : Without(kids, gone)[i] = kids[j]
  <1> DEFINE n == Len(kids)
             empty == <<>>
             Go(x, k) == IF kids[k] \in gone THEN x ELSE Append(x, kids[k])
             Rec(m, g) == g = [i \in 0 .. m |-> IF i = 0 THEN empty ELSE Go(g[i - 1], i)]
             T == {m \in 0 .. n : \E g : Rec(m, g)}
             A == {kids[j] : j \in DOMAIN kids}
  <1>1. n \in Nat /\ DOMAIN kids = 1 .. n /\ \A k \in 1 .. n : kids[k] \in A
    OBVIOUS
  <1>2. A \subseteq Ids
    BY <1>1
  <1>3. ASSUME NEW x \in Seq(A), NEW k \in 1 .. n PROVE Go(x, k) \in Seq(A)
    <2>1. kids[k] \in A
      BY <1>1
    <2> HIDE DEF A
    <2>2. Append(x, kids[k]) \in Seq(A)
      BY <2>1
    <2> QED
      BY <2>2
  <1>3a. empty \in Seq(A)
    OBVIOUS
  <1> HIDE DEF Go, n, empty
  <1>4. 0 \in T
    <2> DEFINE h == [i \in 0 .. 0 |-> empty]
    <2>1. Rec(0, h)
      OBVIOUS
    <2>2. 0 \in 0 .. n
      BY <1>1
    <2> HIDE DEF h, Rec
    <2> QED
      BY <2>1, <2>2
  <1>5. ASSUME NEW m \in 0 .. n - 1, m \in T
        PROVE  m + 1 \in T
    <2>1. PICK g : Rec(m, g)
      <3> HIDE DEF Rec
      <3> QED
        BY <1>5
    <2> DEFINE h == [i \in 0 .. m + 1 |-> IF i = m + 1 THEN Go(g[m], m + 1) ELSE g[i]]
    <2>2. ASSUME NEW i \in 0 .. m + 1
          PROVE  h[i] = IF i = 0 THEN empty ELSE Go(h[i - 1], i)
      BY <2>1
    <2>3. Rec(m + 1, h)
      BY <2>2
    <2>4. m + 1 \in 0 .. n
      BY <1>1
    <2> HIDE DEF h, Rec
    <2> QED
      BY <2>3, <2>4
  <1>6. n \in T
    <2> HIDE DEF T
    <2>1. \A m \in 0 .. n : m \in T
      BY <1>1, <1>4, <1>5, CountUp
    <2> QED
      BY <1>1, <2>1
  <1> DEFINE w == CHOOSE g : Rec(n, g)
  <1>7. Rec(n, w)
    <2>1. \E g : Rec(n, g)
      BY <1>6
    <2> HIDE DEF Rec
    <2> QED
      BY <2>1
  <1>8. Without(kids, gone) = w[n]
    BY DEF Without, n, Go, empty
  <1>9. \A m \in 0 .. n : w[m] \in Seq(A)
    <2> DEFINE U == {m \in 0 .. n : w[m] \in Seq(A)}
    <2> HIDE DEF w
    <2> HIDE DEF A
    <2>1. w[0] = empty /\ \A m \in 0 .. n - 1 : w[m + 1] = Go(w[m], m + 1)
      BY <1>1, <1>7
    <2>2. 0 \in U
      BY <1>1, <1>3a, <2>1
    <2>3. ASSUME NEW m \in 0 .. n - 1, m \in U PROVE m + 1 \in U
      <3>1. w[m + 1] = Go(w[m], m + 1) /\ m + 1 \in 0 .. n /\ m + 1 \in 1 .. n
        BY <1>1, <2>1
      <3> QED
        BY <1>3, <2>3, <3>1
    <2> HIDE DEF U
    <2>4. \A m \in 0 .. n : m \in U
      BY <1>1, <2>2, <2>3, CountUp
    <2> QED
      BY <2>4 DEF U
  <1>10. PICK r \in Seq(A) : r = Without(kids, gone)
    <2> HIDE DEF w, A
    <2>1. n \in 0 .. n
      BY <1>1
    <2> QED
      BY <1>8, <1>9, <2>1
  <1>11. \A i \in DOMAIN r : r[i] \in A
    OBVIOUS
  <1>12. r \in Seq(Ids)
    BY <1>2, <1>11
  <1> QED
    BY <1>10, <1>11, <1>12

LEMMA Command_rmKeeps ==
    ASSUME TreeIInv, NEW arg \in Args, NEW recursive, Command_rm(arg, recursive)
    PROVE  TreeIInv' /\ RefusalKept
  <1> DEFINE p == At(arg)
             x == get_path(tree, p)
             d == get_path(tree, Parent(p))
             Goes(k) == tree[k].name = Base(p) /\ (recursive \/ tree[k].type # "dir")
             gone == {k \in Children(tree, d) : Goes(k)}
             checks == <<When(Raised \in {x, d}, "raised"), When(NotFound \in {x, d}, "refused")>>
             kids == Without(tree[d].kids, gone)
             s == IF gone = {} THEN Ends("refused")
                  ELSE Result([tree EXCEPT ![d].kids = kids], newcount, "ok")
  <1>1. TreeTypeOK /\ Parent(p) \in Seq(Names) /\ WellFormed(tree) /\ newcount \in 0 .. MaxNew + 1
    BY AtIs DEF TreeIInv, TreeTypeOK
  <1>2. Shell("rm", <<p>>, Guarded(checks, s))
    BY DEF Command_rm
  <1>3. checks \in Seq(Checks)
    BY CheckIs DEF Checks
  <1>4. ASSUME \A i \in DOMAIN checks : checks[i] = "ok"
        PROVE  Harmless("rm", s)
    <2>1. checks[1] = "ok" /\ checks[2] = "ok"
      BY <1>4
    <2>2. d # Raised /\ d # NotFound
      BY <2>1 DEF When
    <2>3. d \in Used(tree)
      BY <1>1, <2>2, get_pathType
    <2>4. ASSUME gone # {}
          PROVE  Harmless("rm", Result([tree EXCEPT ![d].kids = kids], newcount, "ok"))
      <3>1. Children(tree, d) # {}
        BY <2>4
      <3> HIDE DEF d, gone
      <3>2. /\ d \in Ids /\ tree[d].kids \in Seq(Ids) /\ \A k \in DOMAIN tree[d].kids : tree[d].kids[k] \in Used(tree)
            /\ Children(tree, d) = {tree[d].kids[k] : k \in DOMAIN tree[d].kids}
        BY <1>1, <2>3, UsedEntries
      <3>3. ~tree[d].bytes
        <4>1. tree[d].bytes => tree[d].kids = <<>>
          BY <1>1, <3>2 DEF WellFormed
        <4>2. tree[d].kids = <<>> => Children(tree, d) = {}
          BY <3>2
        <4> QED
          BY <3>1, <4>1, <4>2
      <3>4. kids \in Seq(Ids) /\ \A k \in DOMAIN kids : kids[k] \in Used(tree)
        BY <3>2, WithoutIs
      <3> HIDE DEF kids
      <3>5. WellFormed([tree EXCEPT ![d].kids = kids])
        BY <1>1, <2>3, <3>3, <3>4, KidsEdit
      <3> QED
        BY <1>1, <3>5, ResultIs DEF Harmless
    <2>5. Harmless("rm", Ends("refused"))
      BY <1>1, EndsIs
    <2> QED
      BY <2>4, <2>5
  <1> HIDE DEF checks, s
  <1>5. Harmless("rm", Guarded(checks, s))
    BY <1>1, <1>3, <1>4, GuardedIs
  <1> QED
    BY <1>2, <1>5, ShellKeeps

\* What cp and mv check first: the source is there in the end.
LEMMA TransferIs ==
    ASSUME TreeIInv, NEW src \in Args, NEW dst \in Args, NEW c
    PROVE  /\ Transfer(src, dst, c) \in Seq(Checks) /\ Len(Transfer(src, dst, c)) = 3
           /\ Transfer(src, dst, c)[3] = "ok" => Lookup(At(src)) \in Used(tree)
           /\ Into(dst) \in Seq(Names)
  <1> DEFINE a == When(dst.slash /\ (Lookup(At(dst)) = Raised \/ c), Found(Lookup(At(dst))))
             b == When(~isdir(tree, At(dst)), Found(Lookup(Parent(At(dst)))))
             e == Found(Lookup(At(src)))
  <1>1. Transfer(src, dst, c) = <<a, b, e>>
    BY DEF Transfer
  <1>2. a \in Checks /\ b \in Checks /\ e \in Checks
    BY CheckIs
  <1>3. e = "ok" => Lookup(At(src)) \in Used(tree)
    BY AtIs, LookupIs
  <1>4. Into(dst) \in Seq(Names)
    BY AtIs DEF Into
  <1> HIDE DEF a, b, e
  <1> QED
    BY <1>1, <1>2, <1>3, <1>4

LEMMA DomainIs ==
    ASSUME NEW S, NEW c \in Seq(S), NEW n, Len(c) = n
    PROVE  DOMAIN c = 1 .. n
  OBVIOUS

LEMMA ThreeAndTwo ==
    ASSUME NEW S, NEW a \in Seq(S), NEW b \in Seq(S)
    PROVE  Len(a) = 3 /\ Len(b) = 2 => a \o b \in Seq(S) /\ Len(a \o b) = 5 /\ (a \o b)[3] = a[3] /\ (a \o b)[5] = b[2]
  <1>1. Len(a \o b) = Len(a) + Len(b) /\ a \o b \in Seq(S)
    OBVIOUS
  <1>2. Len(a) >= 1 => (a \o b)[Len(a)] = a[Len(a)]
    OBVIOUS
  <1>3. Len(b) >= 1 => (a \o b)[Len(a) + Len(b)] = b[Len(b)]
    OBVIOUS
  <1>4. ASSUME Len(a) = 3, Len(b) = 2 PROVE Len(a \o b) = 5
    BY <1>1, <1>4
  <1>5. ASSUME Len(a) = 3 PROVE (a \o b)[3] = a[3]
    BY <1>2, <1>5
  <1>6. ASSUME Len(a) = 3, Len(b) = 2 PROVE (a \o b)[5] = b[2]
    <2>1. 3 + 2 = 5 /\ 2 >= 1 OBVIOUS
    <2>2. (a \o b)[3 + 2] = b[2]
      BY <1>3, <1>6, <2>1, Zenon
    <2> QED BY <2>1, <2>2, Zenon
  <1> QED BY <1>1, <1>4, <1>5, <1>6
LEMMA ThreeAndOne ==
    ASSUME NEW S, NEW a \in Seq(S), NEW e \in S
    PROVE  Len(a) = 3 => Append(a, e) \in Seq(S) /\ Len(Append(a, e)) = 4 /\ Append(a, e)[3] = a[3] /\ Append(a, e)[4] = e
  <1>1. Len(Append(a, e)) = Len(a) + 1 /\ Append(a, e) \in Seq(S)
    OBVIOUS
  <1>2. Len(a) >= 1 => Append(a, e)[Len(a)] = a[Len(a)]
    OBVIOUS
  <1>3. Append(a, e)[Len(a) + 1] = e
    OBVIOUS
  <1>4. ASSUME Len(a) = 3 PROVE Len(Append(a, e)) = 4
    BY <1>1, <1>4
  <1>5. ASSUME Len(a) = 3 PROVE Append(a, e)[3] = a[3]
    <2>1. 3 >= 1 OBVIOUS
    <2> QED BY <1>2, <1>5, <2>1, Zenon
  <1>6. ASSUME Len(a) = 3 PROVE Append(a, e)[4] = e
    <2>1. 3 + 1 = 4 OBVIOUS
    <2>2. Append(a, e)[3 + 1] = e
      BY <1>3, <1>6, <2>1, Zenon
    <2> QED BY <2>1, <2>2, Zenon
  <1> QED BY <1>1, <1>4, <1>5, <1>6
LEMMA ChecksJoin ==
    ASSUME NEW a \in Seq(Checks), Len(a) = 3
    PROVE  /\ \A b \in Seq(Checks) : Len(b) = 2 =>
                 /\ a \o b \in Seq(Checks) /\ DOMAIN (a \o b) = 1 .. 5
                 /\ (a \o b)[3] = a[3] /\ (a \o b)[5] = b[2]
           /\ \A e \in Checks :
                 /\ Append(a, e) \in Seq(Checks) /\ DOMAIN Append(a, e) = 1 .. 4
                 /\ Append(a, e)[3] = a[3] /\ Append(a, e)[4] = e
  BY ThreeAndTwo, ThreeAndOne, DomainIs

LEMMA Command_cpKeeps ==
    ASSUME TreeIInv, NEW src \in Args, NEW dst \in Args, NEW recursive \in BOOLEAN, Command_cp(src, dst, recursive)
    PROVE  TreeIInv' /\ RefusalKept
  <1> DEFINE x == Lookup(At(src))
             d == get_path(tree, Into(dst))
             outfile == IF isdir(tree, At(dst)) THEN Typed(src) ELSE Base(dst.parts)
             old == First(tree, d, outfile)
             c == Copied(tree, x)
             t1 == IF old = None THEN c.t ELSE Detach(c.t, d, old)
             more == <<When(~recursive /\ isdir(tree, At(src)), "refused"), When(~Listed(tree, d), "raised")>>
             checks == Transfer(src, dst, ~recursive) \o more
             s == Result(Attach([t1 EXCEPT ![c.x].name = outfile], d, c.x), newcount, "ok")
  <1>1. TreeTypeOK /\ WellFormed(tree) /\ newcount \in 0 .. MaxNew + 1
    BY DEF TreeIInv, TreeTypeOK
  <1>2. Shell("cp", <<Append(Into(dst), outfile)>>, Guarded(checks, s)) /\ (x > 0 => Fits(tree, x))
    BY DEF Command_cp
  <1>3. checks \in Seq(Checks) /\ checks[3] = Transfer(src, dst, ~recursive)[3]
        /\ checks[5] = When(~Listed(tree, d), "raised") /\ DOMAIN checks = 1 .. 5
    <2>1. more \in Seq(Checks) /\ Len(more) = 2 /\ more[2] = When(~Listed(tree, d), "raised")
      BY CheckIs DEF Checks
    <2>2. PICK a \in Seq(Checks) : a = Transfer(src, dst, ~recursive) /\ Len(a) = 3
      BY TransferIs
    <2> HIDE DEF more
    <2>3. checks = a \o more
      BY <2>2
    <2>4. /\ a \o more \in Seq(Checks) /\ DOMAIN (a \o more) = 1 .. 5
          /\ (a \o more)[3] = a[3] /\ (a \o more)[5] = more[2]
      BY <2>1, <2>2, ChecksJoin
    <2> HIDE DEF checks
    <2> QED
      BY <2>1, <2>2, <2>3, <2>4
  <1>4. ASSUME \A i \in DOMAIN checks : checks[i] = "ok"
        PROVE  Harmless("cp", s)
    <2>1. checks[3] = "ok" /\ checks[5] = "ok"
      BY <1>3, <1>4
    <2>2. x \in Used(tree)
      BY <1>3, <2>1, TransferIs
    <2>3. d \in Used(tree) /\ ~tree[d].bytes
      <3>1. Into(dst) \in Seq(Names)
        BY TransferIs
      <3>2. Listed(tree, d)
        BY <1>3, <2>1 DEF When
      <3> QED
        BY <1>1, <3>1, <3>2, ListedIs
    <2>4. outfile \in Names
      BY AtIs
    <2>5. Fits(tree, x)
      <3>1. x > 0
        BY <1>1, <2>2, UsedEntries
      <3> QED
        BY <1>2, <3>1
    <2> HIDE DEF x, d, outfile, old
    <2>6. PICK m : CopyOf(tree, x, c.t, m) /\ c.x = m[x]
      BY <1>1, <2>2, <2>5, CopiedAs
    <2>7. /\ WellFormed(c.t) /\ m[x] \in Ids \ Used(tree) /\ m[x] \in Used(c.t)
          /\ Used(tree) \subseteq Used(c.t)
          /\ \A j \in Used(tree) : c.t[j] = tree[j]
      <3>1. PICK u : u = c.t
        OBVIOUS
      <3>2. CopyOf(tree, x, u, m)
        BY <2>6, <3>1
      <3>3. /\ WellFormed(u) /\ m[x] \in Ids \ Used(tree) /\ m[x] \in Used(u)
            /\ Used(tree) \subseteq Used(u)
            /\ \A j \in Used(tree) : u[j] = tree[j]
        <4> HIDE DEF c
        <4>1. WellFormed(u)
          BY <1>1, <2>2, <3>2, CopyIs
        <4>2. m[x] \in Ids \ Used(tree) /\ m[x] \in Used(u)
          BY <1>1, <2>2, <3>2, CopyIs
        <4>3. Used(tree) \subseteq Used(u)
          BY <1>1, <2>2, <3>2, CopyIs
        <4>4. \A j \in Used(tree) : u[j] = tree[j]
          BY <1>1, <2>2, <3>2, CopyIs
        <4> QED
          BY <4>1, <4>2, <4>3, <4>4
      <3> HIDE DEF c
      <3> QED
        BY <3>1, <3>3
    <2>8. c.x \in Used(c.t) /\ c.x # d /\ d \in Used(c.t) /\ ~c.t[d].bytes
      BY <2>3, <2>6, <2>7
    <2> HIDE DEF c
    <2>9. WellFormed(t1) /\ Used(t1) = Used(c.t) /\ ~t1[d].bytes
      <3>1. /\ WellFormed(Detach(c.t, d, old)) /\ Used(Detach(c.t, d, old)) = Used(c.t)
            /\ Detach(c.t, d, old)[d].bytes = c.t[d].bytes
        BY <2>7, <2>8, DetachIs
      <3> QED
        BY <2>7, <2>8, <3>1
    <2> HIDE DEF t1
    <2> DEFINE t2 == [t1 EXCEPT ![c.x].name = outfile]
    <2>10. WellFormed(t2) /\ Used(t2) = Used(t1) /\ ~t2[d].bytes
      <3>1. c.x \in Used(t1) /\ d \in Ids \ {c.x}
        BY <2>8, <2>9, <1>1, <2>3, UsedEntries
      <3>2. /\ WellFormed(t2) /\ Used(t2) = Used(t1)
            /\ \A j \in Ids \ {c.x} : t2[j] = t1[j]
        BY <2>4, <2>9, <3>1, NameEdit
      <3> QED
        BY <2>9, <3>1, <3>2
    <2> HIDE DEF t2
    <2>11. WellFormed(Attach(t2, d, c.x))
      BY <2>8, <2>9, <2>10, AttachIs
    <2>12. s = Result(Attach(t2, d, c.x), newcount, "ok")
      BY DEF t2
    <2> HIDE DEF s
    <2> QED
      BY <1>1, <2>11, <2>12, ResultIs DEF Harmless
  <1> HIDE DEF checks, s
  <1>5. Harmless("cp", Guarded(checks, s))
    BY <1>1, <1>3, <1>4, GuardedIs
  <1> QED
    BY <1>2, <1>5, ShellKeeps

LEMMA Command_mvKeeps ==
    ASSUME TreeIInv, NEW src \in Args, NEW dst \in Args, Command_mv(src, dst)
    PROVE  TreeIInv' /\ RefusalKept
  <1> DEFINE x == Lookup(At(src))
             d == get_path(tree, Into(dst))
             outfile == IF isdir(tree, At(dst)) THEN Typed(src) ELSE Typed(dst)
             t1 == [tree EXCEPT ![x].name = outfile]
             t2 == Attach(t1, d, x)
             sd == get_path(t2, Parent(At(src)))
             checks == Append(Transfer(src, dst, FALSE), When(d <= 0, "raised"))
             s == IF ~Listed(t1, d) THEN Result(t1, newcount, "raised")
                  ELSE IF sd <= 0 \/ ~Holds(t2, sd, x) THEN Result(t2, newcount, "raised")
                  ELSE Result(Detach(t2, sd, x), newcount, "ok")
  <1>1. TreeTypeOK /\ WellFormed(tree) /\ newcount \in 0 .. MaxNew + 1
    BY DEF TreeIInv, TreeTypeOK
  <1>2. Shell("mv", <<At(src)>>, Guarded(checks, s))
    BY DEF Command_mv
  <1>3. checks \in Seq(Checks) /\ checks[3] = Transfer(src, dst, FALSE)[3]
        /\ checks[4] = When(d <= 0, "raised") /\ DOMAIN checks = 1 .. 4
    <2>1. When(d <= 0, "raised") \in Checks
      BY CheckIs DEF Checks
    <2>2. PICK a \in Seq(Checks) : a = Transfer(src, dst, FALSE) /\ Len(a) = 3
      BY TransferIs
    <2>3. PICK e \in Checks : e = When(d <= 0, "raised")
      BY <2>1
    <2>4. checks = Append(a, e)
      BY <2>2, <2>3
    <2>5. /\ Append(a, e) \in Seq(Checks) /\ DOMAIN Append(a, e) = 1 .. 4
          /\ Append(a, e)[3] = a[3] /\ Append(a, e)[4] = e
      BY <2>2, ChecksJoin
    <2> HIDE DEF checks
    <2> QED
      BY <2>2, <2>3, <2>4, <2>5
  <1>4. ASSUME \A i \in DOMAIN checks : checks[i] = "ok"
        PROVE  Harmless("mv", s)
    <2>1. checks[3] = "ok" /\ checks[4] = "ok"
      <3> HIDE DEF checks, s
      <3>1. 3 \in DOMAIN checks /\ 4 \in DOMAIN checks
        BY <1>3
      <3> QED
        BY <1>4, <3>1
    <2>2. x \in Used(tree)
      BY <1>3, <2>1, TransferIs
    <2>3. d \in Used(tree)
      <3>1. Into(dst) \in Seq(Names)
        BY TransferIs
      <3>2. ~(d <= 0)
        BY <1>3, <2>1 DEF When
      <3> QED
        BY <1>1, <3>1, <3>2, ListedIs
    <2>4. outfile \in Names /\ Parent(At(src)) \in Seq(Names)
      BY AtIs
    <2> HIDE DEF x, d, outfile
    <2>5. WellFormed(t1) /\ Used(t1) = Used(tree)
      BY <1>1, <2>2, <2>4, NameEdit
    <2> HIDE DEF t1
    <2>6. Harmless("mv", Result(t1, newcount, "raised"))
      BY <1>1, <2>5, ResultIs DEF Harmless, Six
    <2>7. ASSUME Listed(t1, d)
          PROVE  /\ Harmless("mv", Result(t2, newcount, "raised"))
                 /\ ~(sd <= 0) => Harmless("mv", Result(Detach(t2, sd, x), newcount, "ok"))
      <3>1. ~t1[d].bytes
        BY <2>7 DEF Listed
      <3>2. WellFormed(t2)
        BY <2>2, <2>3, <2>5, <3>1, AttachIs
      <3> HIDE DEF t2
      <3>3. ~(sd <= 0) => sd \in Used(t2)
        BY <2>4, <3>2, ListedIs
      <3> HIDE DEF sd
      <3>4. ~(sd <= 0) => WellFormed(Detach(t2, sd, x))
        BY <3>2, <3>3, DetachIs
      <3>5. Harmless("mv", Result(t2, newcount, "raised"))
        BY <1>1, <3>2, ResultIs DEF Harmless, Six
      <3>6. ~(sd <= 0) => Harmless("mv", Result(Detach(t2, sd, x), newcount, "ok"))
        BY <1>1, <3>4, ResultIs DEF Harmless
      <3> QED
        BY <3>5, <3>6
    <2> HIDE DEF t2, sd
    <2> QED
      BY <2>6, <2>7
  <1> HIDE DEF checks, s
  <1>5. Harmless("mv", Guarded(checks, s))
    BY <1>1, <1>3, <1>4, GuardedIs
  <1> QED
    BY <1>2, <1>5, ShellKeeps

\* A member of an archive, after the directories above it.
LEMMA MemberIs ==
    ASSUME TreeIInv, NEW s, Whole(s), s.out # "refused", NEW m \in [parts : Seq(Names), dir : BOOLEAN]
    PROVE  Whole(Member(s, m)) /\ Member(s, m).out # "refused"
  <1> DEFINE arg == [abs |-> FALSE, parts |-> m.parts, slash |-> FALSE]
             p == resolve_path(arg, cwd)
             n == Len(p)
             Missing(r, q) ==
                 LET f == getfile(r.t, q, TRUE)
                 IN  IF r.out = "raised" \/ f > 0 THEN r ELSE IF f = Raised THEN Fails(r) ELSE mkdir(r, q)
             Go(r, k) == Missing(r, SubSeq(p, 1, k))
             Rec(j, g) == g = [i \in 0 .. j |-> IF i = 0 THEN s ELSE Go(g[i - 1], i)]
             T == {j \in 0 .. n : \E g : Rec(j, g)}
             Fine(r) == Whole(r) /\ r.out # "refused"
  <1>1. p \in Seq(Names) /\ n \in Nat /\ Len(Parent(p)) \in 0 .. n
    <2>1. m.parts \in Seq(Names) /\ cwd \in Seq(Names)
      BY DEF TreeIInv
    <2>2. arg \in [abs : BOOLEAN, parts : Seq(Names), slash : BOOLEAN]
      BY <2>1
    <2>3. p \in Seq(Names)
      <3> HIDE DEF arg
      <3> QED
        BY <2>1, <2>2, resolve_pathType
    <2> HIDE DEF p
    <2>4. n \in Nat
      BY <2>3
    <2>5. CASE p = <<>>
      <3>1. Parent(p) = <<>>
        BY <2>5 DEF Parent
      <3> QED
        BY <2>3, <2>4, <2>5, <3>1
    <2>6. CASE p # <<>>
      BY <2>3, <2>6, Pieces
    <2> QED
      BY <2>3, <2>4, <2>5, <2>6
  <1> HIDE DEF p
  <1>2. ASSUME NEW r, Fine(r), NEW k \in 1 .. n PROVE Fine(Go(r, k))
    <2> DEFINE q == SubSeq(p, 1, k)
               f == getfile(r.t, q, TRUE)
    <2>1. q \in Seq(Names)
      BY <1>1
    <2> HIDE DEF q
    <2>2. CASE r.out = "raised" \/ f > 0
      BY <1>2, <2>2 DEF q
    <2>3. CASE ~(r.out = "raised" \/ f > 0) /\ f = Raised
      <3>1. Go(r, k) = [r EXCEPT !.out = "raised"]
        BY <2>3 DEF q, Fails
      <3> HIDE DEF Go
      <3> QED
        BY <1>2, <3>1, EndedIs
    <2>4. CASE ~(r.out = "raised" \/ f > 0) /\ f # Raised
      <3>1. Go(r, k) = mkdir(r, q)
        BY <2>4 DEF q
      <3> HIDE DEF Go
      <3> QED
        BY <1>2, <2>1, <3>1, mkdirIs
    <2> QED
      BY <2>2, <2>3, <2>4
  <1> HIDE DEF n, Go
  <1>3. 0 \in T
    <2> DEFINE h == [i \in 0 .. 0 |-> s]
    <2>1. Rec(0, h)
      OBVIOUS
    <2>2. 0 \in 0 .. n
      BY <1>1
    <2> HIDE DEF h, Rec
    <2> QED
      BY <2>1, <2>2
  <1>4. ASSUME NEW j \in 0 .. n - 1, j \in T
        PROVE  j + 1 \in T
    <2>1. PICK g : Rec(j, g)
      <3> HIDE DEF Rec
      <3> QED
        BY <1>4
    <2> DEFINE h == [i \in 0 .. j + 1 |-> IF i = j + 1 THEN Go(g[j], j + 1) ELSE g[i]]
    <2>2. ASSUME NEW i \in 0 .. j + 1
          PROVE  h[i] = IF i = 0 THEN s ELSE Go(h[i - 1], i)
      BY <2>1
    <2>3. Rec(j + 1, h)
      BY <2>2
    <2>4. j + 1 \in 0 .. n
      BY <1>1
    <2> HIDE DEF h, Rec
    <2> QED
      BY <2>3, <2>4
  <1>5. n \in T
    <2> HIDE DEF T
    <2>1. \A j \in 0 .. n : j \in T
      BY <1>1, <1>3, <1>4, CountUp
    <2> QED
      BY <1>1, <2>1
  <1> DEFINE above == CHOOSE g : Rec(n, g)
  <1>6. Rec(n, above)
    <2>1. \E g : Rec(n, g)
      BY <1>5
    <2> HIDE DEF Rec
    <2> QED
      BY <2>1
  <1>7. Member(s, m) = IF s.out = "raised" THEN s
                       ELSE IF m.dir THEN mkdir(s, p)
                       ELSE IF above[Len(Parent(p))].out = "raised" THEN above[Len(Parent(p))]
                       ELSE mkfile(above[Len(Parent(p))], p)
    BY DEF Member, p, n, Go, Then
  <1>8. \A j \in 0 .. n : Fine(above[j])
    <2> DEFINE U == {j \in 0 .. n : Fine(above[j])}
    <2> HIDE DEF above, Fine
    <2>1. above[0] = s /\ \A j \in 0 .. n - 1 : above[j + 1] = Go(above[j], j + 1)
      BY <1>1, <1>6
    <2>2. 0 \in U
      BY <1>1, <2>1 DEF Fine
    <2>3. ASSUME NEW j \in 0 .. n - 1, j \in U PROVE j + 1 \in U
      <3>1. above[j + 1] = Go(above[j], j + 1) /\ j + 1 \in 0 .. n /\ j + 1 \in 1 .. n
        BY <1>1, <2>1
      <3> QED
        BY <1>2, <2>3, <3>1
    <2> HIDE DEF U
    <2>4. \A j \in 0 .. n : j \in U
      BY <1>1, <2>2, <2>3, CountUp
    <2> QED
      BY <2>4 DEF U
  <1> HIDE DEF above
  <1>9. PICK r : r = above[Len(Parent(p))]
    OBVIOUS
  <1>10. Fine(r)
    BY <1>1, <1>8, <1>9
  <1>11. Fine(mkfile(r, p)) /\ Fine(mkdir(s, p))
    BY <1>1, <1>10, mkfileIs, mkdirIs
  <1> QED
    BY <1>7, <1>9, <1>10, <1>11

LEMMA UnpackedIs ==
    ASSUME TreeIInv, NEW archive \in Archives
    PROVE  Whole(Unpacked(archive)) /\ Unpacked(archive).out # "refused"
  <1> DEFINE n == Len(archive)
             Go(r, k) == Member(r, archive[k])
             Rec(j, g) == g = [i \in 0 .. j |-> IF i = 0 THEN State ELSE Go(g[i - 1], i)]
             T == {j \in 0 .. n : \E g : Rec(j, g)}
             Fine(r) == Whole(r) /\ r.out # "refused"
  <1>1. n \in Nat /\ \A k \in 1 .. n : archive[k] \in [parts : Seq(Names), dir : BOOLEAN]
    <2> DEFINE M == [parts : Seq(Names), dir : BOOLEAN]
    <2>1. archive \in Seq(M)
      BY TreeAssumption
    <2> HIDE DEF M
    <2>2. n \in Nat /\ \A k \in 1 .. n : archive[k] \in M
      BY <2>1
    <2> QED
      BY <2>2 DEF M
  <1>2. ASSUME NEW r, Fine(r), NEW k \in 1 .. n PROVE Fine(Go(r, k))
    BY <1>1, <1>2, MemberIs
  <1> HIDE DEF n, Go
  <1>3. 0 \in T
    <2> DEFINE h == [i \in 0 .. 0 |-> State]
    <2>1. Rec(0, h)
      OBVIOUS
    <2>2. 0 \in 0 .. n
      BY <1>1
    <2> HIDE DEF h, Rec
    <2> QED
      BY <2>1, <2>2
  <1>4. ASSUME NEW j \in 0 .. n - 1, j \in T
        PROVE  j + 1 \in T
    <2>1. PICK g : Rec(j, g)
      <3> HIDE DEF Rec
      <3> QED
        BY <1>4
    <2> DEFINE h == [i \in 0 .. j + 1 |-> IF i = j + 1 THEN Go(g[j], j + 1) ELSE g[i]]
    <2>2. ASSUME NEW i \in 0 .. j + 1
          PROVE  h[i] = IF i = 0 THEN State ELSE Go(h[i - 1], i)
      BY <2>1
    <2>3. Rec(j + 1, h)
      BY <2>2
    <2>4. j + 1 \in 0 .. n
      BY <1>1
    <2> HIDE DEF h, Rec
    <2> QED
      BY <2>3, <2>4
  <1>5. n \in T
    <2> HIDE DEF T
    <2>1. \A j \in 0 .. n : j \in T
      BY <1>1, <1>3, <1>4, CountUp
    <2> QED
      BY <1>1, <2>1
  <1> DEFINE after == CHOOSE g : Rec(n, g)
  <1>6. Rec(n, after)
    <2>1. \E g : Rec(n, g)
      BY <1>5
    <2> HIDE DEF Rec
    <2> QED
      BY <2>1
  <1>7. Unpacked(archive) = after[n]
    BY DEF Unpacked, n, Go
  <1>8. \A j \in 0 .. n : Fine(after[j])
    <2> DEFINE U == {j \in 0 .. n : Fine(after[j])}
    <2> HIDE DEF after, Fine
    <2>1. after[0] = State /\ \A j \in 0 .. n - 1 : after[j + 1] = Go(after[j], j + 1)
      BY <1>1, <1>6
    <2>2. 0 \in U
      BY <1>1, <2>1, StateIs DEF Fine, TreeIInv
    <2>3. ASSUME NEW j \in 0 .. n - 1, j \in U PROVE j + 1 \in U
      <3>1. after[j + 1] = Go(after[j], j + 1) /\ j + 1 \in 0 .. n /\ j + 1 \in 1 .. n
        BY <1>1, <2>1
      <3> QED
        BY <1>2, <2>3, <3>1
    <2> HIDE DEF U
    <2>4. \A j \in 0 .. n : j \in U
      BY <1>1, <2>2, <2>3, CountUp
    <2> QED
      BY <2>4 DEF U
  <1> HIDE DEF after
  <1>9. n \in 0 .. n
    BY <1>1
  <1> QED
    BY <1>7, <1>8, <1>9

LEMMA Command_tarKeeps ==
    ASSUME TreeIInv, NEW arg \in Args, NEW archive \in Archives, Command_tar(arg, archive)
    PROVE  TreeIInv' /\ RefusalKept
  <1> DEFINE f == Lookup(At(arg))
             checks == <<Found(f), When(f > 0 /\ ~tree[f].real, "refused")>>
             s == Unpacked(archive)
  <1>1. TreeTypeOK
    BY DEF TreeIInv
  <1>2. Shell("tar", [i \in DOMAIN archive |-> cwd \o archive[i].parts], Guarded(checks, s))
    BY DEF Command_tar
  <1>3. checks \in Seq(Checks)
    BY CheckIs DEF Checks
  <1>4. Harmless("tar", s)
    BY UnpackedIs DEF Harmless, Six
  <1> HIDE DEF checks, s
  <1>5. Harmless("tar", Guarded(checks, s))
    BY <1>1, <1>3, <1>4, GuardedIs
  <1> QED
    BY <1>2, <1>5, ShellKeeps

LEMMA Command_gitKeeps ==
    ASSUME TreeIInv, Command_git("g")
    PROVE  TreeIInv' /\ RefusalKept
  <1> DEFINE p == Append(cwd, "g")
             checks == <<When(Lookup(p) = Raised, "raised"), When(Lookup(p) > 0, "refused")>>
             made == mkdir(State, p)
             s == IF made.out = "raised" THEN made ELSE mkdir(made, Append(p, ".git"))
  <1>1. TreeTypeOK /\ p \in Seq(Names)
    BY TreeAssumption DEF TreeIInv
  <1>2. Shell("git", <<p>>, Guarded(checks, s))
    BY DEF Command_git, Then
  <1>3. checks \in Seq(Checks)
    BY CheckIs DEF Checks
  <1> HIDE DEF p
  <1>4. Append(p, ".git") \in Seq(Names)
    BY <1>1, TreeAssumption
  <1>5. Whole(made) /\ made.out # "refused"
    BY <1>1, StateIs, mkdirIs
  <1> HIDE DEF made
  <1>6. Whole(mkdir(made, Append(p, ".git"))) /\ mkdir(made, Append(p, ".git")).out # "refused"
    BY <1>4, <1>5, mkdirIs
  <1>7. Harmless("git", s)
    BY <1>5, <1>6 DEF Harmless, Six
  <1> HIDE DEF checks, s
  <1>8. Harmless("git", Guarded(checks, s))
    BY <1>1, <1>3, <1>7, GuardedIs
  <1> QED
    BY <1>2, <1>8, ShellKeeps

\* The calls of the SFTP server.
LEMMA SftpKeeps ==
    ASSUME TreeIInv, SftpNext
    PROVE  TreeIInv' /\ RefusalKept
  <1> USE DEF Operands
  <1>1. TreeTypeOK /\ Whole(State) /\ State.t = tree /\ State.out = "ok"
    BY StateIs DEF TreeIInv
  <1>2. Paths \subseteq Seq(Names)
    BY TreeAssumption
  <1>3. ASSUME NEW p \in Paths, NEW c \in BOOLEAN, openFile(p, c) PROVE TreeIInv' /\ RefusalKept
    <2>1. Harmless("open", open(State, p, c))
      BY <1>1, <1>2, openIs DEF Harmless, Six
    <2> QED
      BY <1>3, <2>1, ShellKeeps DEF openFile
  <1>4. ASSUME NEW p \in Paths, removeFile(p) PROVE TreeIInv' /\ RefusalKept
    <2>1. Harmless("remove", remove(State, p))
      BY <1>1, <1>2, removeIs DEF Harmless
    <2> QED
      BY <1>4, <2>1, ShellKeeps DEF removeFile
  <1>5. ASSUME NEW p \in Paths, makeDirectory(p) PROVE TreeIInv' /\ RefusalKept
    <2>1. Harmless("mkdir2", mkdir2(State, p))
      BY <1>1, <1>2, mkdir2Is DEF Harmless
    <2> QED
      BY <1>5, <2>1, ShellKeeps DEF makeDirectory
  <1>6. ASSUME NEW p \in Paths, removeDirectory(p) PROVE TreeIInv' /\ RefusalKept
    <2>1. Harmless("rmdir", rmdir(State, p))
      BY <1>1, <1>2, rmdirIs DEF Harmless
    <2> QED
      BY <1>6, <2>1, ShellKeeps DEF removeDirectory
  <1>7. ASSUME NEW p \in Paths, NEW q \in Paths, renameFile(p, q) PROVE TreeIInv' /\ RefusalKept
    <2>1. Harmless("rename", rename(State, p, q))
      BY <1>1, <1>2, renameIs DEF Harmless, Six
    <2> QED
      BY <1>7, <2>1, ShellKeeps DEF renameFile
  <1> QED
    BY <1>3, <1>4, <1>5, <1>6, <1>7 DEF SftpNext

LEMMA ShellNextKeeps ==
    ASSUME TreeIInv, ShellNext
    PROVE  TreeIInv' /\ RefusalKept
  BY Command_cdKeeps, Command_touchKeeps, Command_nohupKeeps, Command_wgetKeeps, Command_mkdirKeeps,
     Command_rmdirKeeps, Command_rmKeeps, Command_cpKeeps, Command_mvKeeps, Command_tarKeeps,
     Command_gitKeeps DEF ShellNext, Operands, Command_unzip

-----------------------------------------------------------------------------
(* The editor: a tree with one entry for a name *)

\* Among the entries of X no two have a child in common, or two of a name, and
\* the root is nobody's child.
Tidy(t, X) ==
    \A d, e \in X : \A i \in DOMAIN t[d].kids, j \in DOMAIN t[e].kids :
        /\ t[d].kids[i] # Root
        /\ t[d].kids[i] = t[e].kids[j] => d = e /\ i = j
        /\ d = e /\ t[t[d].kids[i]].name = t[t[d].kids[j]].name => i = j

\* It is what the garbage collection makes of a heap whose live part is tidy.
LEMMA TidyCollected ==
    ASSUME NEW t, WellFormed(t), Tidy(t, Reachable(t))
    PROVE  IsTree(Collect(t)) /\ ~Doubled(Collect(t))
  <1> DEFINE u == Collect(t)
             live == Reachable(t)
  <1>1. /\ Used(u) = live /\ \A i \in live : u[i] = t[i]
        /\ \A i \in Ids \ live : u[i] = Free
    BY CollectIs
  <1>2. /\ live \subseteq Ids
        /\ \A d \in live : \A k \in DOMAIN t[d].kids : t[d].kids[k] \in live
    BY ReachableIs, UsedEntries
  <1>3. Free.kids = <<>>
    BY DEF Free, Entry
  <1> HIDE DEF u, live
  <1>4. \A d \in Ids : DOMAIN u[d].kids # {} => d \in live
    BY <1>1, <1>3
  <1>5. \A d \in live : \A k \in DOMAIN t[d].kids : u[t[d].kids[k]] = t[t[d].kids[k]] /\ u[d] = t[d]
    BY <1>1, <1>2
  <1>6. Tidy(u, live)
    BY <1>1, <1>5 DEF Tidy, live
  <1>7. IsTree(u)
    BY <1>4, <1>6 DEF IsTree, Tidy
  <1>8. ~Doubled(u)
    BY <1>1, <1>6 DEF Doubled, Tidy
  <1> QED
    BY <1>7, <1>8 DEF u

LEMMA TidyOnPart ==
    ASSUME NEW t, NEW X, NEW Y \in SUBSET X, Tidy(t, X)
    PROVE  Tidy(t, Y)
  BY DEF Tidy

\* The tree that the editor holds.
LEMMA TidyHeld ==
    ASSUME NEW t, WellFormed(t), IsTree(t), ~Doubled(t)
    PROVE  Tidy(t, Used(t))
  <1>1. Used(t) \subseteq Ids
    BY UsedEntries
  <1> QED
    BY <1>1 DEF Tidy, IsTree, Doubled

\* Entries are taken out, or renamed where nothing holds them.
LEMMA TidyThinned ==
    ASSUME NEW t, NEW u, NEW X, Tidy(t, X), \A d \in X : Thinned(u[d].kids, t[d].kids),
           \A d \in X : \A k \in DOMAIN t[d].kids : u[t[d].kids[k]].name = t[t[d].kids[k]].name
    PROVE  Tidy(u, X)
  <1> SUFFICES ASSUME NEW d \in X, NEW e \in X, NEW i \in DOMAIN u[d].kids, NEW j \in DOMAIN u[e].kids
               PROVE  /\ u[d].kids[i] # Root
                      /\ u[d].kids[i] = u[e].kids[j] => d = e /\ i = j
                      /\ d = e /\ u[u[d].kids[i]].name = u[u[d].kids[j]].name => i = j
    BY DEF Tidy
  <1>1. PICK f \in [DOMAIN u[d].kids -> DOMAIN t[d].kids] :
              /\ \A k, l \in DOMAIN u[d].kids : f[k] = f[l] => k = l
              /\ \A k \in DOMAIN u[d].kids : u[d].kids[k] = t[d].kids[f[k]]
    BY DEF Thinned
  <1>2. PICK g \in [DOMAIN u[e].kids -> DOMAIN t[e].kids] :
              \A k \in DOMAIN u[e].kids : u[e].kids[k] = t[e].kids[g[k]]
    BY DEF Thinned
  <1>3. u[d].kids[i] = t[d].kids[f[i]] /\ f[i] \in DOMAIN t[d].kids
    BY <1>1
  <1>4. u[e].kids[j] = t[e].kids[g[j]] /\ g[j] \in DOMAIN t[e].kids
    BY <1>2
  <1>5. u[d].kids[i] # Root
    BY <1>3 DEF Tidy
  <1>6. u[d].kids[i] = u[e].kids[j] => d = e
    <2>1. t[d].kids[f[i]] = t[e].kids[g[j]] => d = e
      BY <1>3, <1>4 DEF Tidy
    <2> QED
      BY <1>3, <1>4, <2>1
  <1>7. d = e => u[e].kids[j] = t[d].kids[f[j]] /\ f[j] \in DOMAIN t[d].kids
    BY <1>1
  <1>8. d = e /\ u[d].kids[i] = u[e].kids[j] => f[i] = f[j]
    BY <1>3, <1>7 DEF Tidy
  <1>9. d = e /\ u[u[d].kids[i]].name = u[u[d].kids[j]].name => f[i] = f[j]
    BY <1>3, <1>7 DEF Tidy
  <1>10. d = e /\ f[i] = f[j] => i = j
    BY <1>1
  <1> QED
    BY <1>5, <1>6, <1>8, <1>9, <1>10

LEMMA ThinnedItself ==
    ASSUME NEW s
    PROVE  Thinned(s, s)
  <1> DEFINE f == [i \in DOMAIN s |-> i]
  <1>1. f \in [DOMAIN s -> DOMAIN s] /\ \A i \in DOMAIN s : f[i] = i
    OBVIOUS
  <1> HIDE DEF f
  <1> QED
    BY <1>1 DEF Thinned

\* An entry that nobody holds is put into a directory without one of its name.
LEMMA TidyAttached ==
    ASSUME NEW t, NEW u, NEW X, Tidy(t, X), NEW d \in X, NEW x, x # Root, t[d].kids \in Seq(Ids), x \in Ids,
           u[d].kids = Append(t[d].kids, x),
           \A e \in X : e # d => u[e].kids = t[e].kids,
           \A e \in X : \A k \in DOMAIN t[e].kids :
               t[e].kids[k] # x /\ u[t[e].kids[k]].name = t[t[e].kids[k]].name,
           \A k \in DOMAIN t[d].kids : t[t[d].kids[k]].name # u[x].name
    PROVE  Tidy(u, X)
  <1> DEFINE n == Len(t[d].kids) + 1
  <1>1. /\ DOMAIN t[d].kids = 1 .. n - 1 /\ n \in Nat \ {0} /\ n \notin DOMAIN t[d].kids
        /\ DOMAIN u[d].kids = 1 .. n /\ u[d].kids[n] = x
        /\ \A k \in DOMAIN t[d].kids : u[d].kids[k] = t[d].kids[k]
    OBVIOUS
  <1>2. \A k \in DOMAIN u[d].kids : k = n \/ k \in DOMAIN t[d].kids
    BY <1>1
  <1> HIDE DEF n
  <1>3. \A e \in X : \A k \in DOMAIN u[e].kids :
           \/ e = d /\ k = n /\ u[e].kids[k] = x
           \/ k \in DOMAIN t[e].kids /\ u[e].kids[k] = t[e].kids[k]
    BY <1>1, <1>2
  <1>4. \A e \in X : \A k \in DOMAIN u[e].kids : e # d => k \in DOMAIN t[e].kids /\ u[e].kids[k] = t[e].kids[k]
    BY <1>3
  <1> SUFFICES ASSUME NEW a \in X, NEW e \in X, NEW i \in DOMAIN u[a].kids, NEW j \in DOMAIN u[e].kids
               PROVE  /\ u[a].kids[i] # Root
                      /\ u[a].kids[i] = u[e].kids[j] => a = e /\ i = j
                      /\ a = e /\ u[u[a].kids[i]].name = u[u[a].kids[j]].name => i = j
    BY DEF Tidy
  <1>5. CASE a = d /\ i = n /\ u[a].kids[i] = x
    <2>1. CASE e = d /\ j = n
      BY <1>5, <2>1
    <2>2. CASE j \in DOMAIN t[e].kids /\ u[e].kids[j] = t[e].kids[j]
      <3>1. u[e].kids[j] # x
        BY <2>2
      <3>2. a = e => u[u[a].kids[j]].name # u[x].name
        BY <1>5, <2>2
      <3> QED
        BY <1>5, <3>1, <3>2
    <2> QED
      BY <1>3, <2>1, <2>2
  <1>6. CASE i \in DOMAIN t[a].kids /\ u[a].kids[i] = t[a].kids[i]
    <2>1. u[a].kids[i] # Root /\ u[a].kids[i] # x
      BY <1>6 DEF Tidy
    <2>2. CASE e = d /\ j = n /\ u[e].kids[j] = x
      <3>1. a = e => u[u[a].kids[i]].name # u[u[a].kids[j]].name
        BY <1>6, <2>2
      <3> QED
        BY <2>1, <2>2, <3>1
    <2>3. CASE j \in DOMAIN t[e].kids /\ u[e].kids[j] = t[e].kids[j]
      <3>1. u[a].kids[i] = u[e].kids[j] => a = e /\ i = j
        BY <1>6, <2>3 DEF Tidy
      <3>2. a = e => /\ u[u[a].kids[i]].name = t[t[a].kids[i]].name
                     /\ u[u[a].kids[j]].name = t[t[a].kids[j]].name
        BY <1>6, <2>3
      <3>3. a = e /\ t[t[a].kids[i]].name = t[t[a].kids[j]].name => i = j
        BY <1>6, <2>3 DEF Tidy
      <3> QED
        BY <2>1, <3>1, <3>2, <3>3
    <2> QED
      BY <1>3, <2>2, <2>3
  <1> QED
    BY <1>3, <1>5, <1>6

\* A free entry is filled and put into a directory without one of its name.
\* Its children are none, or all those of an entry that no longer counts.
LEMMA TidyPut ==
    ASSUME NEW t, WellFormed(t), NEW d \in Used(t), ~t[d].bytes, NEW x \in Ids \ Used(t),
           NEW e \in Entries, e.type # "free", e.bytes => e.kids = <<>>,
           \A k \in DOMAIN e.kids : e.kids[k] \in Used(t),
           NEW Z \in SUBSET Used(t), Tidy(t, Z),
           e.kids = <<>> \/ \E f \in Used(t) \ Z : e.kids = t[f].kids /\ Tidy(t, Z \cup {f}),
           NEW u, Put(t, d, x, e, u),
           d \in Z => \A k \in DOMAIN t[d].kids : t[t[d].kids[k]].name # e.name
    PROVE  Tidy(u, Z \cup {x})
  <1> DEFINE v == [t EXCEPT ![x] = e]
             Y == Z \cup {x}
  <1>1. /\ u[x] = e /\ u[d].kids = Append(t[d].kids, x) /\ u[d].name = t[d].name
        /\ \A j \in Ids \ {d, x} : u[j] = t[j]
    BY DEF Put
  <1>2. /\ Used(t) \subseteq Ids /\ Root \in Used(t) /\ d # x /\ x # Root /\ d \in Ids /\ t[d].kids \in Seq(Ids)
        /\ \A i \in Ids : \A k \in DOMAIN t[i].kids : t[i].kids[k] \in Used(t)
    BY UsedEntries
  <1>3. v[x] = e /\ \A j \in Ids \ {x} : v[j] = t[j]
    BY DEF WellFormed
  <1> HIDE DEF v
  <1>4. \A i \in Y : \A k \in DOMAIN v[i].kids : v[i].kids[k] \in Used(t)
    BY <1>1, <1>2, <1>3
  <1>5. \A j \in Used(t) : v[j] = t[j] /\ u[j].name = t[j].name
    BY <1>1, <1>2, <1>3
  <1>6. Tidy(v, Y)
    <2>1. CASE e.kids = <<>>
      <3>1. \A i \in Y : \A k \in DOMAIN v[i].kids : i \in Z /\ v[i] = t[i] /\ k \in DOMAIN t[i].kids
        BY <1>3, <1>5, <2>1
      <3> QED
        BY <1>4, <1>5, <3>1 DEF Tidy
    <2>2. ASSUME NEW f \in Used(t) \ Z, e.kids = t[f].kids, Tidy(t, Z \cup {f})
          PROVE  Tidy(v, Y)
      <3> DEFINE o(i) == IF i = x THEN f ELSE i
      <3>1. \A i \in Y : o(i) \in Z \cup {f} /\ v[i].kids = t[o(i)].kids
        BY <1>3, <1>5, <2>2
      <3>2. \A i, j \in Y : o(i) = o(j) => i = j
        BY <2>2
      <3> HIDE DEF o, Y
      <3>3. \A i \in Y : \A k \in DOMAIN v[i].kids : v[v[i].kids[k]] = t[v[i].kids[k]]
        BY <1>4, <1>5
      <3> SUFFICES ASSUME NEW a \in Y, NEW b \in Y, NEW i \in DOMAIN v[a].kids, NEW j \in DOMAIN v[b].kids
                   PROVE  /\ v[a].kids[i] # Root
                          /\ v[a].kids[i] = v[b].kids[j] => a = b /\ i = j
                          /\ a = b /\ v[v[a].kids[i]].name = v[v[a].kids[j]].name => i = j
        BY DEF Tidy
      <3>4. PICK p \in Z \cup {f} : p = o(a) /\ v[a].kids = t[p].kids
        BY <3>1
      <3>5. PICK q \in Z \cup {f} : q = o(b) /\ v[b].kids = t[q].kids
        BY <3>1
      <3>6. /\ t[p].kids[i] # Root
            /\ t[p].kids[i] = t[q].kids[j] => p = q /\ i = j
            /\ p = q /\ t[t[p].kids[i]].name = t[t[p].kids[j]].name => i = j
        BY <2>2, <3>4, <3>5 DEF Tidy
      <3>7. p = q <=> a = b
        BY <3>2, <3>4, <3>5
      <3>8. a = b => j \in DOMAIN v[a].kids /\ v[v[a].kids[j]] = t[v[a].kids[j]]
        BY <3>3
      <3> QED
        BY <3>3, <3>4, <3>5, <3>6, <3>7, <3>8
    <2> QED
      BY <2>1, <2>2
  <1>7. CASE d \in Z
    <2>1. d \in Y /\ u[d].kids = Append(v[d].kids, x) /\ v[d].kids \in Seq(Ids) /\ v[d] = t[d]
      BY <1>1, <1>2, <1>5, <1>7
    <2>2. \A i \in Y : i # d => u[i].kids = v[i].kids
      BY <1>1, <1>2, <1>3, <1>5
    <2>3. \A i \in Y : \A k \in DOMAIN v[i].kids :
               v[i].kids[k] # x /\ u[v[i].kids[k]].name = v[v[i].kids[k]].name
      BY <1>4, <1>5
    <2>4. \A k \in DOMAIN v[d].kids : v[v[d].kids[k]].name # u[x].name
      BY <1>1, <1>2, <1>5, <1>7
    <2>6. d \in Z \cup {x}
      BY <1>7
    <2> HIDE DEF Y
    <2>5. Tidy(u, Y)
      BY <1>1, <1>2, <1>6, <2>1, <2>2, <2>3, <2>4, TidyAttached
    <2> QED
      BY <2>5 DEF Y
  <1>8. CASE d \notin Z
    <2>1. \A i \in Y : u[i].kids = v[i].kids
      BY <1>1, <1>2, <1>3, <1>5, <1>8
    <2>2. \A i \in Y : Thinned(u[i].kids, v[i].kids)
      BY <2>1, ThinnedItself
    <2>3. \A i \in Y : \A k \in DOMAIN v[i].kids : u[v[i].kids[k]].name = v[v[i].kids[k]].name
      BY <1>4, <1>5
    <2> HIDE DEF Y
    <2>4. Tidy(u, Y)
      BY <1>6, <2>2, <2>3, TidyThinned
    <2> QED
      BY <2>4 DEF Y
  <1> QED
    BY <1>7, <1>8 DEF Y

\* Nothing under an entry holds that entry.
LEMMA NoCycle ==
    ASSUME NEW t, WellFormed(t), Collect(t) = t, Tidy(t, Used(t)), NEW x \in Used(t), NEW i \in Under(t, {x})
    PROVE  x \notin Children(t, i)
  <1> SUFFICES ASSUME x \in Children(t, i) PROVE FALSE
    OBVIOUS
  <1> DEFINE U == Under(t, {x})
             X == Used(t) \ U
  <1>1. /\ Used(t) \subseteq Ids /\ Root \in Used(t)
        /\ \A j \in Ids : Children(t, j) = {t[j].kids[k] : k \in DOMAIN t[j].kids}
        /\ \A j \in Ids : Children(t, j) \subseteq Used(t)
    BY UsedEntries DEF WellFormed
  <1>2. {x} \subseteq U /\ Closed(t, U) /\ \A Y \in SUBSET Ids : {x} \subseteq Y /\ Closed(t, Y) => U \subseteq Y
    BY <1>1, UnderIs
  <1>3. Reachable(t) = Used(t)
    BY CollectIs
  <1>4. U \subseteq Used(t)
    <2>1. Closed(t, Used(t))
      BY <1>1 DEF Closed
    <2> QED
      BY <1>1, <1>2, <2>1
  <1> HIDE DEF U
  <1>5. \A d, e \in Used(t) : \A k \in Children(t, d) : k # Root /\ (k \in Children(t, e) => d = e)
    <2> TAKE d, e \in Used(t)
    <2> TAKE k \in Children(t, d)
    <2>1. PICK m \in DOMAIN t[d].kids : k = t[d].kids[m]
      BY <1>1
    <2>2. k # Root
      BY <2>1 DEF Tidy
    <2>3. ASSUME k \in Children(t, e) PROVE d = e
      <3>1. PICK l \in DOMAIN t[e].kids : k = t[e].kids[l]
        BY <1>1, <2>3
      <3>2. t[d].kids[m] = t[e].kids[l]
        BY <2>1, <3>1
      <3> QED
        BY <3>2 DEF Tidy
    <2> QED
      BY <2>2, <2>3
  <1>6. i \in U /\ i \in Used(t) /\ x # Root
    BY <1>4, <1>5 DEF U
  <1>7. ASSUME NEW y \in U, y # x, \A j \in U : y \in Children(t, j) => j = y
        PROVE  FALSE
    <2>1. {x} \subseteq U \ {y} /\ U \ {y} \in SUBSET Ids /\ y \notin U \ {y}
      BY <1>1, <1>2, <1>4, <1>7
    <2>2. Closed(t, U \ {y})
      BY <1>2, <1>7 DEF Closed
    <2> QED
      BY <1>2, <2>1, <2>2
  <1>8. Root \in X
    <2>1. \A j \in U : Root \notin Children(t, j)
      BY <1>4, <1>5
    <2> QED
      BY <1>1, <1>6, <1>7, <2>1
  <1>9. Closed(t, X)
    <2> SUFFICES ASSUME NEW d \in X, NEW k \in Children(t, d), k \in U PROVE FALSE
      BY <1>1 DEF Closed
    <2>1. k # x
      BY <1>5, <1>6
    <2>2. \A j \in U : k \notin Children(t, j)
      BY <1>4, <1>5
    <2> QED
      BY <1>7, <2>1, <2>2
  <1>10. Used(t) \subseteq X
    BY <1>1, <1>3, <1>8, <1>9, ReachableIs
  <1> QED
    BY <1>2, <1>10

\* What is put into the heap does not come before what was found there.
LEMMA FirstKept ==
    ASSUME NEW t, WellFormed(t), NEW d \in Used(t), NEW x \in Ids \ Used(t), NEW e, NEW u, Put(t, d, x, e, u),
           NEW g \in Used(t), NEW name, First(t, g, name) # None
    PROVE  First(u, g, name) = First(t, g, name)
  <1> DEFINE P == Places(t, g, name)
             Q == Places(u, g, name)
             n == Len(t[g].kids) + 1
  <1>1. /\ Used(t) \subseteq Ids /\ g \in Ids /\ d \in Ids /\ d # x /\ g # x
        /\ t[g].kids \in Seq(Ids) /\ t[d].kids \in Seq(Ids)
        /\ \A k \in DOMAIN t[g].kids : t[g].kids[k] \in Used(t)
    BY UsedEntries
  <1>2. /\ u[d].kids = Append(t[d].kids, x) /\ u[d].name = t[d].name
        /\ \A j \in Ids \ {d, x} : u[j] = t[j]
    BY DEF Put
  <1>3. DOMAIN t[g].kids = 1 .. n - 1 /\ n \in Nat \ {0}
    BY <1>1
  <1>4. \A j \in Used(t) : u[j].name = t[j].name
    BY <1>1, <1>2
  <1> HIDE DEF n
  <1>5. /\ \A k \in DOMAIN t[g].kids : k \in DOMAIN u[g].kids /\ u[g].kids[k] = t[g].kids[k]
        /\ \A k \in DOMAIN u[g].kids : k = n \/ k \in DOMAIN t[g].kids
    <2>1. CASE g = d
      <3>1. u[g].kids = Append(t[g].kids, x) /\ t[g].kids \in Seq(Ids) /\ x \in Ids
        BY <1>1, <1>2, <2>1
      <3>2. /\ DOMAIN u[g].kids = 1 .. n
            /\ \A k \in 1 .. n - 1 : u[g].kids[k] = t[g].kids[k]
        BY <3>1 DEF n
      <3> QED
        BY <1>3, <3>2
    <2>2. CASE g # d
      BY <1>1, <1>2, <2>2
    <2> QED
      BY <2>1, <2>2
  <1>6. P = {k \in DOMAIN t[g].kids : t[t[g].kids[k]].name = name}
    BY DEF Places
  <1>7. Q = {k \in DOMAIN u[g].kids : u[u[g].kids[k]].name = name}
    BY DEF Places
  <1>8. P # {} /\ First(t, g, name) = t[g].kids[Min(P)]
    BY DEF First
  <1>9. First(u, g, name) = IF Q = {} THEN None ELSE u[g].kids[Min(Q)]
    BY DEF First
  <1> HIDE DEF P, Q
  <1>10. P \subseteq Q /\ \A k \in Q : k = n \/ k \in P
    BY <1>1, <1>4, <1>5, <1>6, <1>7
  <1>11. P \in SUBSET Nat /\ Q \in SUBSET Nat /\ Q # {} /\ \A k \in P : k < n
    BY <1>3, <1>6, <1>8, <1>10
  <1>12. Min(P) \in P /\ \A k \in P : Min(P) <= k
    BY <1>8, <1>11, MinIs
  <1>13. Min(Q) \in Q /\ \A k \in Q : Min(Q) <= k
    BY <1>11, MinIs
  <1>14. Min(Q) = Min(P)
    <2>1. Min(Q) <= Min(P) /\ Min(P) < n
      BY <1>10, <1>11, <1>12, <1>13
    <2>2. Min(Q) \in Nat /\ Min(P) \in Nat /\ n \in Nat
      BY <1>3, <1>11, <1>12, <1>13
    <2>3. Min(Q) # n
      BY <2>1, <2>2
    <2>4. Min(Q) \in P
      BY <1>10, <1>13, <2>3
    <2>5. Min(P) <= Min(Q)
      BY <1>12, <2>4
    <2> QED
      BY <2>1, <2>2, <2>5
  <1> QED
    BY <1>5, <1>6, <1>8, <1>9, <1>11, <1>12, <1>14

LEMMA LookupKept ==
    ASSUME NEW t, WellFormed(t), NEW d \in Used(t), NEW x \in Ids \ Used(t), NEW e, NEW u, Put(t, d, x, e, u),
           NEW path \in Seq(Names), getpath(t, path) > 0
    PROVE  getpath(u, path) = getpath(t, path)
  <1> DEFINE Kept(q) == getpath(t, q) > 0 => getpath(u, q) = getpath(t, q)
             T == {n \in Nat : \A q \in Seq(Names) : Len(q) = n => Kept(q)}
  <1>1. WellFormed(u) /\ \A g \in Used(t) : u[g].bytes = t[g].bytes
    BY UsedEntries DEF Put
  <1>2. Len(path) \in Nat
    OBVIOUS
  <1>3. 0 \in T
    <2> SUFFICES ASSUME NEW q \in Seq(Names), Len(q) = 0 PROVE Kept(q)
      OBVIOUS
    <2>1. q = <<>>
      OBVIOUS
    <2> QED
      BY <1>1, <2>1, getpathIs
  <1>4. ASSUME NEW n \in 0 .. Len(path) - 1, n \in T
        PROVE  n + 1 \in T
    <2> SUFFICES ASSUME NEW q \in Seq(Names), Len(q) = n + 1, getpath(t, q) > 0
                 PROVE  getpath(u, q) = getpath(t, q)
      BY <1>2
    <2>1. q # <<>> /\ Parent(q) \in Seq(Names) /\ Len(Parent(q)) = n
      <3>1. q # <<>>
        OBVIOUS
      <3> QED
        BY <3>1, Pieces
    <2> DEFINE g == getpath(t, Parent(q))
    <2>2. g \in Outcome(t)
      BY <2>1, getpathIs
    <2>3. getpath(t, q) = IF g <= 0 THEN g ELSE IF t[g].bytes THEN Raised ELSE First(t, g, Base(q))
      BY <2>1, getpathIs
    <2> HIDE DEF g
    <2>4. g > 0 /\ g \in Used(t) /\ g \in Nat /\ ~t[g].bytes
      <3>1. ~(g <= 0)
        BY <2>2, <2>3, OutcomeIs
      <3>2. ~t[g].bytes
        BY <2>3, <3>1 DEF Raised
      <3>3. g \in Used(t)
        BY <2>2, <3>1, OutcomeIs
      <3>4. g \in Nat \ {0}
        BY <3>3, UsedEntries
      <3> QED
        BY <3>2, <3>3, <3>4
    <2>5. getpath(t, q) = First(t, g, Base(q)) /\ First(t, g, Base(q)) # None
      BY <2>3, <2>4 DEF None
    <2>6. First(u, g, Base(q)) = First(t, g, Base(q))
      BY <2>4, <2>5, FirstKept
    <2>7. getpath(u, Parent(q)) = g
      BY <1>4, <2>1, <2>4 DEF g
    <2>8. getpath(u, q) = IF getpath(u, Parent(q)) <= 0 THEN getpath(u, Parent(q))
                          ELSE IF u[getpath(u, Parent(q))].bytes THEN Raised
                          ELSE First(u, getpath(u, Parent(q)), Base(q))
      BY <1>1, <2>1, getpathIs
    <2> QED
      BY <1>1, <2>4, <2>5, <2>6, <2>7, <2>8
  <1> HIDE DEF T
  <1>5. \A n \in 0 .. Len(path) : n \in T
    BY <1>2, <1>3, <1>4, CountUp
  <1>6. Len(path) \in T
    BY <1>2, <1>5
  <1> QED
    BY <1>6 DEF T

\* Where a lookup of the editor came from, and what may be put where it found nothing.
LEMMA AboveIs ==
    ASSUME NEW t, WellFormed(t), NEW path \in Seq(Names), path # <<>>
    PROVE  /\ getpath(t, path) \in Used(t) =>
                 /\ getpath(t, Parent(path)) \in Used(t) /\ ~t[getpath(t, Parent(path))].bytes
                 /\ getpath(t, path) \in Children(t, getpath(t, Parent(path)))
           /\ getpath(t, path) = None /\ getpath(t, Parent(path)) \in Used(t) =>
                 /\ ~t[getpath(t, Parent(path))].bytes
                 /\ \A k \in DOMAIN t[getpath(t, Parent(path))].kids :
                       t[t[getpath(t, Parent(path))].kids[k]].name # Base(path)
  <1> DEFINE f == getpath(t, path)
             d == getpath(t, Parent(path))
  <1>1. Parent(path) \in Seq(Names)
    BY Pieces
  <1>2. d \in Outcome(t) /\ f \in Outcome(t)
    BY <1>1, getpathIs
  <1>3. f = IF d <= 0 THEN d ELSE IF t[d].bytes THEN Raised ELSE First(t, d, Base(path))
    BY getpathIs
  <1> HIDE DEF f, d
  <1>4. Used(t) \subseteq Ids /\ \A j \in Used(t) : j \in Nat /\ j > 0 /\ ~(j <= 0)
    BY UsedEntries
  <1>5. ASSUME f \in Used(t)
        PROVE  d \in Used(t) /\ ~t[d].bytes /\ f \in Children(t, d)
    <2>1. ~(d <= 0)
      BY <1>3, <1>4, <1>5
    <2>2. d \in Used(t) /\ d \in Ids
      BY <1>2, <1>4, <2>1, OutcomeIs
    <2>3. f > 0
      BY <1>4, <1>5
    <2>4. ~t[d].bytes /\ f = First(t, d, Base(path)) /\ f # None
      BY <1>3, <2>1, <2>3 DEF Raised, None
    <2> QED
      BY <2>2, <2>4, FirstIs
  <1>6. ASSUME f = None, d \in Used(t)
        PROVE  ~t[d].bytes /\ \A k \in DOMAIN t[d].kids : t[t[d].kids[k]].name # Base(path)
    <2>1. ~t[d].bytes /\ First(t, d, Base(path)) = None
      BY <1>3, <1>4, <1>6 DEF Raised, None
    <2>2. d \in Ids /\ \A k \in DOMAIN t[d].kids : t[d].kids[k] \in Children(t, d)
      BY <1>4, <1>6, UsedEntries
    <2> QED
      BY <2>1, <2>2, FirstIs
  <1> QED
    BY <1>5, <1>6 DEF f, d

LEMMA HeldIs ==
    ASSUME TreeIInv, front = "fsctl"
    PROVE  /\ TreeTypeOK /\ WellFormed(tree) /\ Collect(tree) = tree /\ Tidy(tree, Used(tree))
           /\ Reachable(tree) \subseteq Used(tree)
  BY TidyHeld, ReachableIs DEF TreeIInv, TreeTypeOK

LEMMA GotIs ==
    ASSUME TreeIInv, NEW path \in Seq(Names)
    PROVE  /\ getpath(tree, path) \in Outcome(tree)
           /\ Found(getpath(tree, path)) = "ok" => getpath(tree, path) \in Used(tree)
           /\ getpath(tree, path) > 0 => getpath(tree, path) \in Used(tree)
           /\ ~(getpath(tree, path) <= 0) => getpath(tree, path) \in Used(tree)
  <1> DEFINE f == getpath(tree, path)
  <1>1. WellFormed(tree) /\ f \in Outcome(tree)
    BY getpathIs DEF TreeIInv, TreeTypeOK
  <1> HIDE DEF f
  <1>2. Found(f) = "ok" => f \in Used(tree)
    BY <1>1 DEF Found, Outcome
  <1>3. (f > 0 => f \in Used(tree)) /\ (~(f <= 0) => f \in Used(tree))
    BY <1>1, OutcomeIs
  <1> QED
    BY <1>1, <1>2, <1>3 DEF f

\* A call of the editor, once what it makes of the tree is known to be tidy.
LEMMA EditKeeps ==
    ASSUME TreeIInv, front = "fsctl", NEW op, NEW paths, NEW checks \in Seq(Checks), NEW u,
           (\A i \in DOMAIN checks : checks[i] = "ok") => WellFormed(u) /\ Tidy(u, Reachable(u)),
           NEW s, s = Guarded(checks, Edited(u)), Did(op, paths, s), cwd' \in Seq(Names)
    PROVE  TreeIInv' /\ RefusalKept
  <1>1. TreeTypeOK /\ newcount \in 0 .. MaxNew + 1
    BY DEF TreeIInv, TreeTypeOK
  <1>2. (\A i \in DOMAIN checks : checks[i] = "ok") => Harmless(op, Edited(u)) /\ Edited(u).t = u
    BY <1>1, ResultIs DEF Edited, Harmless
  <1>3. Harmless(op, s)
    BY <1>1, <1>2, GuardedIs
  <1>4. WellFormed(s.t) /\ Tidy(s.t, Reachable(s.t))
    <2>1. CASE s.t = tree
      BY <2>1, HeldIs, TidyOnPart
    <2>2. CASE s = Edited(u) /\ \A i \in DOMAIN checks : checks[i] = "ok"
      BY <1>2, <2>2
    <2> QED
      BY <1>1, <2>1, <2>2, GuardedAs
  <1>5. IsTree(Collect(s.t)) /\ ~Doubled(Collect(s.t))
    BY <1>4, TidyCollected
  <1> QED
    BY <1>3, <1>5, CallKeeps

LEMMA do_cdKeeps ==
    ASSUME TreeIInv, NEW arg \in Args, do_cd(arg)
    PROVE  TreeIInv' /\ RefusalKept
  <1> DEFINE o == Found(getpath(tree, At(arg)))
  <1>1. TreeTypeOK /\ o \in {"ok", "full", "refused", "raised"}
    BY CheckIs DEF TreeIInv, Checks
  <1>2. front = "fsctl" /\ Did("do_cd", <<>>, Ends(o))
    BY DEF do_cd
  <1>3. cwd' \in Seq(Names)
    BY AtIs DEF do_cd, TreeIInv
  <1> HIDE DEF o
  <1>4. Harmless("do_cd", Ends(o)) /\ Ends(o).t = tree
    BY <1>1, EndsIs
  <1>5. IsTree(Collect(Ends(o).t)) /\ ~Doubled(Collect(Ends(o).t))
    BY <1>2, <1>4, HeldIs DEF TreeIInv
  <1> QED
    BY <1>2, <1>3, <1>4, <1>5, CallKeeps

\* An entry is taken out of a directory of the tree.
LEMMA TidyDetached ==
    ASSUME NEW t, WellFormed(t), NEW X, Tidy(t, X), NEW d \in Used(t), NEW f, NEW u, u = Detach(t, d, f),
           X \subseteq Used(t)
    PROVE  WellFormed(u) /\ Tidy(u, X) /\ Used(u) = Used(t)
  <1>1. /\ WellFormed(u) /\ Used(u) = Used(t) /\ Thinned(u[d].kids, t[d].kids) /\ u[d].name = t[d].name
        /\ \A j \in Ids \ {d} : u[j] = t[j]
    BY DetachIs
  <1>2. Used(t) \subseteq Ids /\ \A i \in Used(t) : \A k \in DOMAIN t[i].kids : t[i].kids[k] \in Ids
    BY UsedEntries
  <1>3. \A i \in X : Thinned(u[i].kids, t[i].kids)
    BY <1>1, <1>2, ThinnedItself
  <1>4. \A j \in Ids : u[j].name = t[j].name
    BY <1>1
  <1>5. \A i \in X : \A k \in DOMAIN t[i].kids : u[t[i].kids[k]].name = t[t[i].kids[k]].name
    BY <1>2, <1>4
  <1> QED
    BY <1>1, <1>3, <1>5, TidyThinned

\* What rm and rmdir leave of the tree.
LEMMA DetachedIs ==
    ASSUME TreeIInv, front = "fsctl", NEW p \in Seq(Names), p # <<>>, Found(getpath(tree, p)) = "ok",
           NEW u, u = Detach(tree, getpath(tree, Parent(p)), getpath(tree, p))
    PROVE  WellFormed(u) /\ Tidy(u, Reachable(u))
  <1> DEFINE f == getpath(tree, p)
             d == getpath(tree, Parent(p))
  <1>1. WellFormed(tree) /\ Tidy(tree, Used(tree))
    BY HeldIs
  <1>2. d \in Used(tree)
    BY <1>1, GotIs, AboveIs
  <1> HIDE DEF f, d
  <1>3. u = Detach(tree, d, f)
    BY DEF f, d
  <1>4. WellFormed(u) /\ Tidy(u, Used(tree)) /\ Used(u) = Used(tree)
    BY <1>1, <1>2, <1>3, TidyDetached
  <1> QED
    BY <1>4, ReachableIs, TidyOnPart

LEMMA NoPieces == <<>> \in Seq(Names)
  OBVIOUS

LEMMA do_rmKeeps ==
    ASSUME TreeIInv, NEW arg \in Args, NEW recursive \in BOOLEAN, do_rm(arg, recursive)
    PROVE  TreeIInv' /\ RefusalKept
  <1> DEFINE p == At(arg)
             f == getpath(tree, p)
             checks == <<Found(f), When(p = <<>>, "refused"),
                         When(f > 0 /\ tree[f].type = "dir" /\ ~recursive, "refused")>>
             u == Detach(tree, getpath(tree, Parent(p)), f)
             s == Guarded(checks, Edited(u))
  <1>1. front = "fsctl" /\ Did("do_rm", <<p>>, s) /\ cwd' \in {<<>>, cwd}
    BY DEF do_rm, Edit
  <1>2. checks \in Seq(Checks)
    BY CheckIs DEF Checks
  <1>3. p \in Seq(Names) /\ cwd' \in Seq(Names)
    BY <1>1, AtIs, NoPieces DEF TreeIInv
  <1>4. ASSUME \A i \in DOMAIN checks : checks[i] = "ok"
        PROVE  WellFormed(u) /\ Tidy(u, Reachable(u))
    <2>1. Found(f) = "ok" /\ p # <<>>
      BY <1>4 DEF When
    <2> HIDE DEF p
    <2> QED
      BY <1>1, <1>3, <2>1, DetachedIs
  <1> HIDE DEF checks, u
  <1>5. PICK r : r = s
    OBVIOUS
  <1> HIDE DEF p
  <1> QED
    BY <1>1, <1>2, <1>3, <1>4, <1>5, EditKeeps

LEMMA do_rmdirKeeps ==
    ASSUME TreeIInv, NEW arg \in Args, do_rmdir(arg)
    PROVE  TreeIInv' /\ RefusalKept
  <1> DEFINE p == At(arg)
             f == getpath(tree, p)
             checks == <<Found(f), When(f > 0 /\ (tree[f].type # "dir" \/ tree[f].bytes \/ tree[f].kids # <<>>), "refused"),
                         When(p = <<>>, "raised")>>
             u == Detach(tree, getpath(tree, Parent(p)), f)
             s == Guarded(checks, Edited(u))
  <1>1. front = "fsctl" /\ Did("do_rmdir", <<p>>, s) /\ cwd' \in {<<>>, cwd, Parent(p)}
    BY DEF do_rmdir
  <1>2. checks \in Seq(Checks)
    BY CheckIs DEF Checks
  <1>3. p \in Seq(Names) /\ cwd' \in Seq(Names)
    BY <1>1, AtIs, NoPieces DEF TreeIInv
  <1>4. ASSUME \A i \in DOMAIN checks : checks[i] = "ok"
        PROVE  WellFormed(u) /\ Tidy(u, Reachable(u))
    <2>1. Found(f) = "ok" /\ p # <<>>
      BY <1>4 DEF When
    <2> HIDE DEF p
    <2> QED
      BY <1>1, <1>3, <2>1, DetachedIs
  <1> HIDE DEF checks, u
  <1>5. PICK r : r = s
    OBVIOUS
  <1> HIDE DEF p
  <1> QED
    BY <1>1, <1>2, <1>3, <1>4, <1>5, EditKeeps

\* What load and embed make of an entry.
LEMMA FilledIs ==
    ASSUME TreeIInv, front = "fsctl", NEW f \in Used(tree), NEW u, Emptied(tree, f, u)
    PROVE  WellFormed(u) /\ Tidy(u, Reachable(u))
  <1>1. WellFormed(tree) /\ Tidy(tree, Used(tree))
    BY HeldIs
  <1>2. /\ WellFormed(u) /\ u[f].kids = <<>> /\ u[f].name = tree[f].name
        /\ \A j \in Ids \ {f} : u[j] = tree[j]
    BY DEF Emptied
  <1>3. Used(tree) \subseteq Ids /\ \A i \in Used(tree) : \A k \in DOMAIN tree[i].kids : tree[i].kids[k] \in Ids
    BY <1>1, UsedEntries
  <1>4. Used(u) \subseteq Used(tree)
    BY <1>2 DEF Used
  <1>5. \A j \in Ids : u[j].name = tree[j].name
    BY <1>2
  <1>6. Thinned(u[f].kids, tree[f].kids)
    <2>1. u[f].kids = <<>> /\ DOMAIN u[f].kids = {}
      BY <1>2
    <2> DEFINE none == [i \in {} |-> 1]
    <2>2. none \in [DOMAIN u[f].kids -> DOMAIN tree[f].kids]
      BY <2>1
    <2> QED
      BY <2>1, <2>2 DEF Thinned
  <1>7. \A i \in Used(tree) : Thinned(u[i].kids, tree[i].kids)
    BY <1>2, <1>3, <1>6, ThinnedItself
  <1>8. \A i \in Used(tree) : \A k \in DOMAIN tree[i].kids : u[tree[i].kids[k]].name = tree[tree[i].kids[k]].name
    BY <1>3, <1>5
  <1>9. Tidy(u, Used(tree))
    BY <1>1, <1>7, <1>8, TidyThinned
  <1> QED
    BY <1>2, <1>4, <1>9, ReachableIs, TidyOnPart

LEMMA do_loadKeeps ==
    ASSUME TreeIInv, NEW arg \in Args, do_load(arg)
    PROVE  TreeIInv' /\ RefusalKept
  <1> DEFINE p == At(arg)
             f == getpath(tree, p)
             checks == <<Found(f)>>
             u == [tree EXCEPT ![f].bytes = TRUE, ![f].kids = <<>>]
             s == Guarded(checks, Edited(u))
  <1>1. front = "fsctl" /\ Did("do_load", <<p>>, s) /\ cwd' \in {<<>>, cwd}
    BY DEF do_load, Edit, Filled
  <1>2. checks \in Seq(Checks)
    BY CheckIs DEF Checks
  <1>3. p \in Seq(Names) /\ cwd' \in Seq(Names)
    BY <1>1, AtIs, NoPieces DEF TreeIInv
  <1>4. ASSUME \A i \in DOMAIN checks : checks[i] = "ok"
        PROVE  WellFormed(u) /\ Tidy(u, Reachable(u))
    <2>1. Found(f) = "ok"
      BY <1>4
    <2> HIDE DEF p
    <2>2. f \in Used(tree)
      BY <1>3, <2>1, GotIs
    <2>3. Emptied(tree, f, u)
      BY <1>1, <2>2, HeldIs, BytesEdit
    <2> HIDE DEF f, u
    <2> QED
      BY <1>1, <2>2, <2>3, FilledIs
  <1> HIDE DEF checks, u
  <1>5. PICK r : r = s
    OBVIOUS
  <1> HIDE DEF p
  <1> QED
    BY <1>1, <1>2, <1>3, <1>4, <1>5, EditKeeps

LEMMA do_embedKeeps ==
    ASSUME TreeIInv, NEW path \in Paths, do_embed(path)
    PROVE  TreeIInv' /\ RefusalKept
  <1> DEFINE f == getpath(tree, path)
             u == [tree EXCEPT ![f].bytes = TRUE, ![f].kids = <<>>]
             s == IF f = Raised THEN Ends("raised")
                  ELSE IF f > 0 /\ tree[f].type = "file" THEN Edited(u) ELSE State
  <1>1. front = "fsctl" /\ Did("do_embed", <<path>>, s) /\ cwd' \in {<<>>, cwd}
    BY DEF do_embed, Edit, Filled
  <1>2. cwd' \in Seq(Names) /\ path \in Seq(Names)
    BY <1>1, NoPieces, TreeAssumption DEF TreeIInv
  <1>3. TreeTypeOK /\ newcount \in 0 .. MaxNew + 1 /\ WellFormed(tree) /\ Tidy(tree, Reachable(tree))
    BY <1>1, HeldIs, TidyOnPart DEF TreeTypeOK
  <1>4. f > 0 => WellFormed(u) /\ Tidy(u, Reachable(u))
    <2> HIDE DEF f
    <2>1. f > 0 => f \in Used(tree)
      BY <1>2, GotIs DEF f
    <2>2. f \in Used(tree) => Emptied(tree, f, u)
      BY <1>3, BytesEdit
    <2> HIDE DEF u
    <2> QED
      BY <1>1, <2>1, <2>2, FilledIs
  <1> HIDE DEF f, u
  <1>5. f > 0 => Harmless("do_embed", Edited(u)) /\ Edited(u).t = u
    BY <1>3, <1>4, ResultIs DEF Edited, Harmless
  <1>6. /\ Harmless("do_embed", Ends("raised")) /\ Ends("raised").t = tree
        /\ Harmless("do_embed", State) /\ State.t = tree
    BY <1>3, EndsIs, StateIs
  <1>7. Harmless("do_embed", s) /\ WellFormed(s.t) /\ Tidy(s.t, Reachable(s.t))
    BY <1>3, <1>4, <1>5, <1>6
  <1> HIDE DEF s
  <1>8. IsTree(Collect(s.t)) /\ ~Doubled(Collect(s.t))
    BY <1>7, TidyCollected
  <1> QED
    BY <1>1, <1>2, <1>7, <1>8, CallKeeps

LEMMA PrefixIs ==
    ASSUME NEW p \in Seq(Names), NEW k \in 0 .. Len(p)
    PROVE  /\ SubSeq(p, 1, k) \in Seq(Names)
           /\ k = 0 => SubSeq(p, 1, k) = <<>>
           /\ k = Len(p) => SubSeq(p, 1, k) = p
           /\ k > 0 => SubSeq(p, 1, k) # <<>> /\ Parent(SubSeq(p, 1, k)) = SubSeq(p, 1, k - 1)
  <1>1. /\ SubSeq(p, 1, k) \in Seq(Names) /\ Len(SubSeq(p, 1, k)) = k
        /\ \A i \in 1 .. k : SubSeq(p, 1, k)[i] = p[i]
    OBVIOUS
  <1>2. k > 0 => /\ SubSeq(p, 1, k - 1) \in Seq(Names) /\ Len(SubSeq(p, 1, k - 1)) = k - 1
                 /\ \A i \in 1 .. k - 1 : SubSeq(p, 1, k - 1)[i] = p[i]
    OBVIOUS
  <1>3. k = 0 => SubSeq(p, 1, k) = <<>>
    BY <1>1
  <1>4. k = Len(p) => SubSeq(p, 1, k) = p
    BY <1>1
  <1>5. ASSUME k > 0
        PROVE  SubSeq(p, 1, k) # <<>> /\ Parent(SubSeq(p, 1, k)) = SubSeq(p, 1, k - 1)
    <2> DEFINE q == SubSeq(p, 1, k)
               r == SubSeq(p, 1, k - 1)
    <2>1. q \in Seq(Names) /\ r \in Seq(Names) /\ Len(q) = k /\ Len(r) = k - 1 /\ q # <<>>
      BY <1>1, <1>2, <1>5
    <2>2. \A i \in 1 .. k - 1 : q[i] = r[i]
      BY <1>1, <1>2, <1>5
    <2> HIDE DEF q, r
    <2>3. /\ Parent(q) \in Seq(Names) /\ Len(Parent(q)) = k - 1
          /\ \A i \in 1 .. k - 1 : Parent(q)[i] = q[i]
      BY <2>1, Pieces
    <2>4. Parent(q) = r
      BY <2>1, <2>2, <2>3
    <2> QED
      BY <2>1, <2>4 DEF q, r
  <1> QED
    BY <1>1, <1>3, <1>4, <1>5

\* mkfile makes what is missing on the way: a lookup of that then succeeds, or
\* meets the bytes of a file.
Led(t, path) == /\ WellFormed(t) /\ Tidy(t, Used(t))
                /\ Full(t) \/ getpath(t, path) # None

LEMMA MissingIs ==
    ASSUME NEW t, NEW q \in Seq(Names), q # <<>>, Led(t, Parent(q)), getpath(t, q) = None,
           NEW type \in {"dir", "file"}
    PROVE  Led(Add(t, getpath(t, Parent(q)), Entry(Base(q), type)), q)
  <1> DEFINE d == getpath(t, Parent(q))
             e == Entry(Base(q), type)
             x == Fresh(t)
             u == Attach([t EXCEPT ![x] = e], d, x)
  <1>1. WellFormed(t) /\ Tidy(t, Used(t)) /\ Parent(q) \in Seq(Names) /\ Base(q) \in Names
    BY Pieces DEF Led
  <1>2. CASE Full(t)
    <2>1. Add(t, d, e) = t
      BY <1>2 DEF Add
    <2> HIDE DEF d, e
    <2> QED
      BY <1>1, <1>2, <2>1 DEF Led, d, e
  <1>3. CASE ~Full(t)
    <2>1. x \in Ids \ Used(t)
      BY <1>3, FreshIs
    <2>2. Add(t, d, e) = u
      BY <1>3 DEF Add
    <2>3. e \in Entries /\ e.type # "free" /\ e.kids = <<>> /\ e.name = Base(q)
      BY <1>1, EntryIs
    <2>4. d # None
      BY <1>3 DEF Led
    <2>5. d \in Outcome(t)
      BY <1>1, getpathIs
    <2>6. d = Raised => getpath(t, q) = Raised
      BY <1>1, getpathIs DEF Raised
    <2> HIDE DEF x, e
    <2>7. d \in Used(t)
      BY <2>4, <2>5, <2>6 DEF Outcome, Raised, None
    <2>8. ~t[d].bytes /\ \A k \in DOMAIN t[d].kids : t[t[d].kids[k]].name # Base(q)
      BY <1>1, <2>7, AboveIs
    <2>9. d > 0
      BY <1>1, <2>7, UsedEntries
    <2> HIDE DEF d
    <2>10. Put(t, d, x, e, u)
      BY <1>1, <2>1, <2>3, <2>7, <2>8, PutIs
    <2> HIDE DEF u
    <2>11. WellFormed(u) /\ Used(u) = Used(t) \cup {x} /\ u[d].bytes = t[d].bytes
           /\ u[d].kids = Append(t[d].kids, x) /\ u[x] = e
      BY <2>10 DEF Put
    <2>12. Tidy(u, Used(t) \cup {x})
      <3>1. PICK Z \in SUBSET Used(t) : Z = Used(t)
        OBVIOUS
      <3>2. \A k \in DOMAIN t[d].kids : t[t[d].kids[k]].name # e.name
        BY <2>3, <2>8
      <3>3. Tidy(u, Z \cup {x})
        BY <1>1, <2>1, <2>3, <2>7, <2>8, <2>10, <3>1, <3>2, TidyPut
      <3> QED
        BY <3>1, <3>3
    <2>13. getpath(u, Parent(q)) = d
      BY <1>1, <2>1, <2>7, <2>9, <2>10, LookupKept DEF d
    <2>14. x \in Children(u, d)
      <3>1. t[d].kids \in Seq(Ids) /\ d \in Ids /\ Children(u, d) = {u[d].kids[k] : k \in DOMAIN u[d].kids}
        BY <1>1, <2>7, <2>11, UsedEntries
      <3>2. Len(t[d].kids) + 1 \in DOMAIN u[d].kids /\ u[d].kids[Len(t[d].kids) + 1] = x
        BY <2>1, <2>11, <3>1
      <3> QED
        BY <3>1, <3>2
    <2>15. First(u, d, Base(q)) # None
      <3>1. d \in Ids
        BY <1>1, <2>7, UsedEntries
      <3> QED
        BY <2>3, <2>11, <2>14, <3>1, FirstIs
    <2>16. getpath(u, q) = First(u, d, Base(q))
      <3>1. ~(d <= 0) /\ ~u[d].bytes
        BY <1>1, <2>7, <2>8, <2>11, UsedEntries
      <3> QED
        BY <2>11, <2>13, <3>1, getpathIs
    <2>17. Led(u, q)
      BY <2>11, <2>12, <2>15, <2>16 DEF Led
    <2> QED
      BY <2>2, <2>17 DEF d, e
  <1> QED
    BY <1>2, <1>3

LEMMA editor_mkfileKeeps ==
    ASSUME TreeIInv, NEW arg \in Args, NEW type \in {"dir", "file"}, editor_mkfile(arg, type)
    PROVE  TreeIInv' /\ RefusalKept
  <1> DEFINE p == At(arg)
             n == Len(p)
             f == getpath(tree, p)
             Go(t, k) == LET q == SubSeq(p, 1, k)
                         IN  IF getpath(t, q) # None THEN t
                             ELSE Add(t, getpath(t, Parent(q)), Entry(Base(q), IF k = n THEN type ELSE "dir"))
             Rec(k, g) == g = [i \in 0 .. k |-> IF i = 0 THEN tree ELSE Go(g[i - 1], i)]
             T == {k \in 0 .. n : \E g : Rec(k, g)}
             made == CHOOSE g : Rec(n, g)
             checks == <<When(f = Raised, "raised"), When(f > 0, "refused")>>
  <1>1. p \in Seq(Names) /\ n \in Nat
    BY AtIs
  <1>2. /\ front = "fsctl" /\ Did("mkfile", <<p>>, Guarded(checks, Edited(made[n]))) /\ cwd' \in {<<>>, cwd}
    BY DEF editor_mkfile, Edit
  <1>3. cwd' \in Seq(Names)
    BY <1>2, NoPieces DEF TreeIInv
  <1>4. checks \in Seq(Checks)
    BY CheckIs DEF Checks
  <1>5. ASSUME NEW t, NEW k \in 1 .. n, Led(t, SubSeq(p, 1, k - 1))
        PROVE  Led(Go(t, k), SubSeq(p, 1, k))
    <2> DEFINE q == SubSeq(p, 1, k)
    <2>1. q \in Seq(Names) /\ q # <<>> /\ Parent(q) = SubSeq(p, 1, k - 1)
      <3> HIDE DEF p
      <3>1. p \in Seq(Names) /\ k \in 0 .. Len(p) /\ k > 0
        BY <1>1
      <3>2. SubSeq(p, 1, k) \in Seq(Names) /\ SubSeq(p, 1, k) # <<>>
        BY <3>1, PrefixIs
      <3>3. Parent(SubSeq(p, 1, k)) = SubSeq(p, 1, k - 1)
        BY <3>1, PrefixIs
      <3> QED
        BY <3>2, <3>3
    <2>2. Led(t, Parent(q))
      BY <1>5, <2>1
    <2> HIDE DEF p, q
    <2>3. CASE getpath(t, q) # None
      <3>1. Led(t, q)
        BY <2>2, <2>3 DEF Led
      <3>2. Go(t, k) = t
        BY <2>3 DEF q
      <3> QED
        BY <3>1, <3>2 DEF q
    <2>4. CASE getpath(t, q) = None
      <3>1. PICK y \in {"dir", "file"} : y = IF k = n THEN type ELSE "dir"
        OBVIOUS
      <3>2. Led(Add(t, getpath(t, Parent(q)), Entry(Base(q), y)), q)
        BY <2>1, <2>2, <2>4, MissingIs
      <3>3. Go(t, k) = Add(t, getpath(t, Parent(q)), Entry(Base(q), y))
        BY <2>4, <3>1 DEF q
      <3> QED
        BY <3>2, <3>3 DEF q
    <2> QED
      BY <2>3, <2>4
  <1> HIDE DEF p, Go, n
  <1>6. 0 \in T
    <2> DEFINE h == [i \in 0 .. 0 |-> tree]
    <2>1. Rec(0, h)
      OBVIOUS
    <2>2. 0 \in 0 .. n
      BY <1>1
    <2> HIDE DEF h, Rec
    <2> QED
      BY <2>1, <2>2
  <1>7. ASSUME NEW j \in 0 .. n - 1, j \in T
        PROVE  j + 1 \in T
    <2>1. PICK g : Rec(j, g)
      <3> HIDE DEF Rec
      <3> QED
        BY <1>7
    <2> DEFINE h == [i \in 0 .. j + 1 |-> IF i = j + 1 THEN Go(g[j], j + 1) ELSE g[i]]
    <2>2. ASSUME NEW i \in 0 .. j + 1
          PROVE  h[i] = IF i = 0 THEN tree ELSE Go(h[i - 1], i)
      BY <2>1
    <2>3. Rec(j + 1, h)
      BY <2>2
    <2>4. j + 1 \in 0 .. n
      BY <1>1
    <2> HIDE DEF h, Rec
    <2> QED
      BY <2>3, <2>4
  <1>8. n \in T
    <2> HIDE DEF T
    <2>1. \A j \in 0 .. n : j \in T
      BY <1>1, <1>6, <1>7, CountUp
    <2> QED
      BY <1>1, <2>1
  <1>9. Rec(n, made)
    <2>1. \E g : Rec(n, g)
      BY <1>8
    <2> HIDE DEF Rec
    <2> QED
      BY <2>1
  <1>10. \A j \in 0 .. n : Led(made[j], SubSeq(p, 1, j))
    <2> DEFINE U == {j \in 0 .. n : Led(made[j], SubSeq(p, 1, j))}
    <2> HIDE DEF made
    <2>1. made[0] = tree /\ \A j \in 0 .. n - 1 : made[j + 1] = Go(made[j], j + 1)
      BY <1>1, <1>9
    <2>2. 0 \in U
      <3>1. SubSeq(p, 1, 0) = <<>> /\ 0 \in 0 .. n
        BY <1>1, PrefixIs DEF n
      <3>2. getpath(tree, <<>>) = Root
        BY <1>2, HeldIs, NoPieces, getpathIs
      <3>3. Led(tree, <<>>)
        BY <1>2, <3>2, HeldIs DEF Led, Root, None
      <3> QED
        BY <2>1, <3>1, <3>3
    <2>3. ASSUME NEW j \in 0 .. n - 1, j \in U PROVE j + 1 \in U
      <3>1. made[j + 1] = Go(made[j], j + 1) /\ j + 1 \in 0 .. n /\ j + 1 \in 1 .. n /\ (j + 1) - 1 = j
        BY <1>1, <2>1
      <3> QED
        BY <1>5, <2>3, <3>1
    <2> HIDE DEF U
    <2>4. \A j \in 0 .. n : j \in U
      BY <1>1, <2>2, <2>3, CountUp
    <2> QED
      BY <2>4 DEF U
  <1> HIDE DEF made, checks
  <1>11. WellFormed(made[n]) /\ Tidy(made[n], Reachable(made[n]))
    <2>1. WellFormed(made[n]) /\ Tidy(made[n], Used(made[n]))
      BY <1>1, <1>10 DEF Led
    <2> QED
      BY <2>1, ReachableIs, TidyOnPart
  <1>12. PICK r : r = Guarded(checks, Edited(made[n]))
    OBVIOUS
  <1> QED
    BY <1>2, <1>3, <1>4, <1>11, <1>12, EditKeeps

\* What is known when nothing stops mv or cp.
LEMMA AllJoined ==
    ASSUME NEW a \in Seq(Checks), NEW b \in Seq(Checks)
    PROVE  /\ a \o b \in Seq(Checks)
           /\ (\A i \in DOMAIN (a \o b) : (a \o b)[i] = "ok")
                => (\A i \in DOMAIN a : a[i] = "ok") /\ (\A i \in DOMAIN b : b[i] = "ok")
  <1>1. a \o b \in Seq(Checks) /\ Len(a \o b) = Len(a) + Len(b)
    OBVIOUS
  <1>2. \A i \in 1 .. Len(a) : i \in DOMAIN (a \o b) /\ (a \o b)[i] = a[i]
    BY <1>1
  <1>3. \A i \in 1 .. Len(b) : Len(a) + i \in DOMAIN (a \o b) /\ (a \o b)[Len(a) + i] = b[i]
    BY <1>1
  <1>4. DOMAIN a = 1 .. Len(a) /\ DOMAIN b = 1 .. Len(b)
    OBVIOUS
  <1>5. ASSUME \A i \in DOMAIN (a \o b) : (a \o b)[i] = "ok"
        PROVE  (\A i \in DOMAIN a : a[i] = "ok") /\ (\A i \in DOMAIN b : b[i] = "ok")
    BY <1>2, <1>3, <1>4, <1>5
  <1> QED
    BY <1>1, <1>5

LEMMA BlockedIs ==
    ASSUME TreeIInv, NEW src \in Args, NEW dst \in Args
    PROVE  /\ Blocked(src, dst) \in Seq(Checks)
           /\ (\A i \in DOMAIN Blocked(src, dst) : Blocked(src, dst)[i] = "ok") =>
                 /\ getpath(tree, At(src)) \in Used(tree)
                 /\ Target(src, dst) \in Seq(Names) /\ Target(src, dst) # <<>>
                 /\ getpath(tree, Target(src, dst)) = None
                 /\ getpath(tree, Parent(Target(src, dst))) \in Used(tree)
  <1> DEFINE f == getpath(tree, At(src))
             e == getpath(tree, At(dst))
             to == Target(src, dst)
             taken == getpath(tree, to)
             up == getpath(tree, Parent(to))
  <1>1. Blocked(src, dst) = IF f <= 0 THEN <<Found(f)>>
                            ELSE IF e = Raised THEN <<"raised">>
                            ELSE <<When(taken = Raised, "raised"), When(taken > 0, "refused"), Found(up)>>
    BY DEF Blocked
  <1>2. At(src) \in Seq(Names) /\ At(dst) \in Seq(Names) /\ WellFormed(tree)
    BY AtIs DEF TreeIInv, TreeTypeOK
  <1>3. f \in Outcome(tree) /\ (~(f <= 0) => f \in Used(tree))
    BY <1>2, GotIs
  <1>4. to \in {At(dst), Append(At(dst), tree[f].name)} /\ (to # At(dst) => f > Root)
    BY DEF Target
  <1>5. Blocked(src, dst) \in Seq(Checks)
    <2> HIDE DEF f, e, taken, up
    <2>1. "raised" \in Checks /\ "refused" \in Checks
      BY DEF Checks
    <2>2. Found(f) \in Checks /\ Found(up) \in Checks
      BY CheckIs
    <2>3. When(taken = Raised, "raised") \in Checks /\ When(taken > 0, "refused") \in Checks
      BY <2>1, CheckIs
    <2>4. <<Found(f)>> \in Seq(Checks) /\ <<"raised">> \in Seq(Checks)
      BY <2>1, <2>2
    <2>5. <<When(taken = Raised, "raised"), When(taken > 0, "refused"), Found(up)>> \in Seq(Checks)
      BY <2>2, <2>3
    <2> QED
      BY <1>1, <2>4, <2>5
  <1>6. ASSUME \A i \in DOMAIN Blocked(src, dst) : Blocked(src, dst)[i] = "ok"
        PROVE  f \in Used(tree) /\ to \in Seq(Names) /\ to # <<>> /\ taken = None /\ up \in Used(tree)
    <2>1. ~(f <= 0)
      <3> HIDE DEF f, e, taken, up
      <3> SUFFICES ASSUME f <= 0 PROVE FALSE
        OBVIOUS
      <3>1. Blocked(src, dst)[1] = Found(f) /\ 1 \in DOMAIN Blocked(src, dst)
        BY <1>1
      <3>2. Found(f) = "ok"
        BY <1>6, <3>1
      <3>3. f \in Used(tree)
        BY <1>3, <3>2 DEF Found, Outcome
      <3> QED
        BY <1>2, <3>3, UsedEntries
    <2>2. f \in Used(tree)
      BY <1>3, <2>1
    <2>3. to \in Seq(Names)
      <3> HIDE DEF f, to
      <3>1. tree[f].name \in Names
        BY <1>2, <2>2, UsedEntries
      <3>2. Append(At(dst), tree[f].name) \in Seq(Names)
        BY <1>2, <3>1
      <3> QED
        BY <1>2, <1>4, <3>2
    <2> HIDE DEF f, e, to
    <2>4. e # Raised
      <3> HIDE DEF taken, up
      <3> SUFFICES ASSUME e = Raised PROVE FALSE
        OBVIOUS
      <3>1. Blocked(src, dst)[1] = "raised" /\ 1 \in DOMAIN Blocked(src, dst)
        BY <1>1, <2>1
      <3> QED
        BY <1>6, <3>1
    <2>5. When(taken = Raised, "raised") = "ok" /\ When(taken > 0, "refused") = "ok" /\ Found(up) = "ok"
      <3> DEFINE a == When(taken = Raised, "raised")
                 b == When(taken > 0, "refused")
                 c == Found(up)
      <3>1. Blocked(src, dst) = <<a, b, c>>
        BY <1>1, <2>1, <2>4
      <3> HIDE DEF a, b, c
      <3> QED
        BY <1>6, <3>1 DEF a, b, c
    <2>6. taken \in Outcome(tree)
      BY <2>3, GotIs
    <2>7. Parent(to) \in Seq(Names)
      BY <2>3, Pieces
    <2>8. up \in Used(tree)
      BY <2>5, <2>7, GotIs
    <2>9. taken # Raised /\ ~(taken > 0)
      BY <2>5 DEF When
    <2>10. taken = None
      BY <1>2, <2>6, <2>9, OutcomeIs
    <2>11. to # <<>>
      BY <1>2, <2>3, <2>10, getpathIs DEF None, Root
    <2> QED
      BY <2>2, <2>3, <2>8, <2>10, <2>11
  <1> QED
    BY <1>5, <1>6

LEMMA RoomIs ==
    ASSUME HasRoom(1)
    PROVE  ~Full(tree)
  <1>1. Ids \ Used(tree) # {}
    BY FS_EmptySet DEF HasRoom
  <1> QED
    BY <1>1 DEF Full

LEMMA NamedIs ==
    ASSUME NEW t, WellFormed(t), NEW f \in Used(t), NEW name \in Names
    PROVE  /\ [t[f] EXCEPT !.name = name] \in Entries /\ [t[f] EXCEPT !.name = name].type # "free"
           /\ [t[f] EXCEPT !.name = name].name = name /\ [t[f] EXCEPT !.name = name].kids = t[f].kids
           /\ [t[f] EXCEPT !.name = name].bytes = t[f].bytes
  <1>1. f \in Ids /\ t[f] \in Entries /\ t[f].type # "free"
    BY UsedEntries DEF Used
  <1> QED
    BY <1>1 DEF Entries

\* The copy of an entry takes its children, and then the entry goes.  If it was
\* put under itself, nothing leads to it, or to the copy, any more.
LEMMA MovedIs ==
    ASSUME NEW t, WellFormed(t), Collect(t) = t, Tidy(t, Used(t)), NEW p \in Seq(Names), p # <<>>,
           NEW f \in Used(t), f = getpath(t, p), NEW d \in Used(t), ~t[d].bytes, NEW x \in Ids \ Used(t),
           NEW name \in Names, \A k \in DOMAIN t[d].kids : t[t[d].kids[k]].name # name,
           NEW t1, Put(t, d, x, [t[f] EXCEPT !.name = name], t1)
    PROVE  \A u : u = Detach(t1, getpath(t1, Parent(p)), f) => WellFormed(u) /\ Tidy(u, Reachable(u))
  <1> DEFINE e == [t[f] EXCEPT !.name = name]
             b == getpath(t, Parent(p))
             Z == Used(t) \ {f}
             Y == Z \cup {x}
  <1>1. e \in Entries /\ e.type # "free" /\ e.name = name /\ e.kids = t[f].kids /\ e.bytes = t[f].bytes
    BY NamedIs
  <1> HIDE DEF e
  <1>2. /\ Used(t) \subseteq Ids /\ Root \in Used(t)
        /\ \A j \in Ids : Children(t, j) = {t[j].kids[k] : k \in DOMAIN t[j].kids}
        /\ \A j \in Ids : t[j].kids \in Seq(Ids) /\ \A k \in DOMAIN t[j].kids : t[j].kids[k] \in Used(t)
        /\ \A j \in Used(t) : j > 0
    BY UsedEntries
  <1>3. Put(t, d, x, e, t1)
    BY DEF e
  <1>4. b \in Used(t) /\ f \in Children(t, b) /\ Parent(p) \in Seq(Names)
    BY Pieces, AboveIs
  <1>5. getpath(t1, Parent(p)) = b
    BY <1>2, <1>3, <1>4, LookupKept
  <1> HIDE DEF b
  <1>6. /\ WellFormed(t1) /\ Used(t1) = Used(t) \cup {x} /\ t1[x] = e
        /\ t1[d].kids = Append(t[d].kids, x)
        /\ \A j \in Ids \ {d, x} : t1[j] = t[j]
    BY <1>3 DEF Put
  <1>7. \A k \in DOMAIN e.kids : e.kids[k] \in Used(t)
    BY <1>1, <1>2
  <1>8. e.bytes => e.kids = <<>>
    BY <1>1, <1>2 DEF WellFormed
  <1>9. Z \in SUBSET Used(t) /\ Z \cup {f} = Used(t) /\ f \in Used(t) \ Z /\ f \notin Y /\ x # f
    OBVIOUS
  <1>10. Tidy(t, Z)
    BY <1>9, TidyOnPart
  <1> HIDE DEF Z
  <1>11. Tidy(t1, Y)
    <2>1. e.kids = <<>> \/ \E g \in Used(t) \ Z : e.kids = t[g].kids /\ Tidy(t, Z \cup {g})
      BY <1>1, <1>9
    <2>2. d \in Z => \A k \in DOMAIN t[d].kids : t[t[d].kids[k]].name # e.name
      BY <1>1
    <2>3. Tidy(t1, Z \cup {x})
      BY <1>1, <1>3, <1>7, <1>8, <1>9, <1>10, <2>1, <2>2, TidyPut
    <2> QED
      BY <2>3
  <1>12. b # f
    <2>1. f \in Under(t, {f})
      BY <1>2, UnderIs
    <2>2. f \notin Children(t, f)
      BY <2>1, NoCycle
    <2> QED
      BY <1>4, <2>2
  <1>13. b \in Y /\ b \in Used(t1) /\ b \in Ids /\ b # x /\ Y \subseteq Used(t1) /\ Used(t1) = Y \cup {f}
    BY <1>2, <1>4, <1>6, <1>9, <1>12
  <1>14. PICK l \in DOMAIN t1[b].kids : t1[b].kids[l] = f
    <2>1. PICK k \in DOMAIN t[b].kids : t[b].kids[k] = f
      BY <1>2, <1>4, <1>13
    <2>2. k \in DOMAIN t1[b].kids /\ t1[b].kids[k] = t[b].kids[k]
      <3>1. CASE b = d
        <4>1. t[b].kids \in Seq(Ids) /\ t1[b].kids = Append(t[b].kids, x)
          BY <1>2, <1>6, <1>13, <3>1
        <4> QED
          BY <4>1
      <3>2. CASE b # d
        BY <1>6, <1>13, <3>2
      <3> QED
        BY <3>1, <3>2
    <2> QED
      BY <2>1, <2>2
  <1>15. f # Root
    BY <1>11, <1>13, <1>14 DEF Tidy
  <1> SUFFICES ASSUME NEW u, u = Detach(t1, b, f)
               PROVE  WellFormed(u) /\ Tidy(u, Reachable(u))
    BY <1>5
  <1>16. WellFormed(u) /\ Tidy(u, Y) /\ Used(u) = Used(t1)
    BY <1>6, <1>11, <1>13, TidyDetached
  <1>17. /\ (\A i, j \in DOMAIN t1[b].kids : t1[b].kids[i] = t1[b].kids[j] => i = j)
               => \A i \in DOMAIN u[b].kids : u[b].kids[i] # f
         /\ \A j \in Ids \ {b} : u[j] = t1[j]
    BY <1>6, <1>13, DetachIs
  <1>18. \A i \in DOMAIN u[b].kids : u[b].kids[i] # f
    BY <1>11, <1>13, <1>17 DEF Tidy
  <1>19. ASSUME NEW i \in Y, NEW k \in DOMAIN u[i].kids
         PROVE  u[i].kids[k] \in Y
    <2>1. i \in Ids
      BY <1>2, <1>6, <1>13
    <2>2. u[i].kids[k] # f
      <3>1. CASE i = b
        BY <1>18, <3>1
      <3>2. CASE i # b
        <4>1. u[i] = t1[i]
          BY <1>17, <2>1, <3>2
        <4>2. k \in DOMAIN t1[i].kids /\ (t1[i].kids[k] = t1[b].kids[l] => i = b)
          BY <1>11, <1>13, <4>1 DEF Tidy
        <4> QED
          BY <1>14, <3>2, <4>1, <4>2
      <3> QED
        BY <3>1, <3>2
    <2>3. u[i].kids[k] \in Used(u)
      BY <1>16, <2>1, UsedEntries
    <2> QED
      BY <1>13, <1>16, <2>2, <2>3
  <1>20. Closed(u, Y)
    <2>1. \A i \in Y : i \in Ids
      BY <1>2, <1>6, <1>13
    <2>2. \A i \in Ids : Children(u, i) = {u[i].kids[k] : k \in DOMAIN u[i].kids}
      BY <1>16, UsedEntries
    <2> QED
      BY <1>19, <2>1, <2>2 DEF Closed
  <1>21. Root \in Y /\ Y \in SUBSET Ids
    BY <1>2, <1>6, <1>9, <1>13, <1>15
  <1>22. Reachable(u) \subseteq Y
    BY <1>16, <1>20, <1>21, ReachableIs
  <1> QED
    BY <1>16, <1>22, TidyOnPart

LEMMA do_mvKeeps ==
    ASSUME TreeIInv, NEW src \in Args, NEW dst \in Args, do_mv(src, dst)
    PROVE  TreeIInv' /\ RefusalKept
  <1> DEFINE p == At(src)
             f == getpath(tree, p)
             to == Target(src, dst)
             d == getpath(tree, Parent(to))
             x == Fresh(tree)
             t1 == Attach([tree EXCEPT ![x] = [tree[f] EXCEPT !.name = Base(to)]], d, x)
             u == Detach(t1, getpath(t1, Parent(p)), f)
             checks == <<When(p = <<>>, "refused")>> \o Blocked(src, dst)
  <1>1. /\ HasRoom(1) /\ front = "fsctl" /\ Did("do_mv", <<p>>, Guarded(checks, Edited(u)))
        /\ cwd' \in {<<>>, cwd}
    BY DEF do_mv, Edit
  <1>2. cwd' \in Seq(Names) /\ p \in Seq(Names)
    BY <1>1, NoPieces, AtIs DEF TreeIInv
  <1>3. WellFormed(tree) /\ Collect(tree) = tree /\ Tidy(tree, Used(tree))
    BY <1>1, HeldIs
  <1>4. x \in Ids \ Used(tree)
    BY <1>1, RoomIs, FreshIs
  <1> HIDE DEF x
  <1>5. <<When(p = <<>>, "refused")>> \in Seq(Checks)
    <2>1. When(p = <<>>, "refused") \in Checks
      BY CheckIs DEF Checks
    <2> QED
      BY <2>1
  <1>6. checks \in Seq(Checks)
    BY <1>5, BlockedIs, AllJoined
  <1>7. ASSUME \A i \in DOMAIN checks : checks[i] = "ok"
        PROVE  WellFormed(u) /\ Tidy(u, Reachable(u))
    <2>1. \A i \in DOMAIN Blocked(src, dst) : Blocked(src, dst)[i] = "ok"
      BY <1>5, <1>7, BlockedIs, AllJoined
    <2>2. When(p = <<>>, "refused") = "ok"
      <3>1. \A i \in DOMAIN <<When(p = <<>>, "refused")>> : <<When(p = <<>>, "refused")>>[i] = "ok"
        BY <1>5, <1>7, BlockedIs, AllJoined
      <3> QED
        BY <3>1
    <2>3. p # <<>>
      BY <2>2 DEF When
    <2>4. /\ f \in Used(tree) /\ to \in Seq(Names) /\ to # <<>>
          /\ getpath(tree, to) = None /\ d \in Used(tree)
      BY <2>1, BlockedIs
    <2>5. Base(to) \in Names
      BY <2>4, Pieces
    <2> DEFINE n == Base(to)
    <2> HIDE DEF to
    <2>6. ~tree[d].bytes /\ \A k \in DOMAIN tree[d].kids : tree[tree[d].kids[k]].name # n
      BY <1>3, <2>4, AboveIs
    <2> DEFINE e == [tree[f] EXCEPT !.name = n]
    <2> HIDE DEF p, d, n
    <2>7. n \in Names
      BY <2>5 DEF n
    <2>8. PICK g \in Used(tree) : g = f
      BY <2>4
    <2> HIDE DEF f
    <2>9. Put(tree, d, x, [tree[g] EXCEPT !.name = n], t1)
      <3>1. e \in Entries /\ e.type # "free" /\ e.name = n /\ e.kids = tree[g].kids /\ e.bytes = tree[g].bytes
        BY <1>3, <2>7, <2>8, NamedIs
      <3>2. g \in Ids /\ \A k \in DOMAIN tree[g].kids : tree[g].kids[k] \in Used(tree)
        BY <1>3, UsedEntries
      <3>3. e.bytes => e.kids = <<>>
        BY <1>3, <3>1, <3>2 DEF WellFormed
      <3>4. \A k \in DOMAIN e.kids : e.kids[k] \in Used(tree)
        BY <3>1, <3>2
      <3>5. t1 = Attach([tree EXCEPT ![x] = e], d, x) /\ e = [tree[g] EXCEPT !.name = n]
        BY <2>8 DEF n
      <3> HIDE DEF e, t1
      <3>6. Put(tree, d, x, e, Attach([tree EXCEPT ![x] = e], d, x))
        BY <1>3, <1>4, <2>4, <2>6, <3>1, <3>3, <3>4, PutIs
      <3> QED
        BY <3>5, <3>6
    <2> HIDE DEF t1
    <2>10. g = getpath(tree, p)
      BY <2>8 DEF f
    <2>11. \A w : w = Detach(t1, getpath(t1, Parent(p)), g) => WellFormed(w) /\ Tidy(w, Reachable(w))
      BY <1>2, <1>3, <1>4, <2>3, <2>4, <2>6, <2>7, <2>9, <2>10, MovedIs
    <2> QED
      BY <2>8, <2>11
  <1> HIDE DEF checks, u
  <1>8. PICK r : r = Guarded(checks, Edited(u))
    OBVIOUS
  <1> HIDE DEF p
  <1> QED
    BY <1>1, <1>2, <1>6, <1>7, <1>8, EditKeeps

\* A deep copy is as tidy as what it was made of, and nothing holds its top.
LEMMA TidyCopied ==
    ASSUME NEW t, WellFormed(t), Collect(t) = t, Tidy(t, Used(t)), NEW x \in Used(t), NEW u, NEW m, CopyOf(t, x, u, m)
    PROVE  /\ Tidy(u, Used(u))
           /\ \A i \in Used(u) : \A k \in DOMAIN u[i].kids : u[i].kids[k] # m[x]
  <1> DEFINE U == Under(t, {x})
             Old(i) == /\ i \in Used(t) /\ u[i] = t[i]
                       /\ \A k \in DOMAIN u[i].kids : u[i].kids[k] \in Used(t)
             New(i, o) == /\ o \in U /\ i = m[o] /\ DOMAIN u[i].kids = DOMAIN t[o].kids
                          /\ \A k \in DOMAIN u[i].kids : t[o].kids[k] \in U /\ u[i].kids[k] = m[t[o].kids[k]]
  <1>1. /\ m \in [U -> Ids \ Used(t)]
        /\ \A i, j \in U : m[i] = m[j] => i = j
    BY DEF CopyOf
  <1>2. /\ WellFormed(u) /\ x \in U /\ U \subseteq Used(t)
        /\ \A j \in Used(u) : j \in Used(t) \/ \E i \in U : j = m[i]
        /\ \A j \in Used(t) : u[j] = t[j]
    <2>1. WellFormed(u) /\ x \in U /\ U \subseteq Used(t)
      BY CopyIs
    <2>2. \A j \in Used(u) : j \in Used(t) \/ \E i \in U : j = m[i]
      <3>1. Copies(t, x, u, m)
        BY CopyIs
      <3> QED
        BY <3>1 DEF Copies
    <2>3. \A j \in Used(t) : u[j] = t[j]
      BY CopyIs
    <2> QED
      BY <2>1, <2>2, <2>3
  <1>3. \A i \in U :
           /\ u[m[i]].name = t[i].name /\ DOMAIN u[m[i]].kids = DOMAIN t[i].kids
           /\ \A k \in DOMAIN t[i].kids : t[i].kids[k] \in U /\ u[m[i]].kids[k] = m[t[i].kids[k]]
    <2>1. Copies(t, x, u, m)
      BY CopyIs
    <2> QED
      BY <2>1 DEF Copies
  <1>4. /\ Used(t) \subseteq Ids /\ Root \in Used(t)
        /\ \A j \in Ids : \A k \in DOMAIN t[j].kids : t[j].kids[k] \in Used(t) /\ t[j].kids[k] \in Children(t, j)
    BY UsedEntries
  <1> HIDE DEF U
  <1>5. \A i \in U : m[i] \notin Used(t) /\ m[i] # Root
    BY <1>1, <1>4
  <1>6. ASSUME NEW i \in Used(u)
        PROVE  Old(i) \/ \E o \in U : New(i, o)
    <2>1. CASE i \in Used(t)
      BY <1>2, <1>4, <2>1
    <2>2. ASSUME NEW o \in U, i = m[o] PROVE New(i, o)
      BY <1>3, <2>2
    <2> QED
      BY <1>2, <2>1, <2>2
  <1>7. ASSUME NEW i \in Used(u), NEW k \in DOMAIN u[i].kids
        PROVE  u[i].kids[k] # m[x] /\ u[i].kids[k] # Root
    <2>1. CASE Old(i)
      <3>1. u[i].kids[k] \in Used(t) /\ u[i].kids[k] = t[i].kids[k] /\ k \in DOMAIN t[i].kids
        BY <2>1
      <3> QED
        BY <1>2, <1>5, <2>1, <3>1 DEF Tidy
    <2>2. ASSUME NEW o \in U, New(i, o) PROVE u[i].kids[k] # m[x] /\ u[i].kids[k] # Root
      <3>1. t[o].kids[k] \in U /\ u[i].kids[k] = m[t[o].kids[k]] /\ k \in DOMAIN t[o].kids
        BY <2>2
      <3>2. x \notin Children(t, o)
        BY NoCycle DEF U
      <3>3. t[o].kids[k] # x
        BY <1>2, <1>4, <3>1, <3>2
      <3> QED
        BY <1>1, <1>2, <1>5, <3>1, <3>3
    <2> QED
      BY <1>6, <2>1, <2>2
  <1>8. ASSUME NEW a \in Used(u), NEW b \in Used(u), NEW i \in DOMAIN u[a].kids, NEW j \in DOMAIN u[b].kids
        PROVE  /\ u[a].kids[i] = u[b].kids[j] => a = b /\ i = j
               /\ a = b /\ u[u[a].kids[i]].name = u[u[b].kids[j]].name => i = j
    <2>1. CASE Old(a) /\ Old(b)
      <3>1. /\ u[a].kids[i] = t[a].kids[i] /\ i \in DOMAIN t[a].kids /\ t[a].kids[i] \in Used(t)
            /\ u[b].kids[j] = t[b].kids[j] /\ j \in DOMAIN t[b].kids /\ t[b].kids[j] \in Used(t)
            /\ a \in Used(t) /\ b \in Used(t)
        BY <2>1
      <3>2. u[u[a].kids[i]] = t[t[a].kids[i]] /\ u[u[b].kids[j]] = t[t[b].kids[j]]
        BY <1>2, <3>1
      <3>3. /\ t[a].kids[i] = t[b].kids[j] => a = b /\ i = j
            /\ a = b /\ t[t[a].kids[i]].name = t[t[a].kids[j]].name => i = j
        BY <3>1 DEF Tidy
      <3> QED
        BY <3>1, <3>2, <3>3
    <2>2. ASSUME NEW o \in U, NEW q \in U, New(a, o), New(b, q)
          PROVE  /\ u[a].kids[i] = u[b].kids[j] => a = b /\ i = j
                 /\ a = b /\ u[u[a].kids[i]].name = u[u[b].kids[j]].name => i = j
      <3>1. /\ t[o].kids[i] \in U /\ u[a].kids[i] = m[t[o].kids[i]] /\ i \in DOMAIN t[o].kids
            /\ t[q].kids[j] \in U /\ u[b].kids[j] = m[t[q].kids[j]] /\ j \in DOMAIN t[q].kids
            /\ o \in Used(t) /\ q \in Used(t) /\ a = m[o] /\ b = m[q]
        BY <1>2, <2>2
      <3>2. u[m[t[o].kids[i]]].name = t[t[o].kids[i]].name /\ u[m[t[q].kids[j]]].name = t[t[q].kids[j]].name
        BY <1>3, <3>1
      <3>3. /\ t[o].kids[i] = t[q].kids[j] => o = q /\ i = j
            /\ o = q => j \in DOMAIN t[o].kids
            /\ o = q /\ t[t[o].kids[i]].name = t[t[o].kids[j]].name => i = j
        BY <3>1 DEF Tidy
      <3>4. a = b => o = q
        BY <1>1, <3>1
      <3>5. m[t[o].kids[i]] = m[t[q].kids[j]] => t[o].kids[i] = t[q].kids[j]
        BY <1>1, <3>1
      <3> QED
        BY <3>1, <3>2, <3>3, <3>4, <3>5
    <2>3. ASSUME NEW o \in U, Old(a), New(b, o)
          PROVE  a # b /\ u[a].kids[i] # u[b].kids[j]
      BY <1>5, <2>3
    <2>10. ASSUME NEW o \in U, New(a, o), Old(b)
           PROVE  a # b /\ u[a].kids[i] # u[b].kids[j]
      BY <1>5, <2>10
    <2> HIDE DEF Old, New
    <2>4. Old(a) \/ \E o \in U : New(a, o)
      BY <1>6
    <2>5. Old(b) \/ \E o \in U : New(b, o)
      BY <1>6
    <2>6. CASE Old(a) /\ Old(b)
      BY <2>1, <2>6
    <2>7. CASE Old(a) /\ \E o \in U : New(b, o)
      BY <2>3, <2>7
    <2>8. CASE (\E o \in U : New(a, o)) /\ Old(b)
      BY <2>10, <2>8
    <2>9. CASE (\E o \in U : New(a, o)) /\ \E o \in U : New(b, o)
      BY <2>2, <2>9
    <2> QED
      BY <2>4, <2>5, <2>6, <2>7, <2>8, <2>9
  <1>9. Tidy(u, Used(u))
    <2>1. \A a, b \in Used(u) : \A i \in DOMAIN u[a].kids, j \in DOMAIN u[b].kids :
             /\ u[a].kids[i] # Root
             /\ u[a].kids[i] = u[b].kids[j] => a = b /\ i = j
             /\ a = b /\ u[u[a].kids[i]].name = u[u[b].kids[j]].name => i = j
      BY <1>7, <1>8
    <2> HIDE DEF Old, New
    <2> QED
      BY <2>1 DEF Tidy
  <1> QED
    BY <1>7, <1>9

\* The copy gets its name and its place.
LEMMA PlacedCopy ==
    ASSUME NEW t, WellFormed(t), Collect(t) = t, Tidy(t, Used(t)), NEW f \in Used(t), NEW u, NEW m, CopyOf(t, f, u, m),
           NEW d \in Used(t), ~t[d].bytes, NEW name \in Names,
           \A k \in DOMAIN t[d].kids : t[t[d].kids[k]].name # name, NEW y, y = m[f]
    PROVE  \A w : w = Attach([u EXCEPT ![y].name = name], d, y) => WellFormed(w) /\ Tidy(w, Reachable(w))
  <1> DEFINE v == [u EXCEPT ![y].name = name]
  <1>1. WellFormed(u) /\ y \in Used(u) /\ y \in Ids \ Used(t)
    <2>1. WellFormed(u)
      BY CopyIs
    <2>2. m[f] \in Ids \ Used(t) /\ m[f] \in Used(u)
      BY CopyIs
    <2> QED
      BY <2>1, <2>2
  <1>2. Used(t) \subseteq Used(u)
    BY CopyIs
  <1>3. \A j \in Used(t) : u[j] = t[j]
    BY CopyIs
  <1>4. Tidy(u, Used(u))
    BY TidyCopied
  <1>5. \A i \in Used(u) : \A k \in DOMAIN u[i].kids : u[i].kids[k] # y
    BY TidyCopied
  <1>6. /\ Used(u) \subseteq Ids /\ y \in Ids /\ Root \in Used(t) /\ y # d /\ y # Root /\ d \in Used(u) /\ d \in Ids
        /\ \A i \in Used(u) : \A k \in DOMAIN u[i].kids : u[i].kids[k] \in Ids
    BY <1>1, <1>2, UsedEntries
  <1>7. WellFormed(v) /\ Used(v) = Used(u) /\ v[y].name = name /\ v[y].kids = u[y].kids
    <2>1. WellFormed(v)
      BY <1>1, NameEdit
    <2>2. Used(v) = Used(u)
      BY <1>1, NameEdit
    <2>3. v[y].name = name
      BY <1>1 DEF WellFormed, Entries
    <2>4. v[y].kids = u[y].kids
      BY <1>1, NameEdit
    <2> QED
      BY <2>1, <2>2, <2>3, <2>4
  <1>8. \A j \in Ids \ {y} : v[j] = u[j]
    BY <1>1, NameEdit
  <1> HIDE DEF v
  <1>9. \A i \in Used(u) : Thinned(v[i].kids, u[i].kids)
    BY <1>6, <1>7, <1>8, ThinnedItself
  <1>10. \A i \in Used(u) : \A k \in DOMAIN u[i].kids : v[u[i].kids[k]].name = u[u[i].kids[k]].name
    BY <1>5, <1>6, <1>8
  <1>11. Tidy(v, Used(u))
    BY <1>4, <1>9, <1>10, TidyThinned
  <1>12. v[d] = t[d] /\ d \in Used(v) /\ y \in Used(v) /\ ~v[d].bytes
    BY <1>1, <1>3, <1>6, <1>7, <1>8
  <1>13. \A i \in Used(u) : \A k \in DOMAIN v[i].kids : v[i].kids[k] # y /\ v[i].kids[k] \in Ids
    BY <1>5, <1>6, <1>7, <1>8
  <1>14. \A k \in DOMAIN v[d].kids : v[v[d].kids[k]].name # v[y].name
    <2>1. \A k \in DOMAIN t[d].kids : t[d].kids[k] \in Used(t)
      BY UsedEntries
    <2>2. \A k \in DOMAIN t[d].kids : v[t[d].kids[k]] = t[t[d].kids[k]]
      BY <1>1, <1>2, <1>3, <1>6, <1>8, <2>1
    <2> QED
      BY <1>7, <1>12, <2>2
  <1> SUFFICES ASSUME NEW w, w = Attach(v, d, y)
               PROVE  WellFormed(w) /\ Tidy(w, Reachable(w))
    BY DEF v
  <1>15. /\ WellFormed(w) /\ Used(w) = Used(v) /\ w[d].kids = Append(v[d].kids, y) /\ w[d].name = v[d].name
         /\ \A j \in Ids \ {d} : w[j] = v[j]
    <2>1. WellFormed(Attach(v, d, y)) /\ Used(Attach(v, d, y)) = Used(v)
      BY <1>7, <1>12, AttachIs
    <2>2. Attach(v, d, y)[d].kids = Append(v[d].kids, y) /\ Attach(v, d, y)[d].name = v[d].name
      BY <1>7, <1>12, AttachIs
    <2>3. \A j \in Ids \ {d} : Attach(v, d, y)[j] = v[j]
      BY <1>7, <1>12, AttachIs
    <2> QED
      BY <2>1, <2>2, <2>3
  <1>16. \A j \in Ids : w[j].name = v[j].name
    BY <1>15
  <1>17. v[d].kids \in Seq(Ids)
    BY <1>6, <1>7, UsedEntries
  <1>18. PICK X \in SUBSET Ids : X = Used(u)
    BY <1>6
  <1>19. Tidy(w, X)
    <2>1. Tidy(v, X) /\ d \in X /\ \A i \in X : i # d => w[i].kids = v[i].kids
      BY <1>6, <1>11, <1>15, <1>18
    <2>2. \A i \in X : \A k \in DOMAIN v[i].kids : v[i].kids[k] # y /\ w[v[i].kids[k]].name = v[v[i].kids[k]].name
      BY <1>13, <1>16, <1>18
    <2>3. \A k \in DOMAIN v[d].kids : v[v[d].kids[k]].name # w[y].name
      BY <1>6, <1>14, <1>16
    <2> QED
      BY <1>6, <1>15, <1>17, <2>1, <2>2, <2>3, TidyAttached
  <1>20. Reachable(w) \subseteq X
    BY <1>7, <1>15, <1>18, ReachableIs
  <1> QED
    BY <1>15, <1>19, <1>20, TidyOnPart

LEMMA do_cpKeeps ==
    ASSUME TreeIInv, NEW src \in Args, NEW dst \in Args, do_cp(src, dst)
    PROVE  TreeIInv' /\ RefusalKept
  <1> DEFINE f == getpath(tree, At(src))
             to == Target(src, dst)
             d == getpath(tree, Parent(to))
             c == Copied(tree, f)
             n == Base(to)
             u == Attach([c.t EXCEPT ![c.x].name = n], d, c.x)
             checks == Blocked(src, dst)
  <1>1. /\ front = "fsctl" /\ Did("do_cp", <<to>>, Guarded(checks, Edited(u)))
        /\ (f > 0 => Fits(tree, f)) /\ cwd' \in {<<>>, cwd}
    BY DEF do_cp, Edit
  <1>2. cwd' \in Seq(Names)
    BY <1>1, NoPieces DEF TreeIInv
  <1>3. WellFormed(tree) /\ Collect(tree) = tree /\ Tidy(tree, Used(tree))
    BY <1>1, HeldIs
  <1>4. checks \in Seq(Checks)
    BY BlockedIs
  <1>5. ASSUME \A i \in DOMAIN checks : checks[i] = "ok"
        PROVE  WellFormed(u) /\ Tidy(u, Reachable(u))
    <2>1. /\ f \in Used(tree) /\ to \in Seq(Names) /\ to # <<>>
          /\ getpath(tree, to) = None /\ d \in Used(tree)
      BY <1>5, BlockedIs
    <2>2. n \in Names
      BY <2>1, Pieces
    <2> HIDE DEF to
    <2>3. ~tree[d].bytes /\ \A k \in DOMAIN tree[d].kids : tree[tree[d].kids[k]].name # n
      BY <1>3, <2>1, AboveIs
    <2> HIDE DEF f, d, n
    <2>4. Fits(tree, f)
      BY <1>1, <1>3, <2>1, UsedEntries
    <2>5. PICK m : CopyOf(tree, f, c.t, m) /\ c.x = m[f]
      BY <1>3, <2>1, <2>4, CopiedAs
    <2> DEFINE y == c.x
               t1 == c.t
    <2> HIDE DEF c
    <2>6. CopyOf(tree, f, t1, m) /\ y = m[f]
      BY <2>5
    <2> HIDE DEF y, t1
    <2>7. \A w : w = Attach([t1 EXCEPT ![y].name = n], d, y) => WellFormed(w) /\ Tidy(w, Reachable(w))
      BY <1>3, <2>1, <2>2, <2>3, <2>6, PlacedCopy
    <2>8. u = Attach([t1 EXCEPT ![y].name = n], d, y)
      BY DEF y, t1
    <2> QED
      BY <2>7, <2>8
  <1> HIDE DEF checks, u
  <1>6. PICK r : r = Guarded(checks, Edited(u))
    OBVIOUS
  <1> HIDE DEF to
  <1> QED
    BY <1>1, <1>2, <1>4, <1>5, <1>6, EditKeeps

LEMMA FsctlNextKeeps ==
    ASSUME TreeIInv, FsctlNext
    PROVE  TreeIInv' /\ RefusalKept
  BY do_cdKeeps, editor_mkfileKeeps, do_rmKeeps, do_rmdirKeeps, do_loadKeeps, do_embedKeeps, do_mvKeeps, do_cpKeeps
  DEF FsctlNext, Operands, do_mkdir, do_touch

-----------------------------------------------------------------------------
(* The file system: what the calls keep *)

\* The strengthening is inductive: a call of the shell, of SFTP or of the editor
\* leaves the heap well formed and without garbage and, in the editor, a tree
\* with one entry for a name.
LEMMA TreeInductive == TreeSpec => []TreeIInv
  <1>1. TreeInit => TreeIInv
    BY TreeAssumption, NoPieces, MaxNewAssumption DEF TreeInit, TreeIInv, TreeTypeOK
  <1>2. TreeIInv /\ [TreeNext]_treeVars => TreeIInv'
    <2> SUFFICES ASSUME TreeIInv, [TreeNext]_treeVars PROVE TreeIInv'
      OBVIOUS
    <2>1. CASE TreeNext
      BY <2>1, ShellNextKeeps, SftpKeeps, FsctlNextKeeps DEF TreeNext
    <2>2. CASE UNCHANGED treeVars
      BY <2>2 DEF treeVars, TreeIInv, TreeTypeOK
    <2> QED
      BY <2>1, <2>2
  <1> QED
    BY <1>1, <1>2, PTL DEF TreeSpec

\* The heap stays well formed with no garbage in it, and the editor (fsctl.py),
\* which looks at the destination before it makes, copies or moves an entry,
\* never gives one directory two entries of a name.
THEOREM TreeCorrect == TreeSpec => []TreeInv
  <1>1. TreeIInv => TreeInv
    BY DEF TreeIInv, TreeInv
  <1> QED
    BY <1>1, TreeInductive, PTL

\* A refused, failed or full call of any command but the six that work in parts
\* leaves the tree as it was.
THEOREM RefusalsChangeNothing == TreeSpec => RefusalChangesNothing
  <1>1. TreeIInv /\ [TreeNext]_treeVars => [RefusalKept]_treeVars
    BY ShellNextKeeps, SftpKeeps, FsctlNextKeeps DEF TreeNext
  <1> QED
    BY <1>1, TreeInductive, PTL DEF TreeSpec, RefusalChangesNothing, RefusalKept

=============================================================================
