------------------------------ MODULE TFTPTransfer ------------------------------
(***************************************************************************)
(* A file fetched by TFTP (commands/tftp.py), for the tftp command and for *)
(* llm/downloader.py: the client that acknowledges numbered blocks and     *)
(* retransmits on a timeout, over a network that loses, delays, reorders   *)
(* and repeats datagrams.  The server is external: each request it hears   *)
(* starts a transfer from a port of its own, and it may repeat what it     *)
(* sent.  A block is modelled by its place in the file.                    *)
(***************************************************************************)
EXTENDS Integers, Sequences

CONSTANTS
    Tids,              \* ports of the server, one for each request it hears
    Lengths,           \* blocks a file may have; the last one is short
    Wrap,              \* block numbers are below it, 2^16
    TFTP_MAX_RETRIES

ASSUME TFTPAssumption ==
    /\ Lengths \subseteq Nat \ {0} /\ Wrap \in Nat \ {0, 1}
    /\ TFTP_MAX_RETRIES \in Nat \ {0}

VARIABLES
    length,         \* blocks of the file
    pos,            \* the last block each transfer of the server sent, 0 before
    toServer,       \* datagrams on their way: requests and acknowledgements
    toClient,       \* and blocks, errors and others
    current_block,
    server_tid,     \* where the first answer came from
    artifact,       \* the blocks written
    retry_count,
    timeout_call,   \* the timer is active
    result,         \* of the deferred: "wait", "ok" or "error"
    port,           \* "open", "closing" once the transfer ended, "closed"
    strayed         \* an unexpected datagram cancelled the timer (history)

client == <<current_block, server_tid, artifact, retry_count, timeout_call, result, port, strayed>>
vars == <<length, pos, toServer, toClient, client>>

NoTid == "unknown"
RRQ == [op |-> "RRQ"]
ACK(tid, n) == [op |-> "ACK", tid |-> tid, num |-> n]
DATA(tid, i) == [op |-> "DATA", tid |-> tid, num |-> i % Wrap, block |-> i, short |-> i = length]

-----------------------------------------------------------------------------
(* The client *)

\* The timer starts again with every datagram sent.
sendRRQ ==
    /\ toServer' = toServer \cup {RRQ}
    /\ timeout_call' = TRUE

\* Mutant: the timer is not started again.
sendACK_NoTimer(n) ==
    /\ toServer' = toServer \cup {ACK(server_tid', n)}
    /\ timeout_call' = FALSE

sendACK(n) ==
    /\ toServer' = toServer \cup {ACK(server_tid', n)}
    /\ timeout_call' = TRUE

\* The deferred fires once; its callbacks close the artifact and the port.  A
\* second time raises, and what received the datagram logs it.
Fire(r) ==
    /\ result' = IF result = "wait" THEN r ELSE result
    /\ port' = "closing"

\* A block after the end: the artifact is closed, and writing raises.
AfterEnd(m) ==
    /\ result # "wait"
    /\ current_block' = m.num
    /\ timeout_call' = FALSE
    /\ UNCHANGED <<toServer, artifact, result, port, strayed>>

\* The block that is expected is written and acknowledged; a short one is the
\* last, and cancels the timer that the acknowledgement started.
NextBlock(m) ==
    /\ m.num = current_block + 1
    /\ \/ AfterEnd(m)
       \/ /\ result = "wait"
          /\ current_block' = m.num
          /\ artifact' = Append(artifact, m.block)
          /\ IF m.short
             THEN /\ toServer' = toServer \cup {ACK(server_tid', m.num)}
                  /\ timeout_call' = FALSE
                  /\ Fire("ok")
             ELSE sendACK(m.num) /\ UNCHANGED <<result, port>>
    /\ UNCHANGED strayed

\* Mutant: the repeated block is written again.
RepeatedBlock_Written(m) ==
    /\ m.num = current_block
    /\ artifact' = Append(artifact, m.block)
    /\ sendACK(m.num)
    /\ UNCHANGED <<current_block, result, port, strayed>>

RepeatedBlock(m) ==
    /\ m.num = current_block
    /\ sendACK(m.num)
    /\ UNCHANGED <<current_block, artifact, result, port, strayed>>

\* A block out of order is only logged, and the timer was cancelled.
OtherBlock(m) ==
    /\ m.num \notin {current_block, current_block + 1}
    /\ timeout_call' = FALSE
    /\ strayed' = TRUE
    /\ UNCHANGED <<toServer, current_block, artifact, result, port>>

handleDATA(m) == m.op = "DATA" /\ (NextBlock(m) \/ RepeatedBlock(m) \/ OtherBlock(m))

handleERROR(m) ==
    /\ m.op = "ERROR"
    /\ timeout_call' = FALSE
    /\ Fire("error")
    /\ UNCHANGED <<toServer, current_block, artifact, strayed>>

UnexpectedOpcode(m) ==
    /\ m.op = "other"
    /\ timeout_call' = FALSE
    /\ strayed' = TRUE
    /\ UNCHANGED <<toServer, current_block, artifact, result, port>>

\* Whoever sent it: the address is remembered, not compared.  The datagrams
\* that came with the last one are still delivered.
datagramReceived(m, again) ==
    /\ port # "closed"
    /\ server_tid' = IF server_tid = NoTid THEN m.tid ELSE server_tid
    /\ retry_count' = 0
    /\ toClient' = IF again THEN toClient ELSE toClient \ {m}
    /\ handleDATA(m) \/ handleERROR(m) \/ UnexpectedOpcode(m)
    /\ UNCHANGED <<length, pos>>

\* "retry or fail"
handleTimeout ==
    /\ timeout_call /\ port = "open"
    /\ UNCHANGED server_tid
    /\ retry_count' = retry_count + 1
    /\ IF retry_count' >= TFTP_MAX_RETRIES
       THEN Fire("error") /\ timeout_call' = FALSE /\ UNCHANGED toServer
       ELSE /\ UNCHANGED <<result, port>>
            /\ IF current_block = 0 THEN sendRRQ ELSE sendACK(current_block)
    /\ UNCHANGED <<length, pos, toClient, current_block, artifact, strayed>>

\* The port is closed on the next turn of the reactor.
stopProtocol ==
    /\ port = "closing"
    /\ port' = "closed"
    /\ timeout_call' = FALSE
    /\ UNCHANGED <<length, pos, toServer, toClient, current_block, server_tid, artifact,
                   retry_count, result, strayed>>

-----------------------------------------------------------------------------
(* The server and the network: external *)

\* A request heard starts a transfer, or is answered by an error or by an
\* option the client does not know.
Hear(tid) ==
    /\ RRQ \in toServer /\ pos[tid] = 0
    /\ toServer' = toServer \ {RRQ}
    /\ \/ pos' = [pos EXCEPT ![tid] = 1] /\ toClient' = toClient \cup {DATA(tid, 1)}
       \/ \E op \in {"ERROR", "other"} : /\ toClient' = toClient \cup {[op |-> op, tid |-> tid]}
                                         /\ UNCHANGED pos
    /\ UNCHANGED <<length, client>>

Advance(tid) ==
    LET ack == ACK(tid, pos[tid] % Wrap)
    IN  /\ ack \in toServer /\ pos[tid] \in 1 .. length - 1
        /\ toServer' = toServer \ {ack}
        /\ pos' = [pos EXCEPT ![tid] = @ + 1]
        /\ toClient' = toClient \cup {DATA(tid, pos[tid] + 1)}
        /\ UNCHANGED <<length, client>>

Repeat(tid) ==
    /\ pos[tid] # 0
    /\ toClient' = toClient \cup {DATA(tid, pos[tid])}
    /\ UNCHANGED <<length, pos, toServer, client>>

Lose ==
    /\ \/ \E m \in toServer : toServer' = toServer \ {m} /\ UNCHANGED toClient
       \/ \E m \in toClient : toClient' = toClient \ {m} /\ UNCHANGED toServer
    /\ UNCHANGED <<length, pos, client>>

-----------------------------------------------------------------------------
\* startProtocol sends the request.
TransferInit ==
    /\ length \in Lengths
    /\ pos = [t \in Tids |-> 0]
    /\ toServer = {RRQ}
    /\ toClient = {}
    /\ current_block = 0
    /\ server_tid = NoTid
    /\ artifact = <<>>
    /\ retry_count = 0
    /\ timeout_call = TRUE
    /\ result = "wait"
    /\ port = "open"
    /\ strayed = FALSE

TransferNext ==
    \/ \E m \in toClient, again \in BOOLEAN : datagramReceived(m, again)
    \/ handleTimeout \/ stopProtocol
    \/ \E t \in Tids : Hear(t) \/ Advance(t) \/ Repeat(t)
    \/ Lose

-----------------------------------------------------------------------------
\* The client's state stays in range, and only a client that ended closes its
\* port; the retries of a silent server are bounded.
TransferTypeOK ==
    /\ current_block \in 0 .. Wrap - 1
    /\ server_tid \in Tids \cup {NoTid}
    /\ retry_count \in 0 .. TFTP_MAX_RETRIES
    /\ result = "wait" <=> port = "open"
    /\ port = "closed" => ~timeout_call

\* However datagrams are lost, repeated and reordered, and however many
\* transfers the server runs at once, the blocks written are the file from its
\* start, in order and each once.
PrefixWritten == \A i \in 1 .. Len(artifact) : artifact[i] = i

\* A transfer reported as complete has the whole file.
CompleteWhenOk == result = "ok" => Len(artifact) = length

\* While a transfer runs the client acknowledges only what it has written.
AckedIsWritten ==
    result = "wait" => \A m \in toServer : m.op = "ACK" => m.num \in 1 .. Len(artifact)

\* The client writes, acknowledges and reports what the server sent: the parts
\* above.
TransferInv == TransferTypeOK /\ PrefixWritten /\ CompleteWhenOk /\ AckedIsWritten

\* The server or the network repeats a datagram.  The client that hears a block
\* again starts its timer and its count of retries anew.
Repeated == (\E t \in Tids : Repeat(t)) \/ (\E m \in toClient : datagramReceived(m, TRUE))

\* "retry or fail": once nothing is repeated any more a transfer ends, whatever
\* is lost and even when nothing arrives at all, unless an unexpected datagram
\* had cancelled the timer.
TransferEnds == <>[][~Repeated]_vars => <>(result # "wait" \/ strayed)
=============================================================================
