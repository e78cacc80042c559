------------------------------- MODULE Transfers -------------------------------
(***************************************************************************)
(* A file that comes in: fetched by TFTP (TFTPTransfer) or sent to a       *)
(* command run by SSH (ScpSession).  A behaviour is one of the two; they   *)
(* share no state.                                                         *)
(***************************************************************************)
EXTENDS TFTPTransfer, ScpSession

NoTransfer ==
    /\ length = 0 /\ pos = [t \in Tids |-> 0] /\ toServer = {} /\ toClient = {}
    /\ current_block = 0 /\ server_tid = NoTid /\ artifact = <<>> /\ retry_count = 0
    /\ timeout_call = FALSE /\ result = "none" /\ port = "closed" /\ strayed = FALSE

NoExec ==
    /\ execcmd = "model" /\ upload = <<>> /\ plan = [i |-> 1, part |-> "line"] /\ eof = "read" /\ wire = <<>>
    /\ acks = 0 /\ received = 0 /\ escaped = FALSE /\ sink = NewSink /\ stored = <<>>
    /\ finalized = FALSE /\ timer = FALSE /\ asked = FALSE /\ channel = "closed"

Init == \/ TransferInit /\ NoExec
        \/ ExecInit /\ NoTransfer
Next == \/ TransferNext /\ UNCHANGED execVars
        \/ ExecNext /\ UNCHANGED vars

\* The reactor runs the timers that are up.  Nothing is assumed of the network,
\* of the server, of the sender or of the model.
Spec ==
    /\ Init /\ [][Next]_<<vars, execVars>>
    /\ WF_vars(handleTimeout) /\ WF_vars(stopProtocol)
    /\ WF_execVars(timeoutConnection)

\* A command comes to an end whatever the other side does, and a transfer unless
\* the other side repeats what it sent for ever.
TransfersEnd == TransferEnds /\ ExecEnds
=============================================================================
