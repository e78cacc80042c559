----------------------------- MODULE MCSSHProxy -----------------------------
(* Small instances of SSHProxy for TLC. *)
EXTENDS SSHProxy, TLC

CONSTANTS shell, tunnel

Channels == {shell, tunnel}

KindOf == (shell :> "session") @@ (tunnel :> "tcpip")

\* The client opens the tunnel, or the backend does.
Local == [c \in Channels |-> "SERVER"]
Remote == (shell :> "SERVER") @@ (tunnel :> "CLIENT")

Configurations ==
    [pool : BOOLEAN, forwarding : BOOLEAN, opener : {Local, Remote}]
=============================================================================
