---------------------------- MODULE TelnetProxy ----------------------------
(***************************************************************************)
(* One session of the Telnet proxy: FrontendTelnetTransport                 *)
(* (cowrie/telnet_proxy/server_transport.py), BackendTelnetTransport        *)
(* (client_transport.py), the TelnetHandler between them (handler.py) and   *)
(* the session's connection to the VM pool (pool_interface/client.py).      *)
(*                                                                          *)
(* The handler reads the backend's login dialogue off the wire: it waits    *)
(* for a prompt, keeps what the client types, checks it, and answers the    *)
(* backend with the backend's own name and password.                        *)
(*                                                                          *)
(* Abstractions: a packet of the client is one of the kinds below, a packet *)
(* of the backend the set of what the handler's patterns find in it, which   *)
(* is nothing of a prompt that comes in two packets; the                     *)
(* check of a login (LoginAuth) may go either way; the logged command and   *)
(* the contents of the tty log are left out.                                *)
(***************************************************************************)
EXTENDS Integers, Sequences

CONSTANTS
    Settings,      \* configurations: [pool, spoof : BOOLEAN]
    MaxPackets,    \* bound: packets of the client
    MaxTries       \* logins the backend allows on one connection

ASSUME TelnetProxyAssumption ==
    /\ Settings \subseteq [pool : BOOLEAN, spoof : BOOLEAN]
    /\ MaxPackets \in Nat /\ MaxTries \in Nat \ {0}

\* Characters, a line with its terminator, a line whose terminator is in the
\* next packet.
Typed == {"text", "line", "cut"}

\* "nego": telnet options; "user": a user name in the negotiation.
ClientPacket == Typed \cup {"nego", "user"}

\* What the handler writes by itself: the backend's name in the negotiation, its
\* name, its password, and a wrong password.
Spoofed == {"named", "login", "pass", "fake"}

Packet == ClientPacket \cup Spoofed

\* What a packet of the backend shows.
\* loginEcho is the whole line that echoes the backend's name, loginPart a piece
\* of it.
Shown == {"loginPrompt", "passwordPrompt", "willEcho", "loginEcho", "loginPart",
          "otherEcho", "output"}

VARIABLES
    config,       \* one of Settings
    front,        \* the client's connection: "up", "closing", "lost"
    timer,        \* the frontend's timeout is set
    poolconn,     \* as in SSHProxy
    lease,
    vm_id,
    back,         \* the backend's connection: "none", "connecting", "failed",
                  \* "up", "closing", "lost"
    handler,      \* the flags of the TelnetHandler
    backend_buffer,
    ttylog,       \* "open", "closed"
    sent,         \* packets of the client
    wire,         \* packets written to the backend that it has not read yet
    login,        \* the backend's login program
    screen,       \* history: what the client was shown
    typedAhead,   \* history: typed characters went to the backend as they were
    echoMissed    \* history: the packet after the name lacked its whole echo

poolVars == <<poolconn, lease, vm_id>>
vars == <<config, front, timer, poolVars, back, handler, backend_buffer, ttylog,
          sent, wire, login, screen, typedAhead, echoMissed>>

LoseFront == front' = IF front = "up" THEN "closing" ELSE front
LoseBack == back' = IF back = "up" THEN "closing" ELSE back

\* TelnetHandler.client is set once the backend has connected.
HasClient == back \in {"up", "closing", "lost"}

Spoofing == config.spoof /\ ~handler.authDone

----------------------------------------------------------------------------
(* The backend's side of the wire *)

\* A packet as the backend's terminal takes it: a line is what the handler wrote
\* only if nothing else was typed before it.
Take(l, p) ==
    IF p = "nego" \/ l.at = "shell" THEN l
    ELSE CASE p \in {"named", "user"} ->
                    IF l.at = "start" THEN [l EXCEPT !.name = p] ELSE l
           [] p = "text" -> [l EXCEPT !.dirty = TRUE]
           [] OTHER -> [l EXCEPT !.dirty = FALSE,
                            !.input = Append(@, IF l.dirty THEN "line" ELSE p)]

\* telnetd reads the next packet, whatever login is doing.
TerminalReads ==
    /\ back = "up"
    /\ wire # <<>>
    /\ wire' = Tail(wire)
    /\ login' = Take(login, Head(wire))
    /\ UNCHANGED <<config, front, timer, poolVars, back, handler, backend_buffer,
                   ttylog, sent, screen, typedAhead, echoMissed>>

\* sendBackend: the buffer goes out with the next packet once there is a backend.
\* A connection that is closing takes nothing.
sendBackend(packets) ==
    IF packets = <<>> \/ ~HasClient
    THEN /\ backend_buffer' = backend_buffer \o packets
         /\ UNCHANGED wire
    ELSE /\ backend_buffer' = <<>>
         /\ wire' = IF back = "up" THEN wire \o backend_buffer \o packets
                    ELSE wire

----------------------------------------------------------------------------
(* TelnetHandler.addPacket, for a packet of the client *)

\* The first three bytes of a packet.
FirstBytes(p) == IF p \in Typed THEN "text" ELSE "nego"

\* A packet being processed: the handler's flags, currentData, sendData, what
\* went to either side on the way, whether the timeout was set, and whether
\* the code raised.
Processing(p) ==
    [h |-> handler, currentData |-> p, sendData |-> TRUE, back |-> <<>>,
     front |-> {}, timer |-> timer, ok |-> TRUE]

setProcessingStateFrontend(r) ==
    IF r.currentData = "user" THEN [r EXCEPT !.currentData = "named"] ELSE r

processPasswordInput_Trusting(r, accepted) ==
    [r EXCEPT !.currentData = IF @ = "line" THEN "pass" ELSE @,
              !.sendData = (r.currentData = "line"),
              !.h.inputingPassword = (r.currentData # "line"),
              !.h.authDone = accepted /\ r.currentData = "line"]

\* Input is withheld until the line is complete; the packet after a WILL ECHO
\* has its first bytes sent on.  A line without its terminator raises.
processPasswordInput(r, accepted) ==
    LET held == [r EXCEPT !.sendData = FALSE, !.h.prePasswordData = FALSE,
                          !.back = IF r.h.prePasswordData
                                   THEN <<FirstBytes(r.currentData)>> ELSE <<>>]
    IN  CASE r.currentData = "cut" -> [held EXCEPT !.ok = FALSE]
          [] r.currentData = "line" ->
                [held EXCEPT !.sendData = TRUE, !.h.inputingPassword = FALSE,
                             !.currentData = IF accepted THEN "pass" ELSE "fake",
                             !.h.authDone = accepted,
                             !.timer = (@ \/ accepted)]
          [] OTHER -> held

\* The input is echoed to the client and withheld until the line is complete.
processUsernameInput(r) ==
    LET echoed == [r EXCEPT !.sendData = FALSE,
                            !.front = @ \cup {r.currentData}]
    IN  CASE r.currentData = "cut" -> [echoed EXCEPT !.ok = FALSE]
          [] r.currentData \in {"line", "pass", "fake"} ->
                [echoed EXCEPT !.sendData = TRUE, !.currentData = "login",
                               !.h.inputingLogin = FALSE,
                               !.h.waitingLoginEcho = TRUE]
          [] OTHER -> echoed

Intercepted(p, accepted) ==
    LET named == setProcessingStateFrontend(Processing(p))
        pass == IF named.h.inputingPassword
                THEN processPasswordInput(named, accepted) ELSE named
    IN  IF pass.ok /\ pass.h.inputingLogin THEN processUsernameInput(pass)
        ELSE pass

\* dataReceived of the frontend.  What raises ends the client's connection.
ClientSends(p, accepted) ==
    LET r == IF Spoofing THEN Intercepted(p, accepted) ELSE Processing(p)
        packets == r.back \o (IF r.ok /\ r.sendData THEN <<r.currentData>>
                              ELSE <<>>)
    IN  /\ front = "up"
        /\ sent < MaxPackets
        /\ sent' = sent + 1
        /\ handler' = r.h
        /\ timer' = r.timer
        /\ sendBackend(packets)
        /\ screen' = screen \cup r.front
        /\ front' = IF r.ok THEN "up" ELSE "closing"
        /\ typedAhead' = (typedAhead \/ (Spoofing /\ \E i \in DOMAIN packets :
                                                        packets[i] \in Typed))
        /\ UNCHANGED <<config, poolVars, back, ttylog, login, echoMissed>>

----------------------------------------------------------------------------
(* TelnetHandler.addPacket, for a packet of the backend *)

setProcessingStateBackend(h, packet) ==
    LET password == "passwordPrompt" \in packet
        name == "loginPrompt" \in packet
    IN  [h EXCEPT !.authStarted = @ \/ password \/ name,
                  !.inputingPassword = @ \/ password,
                  !.inputingLogin = @ \/ name,
                  !.prePasswordData = "willEcho" \in packet]

\* dataReceived of the backend: the echo of the name is taken out of the packet
\* that follows it, if it is there as a whole; the handler waits for it no longer.
BackendSends(packet) ==
    /\ back = "up"
    /\ IF Spoofing
       THEN /\ handler' = [setProcessingStateBackend(handler, packet)
                                EXCEPT !.waitingLoginEcho = FALSE]
            /\ screen' = screen \cup
                    (packet \ IF handler.waitingLoginEcho THEN {"loginEcho"}
                              ELSE {})
            /\ echoMissed' = (echoMissed \/ (handler.waitingLoginEcho
                                                /\ "loginEcho" \notin packet))
       ELSE /\ screen' = screen \cup packet
            /\ UNCHANGED <<handler, echoMissed>>

\* Prompts, which in two packets are output to the handler.
WithName == {{"loginPrompt"}, {"output"}}
WithPassword == {{"passwordPrompt"}, {"passwordPrompt", "willEcho"}, {"output"}}

\* telnetd starts login, with the name the negotiation gave if there was one.
telnetd ==
    /\ login.at = "start"
    /\ \E packet \in IF login.name = "none" THEN WithName ELSE WithPassword :
            BackendSends(packet)
    /\ login' = [login EXCEPT
                    !.at = IF login.name = "none" THEN "name" ELSE "password"]

\* Output and options, whatever login is doing.
OtherOutput == BackendSends({"output"}) /\ UNCHANGED login

\* login reads a name; its echo and the next prompt are one packet or two, and the
\* echo may itself be cut in two.
ReadName ==
    LET echo == IF Head(login.input) = "login" THEN "loginEcho" ELSE "otherEcho"
        Reads(at) == login' = [login EXCEPT !.at = at, !.name = Head(login.input),
                                            !.input = Tail(@)]
    IN  /\ login.at = "name"
        /\ login.input # <<>>
        /\ \/ BackendSends({echo}) /\ Reads("echoed")
           \/ \E more \in WithPassword :
                    BackendSends({echo} \cup more) /\ Reads("password")
           \/ echo = "loginEcho" /\ BackendSends({"loginPart"}) /\ Reads("part")

FinishEcho ==
    /\ login.at = "part"
    /\ BackendSends({"loginPart"})
    /\ login' = [login EXCEPT !.at = "echoed"]

AskPassword ==
    /\ login.at = "echoed"
    /\ \E packet \in WithPassword : BackendSends(packet)
    /\ login' = [login EXCEPT !.at = "password"]

\* The backend's own name and password log in; the client's own words may.
LogsIn(name, password) ==
    CASE password = "fake" -> {FALSE}
      [] name \in {"named", "login"} /\ password = "pass" -> {TRUE}
      [] OTHER -> BOOLEAN

ReadPassword ==
    /\ login.at = "password"
    /\ login.input # <<>>
    /\ \E good \in LogsIn(login.name, Head(login.input)) :
            /\ good \/ login.tries + 1 < MaxTries
            /\ \E packet \in IF good THEN {{"output"}} ELSE WithName :
                    BackendSends(packet)
            /\ login' = [login EXCEPT !.at = IF good THEN "shell" ELSE "name",
                             !.input = Tail(@),
                             !.tries = @ + (IF good THEN 0 ELSE 1)]

Dialogue ==
    /\ \/ telnetd \/ ReadName \/ FinishEcho \/ AskPassword \/ ReadPassword
       \/ OtherOutput
    /\ UNCHANGED <<config, front, timer, poolVars, back, backend_buffer, ttylog,
                   sent, wire, typedAhead>>

----------------------------------------------------------------------------
(* The pool *)

\* pool_connection_success: a VM is requested, whether or not the client is
\* still there.
pool_connection_success ==
    /\ poolconn = "connecting"
    /\ poolconn' = "up"
    /\ lease' = "asked"
    /\ UNCHANGED <<front, vm_id, back>>

pool_connection_error ==
    /\ poolconn = "connecting"
    /\ poolconn' = "failed"
    /\ LoseFront
    /\ UNCHANGED <<lease, vm_id, back>>

\* The pool grants or refuses the VM (BackendPool).
PoolDecides ==
    /\ lease = "asked"
    /\ lease' \in {"held", "refused"}
    /\ UNCHANGED <<front, poolconn, vm_id, back>>

\* PoolClient.dataReceived with a VM: connect_to_backend.
received_pool_data ==
    /\ poolconn = "up"
    /\ lease = "held" /\ ~vm_id
    /\ vm_id' = TRUE
    /\ back' = "connecting"
    /\ UNCHANGED <<front, poolconn, lease>>

\* PoolClient.dataReceived with an error.
PoolRefusal ==
    /\ poolconn = "up"
    /\ lease = "refused"
    /\ lease' = "none"
    /\ LoseFront
    /\ UNCHANGED <<poolconn, vm_id, back>>

Pool ==
    /\ \/ pool_connection_success \/ pool_connection_error \/ PoolDecides
       \/ received_pool_data \/ PoolRefusal
    /\ UNCHANGED <<config, timer, handler, backend_buffer, ttylog, sent, wire,
                   login, screen, typedAhead, echoMissed>>

----------------------------------------------------------------------------
(* Connections *)

BackendTimer_Forgotten == UNCHANGED timer

\* setTimeout(authentication_timeout), even on a frontend that is lost.
BackendTimer == timer' = TRUE

\* connectionMade of the backend and backend_connection_success.  What the
\* handler holds waits for the client's next packet: delayedPacketsToBackend,
\* which connectionMade writes, is filled by nobody.
BackendConnected ==
    /\ back = "connecting"
    /\ back' = "up"
    /\ BackendTimer
    /\ UNCHANGED <<front, ttylog>>

backend_connection_error ==
    /\ back = "connecting"
    /\ back' = "failed"
    /\ LoseFront
    /\ UNCHANGED <<timer, ttylog>>

timeoutConnection ==
    /\ timer
    /\ timer' = FALSE
    /\ LoseFront
    /\ LoseBack
    /\ ttylog' = "closed"

\* connectionLost of the backend.
BackendLost ==
    /\ back \in {"up", "closing"}
    /\ back' = "lost"
    /\ LoseFront
    /\ ttylog' = "closed"
    /\ UNCHANGED timer

Connection ==
    /\ \/ BackendConnected \/ backend_connection_error \/ timeoutConnection
       \/ BackendLost
    /\ UNCHANGED <<config, poolVars, handler, backend_buffer, sent, wire, login,
                   screen, typedAhead, echoMissed>>

VmDirty == handler.authDone

\* connectionLost of the frontend: the client hung up, or the connection was
\* closed from here.  The VM is returned if its number is known.
connectionLost ==
    /\ front # "lost"
    /\ front' = "lost"
    /\ timer' = FALSE
    /\ LoseBack
    /\ ttylog' = "closed"
    /\ poolconn' = IF poolconn = "up" THEN "closed" ELSE poolconn
    /\ lease' = IF poolconn = "up" /\ vm_id
                THEN IF VmDirty THEN "freed" ELSE "reused"
                ELSE lease
    /\ UNCHANGED <<config, vm_id, handler, backend_buffer, sent, wire, login,
                   screen, typedAhead, echoMissed>>

----------------------------------------------------------------------------

\* The backend's login program: what it waits for, the name it was given, the
\* lines typed to it, characters typed since the last, failed attempts.
LoginState ==
    [at : {"start", "name", "part", "echoed", "password", "shell"},
     name : {"none", "named", "user", "line", "cut", "login", "pass", "fake"},
     input : Seq({"line", "cut", "login", "pass", "fake"}),
     dirty : BOOLEAN, tries : 0..MaxTries - 1]

Flags == [authStarted : BOOLEAN, authDone : BOOLEAN, inputingLogin : BOOLEAN,
          inputingPassword : BOOLEAN, waitingLoginEcho : BOOLEAN,
          prePasswordData : BOOLEAN]

\* __init__ of the handler.
NewHandler ==
    [authStarted |-> FALSE, authDone |-> FALSE, inputingLogin |-> FALSE,
     inputingPassword |-> FALSE, waitingLoginEcho |-> FALSE,
     prePasswordData |-> FALSE]

\* connectionMade of the frontend.
Init ==
    /\ config \in Settings
    /\ front = "up" /\ timer = FALSE
    /\ poolconn = (IF config.pool THEN "connecting" ELSE "off")
    /\ lease = "none" /\ vm_id = FALSE
    /\ back = (IF config.pool THEN "none" ELSE "connecting")
    /\ handler = NewHandler
    /\ backend_buffer = <<>>
    /\ ttylog = "open"
    /\ sent = 0
    /\ wire = <<>>
    /\ login = [at |-> "start", name |-> "none", input |-> <<>>, dirty |-> FALSE,
                tries |-> 0]
    /\ screen = {}
    /\ typedAhead = FALSE /\ echoMissed = FALSE

Next ==
    \/ \E p \in ClientPacket, accepted \in BOOLEAN : ClientSends(p, accepted)
    \/ TerminalReads
    \/ Dialogue
    \/ Pool
    \/ Connection
    \/ connectionLost

Spec == Init /\ [][Next]_vars

\* As for SSHProxy: attempts to connect end, the pool answers, a timeout that is
\* set fires, a connection closed from here is lost.
Fairness ==
    /\ WF_vars(Pool)
    /\ WF_vars(Connection /\ (BackendConnected \/ backend_connection_error))
    /\ WF_vars(Connection /\ timeoutConnection)
    /\ WF_vars(front = "closing" /\ connectionLost)
    /\ WF_vars(back = "closing" /\ Connection /\ BackendLost)

FairSpec == Spec /\ Fairness

----------------------------------------------------------------------------
(* Properties *)

\* Every variable of the session has its type; the handler holds packets only
\* for a backend to which it has written nothing yet (sendBackend).
TypeOK ==
    /\ config \in Settings
    /\ front \in {"up", "closing", "lost"}
    /\ {timer, vm_id, typedAhead, echoMissed} \subseteq BOOLEAN
    /\ poolconn \in {"off", "connecting", "up", "failed", "closed"}
    /\ lease \in {"none", "asked", "held", "refused", "freed", "reused"}
    /\ back \in {"none", "connecting", "failed", "up", "closing", "lost"}
    /\ handler \in Flags
    /\ backend_buffer \in Seq(Packet) /\ wire \in Seq(Packet)
    /\ ttylog \in {"open", "closed"}
    /\ sent \in 0..MaxPackets
    /\ login \in LoginState
    /\ screen \subseteq Shown \cup Packet
    /\ (HasClient /\ backend_buffer # <<>>) =>
            wire = <<>> /\ login.name = "none" /\ login.input = <<>>
            /\ ~login.dirty

\* processUsernameInput and processPasswordInput, "withold data until input is
\* complete": as long as nothing typed got past the handler it waits for a name
\* or for a password and never for both, which one line would answer twice.
OnePromptAtATime ==
    ~typedAhead => ~(handler.inputingLogin /\ handler.inputingPassword)

\* "we now have to ignore the username echo from the backend in the next
\* packet": a client that types only when asked is never shown the passwords the
\* handler writes to the backend in its place, and is shown the name, or a piece
\* of it, only if the packet after it lacked the whole echo.  The code shows it
\* then: it looks for "name\r\n" in one packet and gives up.
SpoofedIsHidden ==
    (config.spoof /\ ~typedAhead) =>
        /\ screen \cap {"login", "pass", "fake"} = {}
        /\ screen \cap {"loginEcho", "loginPart"} # {} => echoMissed

\* The first line among the packets of a queue.
FirstLine(queue, line) ==
    \E i \in DOMAIN queue :
        queue[i] = line /\ \A j \in 1..(i - 1) : queue[j] \in {"nego", "named"}

\* The line that login reads next.
NextLine(line) ==
    IF login.input = <<>> THEN FirstLine(wire, line)
    ELSE Head(login.input) = line

\* processPasswordInput: the handler's login and the backend's agree.  The
\* backend has a shell only for a client whose login was accepted, and has or
\* is about to have one for a client whose login was.
LoginsAgree ==
    (config.spoof /\ ~typedAhead /\ back = "up") =>
        /\ login.at = "shell" => handler.authDone
        /\ handler.authDone =>
                \/ login.at = "shell"
                \/ /\ login.at = "password" /\ login.name \in {"named", "login"}
                   /\ NextLine("pass")

\* connectionLost, "VM was used if auth was performed successfully": a VM that
\* goes back to the pool as unused has given no shell to a client whose login
\* the proxy spoofs, then or later.
ReturnedAsUsed ==
    (lease = "reused" /\ config.spoof /\ ~typedAhead) => login.at # "shell"

\* What the handler believes of the backend's dialogue and of the VM is right, as
\* long as the client types only when asked: the parts above.
TelnetInv == TypeOK /\ OnePromptAtATime /\ SpoofedIsHidden /\ LoginsAgree /\ ReturnedAsUsed

\* timeoutConnection, "Make sure all sessions time out eventually": both ends are
\* closed in the end, a backend that connects after the client left included,
\* and the tty log with them.
SessionEnds ==
    <>[](/\ front = "lost" /\ back \notin {"connecting", "up", "closing"}
         /\ ttylog = "closed")

=============================================================================
