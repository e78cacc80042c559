------------------------------ MODULE SSHProxy ------------------------------
(***************************************************************************)
(* One session of the SSH proxy: FrontendSSHTransport                       *)
(* (cowrie/ssh_proxy/server_transport.py), BackendSSHTransport              *)
(* (client_transport.py), the packet handler between them                   *)
(* (protocols/ssh.py) and the session's connection to the VM pool           *)
(* (cowrie/pool_interface/client.py).                                       *)
(*                                                                          *)
(* Everything runs on the reactor, one event at a time, but the events of   *)
(* four parties interleave: the client, the backend, the pool, and the      *)
(* frontend's timeout.                                                      *)
(*                                                                          *)
(* Abstractions: a peer sends each kind of packet at most once a channel, as *)
(* soon as or as late as it likes, so the network needs no queue of its own; *)
(* the backend sends what RFC 4254 allows it to, the client also a packet    *)
(* about a channel it may not use; a channel has the same number on both     *)
(* sides, and the handler's table says which of the two it has learnt.  A   *)
(* request is one that starts a session (shell, exec, sftp).  Key exchange, *)
(* and the packets and requests the handler answers by itself or passes on  *)
(* unread, are left out.                                                    *)
(***************************************************************************)
EXTENDS Naturals, Sequences, SequencesExt

CONSTANTS
    Chan,         \* channels
    Kind,         \* the type of each: "session" or "tcpip"
    Settings,     \* configurations: whether backends come from the pool, [ssh]
                  \* forwarding, and the side that opens each channel
    MaxLogins,    \* bound: authentication attempts of the client
    MaxStrays     \* bound: packets it sends about a channel it may not use

\* The packets' parents: "[SERVER]" for what the frontend received from the
\* client, "[CLIENT]" for what came from the backend.
Side == {"SERVER", "CLIENT"}

Other(side) == IF side = "SERVER" THEN "CLIENT" ELSE "SERVER"

ASSUME ProxyAssumption ==
    /\ Kind \in [Chan -> {"session", "tcpip"}]
    /\ Settings \subseteq [pool : BOOLEAN, forwarding : BOOLEAN,
                           opener : [Chan -> Side]]
    /\ MaxLogins \in Nat /\ MaxStrays \in Nat

Message == {"open", "confirm", "fail", "request", "data", "close"}

Packet == [from : Side, msg : Message, ch : Chan]

VARIABLES
    config,                 \* one of Settings
    front,                  \* the client's connection: "up", "closing", "lost"
    timer,                  \* the frontend's timeout is set
    frontendAuthenticated,
    backendConnected,
    delayedPackets,         \* of the frontend: packets for the backend
    poolconn,               \* the connection to the pool: "off", "connecting",
                            \* "up", "failed", "closed"
    lease,                  \* what the pool has for this session
    vm_id,                  \* PoolClient.vm_id is set
    back,                   \* the backend's connection: "none", "connecting",
                            \* "failed", "up", "closing", "lost"
    canAuth, authDone,      \* of the BackendSSHTransport
    heldReplies,            \* its delayedPackets: packets for the client
    channels,               \* the handler's table
    logins, loggedIn,       \* attempts; whether one succeeded
    sent,                   \* packets the peers sent
    seen,                   \* packets that reached the other peer
    owed,                   \* history: packets received and not yet parsed
    ordered,                \* history: packets were parsed once and in order
    raised,                 \* history: the handler raised
    strays,                 \* history: how many packets were outside the protocol
    early                   \* history: the client left a backend that was connecting

authVars == <<frontendAuthenticated, logins, loggedIn>>
poolVars == <<poolconn, lease, vm_id>>
backendVars == <<backendConnected, canAuth, authDone>>
bufferVars == <<delayedPackets, heldReplies>>
parserVars == <<channels, seen, owed, ordered, raised>>
vars == <<config, front, timer, authVars, poolVars, back, backendVars,
          bufferVars, parserVars, sent, strays, early>>

\* transport.loseConnection(), if there is a transport.
LoseFront == front' = IF front = "up" THEN "closing" ELSE front
LoseBack == back' = IF back = "up" THEN "closing" ELSE back

\* sshParse.client is set once the backend has connected.
HasClient == back \in {"up", "closing", "lost"}

----------------------------------------------------------------------------
(* The packet handler: SSH.parse_num_packet *)

\* get_channel: a packet names a channel by its recipient's number.  The search
\* raises on a channel it passes whose recipient's number is not known yet.
Found(table, from, ch) ==
    \E i \in DOMAIN table :
        /\ table[i].ch = ch
        /\ \A j \in 1..i : Other(from) \in table[j].ids

Index(table, ch) == CHOOSE i \in DOMAIN table : table[i].ch = ch

\* A forwarding channel gets its session at once.
create_channel(table, p) ==
    Append(table, [ch |-> p.ch, ids |-> {p.from},
                   session |-> Kind[p.ch] = "tcpip", closed |-> {}])

Raise(r) == [r EXCEPT !.ok = FALSE]

\* sendPacket to the peer of `from'; the frontend's raises once it is lost.
Send(r, p) ==
    IF p.from = "CLIENT" /\ front = "lost" THEN Raise(r)
    ELSE [r EXCEPT !.seen = @ \cup {p}, !.parsed = Append(@, p)]

\* send_back: forwarding is disabled, the packet is answered and dropped.
SendBack(r, p) ==
    LET fail == [from |-> Other(p.from), msg |-> "fail", ch |-> p.ch]
    IN  [Send(r, fail) EXCEPT !.parsed = Append(r.parsed, p)]

\* A session channel replaces the frontend's timeout.
ParseOpen(r, p) ==
    LET table == create_channel(r.channels, p)
    IN  CASE Kind[p.ch] = "session" ->
               Send([r EXCEPT !.channels = table, !.timer = TRUE], p)
          [] Kind[p.ch] = "tcpip" /\ ~config.forwarding -> SendBack(r, p)
          [] OTHER -> \* looks its new channel up
               IF Found(table, Other(p.from), p.ch)
               THEN Send([r EXCEPT !.channels = table], p)
               ELSE Raise([r EXCEPT !.channels = table])

Removable_FirstClose(closed) == closed # {}

\* Both sides closed the channel.
Removable(closed) == closed = Side

ParseClose(r, p, i) ==
    LET closed == r.channels[i].closed \cup {p.from}
    IN  [r EXCEPT !.channels = IF Removable(closed) THEN RemoveAt(@, i)
                               ELSE [@ EXCEPT ![i].closed = closed]]

\* The packets about a channel of the table.
ParseOnChannel(r, p) ==
    LET i == Index(r.channels, p.ch)
    IN  CASE p.msg = "confirm" ->
               Send([r EXCEPT !.channels[i].ids = @ \cup {p.from}], p)
          [] p.msg = "fail" ->
               Send([r EXCEPT !.channels = RemoveAt(@, i)], p)
          [] p.msg = "request" ->
               Send([r EXCEPT !.channels[i].session = TRUE], p)
          [] p.msg = "close" -> Send(ParseClose(r, p, i), p)
          [] p.msg = "data" -> \* session.parse_packet
               IF r.channels[i].session THEN Send(r, p) ELSE Raise(r)

parse_num_packet(r, p) ==
    CASE ~r.ok -> r
      [] r.ok /\ p.msg = "open" -> ParseOpen(r, p)
      [] OTHER -> IF Found(r.channels, p.from, p.ch) THEN ParseOnChannel(r, p)
                  ELSE Raise(r)

\* The handler's state after a sequence of packets, up to one that raises.
Parsed(packets) ==
    LET start == [channels |-> channels, timer |-> timer, seen |-> seen,
                  parsed |-> <<>>, ok |-> TRUE]
        after[n \in 0 .. Len(packets)] ==
            IF n = 0 THEN start ELSE parse_num_packet(after[n - 1], packets[n])
    IN  after[Len(packets)]

Apply(r) ==
    /\ channels' = r.channels
    /\ timer' = r.timer
    /\ seen' = r.seen
    /\ raised' = (raised \/ ~r.ok)

\* Packets received from a side, of which some were parsed now.
Account(side, received, parsed) ==
    LET all == owed[side] \o received
    IN  /\ owed' = [owed EXCEPT ![side] =
                        SubSeq(all, Len(parsed) + 1, Len(all))]
        /\ ordered' = (ordered /\ IsPrefix(parsed, all))

----------------------------------------------------------------------------
(* Authentication *)

Flushed_Kept(ok) == delayedPackets

\* What the flush of authenticateBackend leaves in the buffer.
Flushed(ok) == IF ok THEN <<>> ELSE delayedPackets

\* authenticateBackend past its guard, with r the outcome of the flush.
Authenticate(r) ==
    /\ backendConnected' = TRUE
    /\ Apply(r)
    /\ Account("SERVER", <<>>, r.parsed)
    /\ delayedPackets' = Flushed(r.ok)
    /\ authDone' = (authDone \/ r.ok)

NotYet == UNCHANGED <<timer, parserVars, backendConnected, authDone,
                      delayedPackets>>

\* A userauth packet of the client, which resets frontendAuthenticated, and
\* _cbFinishedAuth if the login is accepted.  An exception of the flush ends in
\* the errback of the login.
Login(ok) ==
    /\ front = "up"
    /\ logins < MaxLogins
    /\ logins' = logins + 1
    /\ frontendAuthenticated' = ok
    /\ loggedIn' = (loggedIn \/ ok)
    /\ IF ok /\ HasClient /\ canAuth THEN Authenticate(Parsed(delayedPackets))
                                    ELSE NotYet
    /\ UNCHANGED <<config, front, poolVars, back, canAuth, heldReplies, sent,
                   strays, early>>

\* An exception here ends the backend's connection.
connectionSecure ==
    /\ back = "up"
    /\ ~canAuth
    /\ canAuth' = TRUE
    /\ IF frontendAuthenticated
       THEN LET r == Parsed(delayedPackets)
            IN  /\ Authenticate(r)
                /\ back' = IF r.ok THEN "up" ELSE "closing"
       ELSE NotYet /\ UNCHANGED back
    /\ UNCHANGED <<config, front, authVars, poolVars, heldReplies, sent, strays,
                   early>>

----------------------------------------------------------------------------
(* Packets *)

\* A side may use a channel: its open was confirmed, or it confirmed.
Established(side, ch) ==
    IF config.opener[ch] = side
    THEN [from |-> Other(side), msg |-> "confirm", ch |-> ch] \in seen
    ELSE [from |-> side, msg |-> "confirm", ch |-> ch] \in sent

\* What a peer that keeps to RFC 4254 may send.
MaySend(p) ==
    LET P(from, msg) == [from |-> from, msg |-> msg, ch |-> p.ch]
        mine == config.opener[p.ch] = p.from
        running == Kind[p.ch] = "tcpip"
                    \/ P("SERVER", "request") \in
                            (IF p.from = "SERVER" THEN sent ELSE seen)
    IN  /\ p \notin sent
        /\ CASE p.msg = "open" -> mine
             [] p.msg \in {"confirm", "fail"} ->
                    /\ ~mine
                    /\ P(Other(p.from), "open") \in seen
                    /\ P(p.from, "confirm") \notin sent
                    /\ P(p.from, "fail") \notin sent
             [] OTHER ->
                    /\ Established(p.from, p.ch)
                    /\ P(p.from, "close") \notin sent
                    /\ p.msg = "request" => Kind[p.ch] = "session" /\ mine
                    /\ p.msg = "data" => running

\* A packet about a channel that was not opened, or that its sender closed.
Stray(p) ==
    p \notin sent /\ p.msg \in {"request", "data", "close"} /\ ~MaySend(p)

\* packet_buffer of the frontend.  An exception ends the client's connection.
ClientSends(p) ==
    /\ front = "up"
    /\ loggedIn
    /\ p.from = "SERVER"
    /\ \/ MaySend(p) /\ UNCHANGED strays
       \/ Stray(p) /\ strays < MaxStrays /\ strays' = strays + 1
    /\ sent' = sent \cup {p}
    /\ IF backendConnected /\ delayedPackets = <<>>
       THEN LET r == Parsed(<<p>>)
            IN  /\ Apply(r)
                /\ Account("SERVER", <<p>>, r.parsed)
                /\ front' = IF r.ok THEN "up" ELSE "closing"
                /\ UNCHANGED delayedPackets
       ELSE /\ delayedPackets' = Append(delayedPackets, p)
            /\ Account("SERVER", <<p>>, <<>>)
            /\ UNCHANGED <<front, timer, channels, seen, raised>>
    /\ UNCHANGED <<config, authVars, poolVars, back, backendVars, heldReplies,
                   early>>

ClientReady == frontendAuthenticated

\* packet_buffer of the backend.  What was held for the client goes out with
\* the next packet.  An exception ends the backend's connection.
BackendSends(p) ==
    /\ back = "up"
    /\ backendConnected
    /\ p.from = "CLIENT" /\ MaySend(p)
    /\ p.msg = "open" => config.forwarding
    /\ sent' = sent \cup {p}
    /\ IF ClientReady
       THEN LET r == Parsed(Append(heldReplies, p))
            IN  /\ Apply(r)
                /\ Account("CLIENT", <<p>>, r.parsed)
                /\ heldReplies' = IF r.ok \/ heldReplies = <<>> THEN <<>>
                                  ELSE Append(heldReplies, p)
                /\ back' = IF r.ok THEN "up" ELSE "closing"
       ELSE /\ heldReplies' = Append(heldReplies, p)
            /\ Account("CLIENT", <<p>>, <<>>)
            /\ UNCHANGED <<back, timer, channels, seen, raised>>
    /\ UNCHANGED <<config, front, authVars, poolVars, backendVars,
                   delayedPackets, strays, early>>

----------------------------------------------------------------------------
(* The pool *)

\* pool_connection_success: a VM is requested, whether or not the client is
\* still there.
PoolConnected ==
    /\ poolconn = "connecting"
    /\ poolconn' = "up"
    /\ lease' = "asked"
    /\ UNCHANGED <<config, front, timer, authVars, vm_id, back, backendVars,
                   bufferVars, parserVars, sent, strays, early>>

pool_connection_error ==
    /\ poolconn = "connecting"
    /\ poolconn' = "failed"
    /\ LoseFront
    /\ UNCHANGED <<config, timer, authVars, lease, vm_id, back, backendVars,
                   bufferVars, parserVars, sent, strays, early>>

\* The pool grants or refuses the VM (BackendPool, ServeVm and RefuseVm).
PoolDecides ==
    /\ lease = "asked"
    /\ lease' \in {"held", "refused"}
    /\ UNCHANGED <<config, front, timer, authVars, poolconn, vm_id, back,
                   backendVars, bufferVars, parserVars, sent, strays, early>>

\* PoolClient.dataReceived with a VM: connect_to_backend.
received_pool_data ==
    /\ poolconn = "up"
    /\ lease = "held" /\ ~vm_id
    /\ vm_id' = TRUE
    /\ back' = "connecting"
    /\ UNCHANGED <<config, front, timer, authVars, poolconn, lease, backendVars,
                   bufferVars, parserVars, sent, strays, early>>

\* PoolClient.dataReceived with an error: parent.loseConnection, which raises
\* once the frontend is lost and then ends the connection to the pool.
PoolRefusal ==
    /\ poolconn = "up"
    /\ lease = "refused"
    /\ lease' = "none"
    /\ LoseFront
    /\ poolconn' = IF front = "lost" THEN "closed" ELSE "up"
    /\ UNCHANGED <<config, timer, authVars, vm_id, back, backendVars,
                   bufferVars, parserVars, sent, strays, early>>

----------------------------------------------------------------------------
(* Connections *)

BackendTimer_Forgotten == UNCHANGED timer

\* setTimeout(authentication_timeout), even on a frontend that is lost.
BackendTimer == timer' = TRUE

\* connectionMade of the backend and backend_connection_success.
BackendConnected ==
    /\ back = "connecting"
    /\ back' = "up"
    /\ BackendTimer
    /\ UNCHANGED <<config, front, authVars, poolVars, backendVars, bufferVars,
                   parserVars, sent, strays, early>>

backend_connection_error ==
    /\ back = "connecting"
    /\ back' = "failed"
    /\ LoseFront
    /\ UNCHANGED <<config, timer, authVars, poolVars, backendVars, bufferVars,
                   parserVars, sent, strays, early>>

timeoutConnection ==
    /\ timer
    /\ timer' = FALSE
    /\ LoseFront
    /\ LoseBack
    /\ UNCHANGED <<config, authVars, poolVars, backendVars, bufferVars,
                   parserVars, sent, strays, early>>

VmDirty_LoggedIn == frontendAuthenticated

VmDirty == HasClient /\ authDone

\* connectionLost of the frontend: the client hung up, or the connection was
\* closed from here.  The VM is returned if its number is known.
connectionLost ==
    /\ front # "lost"
    /\ front' = "lost"
    /\ timer' = FALSE
    /\ early' = (back = "connecting")
    /\ LoseBack
    /\ poolconn' = IF poolconn = "up" THEN "closed" ELSE poolconn
    /\ lease' = IF poolconn = "up" /\ vm_id
                THEN IF VmDirty THEN "freed" ELSE "reused"
                ELSE lease
    /\ UNCHANGED <<config, authVars, vm_id, backendVars, bufferVars, parserVars,
                   sent, strays>>

\* connectionLost of the backend.
BackendLost ==
    /\ back \in {"up", "closing"}
    /\ back' = "lost"
    /\ LoseFront
    /\ UNCHANGED <<config, timer, authVars, poolVars, backendVars, bufferVars,
                   parserVars, sent, strays, early>>

----------------------------------------------------------------------------

\* connectionMade of the frontend.
Init ==
    /\ config \in Settings
    /\ front = "up" /\ timer = FALSE
    /\ frontendAuthenticated = FALSE /\ logins = 0 /\ loggedIn = FALSE
    /\ poolconn = (IF config.pool THEN "connecting" ELSE "off")
    /\ lease = "none" /\ vm_id = FALSE
    /\ back = (IF config.pool THEN "none" ELSE "connecting")
    /\ backendConnected = FALSE /\ canAuth = FALSE /\ authDone = FALSE
    /\ delayedPackets = <<>> /\ heldReplies = <<>>
    /\ channels = <<>>
    /\ sent = {} /\ seen = {}
    /\ owed = [side \in Side |-> <<>>]
    /\ ordered = TRUE /\ raised = FALSE
    /\ strays = 0 /\ early = FALSE

Pool ==
    \/ PoolConnected
    \/ pool_connection_error
    \/ PoolDecides
    \/ received_pool_data
    \/ PoolRefusal

Next ==
    \/ \E ok \in BOOLEAN : Login(ok)
    \/ connectionSecure
    \/ \E p \in Packet : ClientSends(p) \/ BackendSends(p)
    \/ Pool
    \/ BackendConnected
    \/ backend_connection_error
    \/ timeoutConnection
    \/ connectionLost
    \/ BackendLost

Spec == Init /\ [][Next]_vars

\* Connection attempts end, by their timeout if need be; the pool answers; a
\* timeout that is set fires; a connection closed from here is lost.
Fairness ==
    /\ WF_vars(Pool)
    /\ WF_vars(BackendConnected \/ backend_connection_error)
    /\ WF_vars(timeoutConnection)
    /\ WF_vars(front = "closing" /\ connectionLost)
    /\ WF_vars(back = "closing" /\ BackendLost)

FairSpec == Spec /\ Fairness

----------------------------------------------------------------------------
(* Properties *)

\* Every variable of the proxy session has its type; every channel of the
\* handler's table has the number its opener gave it.
TypeOK ==
    /\ config \in Settings
    /\ front \in {"up", "closing", "lost"}
    /\ poolconn \in {"off", "connecting", "up", "failed", "closed"}
    /\ lease \in {"none", "asked", "held", "refused", "freed", "reused"}
    /\ back \in {"none", "connecting", "failed", "up", "closing", "lost"}
    /\ {timer, frontendAuthenticated, backendConnected, vm_id, canAuth,
        authDone, loggedIn, ordered, raised, early} \subseteq BOOLEAN
    /\ logins \in 0..MaxLogins /\ strays \in 0..MaxStrays
    /\ delayedPackets \in Seq(Packet) /\ heldReplies \in Seq(Packet)
    /\ owed \in [Side -> Seq(Packet)]
    /\ sent \subseteq Packet /\ seen \subseteq Packet
    /\ channels \in Seq([ch : Chan, ids : SUBSET Side, session : BOOLEAN,
                         closed : SUBSET Side])
    /\ \A i \in DOMAIN channels : config.opener[channels[i].ch] \in channels[i].ids

\* The two packet_buffers: as long as the handler has not raised, whatever the
\* order of the logins, of the backend's connection and of the end of either
\* connection, every packet of either peer is parsed once and in order, or is
\* still in its buffer.
HeldOrForwarded ==
    ~raised =>
        /\ ordered
        /\ owed["SERVER"] = delayedPackets
        /\ owed["CLIENT"] = heldReplies

\* Both ends, their buffers and the channel table fit together, and no packet is
\* lost, doubled or overtaken.
ProxyInv == TypeOK /\ HeldOrForwarded

\* get_channel: peers that keep to the protocol never make the handler raise,
\* except while the open of some channel is unanswered, or after the client is
\* gone.
RaisesOnlyWhileOpening ==
    [][(~raised /\ raised') =>
            \/ strays' > 0
            \/ front = "lost"
            \/ \E i \in DOMAIN channels' : channels'[i].ids # Side]_vars

\* connectionLost, "VM was used if we performed SSH authentication to the
\* backend": a VM that is returned as unused was not authenticated to before and
\* is not authenticated to afterwards.  The code keeps to it but for two cases:
\* a client whose packets made the flush raise (authDone is set after it), and a
\* client that left while the backend was connecting: the VM is back in the pool
\* when connectionSecure authenticates to it for a session that is over.
ReturnedAsUsed ==
    [][/\ (lease' = "reused" /\ lease # "reused") =>
                ~backendConnected \/ (raised /\ strays > 0)
       /\ (lease = "reused" /\ ~backendConnected) => ~backendConnected' \/ early]_vars

\* timeoutConnection, "Make sure all sessions time out eventually": both ends of
\* the session are closed in the end, a backend that connects after the client
\* left included.
SessionEnds ==
    <>[](front = "lost" /\ back \notin {"connecting", "up", "closing"})

=============================================================================
