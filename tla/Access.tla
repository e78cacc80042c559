--------------------------------- MODULE Access --------------------------------
(***************************************************************************)
(* Connections from the first byte to the last (ssh/transport.py,          *)
(* ssh/userauth.py, telnet/transport.py, telnet/userauth.py,               *)
(* telnet/session.py and the timers of shell/protocol.py): the login       *)
(* dialogues, the ECHO negotiation a telnet login waits for, the time      *)
(* limits of the transport and of the shell, and what all connections      *)
(* share, the credentials and the rate limiter of LoginAuth.               *)
(***************************************************************************)
EXTENDS LoginAuth

CONSTANTS Conns,
          Configs,    \* auth_class, whether "none" and any key are let in, protocols enabled
          RuleFiles,                                   \* contents of userdb.txt
          AuthTimeout, IdleTimeout, InteractiveTimeout,  \* in ticks
          MaxOps                                       \* attempts and requests

ASSUME ConfigAssumption ==
    /\ \A c \in Configs : /\ c.class \in {"UserDB", "AuthRandom"}
                         /\ c.enabled \subseteq {"ssh", "telnet"}
    /\ RuleFiles \subseteq Seq([pairs : SUBSET Pairs, policy : BOOLEAN])
ASSUME TimeoutAssumption ==
    AuthTimeout \in Nat /\ IdleTimeout \in Nat /\ InteractiveTimeout \in Nat
ASSUME NobodyAssumption == Pairs \cap {"nobody", "none"} = {}   \* markers of who and waits

VARIABLES
    config,    \* the configuration, one of Configs
    rules,     \* the lines of userdb.txt
    proto,     \* "ssh" or "telnet", of each connection
    ip,        \* its address
    st,        \* the state of its dialogue
    pam,       \* _pamDeferred is waiting for an answer
    echo,      \* the ECHO option: on or off, in negotiation, and what is chained
    waits,     \* the pair of a telnet login that waits for the negotiation
    timer,     \* ticks left to the transport, or Off
    idle,      \* ticks left to the shell, or Off
    age,       \* ticks since the connection was made or, when its client was logged in
               \* already, since it was last given its service again (history)
    who,       \* the pair a session logged in with (history)
    uservar,   \* the state file of AuthRandom
    lim,       \* the rate limiter
    spent,     \* ages of the requests let through to each host (history)
    evicted,   \* hosts whose key was removed since (history)
    ops        \* attempts and requests so far

dialogue == <<proto, ip, st, pam, echo, waits, timer, idle, age, who>>
limiter == <<lim, spent, evicted>>
vars == <<config, rules, dialogue, uservar, limiter, ops>>

Off == -1
Nobody == "nobody"
Connected(k) == st[k] \notin {"closing", "closed"}

Op == ops < MaxOps /\ ops' = ops + 1

-----------------------------------------------------------------------------
(* The ECHO option: twisted's Telnet and _chainNegotiation *)

Echo0 == [on |-> FALSE, neg |-> FALSE, queue |-> <<>>]
Moot(on, f) == IF f = "will" THEN on ELSE ~on

\* A negotiation under way has this one chained to it; one that would change
\* nothing fails at once, and that is ignored.
_chainNegotiation(e, f) ==
    IF e.neg THEN [on |-> e.on, neg |-> TRUE, queue |-> Append(e.queue, f)]
    ELSE [on |-> e.on, neg |-> ~Moot(e.on, f), queue |-> e.queue]

\* The negotiation ended: what is chained goes on, up to the first that sends.
Negotiated(e, on) ==
    LET i == SelectInSeq(e.queue, LAMBDA f : ~Moot(on, f))
    IN  IF i = 0 THEN [Echo0 EXCEPT !.on = on]
        ELSE [on |-> on, neg |-> TRUE, queue |-> SubSeq(e.queue, i + 1, Len(e.queue))]

-----------------------------------------------------------------------------
(* Whether a pair is let in: checkers.py *)

\* The user database is read, or the state file read and written, each time.
checkUserPass(k, p, ok) ==
    IF config.class = "UserDB"
    THEN ok = checklogin_UserDB(load(rules), p) /\ UNCHANGED uservar
    ELSE \E drawn \in Needs :
            LET r == checklogin(uservar, ip[k], p, drawn)
            IN  ok = r.auth /\ uservar' = r.vars

\* One answer of a packet is tried, unless one before it was right.
Try(k, q, drawn, acc) ==
    IF acc.auth THEN acc
    ELSE IF config.class = "UserDB"
    THEN [vars |-> acc.vars, auth |-> checklogin_UserDB(load(rules), q), pair |-> q]
    ELSE LET r == checklogin(acc.vars, ip[k], q, drawn)
         IN  [vars |-> r.vars, auth |-> r.auth, pair |-> q]

\* The answers of one packet are tried in turn.
cbCheckPamUser(k, responses, ok, p) ==
    \E drawn \in Needs :
       LET none == [vars |-> uservar, auth |-> FALSE, pair |-> Nobody]
           try[n \in 0 .. Len(responses)] ==
              IF n = 0 THEN none ELSE Try(k, responses[n], drawn, try[n - 1])
           r == try[Len(responses)]
       IN  ok = r.auth /\ p = r.pair /\ uservar' = r.vars

-----------------------------------------------------------------------------
(* Both transports *)

Greeting(k) == IF proto[k] = "ssh" THEN "version" ELSE "User"

\* A connection is a new object; its place is free once no timer of the one
\* before is left.
connectionMade(k) ==
    /\ st[k] = "closed" /\ timer[k] = Off
    /\ st' = [st EXCEPT ![k] = Greeting(k)]
    /\ timer' = [timer EXCEPT ![k] = AuthTimeout]
    /\ UNCHANGED <<config, rules, proto, ip, pam, echo, waits, idle, age, who, uservar, limiter, ops>>

\* What is kept about a connection only for the properties goes with it.
Forget(k) == age' = [age EXCEPT ![k] = 0] /\ who' = [who EXCEPT ![k] = Nobody]

loseConnection(k) == st' = [st EXCEPT ![k] = "closing"]

\* timeoutConnection of the transport; the time limit is not renewed.
timeoutConnection(k) ==
    /\ timer[k] = 0
    /\ timer' = [timer EXCEPT ![k] = Off]
    /\ IF st[k] = "closed" THEN UNCHANGED st ELSE loseConnection(k)
    /\ UNCHANGED <<config, rules, proto, ip, pam, echo, waits, idle, age, who, uservar, limiter, ops>>

\* timeoutConnection of the shell ends the process: by telnet the connection goes
\* with it, by SSH the channel only.
timeoutShell(k) ==
    /\ idle[k] = 0
    /\ idle' = [idle EXCEPT ![k] = Off]
    /\ IF proto[k] = "telnet" THEN loseConnection(k) ELSE UNCHANGED st
    /\ UNCHANGED <<config, rules, proto, ip, pam, echo, waits, timer, age, who, uservar, limiter, ops>>

\* The connection is lost, by the client, by loseConnection or by an exception.
connectionLost(k) ==
    /\ Connected(k) \/ st[k] = "closing"
    /\ waits[k] = Nobody
    /\ st' = [st EXCEPT ![k] = "closed"]
    /\ timer' = [timer EXCEPT ![k] = Off]
    /\ idle' = [idle EXCEPT ![k] = Off]
    /\ pam' = [pam EXCEPT ![k] = FALSE]
    /\ echo' = [echo EXCEPT ![k] = Echo0]
    /\ Forget(k)
    /\ UNCHANGED <<config, rules, proto, ip, waits, uservar, limiter, ops>>

\* A telnet connection is lost while its login waits: the negotiation fails,
\* the login goes on all the same, and when it succeeds it sets the idle time
\* limit that connectionLost had cancelled.
connectionLost_login(k) ==
    /\ Connected(k) \/ st[k] = "closing"
    /\ waits[k] # Nobody
    /\ \E ok \in BOOLEAN :
          /\ checkUserPass(k, waits[k], ok)
          /\ timer' = [timer EXCEPT ![k] = IF ok THEN IdleTimeout ELSE Off]
    /\ st' = [st EXCEPT ![k] = "closed"]
    /\ waits' = [waits EXCEPT ![k] = Nobody]
    /\ echo' = [echo EXCEPT ![k] = Echo0]
    /\ Forget(k)
    /\ UNCHANGED <<config, rules, proto, ip, pam, idle, limiter, ops>>

-----------------------------------------------------------------------------
(* SSH: userauth.py, transport.py *)

\* Mutant: the login grace timeout is removed, and nothing takes its place.
setService_NoTimer(k, p) ==
    /\ st' = [st EXCEPT ![k] = "shell"]
    /\ timer' = [timer EXCEPT ![k] = Off]
    /\ age' = [age EXCEPT ![k] = IF who[k] = Nobody THEN @ ELSE 0]
    /\ who' = [who EXCEPT ![k] = p]

\* The service "ssh-connection" starts, for p, with a time limit of its own.
setService(k, p) ==
    /\ st' = [st EXCEPT ![k] = "shell"]
    /\ timer' = [timer EXCEPT ![k] = InteractiveTimeout]
    /\ age' = [age EXCEPT ![k] = IF who[k] = Nobody THEN @ ELSE 0]
    /\ who' = [who EXCEPT ![k] = p]

Refused == UNCHANGED <<st, timer, age, who>>

\* The first line must be an identification of a version we speak.
dataReceived(k, supported) ==
    /\ st[k] = "version"
    /\ IF supported THEN st' = [st EXCEPT ![k] = "auth"] ELSE loseConnection(k)
    /\ UNCHANGED <<config, rules, proto, ip, pam, echo, waits, timer, idle, age, who, uservar, limiter, ops>>

\* Every key is let in, or none.
auth_publickey(k) ==
    /\ st[k] = "auth" /\ config.anykey
    /\ setService(k, "none")
    /\ UNCHANGED <<config, rules, proto, ip, pam, echo, waits, idle, uservar, limiter, ops>>

auth_none(k) ==
    /\ st[k] = "auth" /\ config.none
    /\ setService(k, "none")
    /\ UNCHANGED <<config, rules, proto, ip, pam, echo, waits, idle, uservar, limiter, ops>>

auth_password(k, p) ==
    /\ st[k] = "auth" /\ Op
    /\ \E ok \in BOOLEAN : checkUserPass(k, p, ok) /\ IF ok THEN setService(k, p) ELSE Refused
    /\ UNCHANGED <<config, rules, proto, ip, pam, echo, waits, idle, limiter>>

\* A second attempt while the first one waits for its answer disconnects.
auth_keyboard_interactive(k) ==
    /\ st[k] = "auth"
    /\ IF pam[k] THEN loseConnection(k) ELSE UNCHANGED st
    /\ pam' = [pam EXCEPT ![k] = TRUE]
    /\ UNCHANGED <<config, rules, proto, ip, echo, waits, timer, idle, age, who, uservar, limiter, ops>>

\* An answer nobody waits for fails the assertion: a case of connectionLost.
ssh_USERAUTH_INFO_RESPONSE(k, responses) ==
    /\ st[k] = "auth" /\ pam[k] /\ Op
    /\ pam' = [pam EXCEPT ![k] = FALSE]
    /\ \E ok \in BOOLEAN, p \in Pairs \cup {Nobody} :
          /\ cbCheckPamUser(k, responses, ok, p)
          /\ IF ok THEN setService(k, p) ELSE Refused
    /\ UNCHANGED <<config, rules, proto, ip, echo, waits, idle, limiter>>

\* A client that is logged in may ask for "ssh-connection" as often as it likes:
\* the service starts again, without the channels of the one before.  To any
\* other it is refused with a disconnect.
ssh_SERVICE_REQUEST_connection(k) ==
    /\ st[k] \in {"auth", "shell"} /\ proto[k] = "ssh"
    /\ IF who[k] # Nobody THEN setService(k, who[k]) ELSE loseConnection(k) /\ UNCHANGED <<timer, age, who>>
    /\ idle' = [idle EXCEPT ![k] = Off]
    /\ UNCHANGED <<config, rules, proto, ip, pam, echo, waits, uservar, limiter, ops>>

\* It may ask for "ssh-userauth" again as well, which renews nothing.
ssh_SERVICE_REQUEST_userauth(k) ==
    /\ st[k] \in {"auth", "shell"} /\ proto[k] = "ssh"
    /\ st' = [st EXCEPT ![k] = "auth"]
    /\ pam' = [pam EXCEPT ![k] = FALSE]
    /\ idle' = [idle EXCEPT ![k] = Off]
    /\ UNCHANGED <<config, rules, proto, ip, echo, waits, timer, age, who, uservar, limiter, ops>>

\* The shell of a session has a time limit of its own (for a single command a
\* fixed one, which nothing renews).  The shell of one channel at a time is shown.
openShell(k) ==
    /\ proto[k] = "ssh" /\ st[k] = "shell" /\ idle[k] = Off
    /\ idle' = [idle EXCEPT ![k] = IdleTimeout]
    /\ UNCHANGED <<config, rules, proto, ip, st, pam, echo, waits, timer, age, who, uservar, limiter, ops>>

\* Its channel is closed by the client, or because the process ended; the
\* connection stays.
closed(k) ==
    /\ proto[k] = "ssh" /\ st[k] = "shell" /\ idle[k] # Off
    /\ idle' = [idle EXCEPT ![k] = Off]
    /\ UNCHANGED <<config, rules, proto, ip, st, pam, echo, waits, timer, age, who, uservar, limiter, ops>>

-----------------------------------------------------------------------------
(* Telnet: userauth.py *)

telnet_User(k) ==
    /\ proto[k] = "telnet" /\ st[k] = "User"
    /\ echo' = [echo EXCEPT ![k] = _chainNegotiation(@, "will")]
    /\ st' = [st EXCEPT ![k] = "Password"]
    /\ UNCHANGED <<config, rules, proto, ip, pam, waits, timer, idle, age, who, uservar, limiter, ops>>

\* _cbLogin, with the session's connectionMade, or _ebLogin.
login(k, p, e) ==
    \E ok \in BOOLEAN :
       /\ checkUserPass(k, p, ok)
       /\ echo' = [echo EXCEPT ![k] = _chainNegotiation(e, IF ok THEN "will" ELSE "wont")]
       /\ st' = [st EXCEPT ![k] = IF ok THEN "shell" ELSE "User"]
       /\ timer' = [timer EXCEPT ![k] = IF ok THEN IdleTimeout ELSE @]
       /\ idle' = [idle EXCEPT ![k] = IF ok THEN IdleTimeout ELSE @]
       /\ who' = [who EXCEPT ![k] = IF ok THEN p ELSE @]

\* The login waits for an answer to WONT, when one is sent now; else it goes on.
\* cve_2026_24061_vulnerable is off, as by default.
telnet_Password(k, p) ==
    LET e == _chainNegotiation(echo[k], "wont")
    IN  /\ proto[k] = "telnet" /\ st[k] = "Password" /\ Op
        /\ IF e.neg /\ ~echo[k].neg
           THEN /\ echo' = [echo EXCEPT ![k] = e]
                /\ waits' = [waits EXCEPT ![k] = p]
                /\ st' = [st EXCEPT ![k] = "Discard"]
                /\ UNCHANGED <<timer, idle, who, uservar>>
           ELSE login(k, p, e) /\ UNCHANGED waits
        /\ UNCHANGED <<config, rules, proto, ip, pam, age, limiter>>

\* The client answers DO or DONT, or asks for it: a login that waits goes
\* first, then what is chained.
telnet_DO(k) ==
    /\ proto[k] = "telnet" /\ Connected(k) /\ ~echo[k].on
    /\ echo' = [echo EXCEPT ![k] = IF @.neg THEN Negotiated(@, TRUE) ELSE [@ EXCEPT !.on = TRUE]]
    /\ UNCHANGED <<config, rules, proto, ip, st, pam, waits, timer, idle, age, who, uservar, limiter, ops>>

telnet_DONT(k) ==
    /\ proto[k] = "telnet" /\ Connected(k) /\ (echo[k].on \/ echo[k].neg) /\ waits[k] = Nobody
    /\ echo' = [echo EXCEPT ![k] = IF @.neg THEN Negotiated(@, FALSE) ELSE Echo0]
    /\ UNCHANGED <<config, rules, proto, ip, st, pam, waits, timer, idle, age, who, uservar, limiter, ops>>

telnet_DONT_login(k) ==
    /\ proto[k] = "telnet" /\ Connected(k) /\ waits[k] # Nobody
    /\ login(k, waits[k], Negotiated(echo[k], FALSE))
    /\ waits' = [waits EXCEPT ![k] = Nobody]
    /\ UNCHANGED <<config, rules, proto, ip, pam, age, limiter, ops>>

-----------------------------------------------------------------------------
(* In a session *)

\* Only the shell's time limit is renewed.
characterReceived(k) ==
    /\ Connected(k) /\ idle[k] # Off
    /\ idle' = [idle EXCEPT ![k] = IdleTimeout]
    /\ UNCHANGED <<config, rules, proto, ip, st, pam, echo, waits, timer, age, who, uservar, limiter, ops>>

\* wget, curl or nc asks for a host; each of them has a limiter, one is shown.
Request(k, h) ==
    /\ Connected(k) /\ idle[k] # Off /\ Op
    /\ \E r \in check(lim, h) :
          /\ lim' = r.lim
          /\ spent' = IF r.allowed THEN [spent EXCEPT ![h] = Append(@, 0)] ELSE spent
          /\ evicted' = evicted \cup {g \in r.gone : spent[g] # <<>>}
    /\ UNCHANGED <<config, rules, dialogue, uservar>>

\* The process dies while it writes the state file: nothing of it can be read,
\* and the rest was in memory.
Crash ==
    /\ config.class = "AuthRandom" /\ uservar # NoVars
    /\ uservar' = NoVars
    /\ lim' = NoRequests
    /\ spent' = [h \in Hosts |-> <<>>] /\ evicted' = {}
    /\ st' = [k \in Conns |-> "closed"]
    /\ pam' = [k \in Conns |-> FALSE] /\ echo' = [k \in Conns |-> Echo0]
    /\ waits' = [k \in Conns |-> Nobody]
    /\ timer' = [k \in Conns |-> Off] /\ idle' = [k \in Conns |-> Off]
    /\ age' = [k \in Conns |-> 0] /\ who' = [k \in Conns |-> Nobody]
    /\ UNCHANGED <<config, rules, proto, ip, ops>>

\* A tick; time limits that are up come first.
Tick ==
    /\ \A k \in Conns : timer[k] # 0 /\ idle[k] # 0
    /\ timer' = [k \in Conns |-> IF timer[k] = Off THEN Off ELSE timer[k] - 1]
    /\ idle' = [k \in Conns |-> IF idle[k] = Off THEN Off ELSE idle[k] - 1]
    /\ age' = [k \in Conns |-> IF Connected(k) THEN age[k] + 1 ELSE age[k]]
    /\ lim' = Aged(lim)
    /\ spent' = [h \in Hosts |-> InWindow([i \in DOMAIN spent[h] |-> spent[h][i] + 1])]
    /\ evicted' = {h \in evicted : spent'[h] # <<>>}
    /\ UNCHANGED <<config, rules, proto, ip, st, pam, echo, waits, who, uservar, ops>>

-----------------------------------------------------------------------------
Init ==
    /\ config \in Configs
    /\ rules \in IF config.class = "UserDB" THEN RuleFiles ELSE {<<>>}
    /\ proto \in [Conns -> config.enabled]
    /\ ip \in [Conns -> Ips]
    /\ config.class = "UserDB" => \A k, l \in Conns : ip[k] = ip[l]   \* not looked at
    /\ st = [k \in Conns |-> "closed"]
    /\ pam = [k \in Conns |-> FALSE]
    /\ echo = [k \in Conns |-> Echo0]
    /\ waits = [k \in Conns |-> Nobody]
    /\ timer = [k \in Conns |-> Off]
    /\ idle = [k \in Conns |-> Off]
    /\ age = [k \in Conns |-> 0]
    /\ who = [k \in Conns |-> Nobody]
    /\ uservar = NoVars
    /\ lim = NoRequests
    /\ spent = [h \in Hosts |-> <<>>]
    /\ evicted = {}
    /\ ops = 0

Next ==
    \/ \E k \in Conns :
          \/ connectionMade(k) \/ connectionLost(k) \/ connectionLost_login(k)
          \/ timeoutConnection(k) \/ timeoutShell(k)
          \/ \E b \in BOOLEAN : dataReceived(k, b)
          \/ auth_none(k) \/ auth_publickey(k) \/ auth_keyboard_interactive(k) \/ openShell(k)
          \/ closed(k) \/ ssh_SERVICE_REQUEST_connection(k) \/ ssh_SERVICE_REQUEST_userauth(k)
          \/ telnet_User(k) \/ telnet_DO(k) \/ telnet_DONT(k) \/ telnet_DONT_login(k)
          \/ characterReceived(k)
          \/ \E p \in Pairs : \/ auth_password(k, p) \/ telnet_Password(k, p)
                              \/ \E q \in Pairs : ssh_USERAUTH_INFO_RESPONSE(k, <<p, q>>)
          \/ \E h \in Hosts : Request(k, h)
    \/ Crash \/ Tick

Spec == Init /\ [][Next]_vars

-----------------------------------------------------------------------------
\* The dialogue, the timers, the cache and the limiter stay in their ranges.
\* The limiter tracks as many keys as it may, but never fewer than 19: a new key
\* has no requests and is the oldest, so as long as a tenth of the keys is a
\* single one the key that is removed is the one that comes back at once.
AccessTypeOK ==
    /\ \A k \in Conns :
          /\ st[k] \in IF proto[k] = "ssh" THEN {"version", "auth", "shell", "closing", "closed"}
                       ELSE {"User", "Password", "Discard", "shell", "closing", "closed"}
          /\ timer[k] \in {Off} \cup 0 .. Max({AuthTimeout, IdleTimeout, InteractiveTimeout})
          /\ idle[k] \in {Off} \cup 0 .. IdleTimeout
          /\ waits[k] # Nobody => echo[k].neg /\ echo[k].on
    /\ Len(uservar.cache) <= MaxCache
    /\ Cardinality(DOMAIN lim.tracker) <= Max({MaxKeys, 19})

\* "Make sure all sessions time out eventually": a connection is told to close
\* within the time limits of login and session, however its channels and shells
\* come and go; only a client that is logged in and asks for its service again
\* starts them anew.
SessionsEnd ==
    \A k \in Conns :
       Connected(k) => age[k] <= AuthTimeout + Max({IdleTimeout, InteractiveTimeout})

\* No timer outlives its connection, but for the one of a telnet login that was
\* waiting when the connection was lost.
TimersDie ==
    \A k \in Conns : st[k] = "closed" => /\ idle[k] = Off
                                         /\ proto[k] = "ssh" => timer[k] = Off

\* The state of each connection fits its protocol, and its timers end it in time
\* and end with it.
AccessInv == AccessTypeOK /\ SessionsEnd /\ TimersDie

\* With AuthRandom an address is first let in with a pair nobody was let in
\* with only after as many different pairs as were drawn for it.
EnoughTries ==
    [][\A i \in Ips :
         LET old == uservar.info[i]
             new == uservar'.info[i]
         IN  /\ old.pair = NoPair /\ new.pair # NoPair
             /\ new.pair \notin {uservar.cache[j] : j \in DOMAIN uservar.cache}
             => Cardinality(new.tried \cup {new.pair}) = new.need /\ new.need \in Needs]_vars

\* "processing will stop on first match": a session of the user database was
\* let in by the first line that matches its pair, or by the same line come
\* again.
FirstMatchDecides ==
    \A k \in Conns :
       who[k] \in Pairs /\ config.class = "UserDB" =>
          LET first == CHOOSE i \in DOMAIN rules :
                          /\ who[k] \in rules[i].pairs
                          /\ \A j \in 1 .. i - 1 : who[k] \notin rules[j].pairs
          IN  \/ rules[first].policy
              \/ \E i \in DOMAIN rules : /\ rules[i].pairs = rules[first].pairs
                                         /\ rules[i].policy

\* The sessions that ask one limiter reach a host at most max_requests times in a
\* window together, unless its key was evicted in that time.
LimitHolds == \A h \in Hosts : Len(spent[h]) > MaxRequests => h \in evicted
=============================================================================
