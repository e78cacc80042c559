------------------------------ MODULE AccessProofs -----------------------------
(***************************************************************************)
(* Proofs about Access, for every number of connections, every time limit, *)
(* every configuration and every user database.                            *)
(***************************************************************************)
EXTENDS Access, FiniteSetTheorems, WellFoundedInduction, TLAPS

Longest == Max({IdleTimeout, InteractiveTimeout})
Timeouts == Max({AuthTimeout, IdleTimeout, InteractiveTimeout})

SSHStates == {"version", "auth", "shell", "closing", "closed"}
TelnetStates == {"User", "Password", "Discard", "shell", "closing", "closed"}

\* One connection: protocol, state, ECHO option, login that waits, the two
\* timers, age, the pair that is logged in.  Until the login what is left of the
\* time limit and what is gone make up no more than the one of the login; then no
\* more than both limits.
ConnOK(pr, s, e, w, t, i, a, u) ==
    /\ s \in IF pr = "ssh" THEN SSHStates ELSE TelnetStates
    /\ t <= Timeouts /\ i <= IdleTimeout
    /\ w # Nobody => /\ pr = "telnet" /\ s \in {"Discard", "closing"}
                     /\ i = Off /\ e.neg /\ e.on
    /\ i # Off => s \in {"shell", "closing"}
    /\ s \notin {"closing", "closed"} =>
          t # Off /\ t + a <= AuthTimeout + (IF s = "shell" \/ u # Nobody THEN Longest ELSE 0)
    /\ s = "shell" /\ pr = "ssh" => u # Nobody
    /\ s \in {"version", "User", "Password", "Discard"} => u = Nobody
    /\ s = "closed" => a = 0 /\ u = Nobody /\ i = Off /\ (pr = "ssh" => t = Off)

DialogueType ==
    /\ proto \in [Conns -> {"ssh", "telnet"}]
    /\ DOMAIN st = Conns /\ DOMAIN echo = Conns
    /\ waits \in [Conns -> Pairs \cup {Nobody}]
    /\ timer \in [Conns -> Nat \cup {Off}] /\ idle \in [Conns -> Nat \cup {Off}]
    /\ age \in [Conns -> Nat] /\ DOMAIN who = Conns

DialogueInv ==
    /\ DialogueType
    /\ \A k \in Conns : ConnOK(proto[k], st[k], echo[k], waits[k], timer[k], idle[k], age[k], who[k])

-----------------------------------------------------------------------------
(* Time limits *)

LEMMA MaxOfTwo ==
    ASSUME NEW a \in Nat, NEW b \in Nat
    PROVE  Max({a, b}) \in Nat /\ a <= Max({a, b}) /\ b <= Max({a, b}) /\ Max({a, b}) \in {a, b}
  <1>1. \E x \in {a, b} : \A y \in {a, b} : x >= y
    BY a <= b \/ b <= a
  <1> QED
    BY <1>1 DEF Max

LEMMA Limits ==
    /\ Longest \in Nat /\ Timeouts \in Nat
    /\ IdleTimeout <= Longest /\ InteractiveTimeout <= Longest
    /\ AuthTimeout <= Timeouts /\ IdleTimeout <= Timeouts /\ InteractiveTimeout <= Timeouts
  <1>1. /\ Longest \in Nat /\ IdleTimeout <= Longest /\ InteractiveTimeout <= Longest
        /\ Longest \in {IdleTimeout, InteractiveTimeout}
    BY MaxOfTwo, TimeoutAssumption DEF Longest
  <1>2. PICK x \in {AuthTimeout, IdleTimeout, InteractiveTimeout} :
            \A y \in {AuthTimeout, IdleTimeout, InteractiveTimeout} : x >= y
    <2>1. CASE AuthTimeout <= Longest
      BY <1>1, <2>1, TimeoutAssumption
    <2>2. CASE Longest <= AuthTimeout
      BY <1>1, <2>2, TimeoutAssumption
    <2> QED
      BY <1>1, <2>1, <2>2, TimeoutAssumption
  <1>3. /\ Timeouts \in {AuthTimeout, IdleTimeout, InteractiveTimeout}
        /\ \A y \in {AuthTimeout, IdleTimeout, InteractiveTimeout} : Timeouts >= y
    BY <1>2 DEF Timeouts, Max
  <1> QED
    BY <1>1, <1>3, TimeoutAssumption

-----------------------------------------------------------------------------
(* The dialogues *)

\* A step of one connection is a step of the dialogues.
LEMMA OneConnection ==
    ASSUME DialogueInv, NEW k \in Conns, proto' = proto, DialogueType',
           \A l \in Conns \ {k} : /\ st'[l] = st[l] /\ echo'[l] = echo[l] /\ waits'[l] = waits[l]
                                  /\ timer'[l] = timer[l] /\ idle'[l] = idle[l] /\ age'[l] = age[l]
                               /\ who'[l] = who[l],
           ConnOK(proto[k], st'[k], echo'[k], waits'[k], timer'[k], idle'[k], age'[k], who'[k])
    PROVE  DialogueInv'
  <1>1. ASSUME NEW l \in Conns
        PROVE  ConnOK(proto[l], st'[l], echo'[l], waits'[l], timer'[l], idle'[l], age'[l], who'[l])
    <2>1. CASE l = k
      BY <2>1
    <2>2. CASE l # k
      <3>1. ConnOK(proto[l], st[l], echo[l], waits[l], timer[l], idle[l], age[l], who[l])
        BY DEF DialogueInv
      <3> QED
        BY <2>2, <3>1
    <2> QED
      BY <2>1, <2>2
  <1> QED
    BY <1>1 DEF DialogueInv

LEMMA LoginStep ==
    ASSUME DialogueInv, NEW k \in Conns, NEW p \in Pairs, NEW e, login(k, p, e),
           proto' = proto, age' = age,
           waits' = waits \/ waits' = [waits EXCEPT ![k] = Nobody],
           waits'[k] = Nobody, st[k] \in {"Password", "Discard"}, proto[k] = "telnet"
    PROVE  DialogueInv'
  <1>1. PICK ok \in BOOLEAN :
            /\ echo' = [echo EXCEPT ![k] = _chainNegotiation(e, IF ok THEN "will" ELSE "wont")]
            /\ st' = [st EXCEPT ![k] = IF ok THEN "shell" ELSE "User"]
            /\ timer' = [timer EXCEPT ![k] = IF ok THEN IdleTimeout ELSE @]
            /\ idle' = [idle EXCEPT ![k] = IF ok THEN IdleTimeout ELSE @]
            /\ who' = [who EXCEPT ![k] = IF ok THEN p ELSE @]
    BY DEF login
  <1>2. DialogueType /\ ConnOK(proto[k], st[k], echo[k], waits[k], timer[k], idle[k], age[k], who[k])
    BY DEF DialogueInv
  <1>3. DialogueType'
    BY <1>1, <1>2, TimeoutAssumption DEF DialogueType
  <1>4. \A l \in Conns \ {k} : /\ st'[l] = st[l] /\ echo'[l] = echo[l] /\ waits'[l] = waits[l]
                               /\ timer'[l] = timer[l] /\ idle'[l] = idle[l] /\ age'[l] = age[l]
                               /\ who'[l] = who[l]
    BY <1>1, <1>2 DEF DialogueType
  <1>5. ConnOK(proto[k], st'[k], echo'[k], waits'[k], timer'[k], idle'[k], age'[k], who'[k])
    <2>1. CASE ok
      <3>1. st'[k] = "shell" /\ timer'[k] = IdleTimeout /\ idle'[k] = IdleTimeout /\ age'[k] = age[k]
        BY <1>1, <1>2, <2>1 DEF DialogueType
      <3>2. age[k] \in Nat /\ timer[k] \in Nat /\ timer[k] + age[k] <= AuthTimeout
        <4>1. who[k] = Nobody /\ st[k] \notin {"shell", "closing", "closed"}
          BY <1>2 DEF ConnOK
        <4> QED
          BY <1>2, <4>1, TimeoutAssumption DEF ConnOK, DialogueType, Off
      <3> QED
        BY <3>1, <3>2, Limits, TimeoutAssumption DEF ConnOK, Off, TelnetStates
    <2>2. CASE ~ok
      <3>1. /\ st'[k] = "User" /\ timer'[k] = timer[k] /\ idle'[k] = idle[k] /\ age'[k] = age[k]
            /\ who'[k] = who[k]
        BY <1>1, <1>2, <2>2 DEF DialogueType
      <3> QED
        BY <1>2, <3>1 DEF ConnOK, TelnetStates
    <2> QED
      BY <1>1, <2>1, <2>2
  <1> QED
    BY <1>3, <1>4, <1>5, OneConnection

LEMMA connectionMadeDialogue ==
    ASSUME DialogueInv, NEW k \in Conns, connectionMade(k)
    PROVE  DialogueInv'
  <1>1. DialogueType /\ ConnOK(proto[k], st[k], echo[k], waits[k], timer[k], idle[k], age[k], who[k])
    BY DEF DialogueInv
  <1>2. DialogueType' /\ proto' = proto
    BY <1>1, TimeoutAssumption DEF DialogueType, connectionMade, Greeting, Off, SSHStates, TelnetStates
  <1>3. \A l \in Conns \ {k} : /\ st'[l] = st[l] /\ echo'[l] = echo[l] /\ waits'[l] = waits[l]
                               /\ timer'[l] = timer[l] /\ idle'[l] = idle[l] /\ age'[l] = age[l]
                               /\ who'[l] = who[l]
    BY <1>1 DEF DialogueType, connectionMade, Greeting, Off, SSHStates, TelnetStates
  <1>4. ConnOK(proto[k], st'[k], echo'[k], waits'[k], timer'[k], idle'[k], age'[k], who'[k])
    BY <1>1, Limits, TimeoutAssumption DEF ConnOK, DialogueType, connectionMade, Greeting, Off, SSHStates, TelnetStates
  <1> QED
    BY <1>2, <1>3, <1>4, OneConnection

LEMMA connectionLostDialogue ==
    ASSUME DialogueInv, NEW k \in Conns, connectionLost(k)
    PROVE  DialogueInv'
  <1>1. DialogueType /\ ConnOK(proto[k], st[k], echo[k], waits[k], timer[k], idle[k], age[k], who[k])
    BY DEF DialogueInv
  <1>2. DialogueType' /\ proto' = proto
    BY <1>1 DEF DialogueType, connectionLost, Off, Forget, SSHStates, TelnetStates
  <1>3. \A l \in Conns \ {k} : /\ st'[l] = st[l] /\ echo'[l] = echo[l] /\ waits'[l] = waits[l]
                               /\ timer'[l] = timer[l] /\ idle'[l] = idle[l] /\ age'[l] = age[l]
                               /\ who'[l] = who[l]
    BY <1>1 DEF DialogueType, connectionLost, Off, Forget, SSHStates, TelnetStates
  <1>4. ConnOK(proto[k], st'[k], echo'[k], waits'[k], timer'[k], idle'[k], age'[k], who'[k])
    BY <1>1, Limits, TimeoutAssumption DEF ConnOK, DialogueType, connectionLost, Off, Forget, SSHStates, TelnetStates
  <1> QED
    BY <1>2, <1>3, <1>4, OneConnection

LEMMA timeoutConnectionDialogue ==
    ASSUME DialogueInv, NEW k \in Conns, timeoutConnection(k)
    PROVE  DialogueInv'
  <1>1. DialogueType /\ ConnOK(proto[k], st[k], echo[k], waits[k], timer[k], idle[k], age[k], who[k])
    BY DEF DialogueInv
  <1>2. DialogueType' /\ proto' = proto
    BY <1>1 DEF DialogueType, timeoutConnection, loseConnection, Off, SSHStates, TelnetStates
  <1>3. \A l \in Conns \ {k} : /\ st'[l] = st[l] /\ echo'[l] = echo[l] /\ waits'[l] = waits[l]
                               /\ timer'[l] = timer[l] /\ idle'[l] = idle[l] /\ age'[l] = age[l]
                               /\ who'[l] = who[l]
    BY <1>1 DEF DialogueType, timeoutConnection, loseConnection, Off, SSHStates, TelnetStates
  <1>4. ConnOK(proto[k], st'[k], echo'[k], waits'[k], timer'[k], idle'[k], age'[k], who'[k])
    BY <1>1, Limits DEF ConnOK, DialogueType, timeoutConnection, loseConnection, Off, SSHStates, TelnetStates
  <1> QED
    BY <1>2, <1>3, <1>4, OneConnection

LEMMA timeoutShellDialogue ==
    ASSUME DialogueInv, NEW k \in Conns, timeoutShell(k)
    PROVE  DialogueInv'
  <1>1. DialogueType /\ ConnOK(proto[k], st[k], echo[k], waits[k], timer[k], idle[k], age[k], who[k])
    BY DEF DialogueInv
  <1>2. DialogueType' /\ proto' = proto
    BY <1>1 DEF DialogueType, timeoutShell, loseConnection, Off, SSHStates, TelnetStates
  <1>3. \A l \in Conns \ {k} : /\ st'[l] = st[l] /\ echo'[l] = echo[l] /\ waits'[l] = waits[l]
                               /\ timer'[l] = timer[l] /\ idle'[l] = idle[l] /\ age'[l] = age[l]
                               /\ who'[l] = who[l]
    BY <1>1 DEF DialogueType, timeoutShell, loseConnection, Off, SSHStates, TelnetStates
  <1>4. ConnOK(proto[k], st'[k], echo'[k], waits'[k], timer'[k], idle'[k], age'[k], who'[k])
    BY <1>1, TimeoutAssumption DEF ConnOK, DialogueType, timeoutShell, loseConnection, Off, SSHStates, TelnetStates
  <1> QED
    BY <1>2, <1>3, <1>4, OneConnection

LEMMA dataReceivedDialogue ==
    ASSUME DialogueInv, NEW k \in Conns, NEW b, dataReceived(k, b)
    PROVE  DialogueInv'
  <1>1. DialogueType /\ ConnOK(proto[k], st[k], echo[k], waits[k], timer[k], idle[k], age[k], who[k])
    BY DEF DialogueInv
  <1>2. DialogueType' /\ proto' = proto
    BY <1>1 DEF DialogueType, dataReceived, loseConnection, SSHStates, TelnetStates
  <1>3. \A l \in Conns \ {k} : /\ st'[l] = st[l] /\ echo'[l] = echo[l] /\ waits'[l] = waits[l]
                               /\ timer'[l] = timer[l] /\ idle'[l] = idle[l] /\ age'[l] = age[l]
                               /\ who'[l] = who[l]
    BY <1>1 DEF DialogueType, dataReceived, loseConnection, SSHStates, TelnetStates
  <1>4. ConnOK(proto[k], st'[k], echo'[k], waits'[k], timer'[k], idle'[k], age'[k], who'[k])
    BY <1>1, TimeoutAssumption DEF ConnOK, DialogueType, dataReceived, loseConnection, SSHStates, TelnetStates
  <1> QED
    BY <1>2, <1>3, <1>4, OneConnection

LEMMA auth_keyboard_interactiveDialogue ==
    ASSUME DialogueInv, NEW k \in Conns, auth_keyboard_interactive(k)
    PROVE  DialogueInv'
  <1>1. DialogueType /\ ConnOK(proto[k], st[k], echo[k], waits[k], timer[k], idle[k], age[k], who[k])
    BY DEF DialogueInv
  <1>2. DialogueType' /\ proto' = proto
    BY <1>1 DEF DialogueType, auth_keyboard_interactive, loseConnection, SSHStates, TelnetStates
  <1>3. \A l \in Conns \ {k} : /\ st'[l] = st[l] /\ echo'[l] = echo[l] /\ waits'[l] = waits[l]
                               /\ timer'[l] = timer[l] /\ idle'[l] = idle[l] /\ age'[l] = age[l]
                               /\ who'[l] = who[l]
    BY <1>1 DEF DialogueType, auth_keyboard_interactive, loseConnection, SSHStates, TelnetStates
  <1>4. ConnOK(proto[k], st'[k], echo'[k], waits'[k], timer'[k], idle'[k], age'[k], who'[k])
    BY <1>1, TimeoutAssumption DEF ConnOK, DialogueType, auth_keyboard_interactive, loseConnection, SSHStates, TelnetStates
  <1> QED
    BY <1>2, <1>3, <1>4, OneConnection

LEMMA openShellDialogue ==
    ASSUME DialogueInv, NEW k \in Conns, openShell(k)
    PROVE  DialogueInv'
  <1>1. DialogueType /\ ConnOK(proto[k], st[k], echo[k], waits[k], timer[k], idle[k], age[k], who[k])
    BY DEF DialogueInv
  <1>2. DialogueType' /\ proto' = proto
    BY <1>1, TimeoutAssumption DEF DialogueType, openShell, Off, SSHStates
  <1>3. \A l \in Conns \ {k} : /\ st'[l] = st[l] /\ echo'[l] = echo[l] /\ waits'[l] = waits[l]
                               /\ timer'[l] = timer[l] /\ idle'[l] = idle[l] /\ age'[l] = age[l]
                               /\ who'[l] = who[l]
    BY <1>1 DEF DialogueType, openShell, Off, SSHStates
  <1>4. ConnOK(proto[k], st'[k], echo'[k], waits'[k], timer'[k], idle'[k], age'[k], who'[k])
    BY <1>1, TimeoutAssumption DEF ConnOK, DialogueType, openShell, Off, SSHStates
  <1> QED
    BY <1>2, <1>3, <1>4, OneConnection

LEMMA characterReceivedDialogue ==
    ASSUME DialogueInv, NEW k \in Conns, characterReceived(k)
    PROVE  DialogueInv'
  <1>1. DialogueType /\ ConnOK(proto[k], st[k], echo[k], waits[k], timer[k], idle[k], age[k], who[k])
    BY DEF DialogueInv
  <1>2. DialogueType' /\ proto' = proto
    BY <1>1, TimeoutAssumption DEF DialogueType, characterReceived, Connected, Off
  <1>3. \A l \in Conns \ {k} : /\ st'[l] = st[l] /\ echo'[l] = echo[l] /\ waits'[l] = waits[l]
                               /\ timer'[l] = timer[l] /\ idle'[l] = idle[l] /\ age'[l] = age[l]
                               /\ who'[l] = who[l]
    BY <1>1 DEF DialogueType, characterReceived, Connected, Off
  <1>4. ConnOK(proto[k], st'[k], echo'[k], waits'[k], timer'[k], idle'[k], age'[k], who'[k])
    BY <1>1, TimeoutAssumption DEF ConnOK, DialogueType, characterReceived, Connected, Off
  <1> QED
    BY <1>2, <1>3, <1>4, OneConnection

LEMMA telnet_UserDialogue ==
    ASSUME DialogueInv, NEW k \in Conns, telnet_User(k)
    PROVE  DialogueInv'
  <1>1. DialogueType /\ ConnOK(proto[k], st[k], echo[k], waits[k], timer[k], idle[k], age[k], who[k])
    BY DEF DialogueInv
  <1>2. DialogueType' /\ proto' = proto
    BY <1>1 DEF DialogueType, telnet_User, TelnetStates
  <1>3. \A l \in Conns \ {k} : /\ st'[l] = st[l] /\ echo'[l] = echo[l] /\ waits'[l] = waits[l]
                               /\ timer'[l] = timer[l] /\ idle'[l] = idle[l] /\ age'[l] = age[l]
                               /\ who'[l] = who[l]
    BY <1>1 DEF DialogueType, telnet_User, TelnetStates
  <1>4. ConnOK(proto[k], st'[k], echo'[k], waits'[k], timer'[k], idle'[k], age'[k], who'[k])
    BY <1>1, TimeoutAssumption DEF ConnOK, DialogueType, telnet_User, TelnetStates
  <1> QED
    BY <1>2, <1>3, <1>4, OneConnection

LEMMA telnet_DODialogue ==
    ASSUME DialogueInv, NEW k \in Conns, telnet_DO(k)
    PROVE  DialogueInv'
  <1>1. DialogueType /\ ConnOK(proto[k], st[k], echo[k], waits[k], timer[k], idle[k], age[k], who[k])
    BY DEF DialogueInv
  <1>2. DialogueType' /\ proto' = proto
    BY <1>1 DEF DialogueType, telnet_DO, Connected
  <1>3. \A l \in Conns \ {k} : /\ st'[l] = st[l] /\ echo'[l] = echo[l] /\ waits'[l] = waits[l]
                               /\ timer'[l] = timer[l] /\ idle'[l] = idle[l] /\ age'[l] = age[l]
                               /\ who'[l] = who[l]
    BY <1>1 DEF DialogueType, telnet_DO, Connected
  <1>4. ConnOK(proto[k], st'[k], echo'[k], waits'[k], timer'[k], idle'[k], age'[k], who'[k])
    BY <1>1, TimeoutAssumption DEF ConnOK, DialogueType, telnet_DO, Connected
  <1> QED
    BY <1>2, <1>3, <1>4, OneConnection

LEMMA telnet_DONTDialogue ==
    ASSUME DialogueInv, NEW k \in Conns, telnet_DONT(k)
    PROVE  DialogueInv'
  <1>1. DialogueType /\ ConnOK(proto[k], st[k], echo[k], waits[k], timer[k], idle[k], age[k], who[k])
    BY DEF DialogueInv
  <1>2. DialogueType' /\ proto' = proto
    BY <1>1 DEF DialogueType, telnet_DONT, Connected
  <1>3. \A l \in Conns \ {k} : /\ st'[l] = st[l] /\ echo'[l] = echo[l] /\ waits'[l] = waits[l]
                               /\ timer'[l] = timer[l] /\ idle'[l] = idle[l] /\ age'[l] = age[l]
                               /\ who'[l] = who[l]
    BY <1>1 DEF DialogueType, telnet_DONT, Connected
  <1>4. ConnOK(proto[k], st'[k], echo'[k], waits'[k], timer'[k], idle'[k], age'[k], who'[k])
    BY <1>1, TimeoutAssumption DEF ConnOK, DialogueType, telnet_DONT, Connected
  <1> QED
    BY <1>2, <1>3, <1>4, OneConnection

LEMMA NotAPair == Nobody \notin Pairs /\ "none" \notin Pairs
  BY NobodyAssumption DEF Nobody

NoAnswer == [vars |-> uservar, auth |-> FALSE, pair |-> Nobody]

\* Two answers in a packet are two attempts, the second after the first.
LEMMA PamAnswers ==
    ASSUME NEW k \in Conns, NEW p \in Pairs, NEW q \in Pairs, NEW ok, NEW pair,
           cbCheckPamUser(k, <<p, q>>, ok, pair)
    PROVE  \E drawn, a, b :
              /\ drawn \in Needs
              /\ a = Try(k, p, drawn, NoAnswer) /\ b = Try(k, q, drawn, a)
              /\ ok = b.auth /\ pair = b.pair /\ uservar' = b.vars
  <1> DEFINE none == [vars |-> uservar, auth |-> FALSE, pair |-> Nobody]
             Rec(drawn, g) == g = [n \in 0 .. Len(<<p, q>>) |->
                                     IF n = 0 THEN none ELSE Try(k, <<p, q>>[n], drawn, g[n - 1])]
  <1>1. PICK drawn \in Needs : LET try == CHOOSE g : Rec(drawn, g)
                                   r == try[Len(<<p, q>>)]
                               IN  ok = r.auth /\ pair = r.pair /\ uservar' = r.vars
    BY DEF cbCheckPamUser
  <1>2. Len(<<p, q>>) = 2 /\ <<p, q>>[1] = p /\ <<p, q>>[2] = q
    OBVIOUS
  <1>3. \E g : Rec(drawn, g)
    <2> DEFINE first == Try(k, p, drawn, none)
               g == [n \in 0 .. 2 |-> IF n = 0 THEN none ELSE IF n = 1 THEN first
                                      ELSE Try(k, q, drawn, first)]
    <2> HIDE DEF none
    <2>1. ASSUME NEW n \in 0 .. 2
          PROVE  g[n] = IF n = 0 THEN none ELSE Try(k, <<p, q>>[n], drawn, g[n - 1])
      <3>1. n = 0 \/ n = 1 \/ n = 2
        OBVIOUS
      <3> QED
        BY <3>1
    <2>2. g = [n \in 0 .. 2 |-> IF n = 0 THEN none ELSE Try(k, <<p, q>>[n], drawn, g[n - 1])]
      BY <2>1
    <2> QED
      BY <1>2, <2>2
  <1>4. PICK g : /\ Rec(drawn, g)
                 /\ ok = g[2].auth /\ pair = g[2].pair /\ uservar' = g[2].vars
    BY <1>1, <1>2, <1>3
  <1>5. g[0] = none /\ g[1] = Try(k, p, drawn, g[0]) /\ g[2] = Try(k, q, drawn, g[1])
    <2> HIDE DEF none
    <2>1. g = [n \in 0 .. 2 |-> IF n = 0 THEN none ELSE Try(k, <<p, q>>[n], drawn, g[n - 1])]
      BY <1>2, <1>4
    <2>2. g[0] = none
      BY <2>1
    <2>3. g[1] = Try(k, <<p, q>>[1], drawn, g[1 - 1])
      BY <2>1
    <2>4. g[2] = Try(k, <<p, q>>[2], drawn, g[2 - 1])
      BY <2>1
    <2> QED
      BY <1>2, <2>2, <2>3, <2>4
  <1>6. none = NoAnswer
    BY DEF NoAnswer
  <1> HIDE DEF none
  <1> QED
    BY <1>4, <1>5, <1>6

\* A pair is let in only if it was tried.
LEMMA PamPair ==
    ASSUME NEW k \in Conns, NEW p \in Pairs, NEW q \in Pairs, NEW drawn, NEW a, NEW b,
           a = Try(k, p, drawn, NoAnswer), b = Try(k, q, drawn, a)
    PROVE  b.auth => b.pair \in Pairs
  <1>1. a.pair = p
    BY DEF Try, NoAnswer
  <1>2. b.pair \in {p, q}
    BY <1>1 DEF Try
  <1> QED
    BY <1>2

\* Every SSH login ends in setService or leaves the connection as it is.
LEMMA SSHLoginDialogue ==
    ASSUME DialogueInv, NEW k \in Conns, NEW p,
           st[k] = "auth" \/ (st[k] = "shell" /\ proto[k] = "ssh"),
           (setService(k, p) /\ p # Nobody) \/ Refused, UNCHANGED <<proto, echo, waits>>,
           idle' = [idle EXCEPT ![k] = Off] \/ idle' = idle
    PROVE  DialogueInv'
  <1>1. DialogueType /\ ConnOK(proto[k], st[k], echo[k], waits[k], timer[k], idle[k], age[k], who[k])
    BY DEF DialogueInv
  <1>2. CASE Refused
    <2>1. DialogueType' /\ UNCHANGED <<st, timer, age, who>>
      BY <1>1, <1>2 DEF Refused, DialogueType
    <2>2. idle'[k] \in {Off, idle[k]} /\ \A l \in Conns \ {k} : idle'[l] = idle[l]
      BY <1>1 DEF DialogueType
    <2>3. ConnOK(proto[k], st'[k], echo'[k], waits'[k], timer'[k], idle'[k], age'[k], who'[k])
      BY <1>1, <2>1, <2>2, TimeoutAssumption DEF ConnOK, DialogueType, Off
    <2> QED
      BY <2>1, <2>2, <2>3, OneConnection
  <1>3. CASE setService(k, p) /\ p # Nobody
    <2>1. DialogueType'
      BY <1>1, <1>3, TimeoutAssumption DEF DialogueType, setService
    <2>2. \A l \in Conns \ {k} : /\ st'[l] = st[l] /\ echo'[l] = echo[l] /\ waits'[l] = waits[l]
                               /\ timer'[l] = timer[l] /\ idle'[l] = idle[l] /\ age'[l] = age[l]
                               /\ who'[l] = who[l]
      BY <1>1, <1>3 DEF DialogueType, setService
    <2>3. ConnOK(proto[k], st'[k], echo'[k], waits'[k], timer'[k], idle'[k], age'[k], who'[k])
      <3>1. /\ st'[k] = "shell" /\ timer'[k] = InteractiveTimeout
            /\ age'[k] = (IF who[k] = Nobody THEN age[k] ELSE 0) /\ idle'[k] \in {Off, idle[k]}
            /\ who'[k] = p
        BY <1>1, <1>3 DEF DialogueType, setService
      <3>2. age'[k] \in Nat /\ age'[k] <= AuthTimeout
        <4>1. CASE who[k] = Nobody
          <5>1. st[k] = "auth" /\ age'[k] = age[k] /\ timer[k] # Off /\ timer[k] + age[k] <= AuthTimeout
            <6>1. st[k] # "shell"
              BY <1>1, <4>1 DEF ConnOK
            <6> QED
              BY <1>1, <3>1, <4>1, <6>1, TimeoutAssumption DEF ConnOK
          <5> QED
            BY <1>1, <5>1, TimeoutAssumption DEF DialogueType
        <4>2. CASE who[k] # Nobody
          BY <3>1, <4>2, TimeoutAssumption
        <4> QED
          BY <4>1, <4>2
      <3>3. proto[k] = "ssh" \/ st[k] = "auth"
        OBVIOUS
      <3> QED
        BY <1>1, <1>3, <3>1, <3>2, <3>3, Limits, TimeoutAssumption
           DEF ConnOK, DialogueType, Off, SSHStates, TelnetStates
    <2> QED
      BY <2>1, <2>2, <2>3, OneConnection
  <1> QED
    BY <1>2, <1>3

\* A client that is logged in starts the service again, with its channels gone.
LEMMA ServiceDialogue ==
    ASSUME DialogueInv, NEW k \in Conns,
           ssh_SERVICE_REQUEST_connection(k) \/ ssh_SERVICE_REQUEST_userauth(k) \/ closed(k)
    PROVE  DialogueInv'
  <1>1. DialogueType /\ ConnOK(proto[k], st[k], echo[k], waits[k], timer[k], idle[k], age[k], who[k])
    BY DEF DialogueInv
  <1>2. CASE ssh_SERVICE_REQUEST_connection(k) /\ who[k] # Nobody
    BY <1>2, SSHLoginDialogue DEF ssh_SERVICE_REQUEST_connection
  <1>3. CASE ~(ssh_SERVICE_REQUEST_connection(k) /\ who[k] # Nobody)
    <2>1. PICK s : /\ s \in {"closing", "auth", "shell"} /\ (s = "shell" => s = st[k])
                   /\ DOMAIN st' = Conns /\ st'[k] = s /\ \A l \in Conns \ {k} : st'[l] = st[l]
                   /\ idle' = [idle EXCEPT ![k] = Off]
                   /\ UNCHANGED <<proto, echo, waits, timer, age, who>>
                   /\ proto[k] = "ssh" /\ st[k] \in {"auth", "shell"}
      <3>1. CASE ssh_SERVICE_REQUEST_connection(k)
        BY <1>1, <1>3, <3>1 DEF ssh_SERVICE_REQUEST_connection, loseConnection, DialogueType
      <3>2. CASE ssh_SERVICE_REQUEST_userauth(k)
        BY <1>1, <3>2 DEF ssh_SERVICE_REQUEST_userauth, DialogueType
      <3>3. CASE closed(k)
        BY <1>1, <3>3 DEF closed, DialogueType
      <3> QED
        BY <3>1, <3>2, <3>3
    <2>2. DialogueType'
      BY <1>1, <2>1 DEF DialogueType
    <2>3. \A l \in Conns \ {k} : /\ st'[l] = st[l] /\ echo'[l] = echo[l] /\ waits'[l] = waits[l]
                               /\ timer'[l] = timer[l] /\ idle'[l] = idle[l] /\ age'[l] = age[l]
                               /\ who'[l] = who[l]
      BY <1>1, <2>1 DEF DialogueType
    <2>4. ConnOK(proto[k], st'[k], echo'[k], waits'[k], timer'[k], idle'[k], age'[k], who'[k])
      <3>1. /\ st'[k] = s /\ idle'[k] = Off /\ age'[k] = age[k] /\ timer'[k] = timer[k]
            /\ who'[k] = who[k] /\ waits'[k] = waits[k]
        BY <1>1, <2>1 DEF DialogueType
      <3>2. st[k] = "shell" => who[k] # Nobody
        BY <1>1, <2>1 DEF ConnOK
      <3> QED
        BY <1>1, <2>1, <3>1, <3>2, Limits, TimeoutAssumption DEF ConnOK, Off, SSHStates
    <2> QED
      BY <2>1, <2>2, <2>3, <2>4, OneConnection
  <1> QED
    BY <1>2, <1>3

LEMMA connectionLost_loginDialogue ==
    ASSUME DialogueInv, NEW k \in Conns, connectionLost_login(k)
    PROVE  DialogueInv'
  <1>1. DialogueType /\ ConnOK(proto[k], st[k], echo[k], waits[k], timer[k], idle[k], age[k], who[k])
    BY DEF DialogueInv
  <1>2. PICK ok \in BOOLEAN : timer' = [timer EXCEPT ![k] = IF ok THEN IdleTimeout ELSE Off]
    BY DEF connectionLost_login
  <1>3. DialogueType' /\ proto' = proto
    BY <1>1, <1>2, TimeoutAssumption DEF DialogueType, connectionLost_login, Forget
  <1>4. \A l \in Conns \ {k} : /\ st'[l] = st[l] /\ echo'[l] = echo[l] /\ waits'[l] = waits[l]
                               /\ timer'[l] = timer[l] /\ idle'[l] = idle[l] /\ age'[l] = age[l]
                               /\ who'[l] = who[l]
    BY <1>1, <1>2 DEF DialogueType, connectionLost_login, Forget
  <1>5. ConnOK(proto[k], st'[k], echo'[k], waits'[k], timer'[k], idle'[k], age'[k], who'[k])
    <2>1. /\ st'[k] = "closed" /\ waits'[k] = Nobody /\ age'[k] = 0 /\ idle'[k] = idle[k]
          /\ who'[k] = Nobody
          /\ timer'[k] \in {IdleTimeout, Off}
      BY <1>1, <1>2 DEF DialogueType, connectionLost_login, Forget
    <2>2. proto[k] = "telnet" /\ idle[k] = Off
      BY <1>1 DEF ConnOK, connectionLost_login
    <2> QED
      BY <2>1, <2>2, Limits, TimeoutAssumption DEF ConnOK, TelnetStates, Off
  <1> QED
    BY <1>3, <1>4, <1>5, OneConnection

\* The login that waits for the answer to WONT waits because ECHO is on.
LEMMA telnet_PasswordDialogue ==
    ASSUME DialogueInv, NEW k \in Conns, NEW p \in Pairs, telnet_Password(k, p)
    PROVE  DialogueInv'
  <1> DEFINE e == _chainNegotiation(echo[k], "wont")
  <1>1. DialogueType /\ ConnOK(proto[k], st[k], echo[k], waits[k], timer[k], idle[k], age[k], who[k])
    BY DEF DialogueInv
  <1>2. CASE e.neg /\ ~echo[k].neg
    <2>1. /\ echo' = [echo EXCEPT ![k] = e] /\ waits' = [waits EXCEPT ![k] = p]
          /\ st' = [st EXCEPT ![k] = "Discard"] /\ timer' = timer /\ idle' = idle
          /\ proto' = proto /\ age' = age /\ who' = who
          /\ proto[k] = "telnet" /\ st[k] = "Password"
      BY <1>2 DEF telnet_Password
    <2>2. e.neg /\ e.on
      BY <1>2 DEF _chainNegotiation, Moot
    <2> HIDE DEF e
    <2>3. DialogueType'
      BY <1>1, <2>1 DEF DialogueType
    <2>4. \A l \in Conns \ {k} : /\ st'[l] = st[l] /\ echo'[l] = echo[l] /\ waits'[l] = waits[l]
                               /\ timer'[l] = timer[l] /\ idle'[l] = idle[l] /\ age'[l] = age[l]
                               /\ who'[l] = who[l]
      BY <1>1, <2>1 DEF DialogueType
    <2>5. ConnOK(proto[k], st'[k], echo'[k], waits'[k], timer'[k], idle'[k], age'[k], who'[k])
      <3>1. st'[k] = "Discard" /\ echo'[k] = e
        BY <1>1, <2>1 DEF DialogueType
      <3> QED
        BY <1>1, <2>1, <2>2, <3>1 DEF ConnOK, TelnetStates
    <2> QED
      BY <2>1, <2>3, <2>4, <2>5, OneConnection
  <1>3. CASE ~(e.neg /\ ~echo[k].neg)
    <2>1. /\ login(k, p, e) /\ waits' = waits /\ proto' = proto /\ age' = age
          /\ proto[k] = "telnet" /\ st[k] = "Password"
      BY <1>3 DEF telnet_Password
    <2>2. waits'[k] = Nobody
      BY <1>1, <2>1 DEF ConnOK
    <2> QED
      BY <2>1, <2>2, LoginStep
  <1> QED
    BY <1>2, <1>3

LEMMA telnet_DONT_loginDialogue ==
    ASSUME DialogueInv, NEW k \in Conns, telnet_DONT_login(k)
    PROVE  DialogueInv'
  <1>1. DialogueType /\ ConnOK(proto[k], st[k], echo[k], waits[k], timer[k], idle[k], age[k], who[k])
    BY DEF DialogueInv
  <1>2. waits[k] \in Pairs /\ st[k] = "Discard"
    BY <1>1 DEF DialogueType, ConnOK, telnet_DONT_login, Connected
  <1>3. waits'[k] = Nobody
    BY <1>1 DEF DialogueType, telnet_DONT_login
  <1> QED
    BY <1>2, <1>3, LoginStep DEF telnet_DONT_login

\* Time passes only while every time limit that runs is still positive.
LEMMA TickDialogue ==
    ASSUME DialogueInv, Tick
    PROVE  DialogueInv'
  <1>1. ASSUME NEW k \in Conns
        PROVE  /\ timer[k] \in Nat \cup {Off} /\ idle[k] \in Nat \cup {Off} /\ age[k] \in Nat
               /\ timer[k] # 0 /\ idle[k] # 0
               /\ timer'[k] = IF timer[k] = Off THEN Off ELSE timer[k] - 1
               /\ idle'[k] = IF idle[k] = Off THEN Off ELSE idle[k] - 1
               /\ age'[k] = IF st[k] \notin {"closing", "closed"} THEN age[k] + 1 ELSE age[k]
               /\ ConnOK(proto[k], st[k], echo[k], waits[k], timer[k], idle[k], age[k], who[k])
    BY DEF Tick, DialogueInv, DialogueType, Connected
  <1>2. ASSUME NEW k \in Conns
        PROVE  /\ timer'[k] \in Nat \cup {Off} /\ idle'[k] \in Nat \cup {Off} /\ age'[k] \in Nat
               /\ ConnOK(proto[k], st[k], echo[k], waits[k], timer'[k], idle'[k], age'[k], who[k])
    BY <1>1, Limits, TimeoutAssumption DEF ConnOK, Off
  <1>3. UNCHANGED <<proto, st, echo, waits, who>>
    BY DEF Tick
  <1>4. DialogueType'
    <2>1. timer' \in [Conns -> Nat \cup {Off}] /\ idle' \in [Conns -> Nat \cup {Off}] /\ age' \in [Conns -> Nat]
      BY <1>2 DEF Tick
    <2> QED
      BY <1>3, <2>1 DEF DialogueInv, DialogueType
  <1> QED
    BY <1>2, <1>3, <1>4 DEF DialogueInv

LEMMA CrashDialogue ==
    ASSUME DialogueInv, Crash
    PROVE  DialogueInv'
  <1>1. DialogueType'
    BY DEF DialogueInv, DialogueType, Crash
  <1>2. ASSUME NEW k \in Conns
        PROVE  ConnOK(proto'[k], st'[k], echo'[k], waits'[k], timer'[k], idle'[k], age'[k], who'[k])
    BY Limits, TimeoutAssumption
       DEF ConnOK, Crash, DialogueInv, DialogueType, Off, SSHStates, TelnetStates
  <1> QED
    BY <1>1, <1>2 DEF DialogueInv

LEMMA DialogueInit == Init => DialogueInv
  <1> SUFFICES ASSUME Init PROVE DialogueInv
    OBVIOUS
  <1>1. config.enabled \subseteq {"ssh", "telnet"}
    BY ConfigAssumption DEF Init
  <1>2. DialogueType
    BY <1>1 DEF Init, DialogueType
  <1>3. ASSUME NEW k \in Conns
        PROVE  ConnOK(proto[k], st[k], echo[k], waits[k], timer[k], idle[k], age[k], who[k])
    BY <1>2, Limits, TimeoutAssumption DEF Init, DialogueType, ConnOK, Off, SSHStates, TelnetStates
  <1> QED
    BY <1>2, <1>3 DEF DialogueInv

LEMMA DialogueStep == DialogueInv /\ [Next]_vars => DialogueInv'
  <1> SUFFICES ASSUME DialogueInv, [Next]_vars PROVE DialogueInv'
    OBVIOUS
  <1>1. CASE UNCHANGED dialogue
    BY <1>1 DEF dialogue, DialogueInv, DialogueType
  <1>2. CASE Tick \/ Crash
    BY <1>2, TickDialogue, CrashDialogue
  <1>3. ASSUME NEW k \in Conns,
               \/ connectionMade(k) \/ connectionLost(k) \/ connectionLost_login(k)
               \/ timeoutConnection(k) \/ timeoutShell(k)
        PROVE  DialogueInv'
    BY <1>3, connectionMadeDialogue, connectionLostDialogue, connectionLost_loginDialogue,
       timeoutConnectionDialogue, timeoutShellDialogue
  <1>4. ASSUME NEW k \in Conns, NEW b \in BOOLEAN, dataReceived(k, b)
        PROVE  DialogueInv'
    BY <1>4, dataReceivedDialogue
  <1>5. ASSUME NEW k \in Conns, auth_none(k) \/ auth_publickey(k)
        PROVE  DialogueInv'
    BY <1>5, SSHLoginDialogue DEF auth_none, auth_publickey, Nobody
  <1>6. ASSUME NEW k \in Conns, auth_keyboard_interactive(k) \/ openShell(k) \/ characterReceived(k)
        PROVE  DialogueInv'
    BY <1>6, auth_keyboard_interactiveDialogue, openShellDialogue, characterReceivedDialogue
  <1>7. ASSUME NEW k \in Conns,
               telnet_User(k) \/ telnet_DO(k) \/ telnet_DONT(k) \/ telnet_DONT_login(k)
        PROVE  DialogueInv'
    BY <1>7, telnet_UserDialogue, telnet_DODialogue, telnet_DONTDialogue, telnet_DONT_loginDialogue
  <1>8. ASSUME NEW k \in Conns, NEW p \in Pairs, auth_password(k, p)
        PROVE  DialogueInv'
    <2>1. (setService(k, p) /\ p # Nobody) \/ Refused
      BY <1>8, NotAPair DEF auth_password
    <2> QED
      BY <1>8, <2>1, SSHLoginDialogue DEF auth_password
  <1>9. ASSUME NEW k \in Conns, NEW p \in Pairs, telnet_Password(k, p)
        PROVE  DialogueInv'
    BY <1>9, telnet_PasswordDialogue
  <1>10. ASSUME NEW k \in Conns, NEW q \in Pairs, NEW r \in Pairs,
                ssh_USERAUTH_INFO_RESPONSE(k, <<q, r>>)
         PROVE  DialogueInv'
    <2>1. PICK p : (setService(k, p) /\ p # Nobody) \/ Refused
      <3>1. PICK ok \in BOOLEAN, p \in Pairs \cup {Nobody} :
                cbCheckPamUser(k, <<q, r>>, ok, p) /\ IF ok THEN setService(k, p) ELSE Refused
        BY <1>10 DEF ssh_USERAUTH_INFO_RESPONSE
      <3>2. ok => p \in Pairs
        <4>1. PICK drawn, a, b :
                  /\ drawn \in Needs
                  /\ a = Try(k, q, drawn, NoAnswer) /\ b = Try(k, r, drawn, a)
                  /\ ok = b.auth /\ p = b.pair
          BY <3>1, PamAnswers
        <4>2. b.auth => b.pair \in Pairs
          BY <4>1, PamPair
        <4> QED
          BY <4>1, <4>2
      <3> QED
        BY <3>1, <3>2, NotAPair
    <2> QED
      BY <1>10, <2>1, SSHLoginDialogue DEF ssh_USERAUTH_INFO_RESPONSE
  <1>11. ASSUME NEW k \in Conns, NEW h \in Hosts, Request(k, h)
         PROVE  DialogueInv'
    BY <1>1, <1>11 DEF Request
  <1>12. ASSUME NEW k \in Conns,
                ssh_SERVICE_REQUEST_connection(k) \/ ssh_SERVICE_REQUEST_userauth(k) \/ closed(k)
         PROVE  DialogueInv'
    BY <1>12, ServiceDialogue
  <1> QED
    BY <1>1, <1>2, <1>3, <1>4, <1>5, <1>6, <1>7, <1>8, <1>9, <1>10, <1>11, <1>12 DEF Next, vars

-----------------------------------------------------------------------------
(* AuthRandom *)

Infos == [tries : Nat, need : Nat, tried : SUBSET Pairs, pair : Pairs \cup {NoPair}]
Vars == [cache : Seq(Pairs), info : [Ips -> Infos]]

\* While an address was not let in yet, the pairs it tried are all different and
\* fewer than it needs.
InfoOK(i) ==
    /\ i.need = 0 => i.pair = NoPair /\ i.tries = 0 /\ i.tried = {}
    /\ i.pair = NoPair => /\ IsFiniteSet(i.tried) /\ Cardinality(i.tried) = i.tries
                          /\ i.need # 0 => i.need \in Needs /\ i.tries < i.need

VarsOK(uv) ==
    uv \in Vars /\ Len(uv.cache) <= MaxCache /\ \A i \in Ips : InfoOK(uv.info[i])

\* What EnoughTries says of one attempt.
Earned(old, new, cache) ==
    old.pair = NoPair /\ new.pair # NoPair /\ new.pair \notin {cache[j] : j \in DOMAIN cache} =>
       Cardinality(new.tried \cup {new.pair}) = new.need /\ new.need \in Needs

VarsStep(old, new) ==
    VarsOK(new) /\ \A i \in Ips : Earned(old.info[i], new.info[i], old.cache)

LEMMA NeedsPositive == ASSUME NEW n \in Needs PROVE n \in Nat \ {0}
  BY AuthAssumption DEF Needs

LEMMA CachedOK ==
    ASSUME NEW c \in Seq(Pairs), Len(c) <= MaxCache, NEW p \in Pairs
    PROVE  Cached(c, p) \in Seq(Pairs) /\ Len(Cached(c, p)) <= MaxCache
  <1>1. Append(c, p) \in Seq(Pairs) /\ Len(Append(c, p)) = Len(c) + 1 /\ Len(c) \in Nat
    OBVIOUS
  <1>2. CASE Len(Append(c, p)) > MaxCache
    <2>1. Tail(Append(c, p)) \in Seq(Pairs) /\ Len(Tail(Append(c, p))) = Len(c)
      BY <1>1
    <2> QED
      BY <1>2, <2>1 DEF Cached
  <1>3. CASE ~(Len(Append(c, p)) > MaxCache)
    BY <1>1, <1>3, AuthAssumption DEF Cached
  <1> QED
    BY <1>2, <1>3

\* What an attempt writes back: the cache and what is known of one address.
LEMMA Written ==
    ASSUME NEW uv, VarsOK(uv), NEW i \in Ips, NEW c \in Seq(Pairs), Len(c) <= MaxCache,
           NEW j \in Infos, InfoOK(j), Earned(uv.info[i], j, uv.cache),
           NEW new, new = [cache |-> c, info |-> [uv.info EXCEPT ![i] = j]]
    PROVE  VarsStep(uv, new)
  <1>1. uv \in Vars /\ uv.info \in [Ips -> Infos] /\ new.cache = c
    BY DEF VarsOK, Vars
  <1>2. new \in Vars
    BY <1>1 DEF Vars
  <1>3. ASSUME NEW l \in Ips
        PROVE  InfoOK(new.info[l]) /\ Earned(uv.info[l], new.info[l], uv.cache)
    <2>1. CASE l = i
      <3>1. new.info[l] = j
        BY <1>1, <2>1
      <3> QED
        BY <2>1, <3>1
    <2>2. CASE l # i
      <3>1. new.info[l] = uv.info[l]
        BY <1>1, <2>2
      <3> QED
        BY <3>1 DEF VarsOK, Earned
    <2> QED
      BY <2>1, <2>2
  <1> QED
    BY <1>1, <1>2, <1>3 DEF VarsStep, VarsOK

\* An attempt counts the different pairs of an address; one that is refused
\* leaves the cache alone, and whoever was not let in yet still is not.
LEMMA checkloginStep ==
    ASSUME NEW uv, VarsOK(uv), NEW i \in Ips, NEW p \in Pairs, NEW drawn \in Needs, NEW r,
           r = checklogin(uv, i, p, drawn)
    PROVE  /\ VarsStep(uv, r.vars) /\ r.auth \in BOOLEAN
           /\ ~r.auth => /\ r.vars.cache = uv.cache
                         /\ \A l \in Ips : uv.info[l].pair = NoPair => r.vars.info[l].pair = NoPair
  <1>1. /\ uv.info \in [Ips -> Infos] /\ uv.info[i] \in Infos /\ uv.cache \in Seq(Pairs)
        /\ Len(uv.cache) <= MaxCache /\ InfoOK(uv.info[i])
    BY DEF VarsOK, Vars
  <1>2. PICK info : info = IF uv.info[i].need = 0 THEN [NoInfo EXCEPT !.need = drawn] ELSE uv.info[i]
    OBVIOUS
  <1>3. /\ info \in Infos /\ info.pair = uv.info[i].pair /\ info.need # 0
        /\ info.pair = NoPair => /\ IsFiniteSet(info.tried) /\ Cardinality(info.tried) = info.tries
                                 /\ info.need \in Needs /\ info.tries < info.need
    <2>1. CASE uv.info[i].need = 0
      <3>1. info = [tries |-> 0, need |-> drawn, tried |-> {}, pair |-> NoPair]
        BY <1>2, <2>1 DEF NoInfo
      <3>2. IsFiniteSet({}) /\ Cardinality({}) = 0 /\ drawn \in Nat \ {0}
        BY FS_EmptySet, NeedsPositive
      <3> QED
        BY <1>1, <2>1, <3>1, <3>2 DEF Infos, InfoOK
    <2>2. CASE uv.info[i].need # 0
      BY <1>1, <1>2, <2>2 DEF InfoOK
    <2> QED
      BY <2>1, <2>2
  <1> DEFINE known == p \in Range(uv.cache)
             n == info.tries + 1
             Keep(j, cache, ok) == [vars |-> [cache |-> cache, info |-> [uv.info EXCEPT ![i] = j]],
                                    auth |-> ok]
             more == [info EXCEPT !.tries = n, !.tried = @ \cup {p}]
  <1>4. r = CASE known -> Keep([info EXCEPT !.need = 1, !.pair = p], uv.cache, TRUE)
              [] ~known /\ p \in info.tried -> Keep(info, uv.cache, FALSE)
              [] ~known /\ p \notin info.tried /\ n < info.need ->
                   Keep(more, uv.cache, FALSE)
              [] ~known /\ p \notin info.tried /\ n = info.need ->
                   Keep([info EXCEPT !.tries = n, !.pair = p], Cached(uv.cache, p), TRUE)
              [] OTHER -> Keep([info EXCEPT !.tries = n], uv.cache, FALSE)
    BY <1>2 DEF checklogin
  <1> HIDE DEF known, more
  <1>5. ASSUME NEW j \in Infos, InfoOK(j), Earned(uv.info[i], j, uv.cache),
               NEW c \in Seq(Pairs), Len(c) <= MaxCache, NEW ok \in BOOLEAN, r = Keep(j, c, ok),
               ~ok => c = uv.cache /\ j.pair = info.pair
        PROVE  /\ VarsStep(uv, r.vars) /\ r.auth \in BOOLEAN
               /\ ~r.auth => /\ r.vars.cache = uv.cache
                             /\ \A l \in Ips : uv.info[l].pair = NoPair => r.vars.info[l].pair = NoPair
    <2>1. r.vars = [cache |-> c, info |-> [uv.info EXCEPT ![i] = j]] /\ r.auth = ok
      BY <1>5
    <2>2. VarsStep(uv, r.vars)
      BY <1>5, <2>1, Written
    <2>3. ~ok => \A l \in Ips : uv.info[l].pair = NoPair => r.vars.info[l].pair = NoPair
      BY <1>1, <1>3, <1>5, <2>1
    <2> QED
      BY <1>5, <2>1, <2>2, <2>3
  <1>6. info.tries \in Nat /\ info.need \in Nat /\ n \in Nat /\ info.tried \in SUBSET Pairs
    BY <1>3 DEF Infos
  <1>7. p # NoPair
    BY NobodyAssumption DEF NoPair
  <1>8. CASE known
    <2>1. PICK j : j = [info EXCEPT !.need = 1, !.pair = p]
      OBVIOUS
    <2>2. j \in Infos /\ j.need = 1 /\ j.pair = p
      BY <1>3, <2>1 DEF Infos
    <2>3. p \in {uv.cache[l] : l \in DOMAIN uv.cache}
      BY <1>8 DEF known, Range
    <2>4. InfoOK(j) /\ Earned(uv.info[i], j, uv.cache)
      BY <1>7, <2>2, <2>3 DEF InfoOK, Earned
    <2>5. r = Keep(j, uv.cache, TRUE)
      BY <1>4, <1>8, <2>1
    <2> QED
      BY <1>1, <1>5, <2>2, <2>4, <2>5
  <1>9. CASE ~known /\ p \in info.tried
    <2>1. r = Keep(info, uv.cache, FALSE)
      BY <1>4, <1>9
    <2>2. InfoOK(info) /\ Earned(uv.info[i], info, uv.cache)
      BY <1>3 DEF InfoOK, Earned
    <2> QED
      BY <1>1, <1>3, <1>5, <2>1, <2>2
  <1>10. CASE ~known /\ p \notin info.tried /\ n < info.need
    <2>1. PICK j : j = more
      OBVIOUS
    <2>2. /\ j \in Infos /\ j.tries = n /\ j.tried = info.tried \cup {p}
          /\ j.need = info.need /\ j.pair = info.pair
      BY <1>3, <1>6, <2>1 DEF Infos, more
    <2>3. info.pair = NoPair => IsFiniteSet(j.tried) /\ Cardinality(j.tried) = n
      BY <1>3, <1>6, <1>10, <2>2, FS_AddElement
    <2>4. InfoOK(j) /\ Earned(uv.info[i], j, uv.cache)
      BY <1>3, <1>10, <2>2, <2>3 DEF InfoOK, Earned
    <2>5. r = Keep(j, uv.cache, FALSE)
      <3>1. n # info.need
        BY <1>6, <1>10
      <3> QED
        BY <1>4, <1>10, <2>1, <3>1
    <2> QED
      BY <1>1, <1>5, <2>2, <2>4, <2>5
  <1>11. CASE ~known /\ p \notin info.tried /\ n = info.need
    <2>1. PICK j : j = [info EXCEPT !.tries = n, !.pair = p]
      OBVIOUS
    <2>2. /\ j \in Infos /\ j.tried = info.tried /\ j.need = info.need /\ j.pair = p
      BY <1>3, <1>6, <2>1 DEF Infos
    <2>3. info.pair = NoPair => Cardinality(j.tried \cup {p}) = n
      <3>1. info.pair = NoPair => Cardinality(info.tried \cup {p}) = Cardinality(info.tried) + 1
        BY <1>3, <1>11, FS_AddElement
      <3> QED
        BY <1>3, <1>6, <2>2, <3>1
    <2>4. InfoOK(j) /\ Earned(uv.info[i], j, uv.cache)
      BY <1>3, <1>7, <1>11, <2>2, <2>3 DEF InfoOK, Earned
    <2>5. r = Keep(j, Cached(uv.cache, p), TRUE)
      <3>1. ~(n < info.need)
        BY <1>6, <1>11
      <3> QED
        BY <1>4, <1>11, <2>1, <3>1
    <2>6. Cached(uv.cache, p) \in Seq(Pairs) /\ Len(Cached(uv.cache, p)) <= MaxCache
      BY <1>1, CachedOK
    <2> QED
      BY <1>5, <2>2, <2>4, <2>5, <2>6
  <1>12. CASE ~known /\ p \notin info.tried /\ n > info.need
    <2>1. PICK j : j = [info EXCEPT !.tries = n]
      OBVIOUS
    <2>2. /\ j \in Infos /\ j.need = info.need /\ j.pair = info.pair
      BY <1>3, <1>6, <2>1 DEF Infos
    <2>3. info.pair # NoPair
      BY <1>3, <1>6, <1>12
    <2>4. InfoOK(j) /\ Earned(uv.info[i], j, uv.cache)
      BY <1>3, <2>2, <2>3 DEF InfoOK, Earned
    <2>5. r = Keep(j, uv.cache, FALSE)
      <3>1. ~(n < info.need) /\ n # info.need
        BY <1>6, <1>12
      <3> QED
        BY <1>4, <1>12, <2>1, <3>1
    <2> QED
      BY <1>1, <1>5, <2>2, <2>4, <2>5
  <1> QED
    <2>1. n < info.need \/ n = info.need \/ n > info.need
      BY <1>6
    <2> QED
      BY <1>8, <1>9, <1>10, <1>11, <1>12, <2>1

LEMMA NothingTried == ASSUME NEW uv, VarsOK(uv) PROVE VarsStep(uv, uv)
  BY DEF VarsStep, Earned

LEMMA NoVarsStep == ASSUME NEW uv PROVE VarsOK(NoVars) /\ VarsStep(uv, NoVars)
  <1>1. NoInfo \in Infos /\ NoInfo.need = 0 /\ NoInfo.pair = NoPair /\ NoInfo.tries = 0 /\ NoInfo.tried = {}
    BY DEF NoInfo, Infos
  <1>2. IsFiniteSet({}) /\ Cardinality({}) = 0
    BY FS_EmptySet
  <1>3. NoVars \in Vars /\ NoVars.cache = <<>> /\ \A i \in Ips : NoVars.info[i] = NoInfo
    BY <1>1 DEF NoVars, Vars
  <1>4. InfoOK(NoInfo) /\ Len(<<>>) <= MaxCache
    BY <1>1, <1>2, AuthAssumption DEF InfoOK
  <1> QED
    BY <1>1, <1>3, <1>4 DEF VarsOK, VarsStep, Earned

\* One pair is checked: what UserDB decides, and what AuthRandom writes.
LEMMA checkUserPassStep ==
    ASSUME VarsOK(uservar), ip \in [Conns -> Ips], NEW k \in Conns, NEW p \in Pairs,
           NEW ok, checkUserPass(k, p, ok)
    PROVE  /\ VarsStep(uservar, uservar')
           /\ config.class = "UserDB" => ok = checklogin_UserDB(load(rules), p)
  <1>1. CASE config.class = "UserDB"
    BY <1>1, NothingTried DEF checkUserPass
  <1>2. CASE config.class # "UserDB"
    <2>1. PICK drawn \in Needs : uservar' = checklogin(uservar, ip[k], p, drawn).vars
      BY <1>2 DEF checkUserPass
    <2>2. ip[k] \in Ips
      OBVIOUS
    <2>3. VarsStep(uservar, checklogin(uservar, ip[k], p, drawn).vars)
      BY <2>2, checkloginStep
    <2> QED
      BY <1>2, <2>1, <2>3
  <1> QED
    BY <1>1, <1>2

\* What the answers tried so far came to.
TriedOK(acc) ==
    /\ VarsStep(uservar, acc.vars)
    /\ ~acc.auth => /\ acc.vars.cache = uservar.cache
                    /\ \A l \in Ips : uservar.info[l].pair = NoPair => acc.vars.info[l].pair = NoPair
    /\ acc.auth => (config.class = "UserDB" => checklogin_UserDB(load(rules), acc.pair))

LEMMA TryStep ==
    ASSUME VarsOK(uservar), ip \in [Conns -> Ips], NEW k \in Conns, NEW q \in Pairs,
           NEW drawn \in Needs, NEW acc, TriedOK(acc)
    PROVE  TriedOK(Try(k, q, drawn, acc))
  <1>1. CASE acc.auth
    BY <1>1 DEF Try
  <1>2. CASE ~acc.auth /\ config.class = "UserDB"
    <2>1. PICK a : a = Try(k, q, drawn, acc)
      OBVIOUS
    <2>2. a.vars = acc.vars /\ a.pair = q /\ (a.auth <=> checklogin_UserDB(load(rules), q))
      BY <1>2, <2>1 DEF Try
    <2> QED
      BY <1>2, <2>1, <2>2 DEF TriedOK
  <1>3. CASE ~acc.auth /\ config.class # "UserDB"
    <2>1. PICK r : r = checklogin(acc.vars, ip[k], q, drawn)
      OBVIOUS
    <2>2. PICK a : a = Try(k, q, drawn, acc)
      OBVIOUS
    <2>3. a.vars = r.vars /\ a.auth = r.auth
      BY <1>3, <2>1, <2>2 DEF Try
    <2>4. VarsOK(acc.vars)
      BY DEF TriedOK, VarsStep
    <2>5. ip[k] \in Ips
      OBVIOUS
    <2>6. /\ VarsStep(acc.vars, r.vars)
          /\ ~r.auth => /\ r.vars.cache = acc.vars.cache
                        /\ \A l \in Ips : acc.vars.info[l].pair = NoPair => r.vars.info[l].pair = NoPair
      BY <2>1, <2>4, <2>5, checkloginStep
    <2>7. VarsStep(uservar, r.vars)
      BY <1>3, <2>6 DEF TriedOK, VarsStep, Earned
    <2> QED
      BY <1>3, <2>2, <2>3, <2>6, <2>7 DEF TriedOK
  <1> QED
    BY <1>1, <1>2, <1>3

LEMMA cbCheckPamUserStep ==
    ASSUME VarsOK(uservar), ip \in [Conns -> Ips], NEW k \in Conns, NEW p \in Pairs, NEW q \in Pairs,
           NEW ok, NEW pair, cbCheckPamUser(k, <<p, q>>, ok, pair)
    PROVE  /\ VarsStep(uservar, uservar')
           /\ ok => (config.class = "UserDB" => checklogin_UserDB(load(rules), pair))
  <1>1. PICK drawn, a, b :
            /\ drawn \in Needs
            /\ a = Try(k, p, drawn, NoAnswer) /\ b = Try(k, q, drawn, a)
            /\ ok = b.auth /\ pair = b.pair /\ uservar' = b.vars
    BY PamAnswers
  <1>2. TriedOK(NoAnswer)
    BY NothingTried DEF TriedOK, NoAnswer
  <1>3. TriedOK(a)
    BY <1>1, <1>2, TryStep
  <1>4. TriedOK(b)
    BY <1>1, <1>3, TryStep
  <1> QED
    BY <1>1, <1>4 DEF TriedOK

-----------------------------------------------------------------------------
(* Who was let in *)

\* Every session of the user database was let in by checklogin.
WhoOK(w) ==
    /\ DOMAIN w = Conns
    /\ \A k \in Conns : w[k] \in Pairs /\ config.class = "UserDB" => checklogin_UserDB(load(rules), w[k])

AuthInv ==
    /\ VarsOK(uservar) /\ ip \in [Conns -> Ips] /\ WhoOK(who)
    /\ config \in Configs
    /\ config.class = "UserDB" => rules \in RuleFiles

\* At most one connection is logged in, or forgotten, by a step.
LEMMA OneWho ==
    ASSUME WhoOK(who), NEW k \in Conns, NEW p, NEW w, w = [who EXCEPT ![k] = p],
           p \in Pairs /\ config.class = "UserDB" => checklogin_UserDB(load(rules), p)
    PROVE  WhoOK(w)
  BY DEF WhoOK

LEMMA AuthStep ==
    ASSUME AuthInv, UNCHANGED <<config, rules, ip>>, VarsStep(uservar, uservar'), WhoOK(who')
    PROVE  AuthInv'
  <1>1. WhoOK(who)'
    BY DEF WhoOK
  <1> QED
    BY <1>1 DEF AuthInv, VarsStep

LEMMA SSHAuth ==
    ASSUME AuthInv, NEW k \in Conns, NEW p, NEW ok \in BOOLEAN,
           IF ok THEN setService(k, p) ELSE Refused,
           ok => (p \in Pairs /\ config.class = "UserDB" => checklogin_UserDB(load(rules), p))
    PROVE  WhoOK(who')
  <1>1. CASE ok
    BY <1>1, OneWho DEF AuthInv, setService
  <1>2. CASE ~ok
    BY <1>2 DEF AuthInv, Refused
  <1> QED
    BY <1>1, <1>2

LEMMA TelnetAuth ==
    ASSUME AuthInv, NEW k \in Conns, NEW p \in Pairs, NEW e, login(k, p, e)
    PROVE  VarsStep(uservar, uservar') /\ WhoOK(who')
  <1>1. PICK ok \in BOOLEAN :
            checkUserPass(k, p, ok) /\ who' = [who EXCEPT ![k] = IF ok THEN p ELSE @]
    BY DEF login
  <1>2. /\ VarsStep(uservar, uservar')
        /\ config.class = "UserDB" => ok = checklogin_UserDB(load(rules), p)
    BY <1>1, checkUserPassStep DEF AuthInv
  <1>3. CASE ok
    <2>1. who' = [who EXCEPT ![k] = p]
      BY <1>1, <1>3
    <2> QED
      BY <1>2, <1>3, <2>1, OneWho DEF AuthInv
  <1>4. CASE ~ok
    <2>1. who' = [who EXCEPT ![k] = who[k]]
      BY <1>1, <1>4
    <2>2. WhoOK(who) /\ (who[k] \in Pairs /\ config.class = "UserDB" => checklogin_UserDB(load(rules), who[k]))
      BY DEF AuthInv, WhoOK
    <2> QED
      BY <1>2, <2>1, <2>2, OneWho
  <1> QED
    BY <1>1, <1>3, <1>4

LEMMA AuthNext ==
    ASSUME AuthInv, DialogueInv, [Next]_vars
    PROVE  AuthInv' /\ VarsStep(uservar, uservar')
  <1>0. UNCHANGED <<config, rules, ip>>
    <2>1. ASSUME NEW k \in Conns,
                 \/ connectionMade(k) \/ connectionLost(k) \/ connectionLost_login(k)
                 \/ timeoutConnection(k) \/ timeoutShell(k) \/ auth_none(k) \/ auth_publickey(k)
                 \/ auth_keyboard_interactive(k) \/ openShell(k) \/ telnet_User(k) \/ telnet_DO(k)
                 \/ telnet_DONT(k) \/ telnet_DONT_login(k) \/ characterReceived(k)
                 \/ closed(k) \/ ssh_SERVICE_REQUEST_connection(k) \/ ssh_SERVICE_REQUEST_userauth(k)
                 \/ \E b \in BOOLEAN : dataReceived(k, b)
          PROVE  UNCHANGED <<config, rules, ip>>
      BY <2>1, Zenon DEF connectionMade, connectionLost, connectionLost_login, timeoutConnection,
         timeoutShell, auth_none, auth_publickey, auth_keyboard_interactive, openShell, telnet_User,
         telnet_DO, telnet_DONT, telnet_DONT_login, characterReceived, dataReceived, closed,
         ssh_SERVICE_REQUEST_connection, ssh_SERVICE_REQUEST_userauth
    <2>2. ASSUME NEW k \in Conns, NEW p, NEW q, NEW h,
                 \/ auth_password(k, p) \/ telnet_Password(k, p)
                 \/ ssh_USERAUTH_INFO_RESPONSE(k, q) \/ Request(k, h)
          PROVE  UNCHANGED <<config, rules, ip>>
      BY <2>2 DEF auth_password, telnet_Password, ssh_USERAUTH_INFO_RESPONSE, Request, dialogue
    <2>3. Crash \/ Tick \/ UNCHANGED vars => UNCHANGED <<config, rules, ip>>
      BY DEF Crash, Tick, vars, dialogue
    <2> QED
      BY <2>1, <2>2, <2>3 DEF Next
  <1> SUFFICES VarsStep(uservar, uservar') /\ WhoOK(who')
    BY <1>0, AuthStep
  <1>1. VarsOK(uservar) /\ ip \in [Conns -> Ips] /\ WhoOK(who) /\ VarsStep(uservar, uservar)
    BY NothingTried DEF AuthInv
  <1>2. CASE UNCHANGED <<uservar, who>>
    BY <1>1, <1>2
  <1>3. CASE Crash
    <2>1. WhoOK(who')
      BY <1>3, NotAPair DEF Crash, WhoOK
    <2> QED
      BY <1>3, <2>1, NoVarsStep DEF Crash
  <1>4. ASSUME NEW k \in Conns, connectionLost(k)
        PROVE  VarsStep(uservar, uservar') /\ WhoOK(who')
    BY <1>1, <1>4, OneWho, NotAPair DEF connectionLost, Forget
  <1>5. ASSUME NEW k \in Conns, connectionLost_login(k)
        PROVE  VarsStep(uservar, uservar') /\ WhoOK(who')
    <2>1. waits[k] \in Pairs
      BY <1>5 DEF connectionLost_login, DialogueInv, DialogueType
    <2>2. PICK ok \in BOOLEAN : checkUserPass(k, waits[k], ok)
      BY <1>5 DEF connectionLost_login
    <2>3. WhoOK(who')
      BY <1>1, <1>5, OneWho, NotAPair DEF connectionLost_login, Forget
    <2> QED
      BY <1>1, <2>1, <2>2, <2>3, checkUserPassStep
  <1>6. ASSUME NEW k \in Conns, auth_none(k) \/ auth_publickey(k)
        PROVE  VarsStep(uservar, uservar') /\ WhoOK(who')
    BY <1>1, <1>6, OneWho, NotAPair DEF auth_none, auth_publickey, setService
  <1>7. ASSUME NEW k \in Conns, NEW p \in Pairs, auth_password(k, p)
        PROVE  VarsStep(uservar, uservar') /\ WhoOK(who')
    <2>1. PICK ok \in BOOLEAN : checkUserPass(k, p, ok) /\ IF ok THEN setService(k, p) ELSE Refused
      BY <1>7 DEF auth_password
    <2>2. /\ VarsStep(uservar, uservar')
          /\ config.class = "UserDB" => ok = checklogin_UserDB(load(rules), p)
      BY <1>1, <2>1, checkUserPassStep
    <2> QED
      BY <2>1, <2>2, SSHAuth
  <1>8. ASSUME NEW k \in Conns, NEW p \in Pairs, NEW q \in Pairs, ssh_USERAUTH_INFO_RESPONSE(k, <<p, q>>)
        PROVE  VarsStep(uservar, uservar') /\ WhoOK(who')
    <2>1. PICK ok \in BOOLEAN, pair \in Pairs \cup {Nobody} :
              cbCheckPamUser(k, <<p, q>>, ok, pair) /\ IF ok THEN setService(k, pair) ELSE Refused
      BY <1>8 DEF ssh_USERAUTH_INFO_RESPONSE
    <2>2. /\ VarsStep(uservar, uservar')
          /\ ok => (config.class = "UserDB" => checklogin_UserDB(load(rules), pair))
      BY <1>1, <2>1, cbCheckPamUserStep
    <2> QED
      BY <2>1, <2>2, SSHAuth
  <1>9. ASSUME NEW k \in Conns, telnet_DONT_login(k)
        PROVE  VarsStep(uservar, uservar') /\ WhoOK(who')
    <2>1. waits[k] \in Pairs
      BY <1>9 DEF telnet_DONT_login, DialogueInv, DialogueType
    <2> QED
      BY <1>9, <2>1, TelnetAuth DEF telnet_DONT_login
  <1>10. ASSUME NEW k \in Conns, NEW p \in Pairs, telnet_Password(k, p)
         PROVE  VarsStep(uservar, uservar') /\ WhoOK(who')
    <2>1. login(k, p, _chainNegotiation(echo[k], "wont")) \/ UNCHANGED <<uservar, who>>
      BY <1>10 DEF telnet_Password
    <2> QED
      BY <1>2, <2>1, TelnetAuth
  <1>11. ASSUME NEW k \in Conns,
                \/ connectionMade(k) \/ timeoutConnection(k) \/ timeoutShell(k)
                \/ auth_keyboard_interactive(k) \/ openShell(k) \/ telnet_User(k) \/ telnet_DO(k)
                \/ telnet_DONT(k) \/ characterReceived(k)
                \/ closed(k) \/ ssh_SERVICE_REQUEST_userauth(k)
                \/ \E b \in BOOLEAN : dataReceived(k, b)
                \/ \E h \in Hosts : Request(k, h)
         PROVE  UNCHANGED <<uservar, who>>
    BY <1>11 DEF connectionMade, timeoutConnection, timeoutShell, auth_keyboard_interactive,
       openShell, telnet_User, telnet_DO, telnet_DONT, characterReceived, closed,
       ssh_SERVICE_REQUEST_userauth, dataReceived, Request, dialogue
  <1>12. Tick \/ UNCHANGED vars => UNCHANGED <<uservar, who>>
    BY DEF Tick, vars, dialogue
  <1>13. ASSUME NEW k \in Conns, ssh_SERVICE_REQUEST_connection(k)
         PROVE  VarsStep(uservar, uservar') /\ WhoOK(who')
    <2>1. uservar' = uservar /\ (who' = who \/ who' = [who EXCEPT ![k] = who[k]])
      BY <1>13 DEF ssh_SERVICE_REQUEST_connection, setService
    <2>2. who[k] \in Pairs /\ config.class = "UserDB" => checklogin_UserDB(load(rules), who[k])
      BY <1>1 DEF WhoOK
    <2> QED
      BY <1>1, <2>1, <2>2, OneWho
  <1> QED
    BY <1>2, <1>3, <1>4, <1>5, <1>6, <1>7, <1>8, <1>9, <1>10, <1>11, <1>12, <1>13 DEF Next

-----------------------------------------------------------------------------
(* The user database *)

\* A set of numbers that is not empty has a least one.
LEMMA LeastNumber ==
    ASSUME NEW T \in SUBSET Nat, T # {}
    PROVE  \E n \in T : \A m \in T : n <= m
  <1>1. PICK R : /\ IsWellFoundedOn(R, Nat)
                 /\ \A m, n \in Nat : m < n => <<m, n>> \in R
    BY NatLessThanWellFounded DEF OpToRel
  <1>2. T \subseteq Nat
    OBVIOUS
  <1>3. \E n \in T : \A m \in T : ~(<<m, n>> \in R)
    <2>1. IsWellFoundedOn(R, Nat)
      BY <1>1
    <2> HIDE <1>1
    <2> QED
      BY <1>2, <2>1, WFMin
  <1>4. PICK n \in T : \A m \in T : ~(<<m, n>> \in R)
    BY <1>3
  <1>5. ASSUME NEW m \in T PROVE n <= m
    <2>1. m \in Nat /\ n \in Nat /\ ~(m < n)
      BY <1>1, <1>4
    <2> QED
      BY <2>1
  <1> QED
    BY <1>5

Rule == [pairs : SUBSET Pairs, policy : BOOLEAN]

\* What the first n lines come to: the rules are in the order of the lines that
\* brought them, every line up to n has its rule, and the policy of a rule is
\* the one of a line with the same credentials.
Loaded(lines, n, db) ==
    /\ db \in Seq(Rule)
    /\ \A i \in DOMAIN db : \E g \in 1 .. n : lines[g].pairs = db[i].pairs /\ lines[g].policy = db[i].policy
    /\ \E at \in [DOMAIN db -> 1 .. n] :
          /\ \A i \in DOMAIN db : db[i].pairs = lines[at[i]].pairs
          /\ \A i, j \in DOMAIN db : i < j => at[i] < at[j]
          /\ \A f \in 1 .. n : \E i \in DOMAIN db : db[i].pairs = lines[f].pairs /\ at[i] <= f

LEMMA adduserLoads ==
    ASSUME NEW lines \in Seq(Rule), NEW n \in 1 .. Len(lines), NEW db, Loaded(lines, n - 1, db)
    PROVE  Loaded(lines, n, adduser(db, lines[n]))
  <1> DEFINE same == {i \in DOMAIN db : db[i].pairs = lines[n].pairs}
  <1>1. db \in Seq(Rule) /\ Len(db) \in Nat /\ DOMAIN db = 1 .. Len(db) /\ lines[n] \in Rule /\ n \in Nat
    BY DEF Loaded
  <1>2. PICK at \in [DOMAIN db -> 1 .. n - 1] :
            /\ \A i \in DOMAIN db : db[i].pairs = lines[at[i]].pairs
            /\ \A i, j \in DOMAIN db : i < j => at[i] < at[j]
            /\ \A f \in 1 .. n - 1 : \E i \in DOMAIN db : db[i].pairs = lines[f].pairs /\ at[i] <= f
    BY DEF Loaded
  <1>3. \A i \in DOMAIN db :
           \E g \in 1 .. n - 1 : lines[g].pairs = db[i].pairs /\ lines[g].policy = db[i].policy
    BY DEF Loaded
  <1>4. CASE same = {}
    <2>1. PICK new : new = Append(db, lines[n])
      OBVIOUS
    <2>2. /\ new \in Seq(Rule) /\ DOMAIN new = 1 .. Len(db) + 1
          /\ \A i \in 1 .. Len(db) : new[i] = db[i]
          /\ new[Len(db) + 1] = lines[n]
      BY <1>1, <2>1
    <2>3. PICK to : to = [i \in 1 .. Len(db) + 1 |-> IF i = Len(db) + 1 THEN n ELSE at[i]]
      OBVIOUS
    <2>4. to \in [DOMAIN new -> 1 .. n]
      BY <1>1, <1>2, <2>2, <2>3
    <2>5. \A i \in DOMAIN new : new[i].pairs = lines[to[i]].pairs
      BY <1>1, <1>2, <2>2, <2>3
    <2>6. ASSUME NEW i \in DOMAIN new, NEW j \in DOMAIN new, i < j PROVE to[i] < to[j]
      <3>1. i \in 1 .. Len(db) /\ to[i] = at[i] /\ at[i] \in 1 .. n - 1
        <4>1. i \in 1 .. Len(db) + 1 /\ j \in 1 .. Len(db) + 1
          BY <2>2
        <4>2. i \in 1 .. Len(db) /\ i # Len(db) + 1
          BY <1>1, <2>6, <4>1
        <4>3. to[i] = at[i]
          BY <2>3, <4>1, <4>2
        <4>4. at[i] \in 1 .. n - 1
          BY <1>1, <1>2, <4>2
        <4> QED
          BY <4>2, <4>3, <4>4
      <3>2. CASE j = Len(db) + 1
        BY <1>1, <2>3, <3>1, <3>2, <2>2
      <3>3. CASE j # Len(db) + 1
        <4>1. j \in 1 .. Len(db) + 1
          BY <2>2
        <4>2. j \in 1 .. Len(db)
          BY <1>1, <3>3, <4>1
        <4>3. to[j] = at[j]
          BY <2>3, <3>3, <4>1
        <4>4. at[i] < at[j]
          BY <1>1, <1>2, <2>6, <3>1, <4>2
        <4> QED
          BY <3>1, <4>3, <4>4
      <3> QED
        BY <3>2, <3>3
    <2>7. ASSUME NEW f \in 1 .. n
          PROVE  \E i \in DOMAIN new : new[i].pairs = lines[f].pairs /\ to[i] <= f
      <3>1. CASE f = n
        <4>1. Len(db) + 1 \in DOMAIN new /\ to[Len(db) + 1] = n
          BY <1>1, <2>2, <2>3
        <4> QED
          BY <1>1, <2>2, <3>1, <4>1
      <3>2. CASE f # n
        <4>1. f \in 1 .. n - 1
          BY <1>1, <3>2
        <4>2. PICK i \in DOMAIN db : db[i].pairs = lines[f].pairs /\ at[i] <= f
          BY <1>2, <4>1
        <4>3. i \in DOMAIN new /\ new[i] = db[i] /\ to[i] = at[i]
          BY <1>1, <2>2, <2>3
        <4> QED
          BY <4>2, <4>3
      <3> QED
        BY <3>1, <3>2
    <2>8. \A i \in DOMAIN new :
             \E g \in 1 .. n : lines[g].pairs = new[i].pairs /\ lines[g].policy = new[i].policy
      BY <1>1, <1>3, <2>2
    <2>9. adduser(db, lines[n]) = new
      BY <1>4, <2>1 DEF adduser
    <2> HIDE <2>1, <2>3
    <2> QED
      BY <2>2, <2>4, <2>5, <2>6, <2>7, <2>8, <2>9 DEF Loaded
  <1>5. CASE same # {}
    <2>1. PICK m : m = Min(same) /\ m \in 1 .. Len(db) /\ db[m].pairs = lines[n].pairs
      <3>1. same \in SUBSET Nat
        BY <1>1
      <3>2. \E i \in same : \A j \in same : i <= j
        <4> HIDE DEF same
        <4> QED
          BY <1>5, <3>1, LeastNumber
      <3>3. Min(same) \in same
        <4> HIDE DEF same
        <4> QED
          BY <3>2 DEF Min
      <3> QED
        BY <1>1, <3>3
    <2>2. PICK new : new = [db EXCEPT ![m].policy = lines[n].policy]
      OBVIOUS
    <2>3. adduser(db, lines[n]) = new
      BY <1>5, <2>1, <2>2 DEF adduser
    <2>4. /\ new \in Seq(Rule) /\ DOMAIN new = DOMAIN db
          /\ \A i \in DOMAIN db : /\ new[i].pairs = db[i].pairs
                                  /\ i # m => new[i].policy = db[i].policy
          /\ new[m].policy = lines[n].policy
      <3>1. db[m] \in Rule /\ lines[n].policy \in BOOLEAN
        <4>1. db[m] \in Rule
          BY <1>1, <2>1
        <4>2. lines[n].policy \in BOOLEAN
          BY <1>1 DEF Rule
        <4> QED
          BY <4>1, <4>2
      <3>2. PICK rule : rule = [db[m] EXCEPT !.policy = lines[n].policy]
        OBVIOUS
      <3>3. rule \in Rule /\ rule.pairs = db[m].pairs /\ rule.policy = lines[n].policy
        BY <3>1, <3>2 DEF Rule
      <3>4. new = [db EXCEPT ![m] = rule]
        BY <2>2, <3>2
      <3> QED
        <4>1. new \in [1 .. Len(db) -> Rule]
          <5>1. db \in [1 .. Len(db) -> Rule]
            BY <1>1
          <5> QED
            BY <3>3, <3>4, <5>1
        <4>2. new \in Seq(Rule) /\ DOMAIN new = DOMAIN db
          BY <1>1, <4>1
        <4>3. new[m] = rule /\ \A i \in DOMAIN db : i # m => new[i] = db[i]
          BY <1>1, <2>1, <3>4
        <4> QED
          BY <3>3, <4>2, <4>3
    <2> HIDE DEF same
    <2>5. at \in [DOMAIN new -> 1 .. n]
      BY <1>1, <1>2, <2>4
    <2>6. ASSUME NEW f \in 1 .. n
          PROVE  \E i \in DOMAIN new : new[i].pairs = lines[f].pairs /\ at[i] <= f
      <3>1. CASE f = n
        <4>1. m \in DOMAIN new /\ new[m].pairs = lines[n].pairs /\ at[m] \in 1 .. n - 1
          BY <1>1, <1>2, <2>1, <2>4
        <4> QED
          BY <1>1, <3>1, <4>1
      <3>2. CASE f # n
        <4>1. f \in 1 .. n - 1
          BY <1>1, <3>2
        <4> QED
          BY <1>2, <2>4, <4>1
      <3> QED
        BY <3>1, <3>2
    <2>7. ASSUME NEW i \in DOMAIN new
          PROVE  \E g \in 1 .. n : lines[g].pairs = new[i].pairs /\ lines[g].policy = new[i].policy
      <3>1. CASE i = m
        <4>1. n \in 1 .. n
          BY <1>1
        <4> QED
          BY <2>1, <2>4, <3>1, <4>1
      <3>2. CASE i # m
        BY <1>1, <1>3, <2>4, <3>2
      <3> QED
        BY <3>1, <3>2
    <2>8. \A i \in DOMAIN new : new[i].pairs = lines[at[i]].pairs
      BY <1>2, <2>4
    <2>9. \A i, j \in DOMAIN new : i < j => at[i] < at[j]
      BY <1>2, <2>4
    <2>10. \E to \in [DOMAIN new -> 1 .. n] :
              /\ \A i \in DOMAIN new : new[i].pairs = lines[to[i]].pairs
              /\ \A i, j \in DOMAIN new : i < j => to[i] < to[j]
              /\ \A f \in 1 .. n : \E i \in DOMAIN new : new[i].pairs = lines[f].pairs /\ to[i] <= f
      BY <2>5, <2>6, <2>8, <2>9
    <2>11. new \in Seq(Rule)
      BY <2>4
    <2> QED
      <3>1. Loaded(lines, n, new)
        BY <2>7, <2>10, <2>11, Zenon DEF Loaded
      <3> QED
        BY <2>3, <3>1
  <1> QED
    BY <1>4, <1>5

LEMMA loadLoads ==
    ASSUME NEW lines \in Seq(Rule)
    PROVE  Loaded(lines, Len(lines), addusers(lines))
  <1> DEFINE k == Len(lines)
             Rec(n, g) == g = [i \in 0 .. n |-> IF i = 0 THEN <<>> ELSE adduser(g[i - 1], lines[i])]
  <1>1. k \in Nat
    OBVIOUS
  <1>2. \A n \in 0 .. k : \E g : Rec(n, g)
    <2> DEFINE Bad == {n \in 0 .. k : ~\E g : Rec(n, g)}
    <2> SUFFICES ASSUME Bad # {} PROVE FALSE
      OBVIOUS
    <2>1. PICK n \in Bad : \A m \in Bad : n <= m
      <3>1. Bad \in SUBSET Nat
        BY <1>1
      <3> QED
        BY <3>1, LeastNumber
    <2>2. CASE n = 0
      <3>1. Rec(0, [i \in 0 .. 0 |-> <<>>])
        OBVIOUS
      <3> QED
        BY <2>1, <2>2, <3>1
    <2>3. CASE n # 0
      <3>0. n \in 1 .. k /\ n - 1 \in 0 .. k /\ ~(n <= n - 1)
        BY <1>1, <2>3
      <3>1. n - 1 \in 0 .. k /\ n - 1 \notin Bad
        <4> HIDE DEF Bad
        <4> QED
          BY <2>1, <3>0
      <3>2. PICK g : Rec(n - 1, g)
        BY <3>1
      <3> DEFINE h == [i \in 0 .. n |-> IF i = n THEN adduser(g[n - 1], lines[n]) ELSE g[i]]
      <3>3. ASSUME NEW i \in 0 .. n
            PROVE  h[i] = IF i = 0 THEN <<>> ELSE adduser(h[i - 1], lines[i])
        BY <3>0, <3>2
      <3>4. Rec(n, h)
        BY <3>3
      <3> QED
        BY <2>1, <3>4
    <2> QED
      BY <2>2, <2>3
  <1>3. PICK g : Rec(k, g) /\ addusers(lines) = g[k]
    <2>1. \E g : Rec(k, g)
      BY <1>1, <1>2
    <2> QED
      BY <2>1 DEF addusers
  <1>4. \A n \in 0 .. k : Loaded(lines, n, g[n])
    <2> DEFINE Bad == {n \in 0 .. k : ~Loaded(lines, n, g[n])}
    <2> SUFFICES ASSUME Bad # {} PROVE FALSE
      OBVIOUS
    <2>1. PICK n \in Bad : \A m \in Bad : n <= m
      <3>1. Bad \in SUBSET Nat
        BY <1>1
      <3> QED
        BY <3>1, LeastNumber
    <2>2. CASE n = 0
      <3>1. g[0] = <<>>
        BY <1>1, <1>3
      <3>2. Loaded(lines, 0, <<>>)
        <4>1. <<>> \in Seq(Rule) /\ DOMAIN <<>> = {} /\ 1 .. 0 = {}
          OBVIOUS
        <4>2. \E at \in [{} -> {}] : TRUE
          BY [i \in {} |-> i] \in [{} -> {}]
        <4> QED
          BY <4>1, <4>2 DEF Loaded
      <3> QED
        BY <2>1, <2>2, <3>1, <3>2
    <2>3. CASE n # 0
      <3>0. n \in 1 .. k /\ n - 1 \in 0 .. k /\ ~(n <= n - 1)
        BY <1>1, <2>3
      <3>1. n - 1 \in 0 .. k /\ n - 1 \notin Bad
        <4> HIDE DEF Bad
        <4> QED
          BY <2>1, <3>0
      <3>2. Loaded(lines, n - 1, g[n - 1])
        BY <3>1
      <3>3. g[n] = adduser(g[n - 1], lines[n])
        BY <1>3, <3>0
      <3>4. Loaded(lines, n, g[n])
        BY <3>0, <3>2, <3>3, adduserLoads
      <3> QED
        BY <2>1, <3>4
    <2> QED
      BY <2>2, <2>3
  <1>5. k \in 0 .. k
    BY <1>1
  <1> QED
    BY <1>3, <1>4, <1>5

\* The first rule that matches came from the first line that does.
LEMMA FirstRule ==
    ASSUME NEW lines \in Seq(Rule), NEW p \in Pairs, checklogin_UserDB(load(lines), p)
    PROVE  \E f \in DOMAIN lines :
              /\ p \in lines[f].pairs
              /\ \A g \in 1 .. f - 1 : p \notin lines[g].pairs
              /\ \E g \in DOMAIN lines : lines[g].pairs = lines[f].pairs /\ lines[g].policy
  <1>0. load(lines) = addusers(lines)
    <2>1. CASE load(lines) = <<>>
      <3>1. match_rule(<<>>, p) = {}
        BY DEF match_rule
      <3> QED
        BY <2>1, <3>1 DEF checklogin_UserDB
    <2> QED
      BY <2>1 DEF load
  <1>1. PICK db : db = load(lines) /\ Loaded(lines, Len(lines), db)
    BY <1>0, loadLoads
  <1>2. /\ db \in Seq(Rule) /\ DOMAIN db \subseteq Nat /\ DOMAIN lines = 1 .. Len(lines) /\ Len(lines) \in Nat
    <2>1. db \in Seq(Rule)
      BY <1>1 DEF Loaded
    <2> QED
      BY <2>1
  <1>3. PICK at \in [DOMAIN db -> 1 .. Len(lines)] :
            /\ \A i \in DOMAIN db : db[i].pairs = lines[at[i]].pairs
            /\ \A i, j \in DOMAIN db : i < j => at[i] < at[j]
            /\ \A f \in 1 .. Len(lines) : \E i \in DOMAIN db : db[i].pairs = lines[f].pairs /\ at[i] <= f
    BY <1>1 DEF Loaded
  <1>4. PICK m \in match_rule(db, p) : (\A i \in match_rule(db, p) : m <= i) /\ db[m].policy
    <2>1. match_rule(db, p) # {} /\ db[Min(match_rule(db, p))].policy
      BY <1>1 DEF checklogin_UserDB
    <2>2. match_rule(db, p) \in SUBSET Nat
      BY <1>2 DEF match_rule
    <2>3. \E i \in match_rule(db, p) : \A j \in match_rule(db, p) : i <= j
      BY <2>1, <2>2, LeastNumber
    <2>4. PICK m : m = Min(match_rule(db, p))
      OBVIOUS
    <2>5. m \in match_rule(db, p) /\ \A j \in match_rule(db, p) : m <= j
      BY <2>3, <2>4 DEF Min
    <2> QED
      BY <2>1, <2>4, <2>5
  <1>5. m \in DOMAIN db /\ p \in db[m].pairs
    BY <1>4 DEF match_rule
  <1>6. ASSUME NEW g \in 1 .. at[m] - 1, p \in lines[g].pairs PROVE FALSE
    <2>1. g \in 1 .. Len(lines) /\ g < at[m] /\ at[m] \in Nat
      BY <1>2, <1>3, <1>5
    <2>2. PICK i \in DOMAIN db : db[i].pairs = lines[g].pairs /\ at[i] <= g
      BY <1>3, <2>1
    <2>3. i \in match_rule(db, p)
      BY <1>6, <2>2 DEF match_rule
    <2>4. m \in Nat /\ i \in Nat /\ at[i] \in Nat /\ g \in Nat
      BY <1>2, <1>3, <1>5, <2>1, <2>2
    <2>5. m <= i /\ (m < i => at[m] < at[i])
      BY <1>3, <1>4, <1>5, <2>3
    <2>6. at[i] < at[m]
      BY <2>1, <2>2, <2>4
    <2>7. m # i
      BY <2>4, <2>6
    <2> QED
      BY <2>1, <2>4, <2>5, <2>6, <2>7
  <1>7. PICK g \in 1 .. Len(lines) : lines[g].pairs = db[m].pairs /\ lines[g].policy = db[m].policy
    BY <1>1, <1>5 DEF Loaded
  <1>8. lines[g].policy
    BY <1>4, <1>7
  <1>9. at[m] \in DOMAIN lines /\ db[m].pairs = lines[at[m]].pairs
    BY <1>2, <1>3, <1>5
  <1> QED
    BY <1>2, <1>5, <1>6, <1>7, <1>8, <1>9

LEMMA FirstMatches == AuthInv => FirstMatchDecides
  <1> SUFFICES ASSUME AuthInv, NEW k \in Conns, who[k] \in Pairs, config.class = "UserDB"
               PROVE  LET first == CHOOSE i \in DOMAIN rules :
                                      /\ who[k] \in rules[i].pairs
                                      /\ \A j \in 1 .. i - 1 : who[k] \notin rules[j].pairs
                      IN  \/ rules[first].policy
                          \/ \E i \in DOMAIN rules : /\ rules[i].pairs = rules[first].pairs
                                                     /\ rules[i].policy
    BY DEF FirstMatchDecides
  <1>1. rules \in Seq(Rule)
    BY ConfigAssumption DEF AuthInv, Rule
  <1>2. checklogin_UserDB(load(rules), who[k])
    BY DEF AuthInv, WhoOK
  <1>3. PICK f \in DOMAIN rules :
            /\ who[k] \in rules[f].pairs
            /\ \A g \in 1 .. f - 1 : who[k] \notin rules[g].pairs
            /\ \E g \in DOMAIN rules : rules[g].pairs = rules[f].pairs /\ rules[g].policy
    BY <1>1, <1>2, FirstRule
  <1> DEFINE P(i) == /\ who[k] \in rules[i].pairs
                     /\ \A j \in 1 .. i - 1 : who[k] \notin rules[j].pairs
             first == CHOOSE i \in DOMAIN rules : P(i)
  <1>4. first \in DOMAIN rules /\ P(first)
    BY <1>3
  <1>5. first = f
    <2>1. DOMAIN rules \subseteq Nat \ {0}
      BY <1>1
    <2> HIDE DEF first
    <2>2. first \in Nat \ {0} /\ f \in Nat \ {0}
      BY <1>4, <2>1
    <2>3. ~(f < first)
      BY <1>3, <1>4, <2>2
    <2>4. ~(first < f)
      BY <1>3, <1>4, <2>2
    <2> QED
      BY <2>2, <2>3, <2>4
  <1> QED
    BY <1>3, <1>5

LEMMA AuthInit == Init => AuthInv
  <1> SUFFICES ASSUME Init PROVE AuthInv
    OBVIOUS
  <1>1. WhoOK(who)
    BY NotAPair DEF Init, WhoOK
  <1>2. VarsOK(uservar)
    BY NoVarsStep DEF Init
  <1> QED
    BY <1>1, <1>2 DEF Init, AuthInv

LEMMA LoginsHold == Spec => [](DialogueInv /\ AuthInv)
  <1>1. Init => DialogueInv /\ AuthInv
    BY DialogueInit, AuthInit
  <1>2. DialogueInv /\ AuthInv /\ [Next]_vars => (DialogueInv /\ AuthInv)'
    BY DialogueStep, AuthNext
  <1> QED
    BY <1>1, <1>2, PTL DEF Spec

\* A session of the user database was let in by the first line of userdb.txt
\* that matches its pair, or by the same credentials come again: what checklogin
\* of core/auth.py decides on the rules load leaves, whatever the file says.
THEOREM FirstMatchAlwaysDecides == Spec => []FirstMatchDecides
  BY LoginsHold, FirstMatches, PTL

\* AuthRandom lets an address in with a pair nobody was let in with only after
\* as many different pairs as were drawn for it, whatever the order of the
\* attempts, over all connections, protocols and crashes.
THEOREM TriesAreCounted == Spec => EnoughTries
  <1> DEFINE A == \A i \in Ips :
                    LET old == uservar.info[i]
                        new == uservar'.info[i]
                    IN  /\ old.pair = NoPair /\ new.pair # NoPair
                        /\ new.pair \notin {uservar.cache[j] : j \in DOMAIN uservar.cache}
                        => Cardinality(new.tried \cup {new.pair}) = new.need /\ new.need \in Needs
  <1>1. DialogueInv /\ AuthInv /\ [Next]_vars => [A]_vars
    <2> SUFFICES ASSUME DialogueInv, AuthInv, [Next]_vars PROVE A
      OBVIOUS
    <2>1. VarsStep(uservar, uservar')
      BY AuthNext
    <2> QED
      BY <2>1 DEF VarsStep, Earned
  <1>2. [][A]_vars => EnoughTries
    BY DEF EnoughTries
  <1> HIDE DEF A
  <1> QED
    BY <1>1, <1>2, LoginsHold, PTL DEF Spec

-----------------------------------------------------------------------------
(* Requests in the window *)

\* The requests of a host, oldest first; those in the window are the last ones.
Ordered(s) == s \in Seq(Nat) /\ \A i, j \in DOMAIN s : i < j => s[i] >= s[j]

\* w holds the requests in the window among the first n of s.
Recent(s, n, w) ==
    /\ w \in Seq(Nat) /\ Len(w) <= n
    /\ \A i \in 1 .. Len(w) : w[i] = s[n - Len(w) + i] /\ w[i] < Window
    /\ \A i \in 1 .. n - Len(w) : s[i] >= Window

\* One request more is looked at.
Looked(s, w, n) == IF s[n] < Window THEN Append(w, s[n]) ELSE w

LEMMA RecentStep ==
    ASSUME NEW s, Ordered(s), NEW n \in 1 .. Len(s), NEW w, Recent(s, n - 1, w)
    PROVE  Recent(s, n, Looked(s, w, n))
  <1>1. /\ s \in Seq(Nat) /\ Len(s) \in Nat /\ n \in Nat /\ n <= Len(s) /\ s[n] \in Nat
        /\ w \in Seq(Nat) /\ Len(w) \in Nat /\ Len(w) <= n - 1 /\ Window \in Nat \ {0}
    BY LimiterAssumption DEF Ordered, Recent
  <1>2. CASE s[n] < Window
    <2>1. PICK v : v = Append(w, s[n])
      OBVIOUS
    <2>2. /\ v \in Seq(Nat) /\ Len(v) = Len(w) + 1 /\ v[Len(w) + 1] = s[n]
          /\ \A i \in 1 .. Len(w) : v[i] = w[i]
      BY <1>1, <2>1
    <2>3. ASSUME NEW i \in 1 .. Len(v) PROVE v[i] = s[n - Len(v) + i] /\ v[i] < Window
      <3>1. CASE i = Len(v)
        BY <1>1, <1>2, <2>2, <3>1
      <3>2. CASE i # Len(v)
        <4>1. i \in 1 .. Len(w) /\ n - Len(v) + i = n - 1 - Len(w) + i
          BY <1>1, <2>2, <3>2
        <4> QED
          BY <2>2, <4>1 DEF Recent
      <3> QED
        BY <3>1, <3>2
    <2>4. \A i \in 1 .. n - Len(v) : s[i] >= Window
      <3>1. n - Len(v) = n - 1 - Len(w)
        BY <1>1, <2>2
      <3> QED
        BY <3>1 DEF Recent
    <2> QED
      <3>1. Recent(s, n, v)
        BY <1>1, <2>2, <2>3, <2>4 DEF Recent
      <3> QED
        BY <1>2, <2>1, <3>1 DEF Looked
  <1>3. CASE ~(s[n] < Window)
    <2>1. ASSUME Len(w) # 0 PROVE FALSE
      <3>1. Len(w) \in 1 .. Len(w) /\ n - 1 - Len(w) + Len(w) = n - 1 /\ n - 1 \in 1 .. Len(s)
        BY <1>1, <2>1
      <3>2. w[Len(w)] = s[n - 1] /\ s[n - 1] < Window
        BY <3>1 DEF Recent
      <3>3. n - 1 \in DOMAIN s /\ n \in DOMAIN s /\ n - 1 < n /\ s[n - 1] \in Nat
        BY <1>1, <3>1
      <3>4. s[n - 1] >= s[n]
        BY <3>3 DEF Ordered
      <3> QED
        BY <1>1, <1>3, <3>2, <3>3, <3>4
    <2>2. Len(w) = 0
      BY <2>1
    <2>3. ASSUME NEW i \in 1 .. n PROVE s[i] >= Window
      <3>1. CASE i = n
        BY <1>1, <1>3, <3>1
      <3>2. CASE i # n
        <4>1. i \in 1 .. n - 1 - Len(w)
          BY <1>1, <2>2, <3>2
        <4> QED
          BY <4>1 DEF Recent
      <3> QED
        BY <3>1, <3>2
    <2> QED
      <3>1. Recent(s, n, w)
        BY <1>1, <2>2, <2>3 DEF Recent
      <3> QED
        BY <1>3, <3>1 DEF Looked
  <1> QED
    BY <1>2, <1>3

LEMMA InWindowRecent ==
    ASSUME NEW s, Ordered(s)
    PROVE  Recent(s, Len(s), InWindow(s))
  <1> DEFINE k == Len(s)
             Rec(n, g) == g = [i \in 0 .. n |-> IF i = 0 THEN <<>> ELSE Looked(s, g[i - 1], i)]
  <1>1. k \in Nat
    BY DEF Ordered
  <1>2. \A n \in 0 .. k : \E g : Rec(n, g)
    <2> DEFINE Bad == {n \in 0 .. k : ~\E g : Rec(n, g)}
    <2> SUFFICES ASSUME Bad # {} PROVE FALSE
      OBVIOUS
    <2>1. PICK n \in Bad : \A m \in Bad : n <= m
      <3>1. Bad \in SUBSET Nat
        BY <1>1
      <3> QED
        BY <3>1, LeastNumber
    <2>2. CASE n = 0
      <3>1. Rec(0, [i \in 0 .. 0 |-> <<>>])
        OBVIOUS
      <3> QED
        BY <2>1, <2>2, <3>1
    <2>3. CASE n # 0
      <3>0. n \in 1 .. k /\ n - 1 \in 0 .. k /\ ~(n <= n - 1)
        BY <1>1, <2>3
      <3>1. n - 1 \in 0 .. k /\ n - 1 \notin Bad
        <4> HIDE DEF Bad
        <4> QED
          BY <2>1, <3>0
      <3>2. PICK g : Rec(n - 1, g)
        BY <3>1
      <3> DEFINE h == [i \in 0 .. n |-> IF i = n THEN Looked(s, g[n - 1], n) ELSE g[i]]
      <3>3. ASSUME NEW i \in 0 .. n
            PROVE  h[i] = IF i = 0 THEN <<>> ELSE Looked(s, h[i - 1], i)
        BY <3>0, <3>2
      <3>4. Rec(n, h)
        BY <3>3
      <3> QED
        BY <2>1, <3>4
    <2> QED
      BY <2>2, <2>3
  <1>3. PICK g : Rec(k, g) /\ InWindow(s) = g[k]
    <2>1. \E g : Rec(k, g)
      BY <1>1, <1>2
    <2> QED
      BY <2>1 DEF InWindow, Looked
  <1>4. \A n \in 0 .. k : Recent(s, n, g[n])
    <2> DEFINE Bad == {n \in 0 .. k : ~Recent(s, n, g[n])}
    <2> SUFFICES ASSUME Bad # {} PROVE FALSE
      OBVIOUS
    <2>1. PICK n \in Bad : \A m \in Bad : n <= m
      <3>1. Bad \in SUBSET Nat
        BY <1>1
      <3> QED
        BY <3>1, LeastNumber
    <2>2. CASE n = 0
      <3>1. g[0] = <<>>
        BY <1>1, <1>3
      <3>2. Recent(s, 0, <<>>)
        BY DEF Recent
      <3> QED
        BY <2>1, <2>2, <3>1, <3>2
    <2>3. CASE n # 0
      <3>0. n \in 1 .. k /\ n - 1 \in 0 .. k /\ ~(n <= n - 1)
        BY <1>1, <2>3
      <3>1. n - 1 \in 0 .. k /\ n - 1 \notin Bad
        <4> HIDE DEF Bad
        <4> QED
          BY <2>1, <3>0
      <3>2. Recent(s, n - 1, g[n - 1])
        BY <3>1
      <3>3. g[n] = Looked(s, g[n - 1], n)
        BY <1>3, <3>0
      <3>4. Recent(s, n, g[n])
        BY <3>0, <3>2, <3>3, RecentStep
      <3> QED
        BY <2>1, <3>4
    <2> QED
      BY <2>2, <2>3
  <1>5. k \in 0 .. k
    BY <1>1
  <1> QED
    BY <1>3, <1>4, <1>5

\* The j-th request from the latest one on.
Back(s, j) == s[Len(s) + 1 - j]

EndsWith(s, w) == Len(w) <= Len(s) /\ \A j \in 1 .. Len(w) : Back(w, j) = Back(s, j)

LEMMA BackType ==
    ASSUME NEW s \in Seq(Nat), NEW j \in 1 .. Len(s)
    PROVE  Back(s, j) \in Nat /\ Len(s) + 1 - j \in DOMAIN s
  <1>1. Len(s) \in Nat /\ DOMAIN s = 1 .. Len(s) /\ Len(s) + 1 - j \in 1 .. Len(s)
    OBVIOUS
  <1> QED
    BY <1>1 DEF Back

LEMMA InWindowEnds ==
    ASSUME NEW s, Ordered(s), NEW w, w = InWindow(s)
    PROVE  /\ Ordered(w) /\ EndsWith(s, w)
           /\ \A j \in 1 .. Len(w) : Back(s, j) < Window
           /\ \A j \in 1 .. Len(s) : j > Len(w) => Back(s, j) >= Window
  <1>1. /\ s \in Seq(Nat) /\ Len(s) \in Nat /\ w \in Seq(Nat) /\ Len(w) \in Nat /\ Len(w) <= Len(s)
        /\ \A i \in 1 .. Len(w) : w[i] = s[Len(s) - Len(w) + i] /\ w[i] < Window
        /\ \A i \in 1 .. Len(s) - Len(w) : s[i] >= Window
        /\ DOMAIN s = 1 .. Len(s) /\ DOMAIN w = 1 .. Len(w)
    <2>1. Recent(s, Len(s), w) /\ s \in Seq(Nat)
      BY InWindowRecent DEF Ordered
    <2> QED
      BY <2>1 DEF Recent
  <1>2. ASSUME NEW j \in 1 .. Len(w) PROVE Back(w, j) = Back(s, j) /\ Back(s, j) < Window
    <2>1. Len(w) + 1 - j \in 1 .. Len(w) /\ Len(s) - Len(w) + (Len(w) + 1 - j) = Len(s) + 1 - j
      BY <1>1
    <2> QED
      BY <1>1, <2>1 DEF Back
  <1>3. ASSUME NEW j \in 1 .. Len(s), j > Len(w) PROVE Back(s, j) >= Window
    <2>1. Len(s) + 1 - j \in 1 .. Len(s) - Len(w)
      BY <1>1, <1>3
    <2> QED
      BY <1>1, <2>1 DEF Back
  <1>4. ASSUME NEW i \in DOMAIN w, NEW j \in DOMAIN w, i < j PROVE w[i] >= w[j]
    <2>1. /\ Len(s) - Len(w) + i \in DOMAIN s /\ Len(s) - Len(w) + j \in DOMAIN s
          /\ Len(s) - Len(w) + i < Len(s) - Len(w) + j
      <3>1. PICK a, b : a = Len(s) /\ b = Len(w) /\ a \in Nat /\ b \in Nat /\ b <= a
        BY <1>1
      <3>2. i \in 1 .. b /\ j \in 1 .. b
        BY <1>1, <3>1
      <3>3. a - b + i \in 1 .. a /\ a - b + j \in 1 .. a /\ a - b + i < a - b + j
        BY <1>4, <3>1, <3>2
      <3> QED
        BY <1>1, <3>1, <3>3
    <2>2. s[Len(s) - Len(w) + i] >= s[Len(s) - Len(w) + j]
      BY <2>1 DEF Ordered
    <2> QED
      BY <1>1, <2>2
  <1> QED
    BY <1>1, <1>2, <1>3, <1>4 DEF Ordered, EndsWith

LEMMA SameBack ==
    ASSUME NEW s \in Seq(Nat), NEW t \in Seq(Nat), Len(s) = Len(t), EndsWith(s, t)
    PROVE  s = t
  <1>1. ASSUME NEW i \in 1 .. Len(s) PROVE s[i] = t[i]
    <2>1. Len(s) \in Nat /\ Len(s) + 1 - i \in 1 .. Len(t) /\ Len(s) + 1 - (Len(s) + 1 - i) = i
      OBVIOUS
    <2>2. Back(t, Len(s) + 1 - i) = Back(s, Len(s) + 1 - i)
      BY <2>1 DEF EndsWith
    <2> QED
      BY <2>1, <2>2 DEF Back
  <1> QED
    BY <1>1

\* Requests that are all in the window stay.
LEMMA InWindowAll ==
    ASSUME NEW s, Ordered(s), \A j \in 1 .. Len(s) : Back(s, j) < Window
    PROVE  InWindow(s) = s
  <1>1. PICK w : w = InWindow(s)
    OBVIOUS
  <1>2. /\ Ordered(w) /\ EndsWith(s, w) /\ \A j \in 1 .. Len(s) : j > Len(w) => Back(s, j) >= Window
    BY <1>1, InWindowEnds
  <1>3. /\ s \in Seq(Nat) /\ w \in Seq(Nat) /\ Len(s) \in Nat /\ Len(w) \in Nat /\ Len(w) <= Len(s)
        /\ Window \in Nat
    BY <1>2, LimiterAssumption DEF Ordered, EndsWith
  <1>4. Len(w) = Len(s)
    <2> SUFFICES ASSUME Len(w) < Len(s) PROVE FALSE
      BY <1>3
    <2>1. Len(s) \in 1 .. Len(s) /\ Len(s) > Len(w)
      BY <1>3
    <2>2. Back(s, Len(s)) < Window /\ Back(s, Len(s)) >= Window /\ Back(s, Len(s)) \in Nat
      BY <1>2, <1>3, <2>1, BackType
    <2> QED
      BY <1>3, <2>2
  <1> QED
    BY <1>1, <1>2, <1>3, <1>4, SameBack

Fresh(s) == Ordered(s) /\ \A j \in 1 .. Len(s) : Back(s, j) < Window

LEMMA InWindowFresh ==
    ASSUME NEW s, Ordered(s)
    PROVE  Fresh(InWindow(s)) /\ InWindow(InWindow(s)) = InWindow(s) /\ Len(InWindow(s)) <= Len(s)
  <1>1. PICK w : w = InWindow(s)
    OBVIOUS
  <1>2. Ordered(w) /\ EndsWith(s, w) /\ \A j \in 1 .. Len(w) : Back(s, j) < Window
    BY <1>1, InWindowEnds
  <1>3. Fresh(w) /\ Len(w) <= Len(s)
    BY <1>2 DEF Fresh, EndsWith
  <1>4. InWindow(w) = w
    BY <1>3, InWindowAll DEF Fresh
  <1> QED
    BY <1>1, <1>3, <1>4

LEMMA NoneFresh == Fresh(<<>>) /\ InWindow(<<>>) = <<>>
  <1>1. Fresh(<<>>)
    BY DEF Fresh, Ordered
  <1> QED
    BY <1>1, InWindowAll DEF Fresh

\* A request is noted.
LEMMA AppendNow ==
    ASSUME NEW s, Fresh(s), NEW t, t = Append(s, 0)
    PROVE  /\ Fresh(t) /\ Len(t) = Len(s) + 1 /\ Back(t, 1) = 0
           /\ \A j \in 1 .. Len(s) : Back(t, j + 1) = Back(s, j)
  <1>1. /\ s \in Seq(Nat) /\ Len(s) \in Nat /\ t \in Seq(Nat) /\ Len(t) = Len(s) + 1
        /\ DOMAIN t = 1 .. Len(s) + 1 /\ DOMAIN s = 1 .. Len(s) /\ t[Len(s) + 1] = 0
        /\ \A i \in 1 .. Len(s) : t[i] = s[i] /\ s[i] \in Nat
    BY DEF Fresh, Ordered
  <1>2. Back(t, 1) = 0
    BY <1>1 DEF Back
  <1>3. ASSUME NEW j \in 1 .. Len(s) PROVE Back(t, j + 1) = Back(s, j)
    <2>1. Len(t) + 1 - (j + 1) = Len(s) + 1 - j /\ Len(s) + 1 - j \in 1 .. Len(s)
      BY <1>1
    <2> QED
      BY <1>1, <2>1 DEF Back
  <1>4. ASSUME NEW j \in 1 .. Len(t) PROVE Back(t, j) < Window
    <2>1. CASE j = 1
      BY <1>2, <2>1, LimiterAssumption
    <2>2. CASE j # 1
      <3>1. j - 1 \in 1 .. Len(s) /\ (j - 1) + 1 = j
        BY <1>1, <2>2
      <3> QED
        BY <1>3, <3>1 DEF Fresh
    <2> QED
      BY <2>1, <2>2
  <1>5. ASSUME NEW i \in DOMAIN t, NEW j \in DOMAIN t, i < j PROVE t[i] >= t[j]
    <2>1. i \in 1 .. Len(s) /\ t[i] = s[i] /\ s[i] \in Nat
      BY <1>1, <1>5
    <2>2. CASE j = Len(s) + 1
      BY <1>1, <2>1, <2>2
    <2>3. CASE j # Len(s) + 1
      <3>1. j \in 1 .. Len(s) /\ t[j] = s[j]
        BY <1>1, <2>3
      <3> QED
        BY <1>1, <1>5, <2>1, <3>1 DEF Fresh, Ordered
    <2> QED
      BY <2>2, <2>3
  <1> QED
    BY <1>1, <1>2, <1>3, <1>4, <1>5 DEF Fresh, Ordered

LEMMA EndsWithBoth ==
    ASSUME NEW s, NEW w, Fresh(s), Fresh(w), EndsWith(s, w), NEW s2, NEW w2,
           s2 = Append(s, 0), w2 = Append(w, 0)
    PROVE  EndsWith(s2, w2)
  <1>1. /\ Len(s2) = Len(s) + 1 /\ Back(s2, 1) = 0 /\ \A j \in 1 .. Len(s) : Back(s2, j + 1) = Back(s, j)
        /\ Len(w2) = Len(w) + 1 /\ Back(w2, 1) = 0 /\ \A j \in 1 .. Len(w) : Back(w2, j + 1) = Back(w, j)
    BY AppendNow
  <1>2. Len(s) \in Nat /\ Len(w) \in Nat /\ Len(w) <= Len(s)
    BY DEF Fresh, Ordered, EndsWith
  <1>3. ASSUME NEW j \in 1 .. Len(w2) PROVE Back(w2, j) = Back(s2, j)
    <2>1. CASE j = 1
      BY <1>1, <2>1
    <2>2. CASE j # 1
      <3>1. j - 1 \in 1 .. Len(w) /\ j - 1 \in 1 .. Len(s) /\ (j - 1) + 1 = j
        BY <1>1, <1>2, <2>2
      <3> QED
        BY <1>1, <3>1 DEF EndsWith
    <2> QED
      BY <2>1, <2>2
  <1> QED
    BY <1>1, <1>2, <1>3 DEF EndsWith

LEMMA OlderAge ==
    ASSUME NEW a \in Nat
    PROVE  /\ Older(a) \in Nat
           /\ Older(a) = IF a <= Window THEN a + 1 ELSE Window + 1
  <1>1. Window \in Nat
    BY LimiterAssumption
  <1>2. \E x \in {a + 1, Window + 1} : \A y \in {a + 1, Window + 1} : x <= y
    BY <1>1
  <1>3. /\ Older(a) \in {a + 1, Window + 1}
        /\ \A y \in {a + 1, Window + 1} : Older(a) <= y
    BY <1>2 DEF Older, Min
  <1> QED
    BY <1>1, <1>3

\* A tick: the requests grow older in the tracker and in the history alike.
LEMMA OneTick ==
    ASSUME NEW s, Ordered(s), NEW p, Fresh(p), EndsWith(p, InWindow(s)), NEW s2, NEW p2,
           s2 = [i \in DOMAIN s |-> Older(s[i])], p2 = [i \in DOMAIN p |-> p[i] + 1]
    PROVE  /\ Ordered(s2) /\ Len(s2) = Len(s) /\ Ordered(p2)
           /\ EndsWith(InWindow(p2), InWindow(s2))
           /\ p = InWindow(s) => InWindow(p2) = InWindow(s2)
  <1>1. /\ s \in Seq(Nat) /\ Len(s) \in Nat /\ DOMAIN s = 1 .. Len(s)
        /\ p \in Seq(Nat) /\ Len(p) \in Nat /\ DOMAIN p = 1 .. Len(p) /\ Window \in Nat \ {0}
    BY LimiterAssumption DEF Fresh, Ordered
  <1>2. /\ s2 \in Seq(Nat) /\ Len(s2) = Len(s) /\ DOMAIN s2 = 1 .. Len(s)
        /\ p2 \in Seq(Nat) /\ Len(p2) = Len(p) /\ DOMAIN p2 = 1 .. Len(p)
    <2>1. s2 \in [1 .. Len(s) -> Nat]
      BY <1>1, OlderAge
    <2>2. p2 \in [1 .. Len(p) -> Nat]
      BY <1>1
    <2> QED
      BY <1>1, <2>1, <2>2
  <1>3. ASSUME NEW i \in DOMAIN s2, NEW j \in DOMAIN s2, i < j PROVE s2[i] >= s2[j]
    <2>1. s[i] >= s[j] /\ s[i] \in Nat /\ s[j] \in Nat
      BY <1>1, <1>2, <1>3 DEF Ordered
    <2>2. s2[i] = Older(s[i]) /\ s2[j] = Older(s[j])
      BY <1>1, <1>2
    <2>3. /\ Older(s[i]) = IF s[i] <= Window THEN s[i] + 1 ELSE Window + 1
          /\ Older(s[j]) = IF s[j] <= Window THEN s[j] + 1 ELSE Window + 1
      BY <2>1, OlderAge
    <2>4. PICK x, y : x = s[i] /\ y = s[j]
      OBVIOUS
    <2> QED
      BY <1>1, <2>1, <2>2, <2>3, <2>4
  <1>4. ASSUME NEW i \in DOMAIN p2, NEW j \in DOMAIN p2, i < j PROVE p2[i] >= p2[j]
    <2>1. p[i] >= p[j] /\ p[i] \in Nat /\ p[j] \in Nat
      BY <1>1, <1>2, <1>4 DEF Fresh, Ordered
    <2> QED
      BY <1>1, <1>2, <2>1
  <1>5. Ordered(s2) /\ Ordered(p2)
    BY <1>2, <1>3, <1>4 DEF Ordered
  <1>6. ASSUME NEW j \in 1 .. Len(s)
        PROVE  /\ Back(s, j) \in Nat /\ Back(s2, j) \in Nat
               /\ Back(s2, j) = IF Back(s, j) <= Window THEN Back(s, j) + 1 ELSE Window + 1
    <2>1. Back(s, j) \in Nat /\ Len(s) + 1 - j \in DOMAIN s
      BY <1>1, BackType
    <2>2. Back(s2, j) = Older(Back(s, j))
      BY <1>2, <2>1 DEF Back
    <2> QED
      BY <2>1, <2>2, OlderAge
  <1>7. ASSUME NEW j \in 1 .. Len(p)
        PROVE  Back(p, j) \in Nat /\ Back(p2, j) = Back(p, j) + 1
    <2>1. Back(p, j) \in Nat /\ Len(p) + 1 - j \in DOMAIN p
      BY <1>1, BackType
    <2> QED
      BY <1>2, <2>1 DEF Back
  <1>8. PICK w, v, q : w = InWindow(s) /\ v = InWindow(s2) /\ q = InWindow(p2)
    OBVIOUS
  <1>9. /\ Ordered(w) /\ EndsWith(s, w) /\ (\A j \in 1 .. Len(s) : j > Len(w) => Back(s, j) >= Window)
        /\ Ordered(v) /\ EndsWith(s2, v) /\ (\A j \in 1 .. Len(v) : Back(s2, j) < Window)
        /\ \A j \in 1 .. Len(s2) : j > Len(v) => Back(s2, j) >= Window
        /\ Ordered(q) /\ EndsWith(p2, q) /\ (\A j \in 1 .. Len(q) : Back(p2, j) < Window)
        /\ \A j \in 1 .. Len(p2) : j > Len(q) => Back(p2, j) >= Window
    BY <1>5, <1>8, InWindowEnds
  <1>10. /\ Len(w) \in Nat /\ Len(v) \in Nat /\ Len(q) \in Nat
         /\ Len(w) <= Len(s) /\ Len(v) <= Len(s) /\ Len(q) <= Len(p) /\ Len(w) <= Len(p)
    BY <1>2, <1>8, <1>9 DEF Ordered, EndsWith
  <1>11. ASSUME NEW j \in 1 .. Len(v)
         PROVE  j \in 1 .. Len(w) /\ Back(s, j) = Back(p, j) /\ Back(s2, j) = Back(p2, j)
    <2>1. j \in 1 .. Len(s) /\ Back(s2, j) < Window
      BY <1>9, <1>10
    <2>2. Back(s, j) \in Nat /\ Back(s, j) < Window /\ Back(s2, j) = Back(s, j) + 1
      <3>1. PICK x, y : /\ x = Back(s, j) /\ y = Back(s2, j) /\ x \in Nat /\ y < Window
                        /\ y = IF x <= Window THEN x + 1 ELSE Window + 1
        BY <1>6, <2>1
      <3>2. x < Window /\ y = x + 1
        BY <1>1, <3>1
      <3> QED
        BY <3>1, <3>2
    <2>3. j \in 1 .. Len(w)
      <3>1. ~(Back(s, j) >= Window)
        BY <1>1, <2>2
      <3>2. ~(j > Len(w))
        BY <1>9, <2>1, <3>1
      <3> QED
        BY <1>10, <3>2
    <2>4. Back(w, j) = Back(s, j) /\ Back(w, j) = Back(p, j) /\ j \in 1 .. Len(p)
      BY <1>8, <1>9, <1>10, <2>3 DEF EndsWith
    <2> QED
      BY <1>7, <2>2, <2>3, <2>4
  <1>12. Len(v) <= Len(q)
    <2> SUFFICES ASSUME Len(q) < Len(v) PROVE FALSE
      BY <1>10
    <2>1. Len(v) \in 1 .. Len(v) /\ Len(v) > Len(q)
      BY <1>10
    <2>2. Back(p2, Len(v)) < Window
      BY <1>9, <1>11, <2>1
    <2>3. Len(v) \in 1 .. Len(p2) /\ Len(v) \in 1 .. Len(p)
      <3>1. Len(v) \in 1 .. Len(w)
        BY <1>11, <2>1
      <3> QED
        BY <1>2, <1>10, <3>1
    <2>4. Back(p2, Len(v)) >= Window /\ Back(p2, Len(v)) \in Nat
      BY <1>7, <1>9, <2>1, <2>3
    <2> QED
      BY <1>1, <2>2, <2>4
  <1>13. EndsWith(q, v)
    <2>1. ASSUME NEW j \in 1 .. Len(v) PROVE Back(v, j) = Back(q, j)
      <3>1. j \in 1 .. Len(q)
        BY <1>10, <1>12
      <3> QED
        BY <1>9, <1>11, <3>1 DEF EndsWith
    <2> QED
      BY <1>12, <2>1 DEF EndsWith
  <1>14. ASSUME p = w PROVE q = v
    <2>1. ~(Len(v) < Len(q))
      <3> SUFFICES ASSUME Len(v) < Len(q) PROVE FALSE
        OBVIOUS
      <3>1. /\ Len(q) \in 1 .. Len(q) /\ Len(q) \in 1 .. Len(p) /\ Len(q) \in 1 .. Len(w)
            /\ Len(q) \in 1 .. Len(s) /\ Len(q) > Len(v)
        BY <1>10, <1>14
      <3>2. Back(p2, Len(q)) < Window /\ Back(p2, Len(q)) = Back(p, Len(q)) + 1
        BY <1>7, <1>9, <3>1
      <3>3. Back(p, Len(q)) = Back(s, Len(q))
        BY <1>9, <1>14, <3>1 DEF EndsWith
      <3>4. Back(s2, Len(q)) >= Window
        BY <1>2, <1>9, <3>1
      <3>5. PICK x, y : /\ x = Back(s, Len(q)) /\ y = Back(s2, Len(q)) /\ x \in Nat
                        /\ y = IF x <= Window THEN x + 1 ELSE Window + 1
        BY <1>6, <3>1
      <3>6. x + 1 < Window /\ y >= Window
        BY <3>2, <3>3, <3>4, <3>5
      <3> QED
        BY <1>1, <3>5, <3>6
    <2>2. Len(q) = Len(v) /\ q \in Seq(Nat) /\ v \in Seq(Nat)
      BY <1>9, <1>10, <1>12, <2>1 DEF Ordered
    <2> QED
      BY <1>13, <2>2, SameBack
  <1> QED
    BY <1>2, <1>5, <1>8, <1>13, <1>14

-----------------------------------------------------------------------------
(* The rate limiter *)

MostKeys == Max({MaxKeys, 19})

AgesOK(s) == Ordered(s) /\ Len(s) <= MaxRequests

TrackerOK(t) ==
    /\ DOMAIN t \subseteq Hosts /\ IsFiniteSet(DOMAIN t) /\ Cardinality(DOMAIN t) <= MostKeys
    /\ \A h \in DOMAIN t : AgesOK(t[h])

\* The requests in the window that the tracker knows of are the latest ones of
\* the host, and all of them unless its key was removed.
LimiterInv ==
    /\ TrackerOK(lim.tracker)
    /\ DOMAIN spent = Hosts
    /\ \A h \in Hosts :
          /\ Fresh(spent[h])
          /\ EndsWith(spent[h], InWindow(Ages(lim.tracker, h)))
          /\ h \notin evicted => spent[h] = InWindow(Ages(lim.tracker, h))

LEMMA AddOne ==
    ASSUME NEW S, IsFiniteSet(S), NEW x, NEW T, T = S \cup {x}
    PROVE  /\ IsFiniteSet(T) /\ Cardinality(T) \in Nat /\ Cardinality(S) \in Nat
           /\ Cardinality(T) <= Cardinality(S) + 1
  <1>1. IsFiniteSet(T) /\ Cardinality(T) = IF x \in S THEN Cardinality(S) ELSE Cardinality(S) + 1
    BY FS_AddElement
  <1>2. Cardinality(S) \in Nat
    BY FS_CardinalityType
  <1> QED
    BY <1>1, <1>2

\* Twenty keys or more lose two, so that the new one does not take the place of
\* the only one that was removed.
LEMMA KeysBound ==
    ASSUME NEW D, IsFiniteSet(D), Cardinality(D) <= MostKeys, NEW D1 \in SUBSET D, NEW h,
           NEW D2, D2 = D1 \cup {h}, NEW gone \in SUBSET D2,
           Cardinality(D2) > MaxKeys => Cardinality(gone) = Max({1, Cardinality(D2) \div 10}),
           ~(Cardinality(D2) > MaxKeys) => gone = {},
           NEW D3, D3 = (D2 \ gone) \cup {h}
    PROVE  IsFiniteSet(D3) /\ Cardinality(D3) <= MostKeys
  <1>1. MostKeys \in Nat /\ MaxKeys <= MostKeys /\ 19 <= MostKeys /\ MaxKeys \in Nat
    BY LimiterAssumption, MaxOfTwo DEF MostKeys
  <1>2. /\ IsFiniteSet(D1) /\ Cardinality(D1) \in Nat /\ Cardinality(D) \in Nat
        /\ Cardinality(D1) <= Cardinality(D)
    BY FS_Subset, FS_CardinalityType
  <1>3. /\ IsFiniteSet(D2) /\ Cardinality(D2) \in Nat /\ Cardinality(D2) <= Cardinality(D1) + 1
    BY <1>2, AddOne
  <1>4. /\ IsFiniteSet(gone) /\ Cardinality(gone) \in Nat /\ D2 \cap gone = gone
    BY <1>3, FS_Subset, FS_CardinalityType
  <1>5. /\ IsFiniteSet(D2 \ gone) /\ Cardinality(D2 \ gone) = Cardinality(D2) - Cardinality(gone)
        /\ Cardinality(D2 \ gone) \in Nat
    BY <1>3, <1>4, FS_Difference, FS_CardinalityType
  <1>6. IsFiniteSet(D3) /\ Cardinality(D3) \in Nat /\ Cardinality(D3) <= Cardinality(D2 \ gone) + 1
    BY <1>5, AddOne
  <1>7. CASE ~(Cardinality(D2) > MaxKeys)
    <2>1. D3 = D2
      BY <1>7
    <2>2. Cardinality(D2) <= MaxKeys
      BY <1>1, <1>3, <1>7
    <2> QED
      BY <1>1, <1>3, <2>1, <2>2
  <1>8. CASE Cardinality(D2) > MaxKeys
    <2>1. PICK c \in Nat : c = Cardinality(D2)
      BY <1>3
    <2>2. c \div 10 \in Nat /\ (c >= 20 => c \div 10 >= 2)
      OBVIOUS
    <2>3. Cardinality(gone) >= 1 /\ Cardinality(gone) >= c \div 10
      <3>1. PICK d \in Nat : d = c \div 10
        BY <2>2
      <3>2. Cardinality(gone) = Max({1, d})
        BY <1>8, <2>1, <3>1
      <3>3. 1 <= Max({1, d}) /\ d <= Max({1, d}) /\ Max({1, d}) \in Nat
        BY MaxOfTwo
      <3> QED
        BY <3>1, <3>2, <3>3
    <2>4. CASE c >= 20
      <3>1. Cardinality(gone) >= 2
        BY <1>4, <2>2, <2>3, <2>4
      <3> QED
        BY <1>1, <1>2, <1>3, <1>4, <1>5, <1>6, <2>1, <3>1
    <2>5. CASE ~(c >= 20)
      BY <1>1, <1>4, <1>5, <1>6, <2>1, <2>3, <2>5
    <2> QED
      BY <2>4, <2>5
  <1> QED
    BY <1>7, <1>8

LEMMA TrackerAges ==
    ASSUME NEW t, TrackerOK(t), NEW h
    PROVE  AgesOK(Ages(t, h))
  <1>1. AgesOK(<<>>)
    BY LimiterAssumption DEF AgesOK, Ordered
  <1> QED
    BY <1>1 DEF Ages, TrackerOK

\* What a check does to every key.
LEMMA CheckStep ==
    ASSUME TrackerOK(lim.tracker), NEW h \in Hosts, NEW r \in check(lim, h)
    PROVE  /\ TrackerOK(r.lim.tracker)
           /\ \A g \in Hosts \ {h} :
                 IF g \in r.gone THEN Ages(r.lim.tracker, g) = <<>>
                 ELSE InWindow(Ages(r.lim.tracker, g)) = InWindow(Ages(lim.tracker, g))
           /\ \E a : /\ a = IF h \in r.gone THEN <<>> ELSE InWindow(Ages(lim.tracker, h))
                     /\ Ages(r.lim.tracker, h) = IF r.allowed THEN Append(a, 0) ELSE a
  <1>1. PICK t, t1, t2 : /\ t = lim.tracker
                         /\ t1 = IF lim.cleaned > Window THEN _cleanup_all(t) ELSE t
                         /\ t2 = Put(t1, h, InWindow(Ages(t1, h)))
    OBVIOUS
  <1>2. PICK gone, t3, a, ok, t4 :
            /\ gone \in IF Cardinality(DOMAIN t2) > MaxKeys THEN _remove_oldest_keys(t2) ELSE {{}}
            /\ t3 = Restrict(t2, DOMAIN t2 \ gone) /\ a = Ages(t3, h)
            /\ ok = (Len(a) < MaxRequests)
            /\ t4 = Put(t3, h, IF ok THEN Append(a, 0) ELSE a)
            /\ r.lim.tracker = t4 /\ r.allowed = ok /\ r.gone = gone
    <2>1. PICK gone \in IF Cardinality(DOMAIN t2) > MaxKeys THEN _remove_oldest_keys(t2) ELSE {{}} :
              LET t3 == Restrict(t2, DOMAIN t2 \ gone)
                  ages == Ages(t3, h)
                  ok == Len(ages) < MaxRequests
              IN  r = [lim |-> [tracker |-> Put(t3, h, IF ok THEN Append(ages, 0) ELSE ages),
                                cleaned |-> IF lim.cleaned > Window THEN 0 ELSE lim.cleaned],
                       allowed |-> ok, gone |-> gone]
      BY <1>1 DEF check
    <2>2. PICK t3, a, ok, t4 :
              /\ t3 = Restrict(t2, DOMAIN t2 \ gone) /\ a = Ages(t3, h)
              /\ ok = (Len(a) < MaxRequests)
              /\ t4 = Put(t3, h, IF ok THEN Append(a, 0) ELSE a)
      OBVIOUS
    <2>3. r.lim.tracker = t4 /\ r.allowed = ok /\ r.gone = gone
      BY <2>1, <2>2
    <2> QED
      BY <2>1, <2>2, <2>3
  <1>3. /\ DOMAIN t1 \subseteq DOMAIN t
        /\ \A g \in Hosts : AgesOK(Ages(t1, g)) /\ InWindow(Ages(t1, g)) = InWindow(Ages(t, g))
    <2>1. CASE ~(lim.cleaned > Window)
      BY <1>1, <2>1, TrackerAges
    <2>2. CASE lim.cleaned > Window
      <3>1. t1 = _cleanup_all(t)
        BY <1>1, <2>2
      <3>2. ASSUME NEW g \in Hosts
            PROVE  AgesOK(Ages(t1, g)) /\ InWindow(Ages(t1, g)) = InWindow(Ages(t, g))
        <4>1. AgesOK(Ages(t, g))
          BY <1>1, TrackerAges
        <4>2. Ages(t1, g) = InWindow(Ages(t, g))
          BY <3>1, NoneFresh DEF Ages, _cleanup_all
        <4>3. Fresh(InWindow(Ages(t, g))) /\ Len(InWindow(Ages(t, g))) <= Len(Ages(t, g))
              /\ InWindow(InWindow(Ages(t, g))) = InWindow(Ages(t, g))
          BY <4>1, InWindowFresh DEF AgesOK
        <4>4. Len(Ages(t, g)) \in Nat /\ Len(InWindow(Ages(t, g))) \in Nat
          BY <4>1, <4>3 DEF AgesOK, Fresh, Ordered
        <4>5. AgesOK(InWindow(Ages(t, g)))
          BY <4>1, <4>3, <4>4, LimiterAssumption DEF AgesOK, Fresh
        <4> QED
          BY <4>2, <4>3, <4>5
      <3> QED
        BY <3>1, <3>2 DEF _cleanup_all
    <2> QED
      BY <2>1, <2>2
  <1>4. /\ DOMAIN t2 = DOMAIN t1 \cup {h} /\ Ages(t2, h) = InWindow(Ages(t, h))
        /\ \A g \in Hosts \ {h} : Ages(t2, g) = Ages(t1, g)
    <2>1. Ages(t2, h) = InWindow(Ages(t1, h))
      BY <1>1 DEF Ages, Put
    <2> QED
      BY <1>1, <1>3, <2>1 DEF Ages, Put
  <1>5. /\ gone \subseteq DOMAIN t2
        /\ Cardinality(DOMAIN t2) > MaxKeys => Cardinality(gone) = Max({1, Cardinality(DOMAIN t2) \div 10})
        /\ ~(Cardinality(DOMAIN t2) > MaxKeys) => gone = {}
    BY <1>2 DEF _remove_oldest_keys, kSubset
  <1>6. /\ DOMAIN t4 = (DOMAIN t2 \ gone) \cup {h}
        /\ Ages(t4, h) = IF ok THEN Append(a, 0) ELSE a
        /\ \A g \in Hosts \ {h} : Ages(t4, g) = IF g \in gone THEN <<>> ELSE Ages(t2, g)
        /\ a = IF h \in gone THEN <<>> ELSE Ages(t2, h)
    <2>1. DOMAIN t3 = DOMAIN t2 \ gone /\ \A g \in DOMAIN t3 : t3[g] = t2[g]
      BY <1>2 DEF Restrict
    <2>2. DOMAIN t4 = (DOMAIN t2 \ gone) \cup {h}
      BY <1>2, <2>1 DEF Put
    <2>3. Ages(t4, h) = IF ok THEN Append(a, 0) ELSE a
      BY <1>2 DEF Put, Ages
    <2>4. a = IF h \in gone THEN <<>> ELSE Ages(t2, h)
      BY <1>2, <2>1 DEF Ages
    <2>5. ASSUME NEW g \in Hosts \ {h}
          PROVE  Ages(t4, g) = IF g \in gone THEN <<>> ELSE Ages(t2, g)
      BY <1>2, <2>1, <2>2 DEF Ages, Put
    <2> QED
      BY <2>2, <2>3, <2>4, <2>5
  <1>7. TrackerOK(t4)
    <2>1. IsFiniteSet(DOMAIN t4) /\ Cardinality(DOMAIN t4) <= MostKeys
      <3>1. IsFiniteSet(DOMAIN t) /\ Cardinality(DOMAIN t) <= MostKeys /\ DOMAIN t1 \in SUBSET DOMAIN t
        BY <1>1, <1>3 DEF TrackerOK
      <3>2. PICK D, D1, D2, D4 : D = DOMAIN t /\ D1 = DOMAIN t1 /\ D2 = DOMAIN t2 /\ D4 = DOMAIN t4
        OBVIOUS
      <3> QED
        BY <1>4, <1>5, <1>6, <3>1, <3>2, KeysBound
    <2>2. DOMAIN t4 \subseteq Hosts
      BY <1>1, <1>3, <1>4, <1>6 DEF TrackerOK
    <2>3. Fresh(a) /\ Len(a) \in Nat /\ Len(a) <= MaxRequests
      <3>1. CASE h \in gone
        BY <1>6, <3>1, NoneFresh, LimiterAssumption
      <3>2. CASE h \notin gone
        <4>1. a = InWindow(Ages(t, h)) /\ Ordered(Ages(t, h)) /\ Len(Ages(t, h)) <= MaxRequests
          BY <1>1, <1>4, <1>6, <3>2, TrackerAges DEF AgesOK
        <4>2. Fresh(a) /\ Len(a) <= Len(Ages(t, h))
          BY <4>1, InWindowFresh
        <4>3. Len(a) \in Nat /\ Len(Ages(t, h)) \in Nat
          BY <4>1, <4>2 DEF Fresh, Ordered
        <4> QED
          BY <4>1, <4>2, <4>3, LimiterAssumption
      <3> QED
        BY <3>1, <3>2
    <2>4. ASSUME NEW g \in DOMAIN t4 PROVE AgesOK(t4[g])
      <3>1. t4[g] = Ages(t4, g) /\ g \in Hosts
        BY <2>2 DEF Ages
      <3>2. CASE g = h
        <4>1. CASE ok
          <5>1. Fresh(Append(a, 0)) /\ Len(Append(a, 0)) = Len(a) + 1 /\ Len(a) < MaxRequests
            BY <1>2, <2>3, <4>1, AppendNow
          <5>2. t4[g] = Append(a, 0)
            BY <1>6, <3>1, <3>2, <4>1
          <5>3. Len(Append(a, 0)) <= MaxRequests
            BY <2>3, <5>1, LimiterAssumption
          <5> QED
            BY <5>1, <5>2, <5>3 DEF AgesOK, Fresh
        <4>2. CASE ~ok
          BY <1>6, <2>3, <3>1, <3>2, <4>2 DEF AgesOK, Fresh
        <4> QED
          BY <4>1, <4>2
      <3>3. CASE g # h
        <4>1. AgesOK(<<>>)
          BY LimiterAssumption DEF AgesOK, Ordered
        <4> QED
          BY <1>3, <1>4, <1>6, <3>1, <3>3, <4>1
      <3> QED
        BY <3>2, <3>3
    <2> QED
      BY <2>1, <2>2, <2>4 DEF TrackerOK
  <1>8. ASSUME NEW g \in Hosts \ {h}
        PROVE  IF g \in gone THEN Ages(t4, g) = <<>>
               ELSE InWindow(Ages(t4, g)) = InWindow(Ages(t, g))
    BY <1>3, <1>4, <1>6
  <1>9. a = IF h \in gone THEN <<>> ELSE InWindow(Ages(t, h))
    BY <1>4, <1>6
  <1> QED
    BY <1>1, <1>2, <1>6, <1>7, <1>8, <1>9

\* What holds of one host: its requests in the history and in the tracker.
HostOK(sp, ages, out) ==
    /\ Fresh(sp) /\ EndsWith(sp, InWindow(ages))
    /\ ~out => sp = InWindow(ages)

LEMMA NothingKnown ==
    ASSUME NEW sp, Fresh(sp), NEW out, ~out => sp = <<>>
    PROVE  HostOK(sp, <<>>, out)
  <1>1. InWindow(<<>>) = <<>> /\ Len(sp) \in Nat
    BY NoneFresh DEF Fresh, Ordered
  <1>2. EndsWith(sp, <<>>)
    BY <1>1 DEF EndsWith
  <1> QED
    BY <1>1, <1>2 DEF HostOK

LEMMA RequestLimiter ==
    ASSUME LimiterInv, NEW k, NEW h \in Hosts, Request(k, h)
    PROVE  LimiterInv'
  <1>1. PICK r \in check(lim, h) :
            /\ lim' = r.lim
            /\ spent' = IF r.allowed THEN [spent EXCEPT ![h] = Append(@, 0)] ELSE spent
            /\ evicted' = evicted \cup {g \in r.gone : spent[g] # <<>>}
    BY DEF Request
  <1>2. TrackerOK(lim.tracker) /\ DOMAIN spent = Hosts
    BY DEF LimiterInv
  <1>3. PICK t, new : t = lim.tracker /\ new = r.lim.tracker
    OBVIOUS
  <1>4. /\ TrackerOK(new)
        /\ \A g \in Hosts \ {h} : IF g \in r.gone THEN Ages(new, g) = <<>>
                                  ELSE InWindow(Ages(new, g)) = InWindow(Ages(t, g))
        /\ \E a : /\ a = IF h \in r.gone THEN <<>> ELSE InWindow(Ages(t, h))
                  /\ Ages(new, h) = IF r.allowed THEN Append(a, 0) ELSE a
    BY <1>2, <1>3, CheckStep
  <1>5. ASSUME NEW g \in Hosts PROVE HostOK(spent[g], Ages(t, g), g \in evicted)
    BY <1>3 DEF LimiterInv, HostOK
  <1>6. ASSUME NEW g \in Hosts PROVE HostOK(spent'[g], Ages(new, g), g \in evicted')
    <2>1. CASE g # h
      <3>1. spent'[g] = spent[g]
        BY <1>1, <1>2, <2>1
      <3>2. CASE g \in r.gone
        <4>1. ~(g \in evicted') => spent[g] = <<>>
          BY <1>1, <3>2
        <4>2. Ages(new, g) = <<>> /\ Fresh(spent[g])
          BY <1>4, <1>5, <2>1, <3>2 DEF HostOK
        <4> QED
          BY <3>1, <4>1, <4>2, NothingKnown
      <3>3. CASE g \notin r.gone
        <4>1. InWindow(Ages(new, g)) = InWindow(Ages(t, g)) /\ (g \in evicted' <=> g \in evicted)
          BY <1>1, <1>4, <2>1, <3>3
        <4> QED
          BY <1>5, <3>1, <4>1 DEF HostOK
      <3> QED
        BY <3>2, <3>3
    <2>2. CASE g = h
      <3>1. PICK a : /\ a = IF h \in r.gone THEN <<>> ELSE InWindow(Ages(t, h))
                     /\ Ages(new, h) = IF r.allowed THEN Append(a, 0) ELSE a
        BY <1>4
      <3>2. Fresh(a) /\ EndsWith(spent[h], a) /\ Fresh(spent[h]) /\ (h \notin evicted' => spent[h] = a)
        <4>1. CASE h \in r.gone
          <5>1. h \notin evicted' => spent[h] = <<>>
            BY <1>1, <4>1
          <5>2. HostOK(spent[h], <<>>, h \in evicted') /\ InWindow(<<>>) = <<>> /\ Fresh(<<>>)
            BY <1>5, <5>1, NothingKnown, NoneFresh DEF HostOK
          <5> QED
            BY <3>1, <4>1, <5>2 DEF HostOK
        <4>2. CASE h \notin r.gone
          <5>1. a = InWindow(Ages(t, h)) /\ h \notin evicted' => h \notin evicted
            BY <1>1, <3>1, <4>2
          <5>2. Fresh(InWindow(Ages(t, h)))
            BY <1>2, <1>3, TrackerAges, InWindowFresh DEF AgesOK
          <5> QED
            BY <1>1, <1>5, <3>1, <4>2, <5>1, <5>2 DEF HostOK
        <4> QED
          BY <4>1, <4>2
      <3>3. CASE r.allowed
        <4>1. PICK s2, a2 : s2 = Append(spent[h], 0) /\ a2 = Append(a, 0)
          OBVIOUS
        <4>2. Fresh(s2) /\ Fresh(a2) /\ EndsWith(s2, a2) /\ (h \notin evicted' => s2 = a2)
          BY <3>2, <4>1, AppendNow, EndsWithBoth
        <4>3. spent'[h] = s2 /\ Ages(new, h) = a2
          BY <1>1, <1>2, <3>1, <3>3, <4>1
        <4>4. InWindow(a2) = a2
          BY <4>2, InWindowAll DEF Fresh
        <4> QED
          BY <2>2, <4>2, <4>3, <4>4 DEF HostOK
      <3>4. CASE ~r.allowed
        <4>1. spent'[h] = spent[h] /\ Ages(new, h) = a
          BY <1>1, <3>1, <3>4
        <4>2. InWindow(a) = a
          BY <3>2, InWindowAll DEF Fresh
        <4> QED
          BY <2>2, <3>2, <4>1, <4>2 DEF HostOK
      <3> QED
        BY <3>3, <3>4
    <2> QED
      BY <2>1, <2>2
  <1>7. lim'.tracker = new /\ DOMAIN spent' = Hosts
    BY <1>1, <1>2, <1>3
  <1> QED
    BY <1>4, <1>6, <1>7 DEF LimiterInv, HostOK

LEMMA TickLimiter ==
    ASSUME LimiterInv, Tick
    PROVE  LimiterInv'
  <1>1. PICK t, new : t = lim.tracker /\ new = lim'.tracker
    OBVIOUS
  <1>2. /\ TrackerOK(t)
        /\ DOMAIN new = DOMAIN t
        /\ \A h \in DOMAIN t : new[h] = [i \in DOMAIN t[h] |-> Older(t[h][i])]
        /\ DOMAIN spent = Hosts /\ DOMAIN spent' = Hosts
        /\ \A h \in Hosts : spent'[h] = InWindow([i \in DOMAIN spent[h] |-> spent[h][i] + 1])
        /\ \A h \in Hosts : h \in evicted /\ spent'[h] # <<>> => h \in evicted'
    BY <1>1 DEF Tick, Aged, LimiterInv
  <1>3. ASSUME NEW h \in Hosts PROVE Ages(new, h) = [i \in DOMAIN Ages(t, h) |-> Older(Ages(t, h)[i])]
    <2>1. CASE h \in DOMAIN t
      BY <1>2, <2>1 DEF Ages
    <2>2. CASE h \notin DOMAIN t
      <3>1. Ages(new, h) = <<>> /\ Ages(t, h) = <<>>
        BY <1>2, <2>2 DEF Ages
      <3>2. [i \in DOMAIN <<>> |-> Older(<<>>[i])] = <<>>
        OBVIOUS
      <3> QED
        BY <3>1, <3>2
    <2> QED
      BY <2>1, <2>2
  <1>4. ASSUME NEW h \in Hosts
        PROVE  AgesOK(Ages(new, h)) /\ HostOK(spent'[h], Ages(new, h), h \in evicted')
    <2>1. AgesOK(Ages(t, h)) /\ HostOK(spent[h], Ages(t, h), h \in evicted)
      BY <1>1, <1>2, TrackerAges DEF LimiterInv, HostOK
    <2>2. PICK a, p, a2, p2 : /\ a = Ages(t, h) /\ p = spent[h]
                              /\ a2 = [i \in DOMAIN a |-> Older(a[i])] /\ p2 = [i \in DOMAIN p |-> p[i] + 1]
      OBVIOUS
    <2>3. /\ Ordered(a2) /\ Len(a2) = Len(a) /\ Ordered(p2) /\ EndsWith(InWindow(p2), InWindow(a2))
          /\ p = InWindow(a) => InWindow(p2) = InWindow(a2)
      BY <2>1, <2>2, OneTick DEF AgesOK, HostOK
    <2>4. a2 = Ages(new, h) /\ spent'[h] = InWindow(p2)
      BY <1>2, <1>3, <2>2
    <2>5. Fresh(InWindow(p2)) /\ Fresh(InWindow(a2))
      BY <2>3, InWindowFresh
    <2>6. ASSUME h \notin evicted' PROVE InWindow(p2) = InWindow(a2)
      <3>1. CASE h \notin evicted
        BY <2>1, <2>2, <2>3, <3>1 DEF HostOK
      <3>2. CASE h \in evicted
        <4>1. InWindow(p2) = <<>>
          BY <1>2, <2>4, <2>6, <3>2
        <4>2. Len(InWindow(a2)) = 0 /\ InWindow(a2) \in Seq(Nat)
          BY <2>3, <2>5, <4>1 DEF EndsWith, Fresh, Ordered
        <4> QED
          BY <4>1, <4>2
      <3> QED
        BY <3>1, <3>2
    <2> QED
      BY <2>1, <2>2, <2>3, <2>4, <2>5, <2>6 DEF AgesOK, HostOK
  <1>5. TrackerOK(new)
    <2>1. ASSUME NEW h \in DOMAIN new PROVE AgesOK(new[h])
      <3>1. h \in Hosts /\ Ages(new, h) = new[h]
        BY <1>2 DEF TrackerOK, Ages
      <3> QED
        BY <1>4, <3>1
    <2> QED
      BY <1>2, <2>1 DEF TrackerOK
  <1> QED
    BY <1>1, <1>2, <1>4, <1>5 DEF LimiterInv, HostOK

LEMMA NothingRequested ==
    ASSUME NEW t, t = NoRequests.tracker
    PROVE  /\ TrackerOK(t)
           /\ \A h \in Hosts : \A e : HostOK(<<>>, Ages(t, h), e)
  <1>1. t = <<>> /\ DOMAIN t = {}
    BY DEF NoRequests
  <1>2. IsFiniteSet({}) /\ Cardinality({}) = 0 /\ MostKeys \in Nat
    BY FS_EmptySet, MaxOfTwo, LimiterAssumption DEF MostKeys
  <1>3. TrackerOK(t)
    BY <1>1, <1>2 DEF TrackerOK
  <1>4. \A h \in Hosts : Ages(t, h) = <<>>
    BY <1>1 DEF Ages
  <1> QED
    BY <1>3, <1>4, NoneFresh, NothingKnown

LEMMA LimiterInit == Init => LimiterInv
  BY NothingRequested DEF Init, LimiterInv, HostOK

LEMMA LimiterNext == LimiterInv /\ [Next]_vars => LimiterInv'
  <1> SUFFICES ASSUME LimiterInv, [Next]_vars PROVE LimiterInv'
    OBVIOUS
  <1>1. CASE UNCHANGED limiter
    BY <1>1 DEF limiter, LimiterInv
  <1>2. CASE Tick
    BY <1>2, TickLimiter
  <1>3. CASE Crash
    <2>1. /\ lim' = NoRequests /\ DOMAIN spent' = Hosts /\ \A h \in Hosts : spent'[h] = <<>>
      BY <1>3 DEF Crash
    <2> QED
      BY <2>1, NothingRequested DEF LimiterInv, HostOK
  <1>4. ASSUME NEW k \in Conns, NEW h \in Hosts, Request(k, h)
        PROVE  LimiterInv'
    BY <1>4, RequestLimiter
  <1>5. ASSUME NEW k \in Conns,
               \/ connectionMade(k) \/ connectionLost(k) \/ connectionLost_login(k)
               \/ timeoutConnection(k) \/ timeoutShell(k) \/ auth_none(k) \/ auth_publickey(k)
               \/ auth_keyboard_interactive(k) \/ openShell(k) \/ telnet_User(k) \/ telnet_DO(k)
               \/ telnet_DONT(k) \/ telnet_DONT_login(k) \/ characterReceived(k)
               \/ closed(k) \/ ssh_SERVICE_REQUEST_connection(k) \/ ssh_SERVICE_REQUEST_userauth(k)
               \/ \E b \in BOOLEAN : dataReceived(k, b)
        PROVE  UNCHANGED limiter
    BY <1>5, Zenon DEF connectionMade, connectionLost, connectionLost_login, timeoutConnection,
       timeoutShell, auth_none, auth_publickey, auth_keyboard_interactive, openShell, telnet_User,
       telnet_DO, telnet_DONT, telnet_DONT_login, characterReceived, dataReceived, closed,
         ssh_SERVICE_REQUEST_connection, ssh_SERVICE_REQUEST_userauth
  <1>6. ASSUME NEW k \in Conns, NEW p, NEW q,
               auth_password(k, p) \/ telnet_Password(k, p) \/ ssh_USERAUTH_INFO_RESPONSE(k, q)
        PROVE  UNCHANGED limiter
    BY <1>6 DEF auth_password, telnet_Password, ssh_USERAUTH_INFO_RESPONSE
  <1>7. UNCHANGED vars => UNCHANGED limiter
    BY DEF vars
  <1> QED
    BY <1>1, <1>2, <1>3, <1>4, <1>5, <1>6, <1>7 DEF Next

LEMMA LimiterHolds == Spec => []LimiterInv
  BY LimiterInit, LimiterNext, PTL DEF Spec

-----------------------------------------------------------------------------
\* All sessions together reach a host at most max_requests times in a window,
\* unless its key was removed in that time: check of core/rate_limiter.py, for
\* every limit, window, number of keys and number of hosts.
THEOREM LimitAlwaysHolds == Spec => []LimitHolds
  <1>1. LimiterInv => LimitHolds
    <2> SUFFICES ASSUME LimiterInv, NEW h \in Hosts, Len(spent[h]) > MaxRequests, h \notin evicted
                 PROVE  FALSE
      BY DEF LimitHolds
    <2>1. PICK a : a = Ages(lim.tracker, h)
      OBVIOUS
    <2>2. AgesOK(a) /\ spent[h] = InWindow(a)
      BY <2>1, TrackerAges DEF LimiterInv
    <2>3. Len(InWindow(a)) <= Len(a) /\ Fresh(InWindow(a))
      BY <2>2, InWindowFresh DEF AgesOK
    <2>4. Len(a) \in Nat /\ Len(InWindow(a)) \in Nat /\ Len(a) <= MaxRequests
      BY <2>2, <2>3 DEF AgesOK, Fresh, Ordered
    <2> QED
      BY <2>2, <2>3, <2>4, LimiterAssumption
  <1> QED
    BY <1>1, LimiterHolds, PTL

\* Whatever its client does, a connection is told to close within the time
\* limits of login and session; its timers end with it; the cache of AuthRandom
\* and the keys of the rate limiter stay within their bounds.
THEOREM AccessCorrect == Spec => []AccessInv
  <1>1. DialogueInv => SessionsEnd /\ TimersDie
    <2> SUFFICES ASSUME DialogueInv, NEW k \in Conns
                 PROVE  /\ Connected(k) => age[k] <= AuthTimeout + Longest
                        /\ st[k] = "closed" => idle[k] = Off /\ (proto[k] = "ssh" => timer[k] = Off)
      BY DEF SessionsEnd, TimersDie, Longest
    <2>1. /\ ConnOK(proto[k], st[k], echo[k], waits[k], timer[k], idle[k], age[k], who[k])
          /\ timer[k] \in Nat \cup {Off} /\ age[k] \in Nat
      BY DEF DialogueInv, DialogueType
    <2> QED
      BY <2>1, Limits, TimeoutAssumption DEF ConnOK, Connected
  <1>2. DialogueInv /\ AuthInv /\ LimiterInv => AccessTypeOK
    <2> SUFFICES ASSUME DialogueInv, AuthInv, LimiterInv PROVE AccessTypeOK
      OBVIOUS
    <2>1. ASSUME NEW k \in Conns
          PROVE  /\ st[k] \in IF proto[k] = "ssh" THEN SSHStates ELSE TelnetStates
                 /\ timer[k] \in {Off} \cup 0 .. Timeouts
                 /\ idle[k] \in {Off} \cup 0 .. IdleTimeout
                 /\ waits[k] # Nobody => echo[k].neg /\ echo[k].on
      <3>1. /\ ConnOK(proto[k], st[k], echo[k], waits[k], timer[k], idle[k], age[k], who[k])
            /\ timer[k] \in Nat \cup {Off} /\ idle[k] \in Nat \cup {Off}
        BY DEF DialogueInv, DialogueType
      <3> QED
        BY <3>1, Limits, TimeoutAssumption DEF ConnOK
    <2>2. Len(uservar.cache) <= MaxCache /\ Cardinality(DOMAIN lim.tracker) <= MostKeys
      BY DEF AuthInv, VarsOK, LimiterInv, TrackerOK
    <2> QED
      BY <2>1, <2>2 DEF AccessTypeOK, SSHStates, TelnetStates, Timeouts, MostKeys
  <1> QED
    BY <1>1, <1>2, LoginsHold, LimiterHolds, PTL DEF AccessInv
=============================================================================
