------------------------- MODULE TelnetProxyProofs -------------------------
(* Theorems about TelnetProxy, for every number of packets and of tries. *)
EXTENDS TelnetProxy, TLAPS

\* What the handler lets through of a client that types only when asked.
Options == {"nego", "named"}

Quiet(queue) == \A i \in DOMAIN queue : queue[i] \in Options

\* The line is on the wire, among options only.
Only(queue, line) ==
    \E i \in DOMAIN queue :
        /\ queue[i] = line
        /\ \A j \in DOMAIN queue : j # i => queue[j] \in Options

\* No line is on its way to login.
NoLine(l, w) == l.input = <<>> /\ Quiet(w)

\* The line, and no other, is on its way to login.
OneLine(l, w, line) ==
    \/ l.input = <<line>> /\ Quiet(w)
    \/ l.input = <<>> /\ Only(w, line)

\* login's state, the handler's flags, the lines in between and what is known of
\* the echo agree.  A prompt that came in two packets was not noticed.
Follows(l, h, w, m) ==
    \/ /\ l.at = "start" /\ l.name \in {"none", "named"} /\ ~l.dirty
       /\ ~h.inputingLogin /\ ~h.inputingPassword /\ ~h.waitingLoginEcho
       /\ ~h.authDone
       /\ NoLine(l, w)
    \/ /\ l.at = "name" /\ ~l.dirty
       /\ ~h.inputingPassword /\ ~h.authDone
       /\ ~h.waitingLoginEcho
       /\ NoLine(l, w)
    \/ /\ l.at = "name" /\ ~l.dirty
       /\ ~h.inputingPassword /\ ~h.authDone
       /\ ~h.inputingLogin /\ (h.waitingLoginEcho \/ m)
       /\ OneLine(l, w, "login")
    \/ /\ l.at \in {"part", "echoed"} /\ l.name = "login" /\ ~l.dirty
       /\ ~h.inputingLogin /\ ~h.inputingPassword /\ ~h.waitingLoginEcho
       /\ ~h.authDone
       /\ l.at = "part" => m
       /\ NoLine(l, w)
    \/ /\ l.at = "password" /\ l.name \in {"named", "login"} /\ ~l.dirty
       /\ ~h.inputingLogin /\ ~h.waitingLoginEcho /\ ~h.authDone
       /\ \/ NoLine(l, w)
          \/ ~h.inputingPassword /\ OneLine(l, w, "fake")
    \/ /\ l.at = "password" /\ l.name \in {"named", "login"}
       /\ ~h.inputingLogin /\ ~h.waitingLoginEcho /\ ~h.inputingPassword
       /\ h.authDone
       /\ IF l.input = <<>> THEN ~l.dirty /\ FirstLine(w, "pass")
          ELSE Head(l.input) = "pass"
    \/ l.at = "shell" /\ h.authDone

\* What a screen may show of what the handler wrote in the client's place.
Hides(s, m) ==
    /\ s \cap {"login", "pass", "fake"} = {}
    /\ s \cap {"loginEcho", "loginPart"} # {} => m

\* The client types only when asked, to a proxy that spoofs its login.
Asked == config.spoof /\ ~typedAhead

\* Before the backend connected, nothing was said to it or by it.
Silent ==
    ~HasClient => /\ wire = <<>>
                  /\ login = [at |-> "start", name |-> "none", input |-> <<>>,
                              dirty |-> FALSE, tries |-> 0]
                  /\ ~handler.inputingLogin /\ ~handler.inputingPassword
                  /\ ~handler.waitingLoginEcho /\ ~handler.authDone

\* What holds while the client types only when asked.
AskedInv ==
    Asked => /\ Quiet(backend_buffer)
             /\ back = "up" => Follows(login, handler, wire, echoMissed)
             /\ login.at = "shell" => handler.authDone

\* A VM went back as unused after the end of a session without a login.
ReuseInv == lease = "reused" => front = "lost" /\ ~handler.authDone

\* The backend is connected to once the number of the VM is known, if it is a
\* VM of the pool.
VmFirst == poolconn # "off" /\ ~vm_id => back = "none"

\* The inductive invariant.
IInv ==
    /\ TypeOK
    /\ Silent
    /\ VmFirst
    /\ AskedInv
    /\ OnePromptAtATime
    /\ SpoofedIsHidden
    /\ ReuseInv

-----------------------------------------------------------------------------
(* Queues of packets *)

\* What is left of a queue when its first packet is taken.
LEMMA QueueTail ==
    ASSUME NEW q \in Seq(Packet), q # <<>>, NEW x, x \notin Options
    PROVE  /\ Tail(q) \in Seq(Packet) /\ Head(q) \in Packet
           /\ Quiet(q) => Quiet(Tail(q)) /\ Head(q) \in Options
           /\ Only(q, x) /\ Head(q) \in Options => Only(Tail(q), x)
           /\ Only(q, x) /\ Head(q) \notin Options =>
                Head(q) = x /\ Quiet(Tail(q))
           /\ FirstLine(q, x) /\ Head(q) \in Options => FirstLine(Tail(q), x)
           /\ FirstLine(q, x) /\ Head(q) \notin Options => Head(q) = x
  <1>1. PICK n \in Nat : n = Len(q) /\ n > 0 /\ DOMAIN q = 1..n
    <2>1. Len(q) \in Nat /\ Len(q) # 0 /\ DOMAIN q = 1..Len(q)
      OBVIOUS
    <2>2. Len(q) > 0
      BY <2>1
    <2> QED
      BY <2>1, <2>2, Zenon
  <1>2. Tail(q) \in Seq(Packet) /\ Head(q) \in Packet /\ Head(q) = q[1]
    OBVIOUS
  <1>3. PICK t : /\ t = Tail(q) /\ DOMAIN t = 1..(n - 1)
                 /\ \A k \in 1..(n - 1) : t[k] = q[k + 1]
    <2>1. Len(Tail(q)) = n - 1 /\ DOMAIN Tail(q) = 1..Len(Tail(q))
      BY <1>1, <1>2
    <2>2. \A k \in 1..(n - 1) : Tail(q)[k] = q[k + 1]
      BY <1>1
    <2> QED
      BY <2>1, <2>2
  <1>4. \A k \in 1..n : k = 1 \/ (k - 1 \in 1..(n - 1) /\ t[k - 1] = q[k])
    BY <1>1, <1>3
  <1>5. Quiet(q) => Quiet(t) /\ q[1] \in Options
    BY <1>1, <1>3 DEF Quiet
  <1>6. ASSUME Only(q, x) PROVE /\ q[1] \in Options => Only(t, x)
                                /\ q[1] \notin Options => q[1] = x /\ Quiet(t)
    <2>1. PICK i \in 1..n :
            q[i] = x /\ \A j \in 1..n : j # i => q[j] \in Options
      BY <1>1, <1>6 DEF Only
    <2>2. CASE i = 1
      BY <1>1, <1>3, <2>1, <2>2 DEF Quiet
    <2>3. CASE i # 1
      <3>1. i - 1 \in 1..(n - 1) /\ t[i - 1] = x
        BY <1>4, <2>1, <2>3
      <3>2. \A j \in 1..(n - 1) : j # i - 1 => t[j] \in Options
        BY <1>1, <1>3, <2>1
      <3>3. q[1] \in Options
        BY <1>1, <2>1, <2>3
      <3> QED
        BY <1>3, <3>1, <3>2, <3>3 DEF Only
    <2> QED
      BY <2>2, <2>3
  <1>7. ASSUME FirstLine(q, x) PROVE /\ q[1] \in Options => FirstLine(t, x)
                                     /\ q[1] \notin Options => q[1] = x
    <2>1. PICK i \in 1..n :
            q[i] = x /\ \A j \in 1..(i - 1) : q[j] \in Options
      BY <1>1, <1>7 DEF FirstLine, Options
    <2>2. CASE i = 1
      BY <2>1, <2>2
    <2>3. CASE i # 1
      <3>1. i - 1 \in 1..(n - 1) /\ t[i - 1] = x
        BY <1>4, <2>1, <2>3
      <3>2. \A j \in 1..(i - 1 - 1) : t[j] \in Options
        BY <1>1, <1>3, <2>1
      <3>3. q[1] \in Options
        BY <1>1, <2>1, <2>3
      <3> QED
        BY <1>3, <3>1, <3>2, <3>3 DEF FirstLine, Options
    <2> QED
      BY <2>2, <2>3
  <1> QED
    BY <1>2, <1>3, <1>5, <1>6, <1>7

\* What is on a queue when more is written to it.
LEMMA QueueGrows ==
    ASSUME NEW q \in Seq(Packet), NEW r \in Seq(Packet), NEW x
    PROVE  /\ q \o r \in Seq(Packet)
           /\ Quiet(q) /\ Quiet(r) => Quiet(q \o r)
           /\ Quiet(q) /\ Only(r, x) => Only(q \o r, x)
           /\ Only(q, x) /\ Quiet(r) => Only(q \o r, x)
           /\ FirstLine(q, x) => FirstLine(q \o r, x)
  <1>1. PICK n \in Nat : n = Len(q) /\ DOMAIN q = 1..n
    OBVIOUS
  <1>2. PICK m \in Nat : m = Len(r) /\ DOMAIN r = 1..m
    OBVIOUS
  <1>3. PICK t \in Seq(Packet) :
            /\ t = q \o r /\ DOMAIN t = 1..(n + m)
            /\ \A k \in 1..(n + m) : t[k] = IF k <= n THEN q[k] ELSE r[k - n]
    <2>1. /\ q \o r \in Seq(Packet) /\ DOMAIN (q \o r) = 1..(n + m)
          /\ \A k \in 1..(n + m) :
                (q \o r)[k] = IF k <= n THEN q[k] ELSE r[k - n]
      BY <1>1, <1>2
    <2> QED
      BY <2>1
  <1>4. \A k \in 1..n : k \in 1..(n + m) /\ t[k] = q[k]
    BY <1>3
  <1>5. \A k \in 1..m : n + k \in 1..(n + m) /\ t[n + k] = r[k]
    BY <1>3
  <1>6. \A k \in 1..(n + m) : k \in 1..n \/ (k - n \in 1..m /\ n + (k - n) = k)
    OBVIOUS
  <1> HIDE <1>3
  <1>7. DOMAIN t = 1..(n + m)
    BY <1>3
  <1>8. ASSUME Quiet(q), Quiet(r) PROVE Quiet(t)
    <2>1. ASSUME NEW k \in 1..(n + m) PROVE t[k] \in Options
      <3>1. CASE k \in 1..n
        BY <1>1, <1>4, <1>8, <3>1 DEF Quiet
      <3>2. CASE k - n \in 1..m /\ n + (k - n) = k
        BY <1>2, <1>5, <1>8, <3>2 DEF Quiet
      <3> QED
        BY <1>6, <3>1, <3>2
    <2> QED
      BY <1>7, <2>1 DEF Quiet
  <1>9. ASSUME Quiet(q), Only(r, x) PROVE Only(t, x)
    <2>1. PICK i \in 1..m :
            r[i] = x /\ \A j \in 1..m : j # i => r[j] \in Options
      BY <1>2, <1>9 DEF Only
    <2>2. n + i \in 1..(n + m) /\ t[n + i] = x
      BY <1>5, <2>1
    <2>3. ASSUME NEW k \in 1..(n + m), k # n + i PROVE t[k] \in Options
      <3>1. CASE k \in 1..n
        BY <1>1, <1>4, <1>9, <3>1 DEF Quiet
      <3>2. CASE k - n \in 1..m /\ n + (k - n) = k
        <4>1. k - n # i
          BY <2>3, <3>2
        <4> QED
          BY <1>5, <2>1, <3>2, <4>1
      <3> QED
        BY <1>6, <3>1, <3>2
    <2> QED
      BY <1>7, <2>2, <2>3 DEF Only
  <1>10. ASSUME Only(q, x), Quiet(r) PROVE Only(t, x)
    <2>1. PICK i \in 1..n :
            q[i] = x /\ \A j \in 1..n : j # i => q[j] \in Options
      BY <1>1, <1>10 DEF Only
    <2>2. i \in 1..(n + m) /\ t[i] = x
      BY <1>4, <2>1
    <2>3. ASSUME NEW k \in 1..(n + m), k # i PROVE t[k] \in Options
      BY <1>2, <1>4, <1>5, <1>6, <1>10, <2>1, <2>3 DEF Quiet
    <2> QED
      BY <1>7, <2>2, <2>3 DEF Only
  <1>11. ASSUME FirstLine(q, x) PROVE FirstLine(t, x)
    <2>1. PICK i \in 1..n :
            q[i] = x /\ \A j \in 1..(i - 1) : q[j] \in Options
      BY <1>1, <1>11 DEF FirstLine, Options
    <2>2. i \in 1..(n + m) /\ t[i] = x
      BY <1>4, <2>1
    <2>3. \A j \in 1..(i - 1) : t[j] \in Options
      BY <1>1, <1>4, <2>1
    <2> QED
      BY <1>7, <2>2, <2>3 DEF FirstLine, Options
  <1> QED
    BY <1>3, <1>8, <1>9, <1>10, <1>11

\* A queue of one line.
LEMMA QueueOne ==
    ASSUME NEW x \in Packet
    PROVE  /\ <<x>> \in Seq(Packet) /\ <<x>> # <<>> /\ Only(<<x>>, x)
           /\ x \in Options => Quiet(<<x>>)
           /\ Quiet(<<>>) /\ <<>> \in Seq(Packet)
  <1>1. DOMAIN <<x>> = {1} /\ <<x>>[1] = x
    OBVIOUS
  <1>2. <<x>> \in Seq(Packet) /\ <<x>> # <<>> /\ <<>> \in Seq(Packet)
    OBVIOUS
  <1>3. Only(<<x>>, x) /\ (x \in Options => Quiet(<<x>>))
    BY <1>1 DEF Only, Quiet
  <1>4. Quiet(<<>>)
    BY DEF Quiet
  <1> QED
    BY <1>2, <1>3, <1>4

\* A line among options is the first.
LEMMA OnlyIsFirst ==
    ASSUME NEW q \in Seq(Packet), NEW x, Only(q, x)
    PROVE  FirstLine(q, x)
  <1>1. PICK n \in Nat : DOMAIN q = 1..n
    OBVIOUS
  <1>2. PICK i \in 1..n : q[i] = x /\ \A j \in 1..n : j # i => q[j] \in Options
    BY <1>1 DEF Only
  <1>3. \A j \in 1..(i - 1) : j \in 1..n /\ j # i
    BY <1>2
  <1> QED
    BY <1>1, <1>2, <1>3 DEF FirstLine, Options

-----------------------------------------------------------------------------
(* A packet of the client *)

\* What ClientSends sends, given the packet as processed.
Packets(r) ==
    r.back \o (IF r.ok /\ r.sendData THEN <<r.currentData>> ELSE <<>>)

\* The flags of the dialogue are left alone.
SameFlags(h, g) ==
    /\ g.inputingLogin = h.inputingLogin
    /\ g.inputingPassword = h.inputingPassword
    /\ g.waitingLoginEcho = h.waitingLoginEcho
    /\ g.authDone = h.authDone

\* What processing makes of a packet: options pass, a line answers the prompt
\* the handler waits for, and anything else is held back or was typed ahead.
Outcome(r) ==
    \/ /\ Packets(r) \in {<<>>, <<"nego">>, <<"named">>}
       /\ SameFlags(handler, r.h)
    \/ /\ handler.inputingLogin
       /\ Packets(r) = <<"login">>
       /\ ~r.h.inputingLogin /\ r.h.waitingLoginEcho
       /\ r.h.inputingPassword = handler.inputingPassword
       /\ r.h.authDone = handler.authDone
    \/ /\ handler.inputingPassword
       /\ Packets(r) = <<IF r.h.authDone THEN "pass" ELSE "fake">>
       /\ ~r.h.inputingPassword
       /\ r.h.inputingLogin = handler.inputingLogin
       /\ r.h.waitingLoginEcho = handler.waitingLoginEcho

\* The packet once a name in the negotiation was replaced.
Arrived(c) ==
    [h |-> handler, currentData |-> c, sendData |-> TRUE, back |-> <<>>,
     front |-> {}, timer |-> timer, ok |-> TRUE]

LEMMA ArrivedIs ==
    ASSUME NEW p \in ClientPacket
    PROVE  \E c \in Typed \cup Options :
                setProcessingStateFrontend(Processing(p)) = Arrived(c)
  <1>1. CASE p = "user"
    <2>1. setProcessingStateFrontend(Processing(p)) = Arrived("named")
      BY <1>1 DEF setProcessingStateFrontend, Processing, Arrived
    <2> QED
      BY <2>1 DEF Options
  <1>2. CASE p # "user"
    <2>1. setProcessingStateFrontend(Processing(p)) = Arrived(p)
      BY <1>2 DEF setProcessingStateFrontend, Processing, Arrived
    <2> QED
      BY <1>2, <2>1 DEF ClientPacket, Options
  <1> QED
    BY <1>1, <1>2

\* processPasswordInput on each kind of packet.
LEMMA PasswordOutcome ==
    ASSUME TypeOK, handler.inputingPassword,
           NEW c \in Typed \cup Options, NEW accepted \in BOOLEAN, NEW r,
           r = processPasswordInput(Arrived(c), accepted),
           ~handler.authDone,
           \A i \in DOMAIN Packets(r) : Packets(r)[i] \notin Typed
    PROVE  /\ Outcome(r) /\ r.h \in Flags /\ r.timer \in BOOLEAN
           /\ r.front = {} /\ r.ok \in BOOLEAN
           /\ r.h.inputingLogin = handler.inputingLogin
  <1>1. handler \in Flags /\ timer \in BOOLEAN
    BY DEF TypeOK
  <1>2. PICK b : b = (IF handler.prePasswordData THEN <<FirstBytes(c)>>
                      ELSE <<>>)
    OBVIOUS
  <1>4. PICK held : held = [Arrived(c) EXCEPT !.sendData = FALSE,
                    !.h.prePasswordData = FALSE,
                    !.back = IF Arrived(c).h.prePasswordData
                             THEN <<FirstBytes(Arrived(c).currentData)>>
                             ELSE <<>>]
    OBVIOUS
  <1>3. /\ DOMAIN held = {"h", "currentData", "sendData", "back", "front",
                          "timer", "ok"}
        /\ held.h = [handler EXCEPT !.prePasswordData = FALSE]
        /\ held.currentData = c /\ held.sendData = FALSE
        /\ held.back = b /\ held.front = {} /\ held.timer = timer
        /\ held.ok = TRUE
    BY <1>2, <1>4 DEF Arrived
  <1>5. r = CASE c = "cut" -> [held EXCEPT !.ok = FALSE]
              [] c = "line" ->
                    [held EXCEPT !.sendData = TRUE, !.h.inputingPassword = FALSE,
                        !.currentData = IF accepted THEN "pass" ELSE "fake",
                        !.h.authDone = accepted,
                        !.timer = (@ \/ accepted)]
              [] OTHER -> held
    BY <1>4 DEF processPasswordInput, Arrived
  <1>6. held.h \in Flags /\ SameFlags(handler, held.h)
    BY <1>1, <1>3 DEF Flags, SameFlags
  <1>7. ASSUME b = <<FirstBytes(c)>>, c \in Typed, Packets(r) = b \o <<>> \/
               \E x : Packets(r) = b \o <<x>>
        PROVE  FALSE
    <2>1. FirstBytes(c) = "text"
      BY <1>7 DEF FirstBytes
    <2>2. 1 \in DOMAIN Packets(r) /\ Packets(r)[1] = "text"
      <3>1. b = <<"text">>
        BY <1>7, <2>1
      <3>2. CASE Packets(r) = b \o <<>>
        BY <3>1, <3>2
      <3>3. ASSUME NEW x, Packets(r) = b \o <<x>>
            PROVE  1 \in DOMAIN Packets(r) /\ Packets(r)[1] = "text"
        <4>1. ASSUME NEW y PROVE /\ 1 \in DOMAIN (<<y>> \o <<x>>)
                                 /\ (<<y>> \o <<x>>)[1] = y
          OBVIOUS
        <4> QED
          BY <3>1, <3>3, <4>1
      <3> QED
        BY <1>7, <3>2, <3>3
    <2> QED
      BY <2>2 DEF Typed
  <1>8. CASE c = "cut"
    <2>1. r = [held EXCEPT !.ok = FALSE]
      BY <1>5, <1>8
    <2>2. Packets(r) = b \o <<>>
      BY <1>3, <2>1 DEF Packets
    <2>3. b = <<>>
      BY <1>2, <1>7, <1>8, <2>2 DEF Typed
    <2>4. Packets(r) = <<>>
      BY <2>2, <2>3
    <2>5. r.h = held.h /\ r.timer = timer /\ r.front = {} /\ r.ok = FALSE
      BY <1>3, <2>1
    <2> QED
      BY <1>1, <1>6, <2>4, <2>5 DEF Outcome, SameFlags
  <1>9. CASE c = "line"
    <2>1. r = [held EXCEPT !.sendData = TRUE, !.h.inputingPassword = FALSE,
                        !.currentData = IF accepted THEN "pass" ELSE "fake",
                        !.h.authDone = accepted,
                        !.timer = (@ \/ accepted)]
      BY <1>5, <1>9
    <2>2. Packets(r) = b \o <<IF accepted THEN "pass" ELSE "fake">>
      BY <1>3, <2>1 DEF Packets
    <2>3. b = <<>>
      BY <1>2, <1>7, <1>9, <2>2 DEF Typed
    <2>4. Packets(r) = <<IF accepted THEN "pass" ELSE "fake">>
      BY <2>2, <2>3
    <2>5. /\ r.h = [held.h EXCEPT !.inputingPassword = FALSE,
                                  !.authDone = accepted]
          /\ r.front = {} /\ r.ok = TRUE
      BY <1>3, <2>1
    <2>6. r.timer \in BOOLEAN
      <3>1. r.timer = (timer \/ accepted)
        BY <1>3, <2>1
      <3> QED
        BY <1>1, <3>1, Zenon
    <2>7. r.h \in Flags /\ r.h.authDone = accepted /\ ~r.h.inputingPassword
          /\ r.h.inputingLogin = held.h.inputingLogin
          /\ r.h.waitingLoginEcho = held.h.waitingLoginEcho
      BY <1>6, <2>5 DEF Flags
    <2> QED
      BY <1>6, <2>4, <2>5, <2>6, <2>7 DEF Outcome, SameFlags
  <1>10. CASE c # "cut" /\ c # "line"
    <2>1. r = held
      BY <1>5, <1>10
    <2>a. /\ r.back = b /\ r.sendData = FALSE /\ r.h = held.h
          /\ r.timer = timer /\ r.front = {} /\ r.ok = TRUE
      BY <1>3, <2>1
    <2>2. Packets(r) = b \o <<>>
      BY <2>a DEF Packets
    <2>3. b \in {<<>>, <<"nego">>}
      BY <1>2, <1>7, <2>2 DEF FirstBytes
    <2>4. Packets(r) \in {<<>>, <<"nego">>}
      BY <2>2, <2>3
    <2> QED
      BY <1>1, <1>6, <2>4, <2>a DEF Outcome, SameFlags
  <1> QED
    BY <1>8, <1>9, <1>10

\* processUsernameInput on each kind of packet.
LEMMA NameOutcome ==
    ASSUME TypeOK, handler.inputingLogin,
           NEW c \in Typed \cup Options, NEW r,
           r = processUsernameInput(Arrived(c))
    PROVE  /\ Outcome(r) /\ r.h \in Flags /\ r.timer \in BOOLEAN
           /\ r.front = {c} /\ r.ok \in BOOLEAN
           /\ r.h.inputingPassword = handler.inputingPassword
           /\ r.h.authDone = handler.authDone
  <1>1. handler \in Flags /\ timer \in BOOLEAN
    BY DEF TypeOK
  <1>3. PICK echoed : echoed = [Arrived(c) EXCEPT !.sendData = FALSE,
                                    !.front = @ \cup {Arrived(c).currentData}]
    OBVIOUS
  <1>2. /\ DOMAIN echoed = {"h", "currentData", "sendData", "back", "front",
                            "timer", "ok"}
        /\ echoed.h = handler /\ echoed.currentData = c
        /\ echoed.sendData = FALSE /\ echoed.back = <<>>
        /\ echoed.front = {c} /\ echoed.timer = timer /\ echoed.ok = TRUE
    <2>1. {} \cup {c} = {c}
      OBVIOUS
    <2> QED
      BY <1>3, <2>1 DEF Arrived
  <1>4. r = CASE c = "cut" -> [echoed EXCEPT !.ok = FALSE]
              [] c \in {"line", "pass", "fake"} ->
                    [echoed EXCEPT !.sendData = TRUE, !.currentData = "login",
                               !.h.inputingLogin = FALSE,
                               !.h.waitingLoginEcho = TRUE]
              [] OTHER -> echoed
    BY <1>3 DEF processUsernameInput, Arrived
  <1>5. CASE c = "cut"
    <2>1. r = [echoed EXCEPT !.ok = FALSE]
      BY <1>4, <1>5
    <2>2. Packets(r) = <<>>
      BY <1>2, <2>1 DEF Packets
    <2> QED
      BY <1>1, <1>2, <2>1, <2>2 DEF Outcome, SameFlags
  <1>6. CASE c = "line"
    <2>1. r = [echoed EXCEPT !.sendData = TRUE, !.currentData = "login",
                             !.h.inputingLogin = FALSE,
                             !.h.waitingLoginEcho = TRUE]
      BY <1>4, <1>6
    <2>a. /\ r.back = <<>> /\ r.ok = TRUE /\ r.sendData = TRUE
          /\ r.currentData = "login"
      BY <1>2, <2>1
    <2>2. Packets(r) = <<"login">>
      <3>1. Packets(r) = <<>> \o <<"login">>
        BY <2>a DEF Packets
      <3> QED
        BY <3>1
    <2>3. r.h = [handler EXCEPT !.inputingLogin = FALSE,
                                !.waitingLoginEcho = TRUE]
      BY <1>2, <2>1
    <2>4. /\ r.h \in Flags /\ ~r.h.inputingLogin /\ r.h.waitingLoginEcho
          /\ r.h.inputingPassword = handler.inputingPassword
          /\ r.h.authDone = handler.authDone
      BY <1>1, <2>3 DEF Flags
    <2>5. r.front = {c} /\ r.timer = timer /\ r.ok = TRUE
      BY <1>2, <2>1
    <2> QED
      BY <1>1, <2>2, <2>4, <2>5 DEF Outcome
  <1>7. CASE c \notin {"cut", "line"}
    <2>1. r = echoed
      BY <1>4, <1>7 DEF Typed, Options
    <2>2. /\ r.h = handler /\ r.back = <<>> /\ r.sendData = FALSE
          /\ r.timer = timer /\ r.front = {c} /\ r.ok = TRUE
      BY <1>2, <2>1
    <2>3. Packets(r) = <<>>
      BY <2>2 DEF Packets
    <2> QED
      BY <1>1, <2>2, <2>3 DEF Outcome, SameFlags
  <1> QED
    BY <1>5, <1>6, <1>7

\* A packet that answers no prompt.
LEMMA OtherOutcome ==
    ASSUME TypeOK, NEW c \in Typed \cup Options, NEW r, r = Arrived(c),
           \A i \in DOMAIN Packets(r) : Packets(r)[i] \notin Typed
    PROVE  /\ Outcome(r) /\ r.h = handler /\ r.timer = timer
           /\ r.front = {} /\ r.ok = TRUE
  <1>1. /\ r.h = handler /\ r.timer = timer /\ r.front = {} /\ r.ok = TRUE
        /\ r.back = <<>> /\ r.sendData = TRUE /\ r.currentData = c
    BY DEF Arrived
  <1>2. Packets(r) = <<>> \o <<c>>
    BY <1>1 DEF Packets
  <1>3. Packets(r) = <<c>>
    BY <1>2
  <1>4. c \notin Typed
    BY <1>3
  <1>5. Packets(r) \in {<<"nego">>, <<"named">>}
    BY <1>3, <1>4 DEF Options
  <1> QED
    BY <1>1, <1>5 DEF Outcome, SameFlags

\* A packet of a client that types only when asked.
LEMMA AskedOutcome ==
    ASSUME TypeOK, Spoofing, OnePromptAtATime, ~typedAhead,
           NEW p \in ClientPacket, NEW accepted \in BOOLEAN, NEW r,
           r = Intercepted(p, accepted),
           \A i \in DOMAIN Packets(r) : Packets(r)[i] \notin Typed
    PROVE  /\ Outcome(r) /\ r.h \in Flags /\ r.timer \in BOOLEAN
           /\ r.front \subseteq Typed \cup Options /\ r.ok \in BOOLEAN
  <1>1. handler \in Flags /\ timer \in BOOLEAN /\ ~handler.authDone
        /\ ~(handler.inputingLogin /\ handler.inputingPassword)
    BY DEF TypeOK, Spoofing, OnePromptAtATime
  <1>2. PICK c \in Typed \cup Options :
            setProcessingStateFrontend(Processing(p)) = Arrived(c)
    BY ArrivedIs
  <1>3. Arrived(c).h = handler /\ Arrived(c).ok = TRUE
    BY DEF Arrived
  <1>4. CASE handler.inputingPassword
    <2>1. PICK s : s = processPasswordInput(Arrived(c), accepted)
      OBVIOUS
    <2>2. s.h.inputingLogin = handler.inputingLogin
      <3>1. handler.inputingPassword /\ handler \in Flags
        BY <1>1, <1>4
      <3> QED
        BY <1>1, <1>3, <1>4, <2>1 DEF processPasswordInput, Arrived, Flags
    <2>3. r = s
      BY <1>1, <1>2, <1>3, <1>4, <2>1, <2>2 DEF Intercepted
    <2> QED
      BY <1>1, <1>4, <2>1, <2>3, PasswordOutcome
  <1>5. CASE handler.inputingLogin
    <2>1. r = processUsernameInput(Arrived(c))
      BY <1>1, <1>2, <1>3, <1>5 DEF Intercepted
    <2> QED
      BY <1>5, <2>1, NameOutcome
  <1>6. CASE ~handler.inputingLogin /\ ~handler.inputingPassword
    <2>1. r = Arrived(c)
      BY <1>2, <1>3, <1>6 DEF Intercepted
    <2> QED
      BY <1>1, <2>1, OtherOutcome
  <1> QED
    BY <1>4, <1>5, <1>6

\* What is sent reaches the wire once, after what was held for the backend.
LEMMA SentOnce ==
    ASSUME TypeOK, Silent, NEW packets \in Seq(Packet), sendBackend(packets)
    PROVE  /\ wire' \in Seq(Packet) /\ backend_buffer' \in Seq(Packet)
           /\ back # "up" => wire' = wire
           /\ back = "up" => \/ packets = <<>> /\ wire' = wire
                             \/ wire' = wire \o backend_buffer \o packets
           /\ ~HasClient => wire' = wire
           /\ \/ backend_buffer' = <<>>
              \/ HasClient /\ backend_buffer' = backend_buffer /\ wire' = wire
              \/ ~HasClient /\ backend_buffer' = backend_buffer \o packets
  <1>1. wire \in Seq(Packet) /\ backend_buffer \in Seq(Packet)
    BY DEF TypeOK
  <1>2. ASSUME NEW a \in Seq(Packet), NEW b \in Seq(Packet)
        PROVE  a \o b \in Seq(Packet)
    OBVIOUS
  <1>3. backend_buffer \o packets \in Seq(Packet)
        /\ wire \o backend_buffer \o packets \in Seq(Packet)
    BY <1>1, <1>2
  <1>4. packets = <<>> => backend_buffer \o packets = backend_buffer
    BY <1>1
  <1>5. CASE packets = <<>> \/ ~HasClient
    BY <1>1, <1>3, <1>4, <1>5 DEF sendBackend, HasClient
  <1>6. CASE ~(packets = <<>> \/ ~HasClient)
    <2>1. <<>> \in Seq(Packet)
      OBVIOUS
    <2> QED
      BY <1>1, <1>3, <1>6, <2>1 DEF sendBackend
  <1> QED
    BY <1>5, <1>6

\* A packet being processed, by type.
Processed ==
    [h : Flags, currentData : Packet, sendData : BOOLEAN, back : Seq(Packet),
     front : SUBSET Packet, timer : BOOLEAN, ok : BOOLEAN]

\* Each stage of the processing keeps the types.
LEMMA StagesType ==
    ASSUME NEW n \in Processed, NEW accepted \in BOOLEAN
    PROVE  /\ processPasswordInput(n, accepted) \in Processed
           /\ processUsernameInput(n) \in Processed
           /\ setProcessingStateFrontend(n) \in Processed
  <1>1. /\ n.h \in Flags /\ n.currentData \in Packet /\ n.back \in Seq(Packet)
        /\ n.front \subseteq Packet /\ n.timer \in BOOLEAN /\ n.ok \in BOOLEAN
        /\ n.sendData \in BOOLEAN
    BY DEF Processed
  <1>2. {"pass", "fake", "login", "named", "text", "nego"} \subseteq Packet
    BY DEF Packet, Spoofed, ClientPacket, Typed
  <1>3. processPasswordInput(n, accepted) \in Processed
    <2>1. PICK b \in Seq(Packet) :
            b = IF n.h.prePasswordData THEN <<FirstBytes(n.currentData)>>
                ELSE <<>>
      <3>1. <<FirstBytes(n.currentData)>> \in Seq(Packet)
        <4>1. FirstBytes(n.currentData) \in Packet
          BY <1>2 DEF FirstBytes
        <4> QED
          BY <4>1
      <3>2. <<>> \in Seq(Packet)
        OBVIOUS
      <3> QED
        BY <3>1, <3>2
    <2>2. PICK held : held = [n EXCEPT !.sendData = FALSE,
                                       !.h.prePasswordData = FALSE, !.back = b]
      OBVIOUS
    <2>3. [n.h EXCEPT !.prePasswordData = FALSE] \in Flags
      BY <1>1 DEF Flags
    <2>4. held \in Processed
      BY <1>1, <2>2, <2>3 DEF Processed
    <2>5. held.h \in Flags
      BY <2>4 DEF Processed
    <2>6. ASSUME NEW d \in Packet, NEW g \in Flags, NEW t \in BOOLEAN
          PROVE  [held EXCEPT !.sendData = TRUE, !.h = g, !.currentData = d,
                              !.timer = t] \in Processed
      BY <2>4 DEF Processed
    <2>7. [held EXCEPT !.ok = FALSE] \in Processed
      BY <2>4 DEF Processed
    <2>8. [held EXCEPT !.sendData = TRUE, !.h.inputingPassword = FALSE,
                       !.currentData = IF accepted THEN "pass" ELSE "fake",
                       !.h.authDone = accepted, !.timer = (@ \/ accepted)]
            \in Processed
      <3>1. PICK g : g = [held.h EXCEPT !.inputingPassword = FALSE,
                                        !.authDone = accepted]
        OBVIOUS
      <3>2. g \in Flags
        BY <2>5, <3>1 DEF Flags
      <3>3. PICK t \in BOOLEAN : t = (held.timer \/ accepted)
        BY Zenon
      <3>4. PICK d \in Packet : d = IF accepted THEN "pass" ELSE "fake"
        BY <1>2
      <3>5. held.timer \in BOOLEAN /\ DOMAIN held =
                {"h", "currentData", "sendData", "back", "front", "timer", "ok"}
        BY <2>4 DEF Processed
      <3>6. [held EXCEPT !.sendData = TRUE, !.h.inputingPassword = FALSE,
                       !.currentData = IF accepted THEN "pass" ELSE "fake",
                       !.h.authDone = accepted, !.timer = (@ \/ accepted)]
            = [held EXCEPT !.sendData = TRUE, !.h = g, !.currentData = d,
                           !.timer = t]
        BY <3>1, <3>3, <3>4, <3>5
      <3> QED
        BY <2>6, <3>2, <3>6
    <2> QED
      BY <2>1, <2>2, <2>4, <2>7, <2>8 DEF processPasswordInput
  <1>4. processUsernameInput(n) \in Processed
    <2>1. PICK echoed : echoed = [n EXCEPT !.sendData = FALSE,
                                       !.front = @ \cup {n.currentData}]
      OBVIOUS
    <2>2. echoed \in Processed
      <3>1. n.front \cup {n.currentData} \in SUBSET Packet
        BY <1>1
      <3> QED
        BY <1>1, <2>1, <3>1 DEF Processed
    <2>3. [echoed.h EXCEPT !.inputingLogin = FALSE, !.waitingLoginEcho = TRUE]
            \in Flags
      BY <2>2 DEF Processed, Flags
    <2>4. [echoed EXCEPT !.sendData = TRUE, !.currentData = "login",
                         !.h.inputingLogin = FALSE, !.h.waitingLoginEcho = TRUE]
            \in Processed
      BY <1>2, <2>2, <2>3 DEF Processed
    <2>5. [echoed EXCEPT !.ok = FALSE] \in Processed
      BY <2>2 DEF Processed
    <2> QED
      BY <2>1, <2>2, <2>4, <2>5 DEF processUsernameInput
  <1>5. setProcessingStateFrontend(n) \in Processed
    <2>1. [n EXCEPT !.currentData = "named"] \in Processed
      BY <1>2 DEF Processed
    <2> QED
      BY <2>1 DEF setProcessingStateFrontend
  <1> QED
    BY <1>3, <1>4, <1>5

\* The packet as ClientSends uses it.
LEMMA ClientPacketType ==
    ASSUME TypeOK, NEW p \in ClientPacket, NEW accepted \in BOOLEAN
    PROVE  /\ Processing(p) \in Processed
           /\ Intercepted(p, accepted) \in Processed
  <1>1. Processing(p) \in Processed
    <2>1. p \in Packet /\ <<>> \in Seq(Packet) /\ {} \in SUBSET Packet
      BY DEF Packet
    <2> QED
      BY <2>1 DEF Processing, Processed, TypeOK
  <1>2. PICK named \in Processed : named = setProcessingStateFrontend(Processing(p))
    BY <1>1, StagesType
  <1>3. PICK pass \in Processed :
            pass = IF named.h.inputingPassword
                   THEN processPasswordInput(named, accepted) ELSE named
    BY StagesType
  <1>4. processUsernameInput(pass) \in Processed
    BY StagesType
  <1> QED
    BY <1>1, <1>2, <1>3, <1>4 DEF Intercepted

LEMMA PacketsType ==
    ASSUME NEW r \in Processed
    PROVE  /\ Packets(r) \in Seq(Packet) /\ r.h \in Flags
           /\ r.timer \in BOOLEAN /\ r.front \subseteq Packet
  <1>1. /\ r.back \in Seq(Packet) /\ r.currentData \in Packet /\ r.h \in Flags
        /\ r.timer \in BOOLEAN /\ r.front \subseteq Packet
    BY DEF Processed
  <1>2. <<r.currentData>> \in Seq(Packet) /\ <<>> \in Seq(Packet)
    BY <1>1
  <1>3. ASSUME NEW a \in Seq(Packet), NEW b \in Seq(Packet)
        PROVE  a \o b \in Seq(Packet)
    OBVIOUS
  <1> QED
    BY <1>1, <1>2, <1>3 DEF Packets

\* ClientSends, in terms of the packet as processed.
LEMMA ClientSendsIs ==
    ASSUME TypeOK, NEW p \in ClientPacket, NEW accepted \in BOOLEAN,
           ClientSends(p, accepted)
    PROVE  \E r \in Processed :
             /\ r = IF Spoofing THEN Intercepted(p, accepted) ELSE Processing(p)
             /\ front = "up" /\ front' \in {"up", "closing"}
             /\ sent < MaxPackets /\ sent' = sent + 1
             /\ handler' = r.h
             /\ timer' = r.timer
             /\ sendBackend(Packets(r))
             /\ screen' = screen \cup r.front
             /\ typedAhead' = (typedAhead \/ (Spoofing /\
                    \E i \in DOMAIN Packets(r) : Packets(r)[i] \in Typed))
             /\ UNCHANGED <<config, poolVars, back, ttylog, login, echoMissed>>
  <1>1. PICK r \in Processed :
            r = IF Spoofing THEN Intercepted(p, accepted) ELSE Processing(p)
    BY ClientPacketType
  <1>2. typedAhead' = (typedAhead \/ (Spoofing /\
                    \E i \in DOMAIN Packets(r) : Packets(r)[i] \in Typed))
    BY <1>1, Zenon DEF ClientSends, Packets
  <1>3. sendBackend(Packets(r))
    BY <1>1, Zenon DEF ClientSends, Packets
  <1>4. /\ front = "up" /\ front' \in {"up", "closing"}
        /\ sent < MaxPackets /\ sent' = sent + 1
        /\ handler' = r.h
        /\ timer' = r.timer
        /\ screen' = screen \cup r.front
        /\ UNCHANGED <<config, poolVars, back, ttylog, login, echoMissed>>
    BY <1>1 DEF ClientSends
  <1> QED
    BY <1>1, <1>2, <1>3, <1>4

\* What the wire holds when more is written to it.
LEMMA LinesGrow ==
    ASSUME NEW l, NEW w \in Seq(Packet), NEW b \in Seq(Packet), Quiet(b),
           NEW q \in Seq(Packet), NEW x
    PROVE  /\ NoLine(l, w) /\ Quiet(q) => NoLine(l, w \o b \o q)
           /\ NoLine(l, w) /\ Only(q, x) => OneLine(l, w \o b \o q, x)
           /\ OneLine(l, w, x) /\ Quiet(q) => OneLine(l, w \o b \o q, x)
           /\ FirstLine(w, x) => FirstLine(w \o b \o q, x)
  <1>1. PICK v \in Seq(Packet) :
            /\ v = w \o b
            /\ Quiet(w) => Quiet(v)
            /\ Only(w, x) => Only(v, x)
            /\ FirstLine(w, x) => FirstLine(v, x)
    BY QueueGrows
  <1>2. PICK u \in Seq(Packet) :
            /\ u = v \o q
            /\ Quiet(v) /\ Quiet(q) => Quiet(u)
            /\ Quiet(v) /\ Only(q, x) => Only(u, x)
            /\ Only(v, x) /\ Quiet(q) => Only(u, x)
            /\ FirstLine(v, x) => FirstLine(u, x)
    BY QueueGrows
  <1>3. u = w \o b \o q
    BY <1>1, <1>2
  <1> HIDE <1>3
  <1>4. /\ NoLine(l, w) /\ Quiet(q) => NoLine(l, u)
        /\ NoLine(l, w) /\ Only(q, x) => OneLine(l, u, x)
        /\ OneLine(l, w, x) /\ Quiet(q) => OneLine(l, u, x)
    BY <1>1, <1>2 DEF NoLine, OneLine
  <1> QED
    BY <1>1, <1>2, <1>3, <1>4

\* The kinds of packets in each outcome.
LEMMA OutcomePackets ==
    /\ Quiet(<<>>) /\ Quiet(<<"nego">>) /\ Quiet(<<"named">>)
    /\ Only(<<"login">>, "login") /\ Only(<<"pass">>, "pass")
    /\ Only(<<"fake">>, "fake")
    /\ <<"login">> # <<>> /\ <<"pass">> # <<>> /\ <<"fake">> # <<>>
  <1>1. {"nego", "named", "login", "pass", "fake"} \subseteq Packet
    BY DEF Packet, ClientPacket, Spoofed
  <1>2. {"nego", "named"} = Options
    BY DEF Options
  <1>3. "nego" \in Packet /\ "named" \in Packet /\ "login" \in Packet
        /\ "pass" \in Packet /\ "fake" \in Packet
    BY <1>1
  <1> QED
    BY <1>2, <1>3, QueueOne

\* A packet of a client that types only when asked keeps the dialogue.
LEMMA FollowsSend ==
    ASSUME TypeOK, NEW r \in Processed, Outcome(r),
           Follows(login, handler, wire, echoMissed), OnePromptAtATime, ~typedAhead,
           ~handler.authDone,
           NEW b \in Seq(Packet), Quiet(b),
           NEW w, \/ Packets(r) = <<>> /\ w = wire
                  \/ w = wire \o b \o Packets(r)
    PROVE  Follows(login, r.h, w, echoMissed)
  <1>0. /\ wire \in Seq(Packet) /\ handler \in Flags
        /\ Packets(r) \in Seq(Packet) /\ r.h \in Flags
    BY PacketsType DEF TypeOK
  <1>1. CASE /\ Packets(r) \in {<<>>, <<"nego">>, <<"named">>}
             /\ SameFlags(handler, r.h)
    <2>1. Quiet(Packets(r))
      BY <1>1, OutcomePackets
    <2>2. /\ NoLine(login, wire) => NoLine(login, w)
          /\ OneLine(login, wire, "login") => OneLine(login, w, "login")
          /\ OneLine(login, wire, "fake") => OneLine(login, w, "fake")
      BY <1>0, <2>1, LinesGrow
    <2> QED
      BY <1>1, <2>2 DEF Follows, SameFlags
  <1>2. CASE /\ handler.inputingLogin
             /\ Packets(r) = <<"login">>
             /\ ~r.h.inputingLogin /\ r.h.waitingLoginEcho
             /\ r.h.inputingPassword = handler.inputingPassword
             /\ r.h.authDone = handler.authDone
    <2>1. login.at = "name" /\ NoLine(login, wire) /\ ~handler.inputingPassword
          /\ ~login.dirty /\ ~handler.authDone
      BY <1>2 DEF Follows
    <2>2. Only(Packets(r), "login") /\ Packets(r) # <<>>
      BY <1>2, OutcomePackets
    <2>3. OneLine(login, w, "login")
      BY <1>0, <2>1, <2>2, LinesGrow
    <2> QED
      BY <1>2, <2>1, <2>3 DEF Follows
  <1>3. CASE /\ handler.inputingPassword
             /\ Packets(r) = <<IF r.h.authDone THEN "pass" ELSE "fake">>
             /\ ~r.h.inputingPassword
             /\ r.h.inputingLogin = handler.inputingLogin
             /\ r.h.waitingLoginEcho = handler.waitingLoginEcho
    <2>1. /\ login.at = "password" /\ NoLine(login, wire) /\ ~login.dirty
          /\ login.name \in {"named", "login"}
          /\ ~handler.inputingLogin /\ ~handler.waitingLoginEcho
      BY <1>3 DEF Follows
    <2>2. CASE r.h.authDone
      <3>1. Only(Packets(r), "pass") /\ Packets(r) # <<>>
        BY <1>3, <2>2, OutcomePackets
      <3>2. OneLine(login, w, "pass")
        BY <1>0, <2>1, <3>1, LinesGrow
      <3>3. login.input = <<>>
        BY <2>1 DEF NoLine
      <3>4. Only(w, "pass")
        BY <3>2, <3>3 DEF OneLine
      <3>5. w \in Seq(Packet)
        <4>1. ASSUME NEW x \in Seq(Packet), NEW y \in Seq(Packet)
              PROVE  x \o y \in Seq(Packet)
          OBVIOUS
        <4> QED
          BY <1>0, <3>1, <4>1
      <3>6. FirstLine(w, "pass")
        BY <3>4, <3>5, OnlyIsFirst
      <3> QED
        BY <1>3, <2>1, <2>2, <3>3, <3>6 DEF Follows
    <2>3. CASE ~r.h.authDone
      <3>1. Only(Packets(r), "fake") /\ Packets(r) # <<>>
        BY <1>3, <2>3, OutcomePackets
      <3>2. OneLine(login, w, "fake")
        BY <1>0, <2>1, <3>1, LinesGrow
      <3> QED
        BY <1>3, <2>1, <2>3, <3>2 DEF Follows
    <2> QED
      BY <2>2, <2>3
  <1> QED
    BY <1>1, <1>2, <1>3 DEF Outcome

\* ClientSends keeps the invariant.
LEMMA ClientStep ==
    ASSUME IInv, NEW p \in ClientPacket, NEW accepted \in BOOLEAN,
           ClientSends(p, accepted)
    PROVE  IInv'
  <1> USE DEF IInv, poolVars
  <1>1. PICK r \in Processed :
             /\ r = IF Spoofing THEN Intercepted(p, accepted) ELSE Processing(p)
             /\ front = "up" /\ front' \in {"up", "closing"}
             /\ sent < MaxPackets /\ sent' = sent + 1
             /\ handler' = r.h
             /\ timer' = r.timer
             /\ sendBackend(Packets(r))
             /\ screen' = screen \cup r.front
             /\ typedAhead' = (typedAhead \/ (Spoofing /\
                    \E i \in DOMAIN Packets(r) : Packets(r)[i] \in Typed))
             /\ UNCHANGED <<config, poolVars, back, ttylog, login, echoMissed>>
    BY ClientSendsIs
  <1>2. /\ Packets(r) \in Seq(Packet) /\ r.h \in Flags
        /\ r.timer \in BOOLEAN /\ r.front \subseteq Packet
    BY PacketsType
  <1>3. PICK q \in Seq(Packet) : q = Packets(r)
    BY <1>2
  <1>4. /\ wire' \in Seq(Packet) /\ backend_buffer' \in Seq(Packet)
        /\ back # "up" => wire' = wire
        /\ back = "up" => \/ q = <<>> /\ wire' = wire
                          \/ wire' = wire \o backend_buffer \o q
        /\ ~HasClient => wire' = wire
        /\ \/ backend_buffer' = <<>>
           \/ HasClient /\ backend_buffer' = backend_buffer /\ wire' = wire
           \/ ~HasClient /\ backend_buffer' = backend_buffer \o q
    BY <1>1, <1>2, <1>3, SentOnce
  <1>5. typedAhead' \in BOOLEAN /\ timer' \in BOOLEAN
    BY <1>1, <1>2, Zenon
  <1>6. HasClient' = HasClient
    BY <1>1 DEF HasClient
  <1>7. TypeOK'
    <2>1. /\ sent' \in 0..MaxPackets
      BY <1>1, TelnetProxyAssumption DEF TypeOK, TelnetProxyAssumption
    <2>2. (HasClient' /\ backend_buffer' # <<>>) =>
            wire' = <<>> /\ login'.name = "none" /\ login'.input = <<>>
            /\ ~login'.dirty
      BY <1>1, <1>4, <1>6 DEF TypeOK
    <2>3. screen' \subseteq Shown \cup Packet
      BY <1>1, <1>2 DEF TypeOK
    <2> QED
      BY <1>1, <1>2, <1>4, <1>5, <2>1, <2>2, <2>3 DEF TypeOK
  <1>8. ASSUME ~handler.inputingLogin, ~handler.inputingPassword
        PROVE  r.h = handler
    <2>1. CASE Spoofing
      <3>1. PICK c \in Typed \cup Options :
                setProcessingStateFrontend(Processing(p)) = Arrived(c)
        BY ArrivedIs
      <3>2. Arrived(c).h = handler /\ Arrived(c).ok = TRUE
        BY DEF Arrived
      <3>3. r = Arrived(c)
        BY <1>1, <1>8, <2>1, <3>1, <3>2 DEF Intercepted
      <3> QED
        BY <3>2, <3>3
    <2>2. CASE ~Spoofing
      BY <1>1, <2>2 DEF Processing
    <2> QED
      BY <2>1, <2>2
  <1>9. Silent' /\ VmFirst'
    BY <1>1, <1>4, <1>6, <1>8 DEF Silent, VmFirst
  <1>10. ASSUME Spoofing, ~typedAhead'
         PROVE  ~typedAhead /\ Outcome(r) /\ r.front \subseteq Typed \cup Options
    <2>1. ~typedAhead /\ \A i \in DOMAIN Packets(r) : Packets(r)[i] \notin Typed
      BY <1>1, <1>10
    <2>2. r = Intercepted(p, accepted)
      BY <1>1, <1>10
    <2> QED
      BY <1>10, <2>1, <2>2, AskedOutcome
  <1>11. ASSUME ~Spoofing
         PROVE  r.h = handler /\ r.front = {} /\ (~typedAhead' => ~typedAhead)
    BY <1>1, <1>11 DEF Processing
  <1>12. OnePromptAtATime'
    <2>1. CASE Spoofing /\ ~typedAhead'
      BY <1>1, <1>10, <2>1 DEF OnePromptAtATime, Outcome, SameFlags
    <2>2. CASE ~Spoofing
      BY <1>1, <1>11, <2>2 DEF OnePromptAtATime
    <2> QED
      BY <2>1, <2>2 DEF OnePromptAtATime
  <1>13. SpoofedIsHidden'
    <2>1. CASE Spoofing /\ ~typedAhead'
      <3>1. (Typed \cup Options) \cap
                {"loginEcho", "loginPart", "login", "pass", "fake"} = {}
        BY DEF Typed, Options
      <3>2. ~typedAhead /\ r.front \subseteq Typed \cup Options
        BY <1>10, <2>1
      <3> QED
        BY <1>1, <3>1, <3>2 DEF SpoofedIsHidden
    <2>2. CASE ~Spoofing
      BY <1>1, <1>11, <2>2 DEF SpoofedIsHidden
    <2> QED
      BY <2>1, <2>2 DEF SpoofedIsHidden
  <1>14. ReuseInv'
    BY <1>1 DEF ReuseInv
  <1>15. AskedInv'
    <2> SUFFICES ASSUME Asked' PROVE /\ Quiet(backend_buffer')
                                     /\ back = "up" => Follows(login, r.h, wire', echoMissed)
                                     /\ login.at = "shell" => r.h.authDone
      BY <1>1 DEF AskedInv
    <2>1. Asked /\ ~typedAhead /\ ~typedAhead' /\ config.spoof
      BY <1>1, <1>10, <1>11 DEF Asked
    <2>2. /\ Quiet(backend_buffer) /\ backend_buffer \in Seq(Packet)
          /\ wire \in Seq(Packet)
          /\ back = "up" => Follows(login, handler, wire, echoMissed)
          /\ login.at = "shell" => handler.authDone
      BY <2>1 DEF AskedInv, TypeOK
    <2>3. Quiet(backend_buffer')
      <3>1. CASE backend_buffer' = <<>>
        BY <3>1, OutcomePackets
      <3>2. CASE HasClient /\ backend_buffer' = backend_buffer
        BY <2>2, <3>2
      <3>3. CASE ~HasClient /\ backend_buffer' = backend_buffer \o q
        <4>1. /\ ~handler.inputingLogin /\ ~handler.inputingPassword
              /\ ~handler.authDone
          BY <3>3 DEF Silent
        <4>2. Outcome(r)
          BY <1>10, <2>1, <4>1 DEF Spoofing
        <4>3. q \in {<<>>, <<"nego">>, <<"named">>}
          BY <1>3, <4>1, <4>2 DEF Outcome
        <4>4. Quiet(q)
          BY <4>3, OutcomePackets
        <4> QED
          BY <2>2, <3>3, <4>4, QueueGrows
      <3> QED
        BY <1>4, <3>1, <3>2, <3>3
    <2>4. CASE Spoofing
      <3>1. Outcome(r) /\ ~handler.authDone
        BY <1>10, <2>1, <2>4 DEF Spoofing
      <3>2. back = "up" => Follows(login, r.h, wire', echoMissed)
        BY <1>3, <1>4, <2>1, <2>2, <3>1, FollowsSend
      <3>3. login.at # "shell"
        BY <2>2, <3>1
      <3> QED
        BY <2>3, <3>2, <3>3
    <2>5. CASE ~Spoofing
      <3>1. handler.authDone /\ r.h = handler
        BY <1>11, <2>1, <2>5 DEF Spoofing
      <3>2. ASSUME back = "up" PROVE Follows(login, handler, wire', echoMissed)
        <4>1. Follows(login, handler, wire, echoMissed)
          BY <2>2, <3>2
        <4>2. FirstLine(wire, "pass") => FirstLine(wire', "pass")
          BY <1>4, <2>2, <3>2, LinesGrow
        <4> QED
          BY <3>1, <4>1, <4>2 DEF Follows
      <3> QED
        BY <2>2, <2>3, <3>1, <3>2
    <2> QED
      BY <2>4, <2>5
  <1> QED
    BY <1>7, <1>9, <1>12, <1>13, <1>14, <1>15

-----------------------------------------------------------------------------
(* The backend *)

Line == {"line", "cut", "login", "pass", "fake"}

\* What the terminal makes of a packet.
LEMMA TakeType ==
    ASSUME NEW l \in LoginState, NEW p \in Packet
    PROVE  /\ Take(l, p) \in LoginState
           /\ Take(l, p).at = l.at /\ Take(l, p).tries = l.tries
           /\ p \in Options /\ l.at # "start" => Take(l, p) = l
           /\ p \in Options => /\ Take(l, p).input = l.input
                               /\ \/ Take(l, p).name = l.name
                                  \/ p = "named" /\ Take(l, p).name = "named"
           /\ p \in Options /\ ~l.dirty => ~Take(l, p).dirty
           /\ p \in Line /\ ~l.dirty /\ l.at # "shell" =>
                Take(l, p).input = Append(l.input, p) /\ ~Take(l, p).dirty
           /\ l.at # "shell" => Take(l, p).input = l.input \/
                (\E x \in Line : Take(l, p).input = Append(l.input, x))
           /\ l.at # "start" => Take(l, p).name = l.name
  <1>1. /\ l.input \in Seq(Line) /\ l.dirty \in BOOLEAN
        /\ DOMAIN l = {"at", "name", "input", "dirty", "tries"}
    BY DEF LoginState, Line
  <1>2. Packet = Line \cup {"nego", "named", "user", "text"}
    BY DEF Packet, ClientPacket, Typed, Spoofed, Line
  <1>3. CASE p = "nego" \/ l.at = "shell"
    <2>1. Take(l, p) = l
      BY <1>3 DEF Take
    <2> QED
      BY <1>3, <2>1 DEF Line, Options
  <1>4. CASE p \in {"named", "user"} /\ l.at # "shell"
    <2>1. Take(l, p) = IF l.at = "start" THEN [l EXCEPT !.name = p] ELSE l
      BY <1>4 DEF Take
    <2>2. [l EXCEPT !.name = p] \in LoginState
      BY <1>4 DEF LoginState
    <2> QED
      BY <1>1, <1>4, <2>1, <2>2 DEF Line, Options
  <1>5. CASE p = "text" /\ l.at # "shell"
    <2>1. Take(l, p) = [l EXCEPT !.dirty = TRUE]
      BY <1>5 DEF Take
    <2>2. [l EXCEPT !.dirty = TRUE] \in LoginState
      BY DEF LoginState
    <2> QED
      BY <1>1, <1>5, <2>1, <2>2 DEF Line, Options
  <1>6. CASE p \in Line /\ l.at # "shell"
    <2>1. PICK x \in Line : x = IF l.dirty THEN "line" ELSE p
      BY <1>6 DEF Line
    <2>2. Take(l, p) = [l EXCEPT !.dirty = FALSE, !.input = Append(l.input, x)]
      BY <1>6, <2>1 DEF Take, Line
    <2>3. Append(l.input, x) \in Seq(Line)
      BY <1>1
    <2>4. Take(l, p) \in LoginState
      BY <2>2, <2>3 DEF LoginState, Line
    <2>5. /\ Take(l, p).input = Append(l.input, x)
          /\ Take(l, p).at = l.at /\ Take(l, p).tries = l.tries
          /\ Take(l, p).name = l.name
      BY <1>1, <2>2
    <2>6. p \notin Options
      BY <1>6 DEF Line, Options
    <2> QED
      BY <1>6, <2>1, <2>2, <2>4, <2>5, <2>6
  <1> QED
    BY <1>2, <1>3, <1>4, <1>5, <1>6

\* telnetd reads the next packet, and keeps the dialogue.
LEMMA FollowsTake ==
    ASSUME NEW l \in LoginState, NEW h \in Flags, NEW w \in Seq(Packet),
           w # <<>>, NEW m, Follows(l, h, w, m)
    PROVE  Follows(Take(l, Head(w)), h, Tail(w), m)
  <1>1. PICK p \in Packet, t \in Seq(Packet) :
            /\ p = Head(w) /\ t = Tail(w)
            /\ Quiet(w) => Quiet(t) /\ p \in Options
            /\ \A x \in Line :
                /\ Only(w, x) /\ p \in Options => Only(t, x)
                /\ Only(w, x) /\ p \notin Options => p = x /\ Quiet(t)
                /\ FirstLine(w, x) /\ p \in Options => FirstLine(t, x)
                /\ FirstLine(w, x) /\ p \notin Options => p = x
    <2>1. \A x \in Line : x \notin Options
      BY DEF Line, Options
    <2>2. "line" \notin Options
      BY DEF Options
    <2>3. /\ Head(w) \in Packet /\ Tail(w) \in Seq(Packet)
          /\ Quiet(w) => Quiet(Tail(w)) /\ Head(w) \in Options
      BY <2>2, QueueTail
    <2>4. ASSUME NEW x \in Line
          PROVE  /\ Only(w, x) /\ Head(w) \in Options => Only(Tail(w), x)
                 /\ Only(w, x) /\ Head(w) \notin Options =>
                        Head(w) = x /\ Quiet(Tail(w))
                 /\ FirstLine(w, x) /\ Head(w) \in Options =>
                        FirstLine(Tail(w), x)
                 /\ FirstLine(w, x) /\ Head(w) \notin Options => Head(w) = x
      BY <2>1, QueueTail
    <2> QED
      BY <2>3, <2>4
  <1>2. PICK k \in LoginState : k = Take(l, p)
    BY TakeType
  <1>3. /\ k.at = l.at
        /\ p \in Options /\ l.at # "start" => k = l
        /\ p \in Options => /\ k.input = l.input
                            /\ k.name = l.name \/ k.name = "named"
        /\ l.at # "start" => k.name = l.name
        /\ p \in Options /\ ~l.dirty => ~k.dirty
        /\ l.at # "shell" => \/ k.input = l.input
                             \/ \E x \in Line : k.input = Append(l.input, x)
        /\ p \in Line /\ ~l.dirty /\ l.at # "shell" =>
                k.input = Append(l.input, p) /\ ~k.dirty
    BY <1>2, TakeType
  <1>4. l.input \in Seq(Line) /\ DOMAIN l = {"at", "name", "input", "dirty", "tries"}
    BY DEF LoginState, Line
  <1>5. ASSUME p \in Line, ~l.dirty, l.at # "shell"
        PROVE  k.input = Append(l.input, p) /\ ~k.dirty
    BY <1>3, <1>4, <1>5
  <1>6. {"login", "pass", "fake"} \subseteq Line
    BY DEF Line
  <1>7. NoLine(l, w) => NoLine(k, t) /\ (~l.dirty => ~k.dirty)
    BY <1>1, <1>3 DEF NoLine
  <1>a. NoLine(l, w) => p \in Options
    BY <1>1 DEF NoLine
  <1>8. ASSUME NEW x \in Line, OneLine(l, w, x), ~l.dirty, l.at # "shell"
        PROVE  OneLine(k, t, x) /\ ~k.dirty
    <2>1. CASE l.input = <<x>> /\ Quiet(w)
      BY <1>1, <1>3, <1>8, <2>1 DEF OneLine
    <2>2. CASE l.input = <<>> /\ Only(w, x) /\ p \in Options
      BY <1>1, <1>3, <1>8, <2>2 DEF OneLine
    <2>3. CASE l.input = <<>> /\ Only(w, x) /\ p \notin Options
      <3>1. p = x /\ Quiet(t)
        BY <1>1, <2>3
      <3>2. k.input = Append(<<>>, x) /\ ~k.dirty
        BY <1>5, <1>8, <2>3, <3>1
      <3>3. k.input = <<x>>
        BY <3>2
      <3> QED
        BY <3>1, <3>2, <3>3 DEF OneLine
    <2> QED
      BY <1>8, <2>1, <2>2, <2>3 DEF OneLine
  <1>9. ASSUME l.at = "password",
               IF l.input = <<>> THEN ~l.dirty /\ FirstLine(w, "pass")
               ELSE Head(l.input) = "pass"
        PROVE  IF k.input = <<>> THEN ~k.dirty /\ FirstLine(t, "pass")
               ELSE Head(k.input) = "pass"
    <2>1. CASE l.input = <<>> /\ p \in Options
      BY <1>1, <1>3, <1>6, <1>9, <2>1
    <2>2. CASE l.input = <<>> /\ p \notin Options
      <3>1. p = "pass"
        BY <1>1, <1>6, <1>9, <2>2
      <3>2. k.input = Append(<<>>, "pass")
        BY <1>5, <1>6, <1>9, <2>2, <3>1
      <3>3. k.input = <<"pass">>
        BY <3>2
      <3>4. k.input # <<>> /\ Head(k.input) = "pass"
        BY <3>3
      <3> QED
        BY <3>4
    <2>3. CASE l.input # <<>>
      <3>1. k.input = l.input \/ \E x \in Line : k.input = Append(l.input, x)
        BY <1>3, <1>9
      <3>2. \A x \in Line : /\ Append(l.input, x) # <<>>
                            /\ Head(Append(l.input, x)) = Head(l.input)
        BY <1>4, <2>3
      <3> QED
        BY <1>9, <2>3, <3>1, <3>2
    <2> QED
      BY <2>1, <2>2, <2>3
  <1>10. Follows(k, h, t, m)
    <2>1. CASE l.at = "start"
      BY <1>3, <1>7, <1>a, <2>1 DEF Follows
    <2>2. CASE l.at = "name"
      BY <1>3, <1>6, <1>7, <1>8, <2>2 DEF Follows
    <2>3. CASE l.at \in {"part", "echoed"}
      BY <1>3, <1>7, <2>3 DEF Follows
    <2>4. CASE l.at = "password"
      BY <1>3, <1>6, <1>7, <1>8, <1>9, <2>4 DEF Follows
    <2>5. CASE l.at = "shell"
      BY <1>3, <2>5 DEF Follows
    <2> QED
      BY <2>1, <2>2, <2>3, <2>4, <2>5 DEF Follows
  <1> QED
    BY <1>1, <1>2, <1>10

\* TerminalReads keeps the invariant.
LEMMA TerminalStep ==
    ASSUME IInv, TerminalReads
    PROVE  IInv'
  <1> USE DEF IInv, TerminalReads, poolVars
  <1>1. /\ wire \in Seq(Packet) /\ wire # <<>> /\ login \in LoginState
        /\ handler \in Flags /\ back = "up" /\ HasClient
    BY DEF TypeOK, HasClient
  <1>2. Head(wire) \in Packet /\ Tail(wire) \in Seq(Packet)
    BY <1>1
  <1>3. login' \in LoginState /\ wire' \in Seq(Packet) /\ login'.at = login.at
    BY <1>1, <1>2, TakeType
  <1>4. backend_buffer = <<>>
    BY <1>1 DEF TypeOK
  <1>5. TypeOK'
    BY <1>3, <1>4 DEF TypeOK
  <1>6. AskedInv'
    <2>1. Follows(login, handler, wire, echoMissed) => Follows(login', handler, wire', echoMissed)
      BY <1>1, FollowsTake
    <2> QED
      BY <1>1, <1>3, <2>1 DEF AskedInv, Asked
  <1>7. /\ Silent' /\ VmFirst' /\ OnePromptAtATime' /\ SpoofedIsHidden'
        /\ ReuseInv'
    BY <1>1 DEF Silent, VmFirst, HasClient, OnePromptAtATime, SpoofedIsHidden,
                ReuseInv
  <1> QED
    BY <1>5, <1>6, <1>7

\* What a packet of the backend does to the handler and to the screen.
LEMMA BackendSendsIs ==
    ASSUME TypeOK, NEW packet \in SUBSET Shown, BackendSends(packet)
    PROVE  /\ back = "up" /\ handler' \in Flags
           /\ ~Spoofing => handler' = handler /\ screen' = screen \cup packet
           /\ Spoofing =>
                /\ handler'.inputingLogin <=>
                        (handler.inputingLogin \/ "loginPrompt" \in packet)
                /\ handler'.inputingPassword <=>
                        (handler.inputingPassword \/ "passwordPrompt" \in packet)
                /\ ~handler'.waitingLoginEcho
                /\ handler'.authDone <=> handler.authDone
                /\ screen' = screen \cup
                        (packet \ IF handler.waitingLoginEcho
                                  THEN {"loginEcho"} ELSE {})
                /\ echoMissed' <=> (echoMissed \/
                        (handler.waitingLoginEcho /\ "loginEcho" \notin packet))
           /\ ~Spoofing => (echoMissed' <=> echoMissed)
           /\ echoMissed' \in BOOLEAN
           /\ screen' \subseteq Shown \cup Packet
  <1>1. handler \in Flags /\ screen \subseteq Shown \cup Packet
    BY DEF TypeOK
  <1>2. PICK b \in BOOLEAN : b = (handler.authStarted \/
                ("passwordPrompt" \in packet) \/ ("loginPrompt" \in packet))
    BY Zenon
  <1>3. PICK c \in BOOLEAN :
            c = (handler.inputingPassword \/ "passwordPrompt" \in packet)
    BY Zenon
  <1>4. PICK d \in BOOLEAN :
            d = (handler.inputingLogin \/ "loginPrompt" \in packet)
    BY Zenon
  <1>5. PICK e \in BOOLEAN : e = ("willEcho" \in packet)
    <2>1. ("willEcho" \in packet) \in BOOLEAN
      OBVIOUS
    <2> QED
      BY <2>1, Zenon
  <1>6. PICK g : g = [handler EXCEPT !.authStarted = b, !.inputingPassword = c,
                                     !.inputingLogin = d,
                                     !.prePasswordData = e,
                                     !.waitingLoginEcho = FALSE]
    OBVIOUS
  <1>7. g \in Flags /\ g.inputingLogin = d /\ g.inputingPassword = c
        /\ ~g.waitingLoginEcho /\ g.authDone = handler.authDone
    BY <1>1, <1>6 DEF Flags
  <1>8. Spoofing => handler' = g
    BY <1>1, <1>2, <1>3, <1>4, <1>5, <1>6
       DEF BackendSends, setProcessingStateBackend, Flags
  <1>9. back = "up" /\ (~Spoofing => handler' = handler /\
                                      screen' = screen \cup packet)
        /\ (Spoofing => screen' = screen \cup
                        (packet \ IF handler.waitingLoginEcho
                                  THEN {"loginEcho"} ELSE {}))
    BY DEF BackendSends
  <1>10. screen' \subseteq Shown \cup Packet
    BY <1>1, <1>9
  <1>11. handler' \in Flags
    BY <1>1, <1>7, <1>8, <1>9
  <1>12. PICK f \in BOOLEAN : f = (echoMissed \/
                    (handler.waitingLoginEcho /\ "loginEcho" \notin packet))
    BY Zenon
  <1>13. /\ Spoofing => echoMissed' = f
         /\ ~Spoofing => echoMissed' = echoMissed
    BY <1>12, Zenon DEF BackendSends
  <1>14. echoMissed \in BOOLEAN
    BY DEF TypeOK
  <1>15. echoMissed' \in BOOLEAN
    BY <1>12, <1>13, <1>14
  <1>16. Spoofing => (echoMissed' <=> (echoMissed \/
                    (handler.waitingLoginEcho /\ "loginEcho" \notin packet)))
    BY <1>12, <1>13, Zenon
  <1>17. Spoofing =>
            /\ handler'.inputingLogin <=>
                    (handler.inputingLogin \/ "loginPrompt" \in packet)
            /\ handler'.inputingPassword <=>
                    (handler.inputingPassword \/ "passwordPrompt" \in packet)
            /\ ~handler'.waitingLoginEcho
            /\ handler'.authDone <=> handler.authDone
    BY <1>3, <1>4, <1>7, <1>8
  <1> QED
    BY <1>9, <1>10, <1>11, <1>13, <1>15, <1>16, <1>17

\* A packet adds nothing to the screen that has to be hidden, if it echoes the
\* name only while the echo is waited for or was missed.
LEMMA HidesSend ==
    ASSUME TypeOK, NEW packet \in SUBSET Shown, BackendSends(packet),
           Hides(screen, echoMissed),
           ~({"loginEcho", "loginPart"} \subseteq packet),
           packet \cap {"loginEcho", "loginPart"} # {} =>
                Spoofing /\ (handler.waitingLoginEcho \/ echoMissed)
    PROVE  Hides(screen', echoMissed')
  <1>1. packet \cap {"login", "pass", "fake"} = {}
    BY DEF Shown
  <1>2. CASE Spoofing
    <2>1. /\ screen' = screen \cup
                (packet \ IF handler.waitingLoginEcho THEN {"loginEcho"} ELSE {})
          /\ echoMissed' <=> (echoMissed \/
                (handler.waitingLoginEcho /\ "loginEcho" \notin packet))
      BY <1>2, BackendSendsIs
    <2> QED
      BY <1>1, <2>1 DEF Hides
  <1>3. CASE ~Spoofing
    <2>1. screen' = screen \cup packet /\ (echoMissed' <=> echoMissed)
      BY <1>3, BackendSendsIs
    <2> QED
      BY <1>1, <1>3, <2>1 DEF Hides
  <1> QED
    BY <1>2, <1>3

\* The backend's dialogue leaves the rest of the session alone.
LEMMA DialogueKeeps ==
    ASSUME IInv, Dialogue,
           handler' \in Flags, login' \in LoginState, back = "up",
           screen' \subseteq Shown \cup Packet, echoMissed' \in BOOLEAN,
           backend_buffer # <<>> => login'.name = login.name
                    /\ login'.input = login.input /\ login'.dirty = login.dirty,
           Asked => /\ Follows(login', handler', wire, echoMissed')
                    /\ Hides(screen', echoMissed'),
           ~Spoofing => handler' = handler,
           handler'.authDone <=> handler.authDone
    PROVE  IInv'
  <1> USE DEF IInv, Dialogue, poolVars
  <1>1. HasClient /\ HasClient'
    BY DEF HasClient
  <1>2. TypeOK'
    BY <1>1 DEF TypeOK
  <1>3. Silent' /\ VmFirst'
    BY <1>1 DEF Silent, VmFirst
  <1>4. AskedInv'
    <2>1. Asked' = Asked
      BY DEF Asked
    <2>2. Follows(login', handler', wire, echoMissed') /\ login'.at = "shell" =>
            handler'.authDone
      BY DEF Follows
    <2> QED
      BY <2>1, <2>2 DEF AskedInv, Asked
  <1>5. OnePromptAtATime'
    <2>1. CASE ~typedAhead /\ Spoofing
      <3>1. Follows(login', handler', wire, echoMissed')
        BY <2>1 DEF Asked, Spoofing
      <3> QED
        BY <2>1, <3>1 DEF OnePromptAtATime, Follows, Spoofing
    <2>2. CASE typedAhead \/ ~Spoofing
      BY <2>2 DEF OnePromptAtATime
    <2> QED
      BY <2>1, <2>2
  <1>6. SpoofedIsHidden'
    BY DEF SpoofedIsHidden, Asked, Hides
  <1>7. ReuseInv'
    <2> SUFFICES ASSUME lease = "reused" PROVE front = "lost" /\ ~handler'.authDone
      BY DEF ReuseInv
    <2> QED
      BY DEF ReuseInv
  <1> QED
    BY <1>2, <1>3, <1>4, <1>5, <1>6, <1>7

\* The dialogue keeps the invariant.
LEMMA DialogueStep ==
    ASSUME IInv, Dialogue
    PROVE  IInv'
  <1>1. /\ login \in LoginState /\ handler \in Flags
        /\ login.input \in Seq(Line)
        /\ DOMAIN login = {"at", "name", "input", "dirty", "tries"}
    BY DEF IInv, TypeOK, LoginState, Line
  <1>2. Asked => /\ back = "up" => Follows(login, handler, wire, echoMissed)
                 /\ Hides(screen, echoMissed)
    BY DEF IInv, AskedInv, Asked, SpoofedIsHidden, Hides
  <1>3. Asked => (Spoofing <=> ~handler.authDone)
    BY DEF Asked, Spoofing
  <1>4. TypeOK
    BY DEF IInv
  <1>a. \A packet \in WithPassword :
            packet \in SUBSET Shown /\ "loginPrompt" \notin packet
            /\ packet \cap {"loginEcho", "loginPart"} = {}
    BY DEF WithPassword, Shown
  <1>b. \A packet \in WithName :
            packet \in SUBSET Shown /\ "passwordPrompt" \notin packet
            /\ packet \cap {"loginEcho", "loginPart"} = {}
    BY DEF WithName, Shown
  <1>5. CASE telnetd
    <2>1. PICK packet \in SUBSET Shown :
            /\ packet \in IF login.name = "none" THEN WithName ELSE WithPassword
            /\ BackendSends(packet)
            /\ packet \cap {"loginEcho", "loginPart"} = {}
      BY <1>5, <1>a, <1>b DEF telnetd
    <2>3. PICK a \in {"name", "password"} :
            /\ a = IF login.name = "none" THEN "name" ELSE "password"
            /\ login.at = "start" /\ login' = [login EXCEPT !.at = a]
      BY <1>5 DEF telnetd
    <2>4. /\ login' \in LoginState /\ login'.at = a /\ login'.name = login.name
          /\ login'.input = login.input /\ login'.dirty = login.dirty
      BY <1>1, <2>3 DEF LoginState
    <2>5. ASSUME Asked
          PROVE  /\ Follows(login', handler', wire, echoMissed')
                 /\ Hides(screen', echoMissed')
                 /\ ~handler'.authDone /\ ~handler.authDone
      <3>1. /\ Follows(login, handler, wire, echoMissed) /\ ~handler.authDone
            /\ login.name \in {"none", "named"} /\ ~login.dirty
            /\ ~handler.inputingLogin /\ ~handler.inputingPassword
            /\ NoLine(login, wire)
        BY <1>2, <2>1, <2>3, <2>5 DEF Follows, BackendSends
      <3>2. Spoofing
        BY <1>3, <2>5, <3>1
      <3>3. /\ handler'.inputingLogin <=> "loginPrompt" \in packet
            /\ handler'.inputingPassword <=> "passwordPrompt" \in packet
            /\ ~handler'.waitingLoginEcho /\ ~handler'.authDone
        BY <1>4, <2>1, <3>1, <3>2, BackendSendsIs
      <3>4. NoLine(login', wire)
        BY <2>4, <3>1 DEF NoLine
      <3>5. ASSUME login.name = "none"
            PROVE  Follows(login', handler', wire, echoMissed')
        <4>1. login'.at = "name" /\ ~handler'.inputingPassword
          BY <1>b, <2>1, <2>3, <2>4, <3>3, <3>5
        <4> QED
          BY <2>4, <3>1, <3>3, <3>4, <4>1 DEF Follows
      <3>6. ASSUME login.name # "none"
            PROVE  Follows(login', handler', wire, echoMissed')
        <4>1. login'.at = "password" /\ login'.name = "named"
              /\ ~handler'.inputingLogin
          BY <1>a, <2>1, <2>3, <2>4, <3>1, <3>3, <3>6
        <4> QED
          BY <2>4, <3>1, <3>3, <3>4, <4>1 DEF Follows
      <3>7. Hides(screen', echoMissed')
        BY <1>2, <1>4, <2>1, <2>5, HidesSend
      <3> QED
        BY <3>1, <3>3, <3>5, <3>6, <3>7
    <2> QED
      BY <1>4, <2>1, <2>4, <2>5, BackendSendsIs, DialogueKeeps
  <1>6. CASE ReadName
    <2>1. PICK echo \in {"loginEcho", "otherEcho"} :
            echo = IF Head(login.input) = "login" THEN "loginEcho"
                   ELSE "otherEcho"
      OBVIOUS
    <2>2. login.at = "name" /\ login.input # <<>>
      BY <1>6 DEF ReadName
    <2>3. PICK packet \in SUBSET Shown, a \in {"part", "echoed", "password"} :
            /\ BackendSends(packet)
            /\ login' = [login EXCEPT !.at = a, !.name = Head(login.input),
                                      !.input = Tail(login.input)]
            /\ ~({"loginEcho", "loginPart"} \subseteq packet)
            /\ "loginPrompt" \notin packet
            /\ a # "password" => "passwordPrompt" \notin packet
            /\ a = "part" => "loginEcho" \notin packet
      <3>1. \/ /\ BackendSends({echo})
               /\ login' = [login EXCEPT !.at = "echoed",
                                !.name = Head(login.input),
                                !.input = Tail(login.input)]
            \/ \E more \in WithPassword :
                /\ BackendSends({echo} \cup more)
                /\ login' = [login EXCEPT !.at = "password",
                                !.name = Head(login.input),
                                !.input = Tail(login.input)]
            \/ /\ BackendSends({"loginPart"})
               /\ login' = [login EXCEPT !.at = "part",
                                !.name = Head(login.input),
                                !.input = Tail(login.input)]
        BY <1>1, <1>6, <2>1 DEF ReadName
      <3>2. {echo} \in SUBSET Shown /\ {"loginPart"} \in SUBSET Shown
        BY DEF Shown
      <3>3. \A more \in WithPassword :
                /\ {echo} \cup more \in SUBSET Shown
                /\ "loginPart" \notin {echo} \cup more
                /\ "loginPrompt" \notin {echo} \cup more
        BY <1>a, <3>2
      <3>4. CASE /\ BackendSends({echo})
                 /\ login' = [login EXCEPT !.at = "echoed",
                                !.name = Head(login.input),
                                !.input = Tail(login.input)]
        BY <3>2, <3>4
      <3>5. ASSUME NEW more \in WithPassword, BackendSends({echo} \cup more),
                   login' = [login EXCEPT !.at = "password",
                                !.name = Head(login.input),
                                !.input = Tail(login.input)]
            PROVE  \E packet \in SUBSET Shown, a \in {"part", "echoed", "password"} :
                    /\ BackendSends(packet)
                    /\ login' = [login EXCEPT !.at = a,
                                    !.name = Head(login.input),
                                    !.input = Tail(login.input)]
                    /\ ~({"loginEcho", "loginPart"} \subseteq packet)
                    /\ "loginPrompt" \notin packet
                    /\ a # "password" => "passwordPrompt" \notin packet
                    /\ a = "part" => "loginEcho" \notin packet
        BY <3>3, <3>5
      <3>6. CASE /\ BackendSends({"loginPart"})
                 /\ login' = [login EXCEPT !.at = "part",
                                !.name = Head(login.input),
                                !.input = Tail(login.input)]
        BY <3>2, <3>6
      <3> QED
        BY <3>1, <3>4, <3>5, <3>6
    <2>4. Head(login.input) \in Line /\ Tail(login.input) \in Seq(Line)
      BY <1>1, <2>2
    <2>7. /\ login' \in LoginState /\ login'.at = a
          /\ login'.name = Head(login.input)
          /\ login'.input = Tail(login.input) /\ login'.dirty = login.dirty
      <3>1. Head(login.input) \in {"none", "named", "user", "line", "cut",
                                    "login", "pass", "fake"}
        BY <2>4 DEF Line
      <3> QED
        BY <1>1, <2>4, <2>3, <3>1 DEF LoginState, Line
    <2>8. ASSUME Asked
          PROVE  /\ Follows(login', handler', wire, echoMissed')
                 /\ Hides(screen', echoMissed')
                 /\ ~handler'.authDone /\ ~handler.authDone
      <3>1. /\ login.input = <<"login">> /\ Quiet(wire) /\ ~login.dirty
            /\ ~handler.inputingLogin /\ ~handler.inputingPassword
            /\ handler.waitingLoginEcho \/ echoMissed
            /\ ~handler.authDone
        BY <1>2, <2>3, <2>2, <2>8 DEF Follows, BackendSends, NoLine, OneLine
      <3>2. Spoofing
        BY <1>3, <2>8, <3>1
      <3>3. /\ ~handler'.inputingLogin
            /\ a # "password" => ~handler'.inputingPassword
            /\ ~handler'.waitingLoginEcho /\ ~handler'.authDone
            /\ a = "part" => echoMissed'
        BY <1>4, <2>3, <3>1, <3>2, BackendSendsIs
      <3>4. /\ Head(login.input) = "login" /\ login'.input = <<>>
            /\ login'.name = "login"
        BY <2>7, <3>1
      <3>5. NoLine(login', wire) /\ ~login'.dirty
        BY <2>7, <3>1, <3>4 DEF NoLine
      <3>6. Follows(login', handler', wire, echoMissed')
        BY <2>7, <3>3, <3>4, <3>5 DEF Follows
      <3>7. Hides(screen', echoMissed')
        BY <1>2, <1>4, <2>3, <2>8, <3>1, <3>2, HidesSend
      <3> QED
        BY <3>1, <3>3, <3>6, <3>7
    <2>9. backend_buffer = <<>>
      BY <2>3, <2>2 DEF IInv, TypeOK, BackendSends, HasClient
    <2> QED
      BY <1>4, <2>3, <2>7, <2>8, <2>9, BackendSendsIs, DialogueKeeps
  <1>c. CASE FinishEcho
    <2>1. PICK packet \in SUBSET Shown :
            packet = {"loginPart"} /\ BackendSends(packet)
      BY <1>c DEF FinishEcho, Shown
    <2>3. login.at = "part" /\ login' = [login EXCEPT !.at = "echoed"]
      BY <1>c DEF FinishEcho
    <2>4. /\ login' \in LoginState /\ login'.at = "echoed"
          /\ login'.name = login.name
          /\ login'.input = login.input /\ login'.dirty = login.dirty
      BY <1>1, <2>3 DEF LoginState
    <2>5. ASSUME Asked
          PROVE  /\ Follows(login', handler', wire, echoMissed')
                 /\ Hides(screen', echoMissed')
                 /\ ~handler'.authDone /\ ~handler.authDone
      <3>1. /\ login.name = "login" /\ ~login.dirty /\ ~handler.authDone
            /\ ~handler.inputingLogin /\ ~handler.inputingPassword
            /\ echoMissed /\ NoLine(login, wire)
        BY <1>2, <2>1, <2>3, <2>5 DEF Follows, BackendSends
      <3>2. Spoofing
        BY <1>3, <2>5, <3>1
      <3>3. /\ ~handler'.inputingLogin /\ ~handler'.inputingPassword
            /\ ~handler'.waitingLoginEcho /\ ~handler'.authDone
        BY <1>4, <2>1, <3>1, <3>2, BackendSendsIs
      <3>4. NoLine(login', wire)
        BY <2>4, <3>1 DEF NoLine
      <3>5. Follows(login', handler', wire, echoMissed')
        BY <2>4, <3>1, <3>3, <3>4 DEF Follows
      <3>6. Hides(screen', echoMissed')
        BY <1>2, <1>4, <2>1, <2>5, <3>1, <3>2, HidesSend
      <3> QED
        BY <3>1, <3>3, <3>5, <3>6
    <2> QED
      BY <1>4, <2>1, <2>4, <2>5, BackendSendsIs, DialogueKeeps
  <1>7. CASE AskPassword
    <2>1. PICK packet \in WithPassword : BackendSends(packet)
      BY <1>7 DEF AskPassword
    <2>2. packet \in SUBSET Shown /\ "loginPrompt" \notin packet
          /\ packet \cap {"loginEcho", "loginPart"} = {}
      BY <1>a
    <2>3. login.at = "echoed" /\ login' = [login EXCEPT !.at = "password"]
      BY <1>7 DEF AskPassword
    <2>4. /\ login' \in LoginState /\ login'.at = "password"
          /\ login'.name = login.name
          /\ login'.input = login.input /\ login'.dirty = login.dirty
      BY <1>1, <2>3 DEF LoginState
    <2>5. ASSUME Asked
          PROVE  /\ Follows(login', handler', wire, echoMissed')
                 /\ Hides(screen', echoMissed')
                 /\ ~handler'.authDone /\ ~handler.authDone
      <3>1. /\ login.name = "login" /\ ~login.dirty /\ ~handler.authDone
            /\ ~handler.inputingLogin /\ ~handler.inputingPassword
            /\ NoLine(login, wire)
        BY <1>2, <2>1, <2>3, <2>5 DEF Follows, BackendSends
      <3>2. Spoofing
        BY <1>3, <2>5, <3>1
      <3>3. /\ ~handler'.inputingLogin
            /\ ~handler'.waitingLoginEcho /\ ~handler'.authDone
        BY <1>4, <2>1, <2>2, <3>1, <3>2, BackendSendsIs
      <3>4. NoLine(login', wire)
        BY <2>4, <3>1 DEF NoLine
      <3>5. Follows(login', handler', wire, echoMissed')
        BY <2>4, <3>1, <3>3, <3>4 DEF Follows
      <3>6. Hides(screen', echoMissed')
        BY <1>2, <1>4, <2>1, <2>2, <2>5, HidesSend
      <3> QED
        BY <3>1, <3>3, <3>5, <3>6
    <2> QED
      BY <1>4, <2>1, <2>2, <2>4, <2>5, BackendSendsIs, DialogueKeeps
  <1>8. CASE ReadPassword
    <2>1. PICK good \in LogsIn(login.name, Head(login.input)) :
            /\ good \/ login.tries + 1 < MaxTries
            /\ \E packet \in IF good THEN {{"output"}} ELSE WithName :
                    BackendSends(packet)
            /\ login' = [login EXCEPT !.at = IF good THEN "shell" ELSE "name",
                             !.input = Tail(@),
                             !.tries = @ + (IF good THEN 0 ELSE 1)]
      BY <1>8 DEF ReadPassword
    <2>2. login.at = "password" /\ login.input # <<>>
      BY <1>8 DEF ReadPassword
    <2>3. good \in BOOLEAN
      BY DEF LogsIn
    <2>4. PICK packet \in SUBSET Shown :
            /\ BackendSends(packet)
            /\ packet \cap {"loginEcho", "loginPart"} = {}
            /\ "passwordPrompt" \notin packet
      <3>1. {"output"} \in SUBSET Shown
        BY DEF Shown
      <3> QED
        BY <1>b, <2>1, <2>3, <3>1
    <2>5. Head(login.input) \in Line /\ Tail(login.input) \in Seq(Line)
      BY <1>1, <2>2
    <2>6. PICK n \in 0..(MaxTries - 1) :
            n = login.tries + (IF good THEN 0 ELSE 1)
      BY <1>1, <2>1, TelnetProxyAssumption
         DEF LoginState, TelnetProxyAssumption
    <2>7. PICK a \in {"shell", "name"} : a = IF good THEN "shell" ELSE "name"
      OBVIOUS
    <2>8. login' = [login EXCEPT !.at = a, !.input = Tail(login.input),
                                 !.tries = n]
      BY <1>1, <2>1, <2>6, <2>7
    <2>9. /\ login' \in LoginState /\ login'.at = a /\ login'.name = login.name
          /\ login'.input = Tail(login.input) /\ login'.dirty = login.dirty
      BY <1>1, <2>5, <2>8 DEF LoginState, Line
    <2>10. ASSUME Asked
           PROVE  /\ Follows(login', handler', wire, echoMissed')
                  /\ Hides(screen', echoMissed')
                  /\ handler'.authDone <=> handler.authDone
      <3>0. Follows(login, handler, wire, echoMissed)
        BY <1>2, <2>1, <2>10 DEF BackendSends
      <3>a. Hides(screen', echoMissed')
        BY <1>2, <1>4, <2>4, <2>10, HidesSend
      <3>1. CASE ~handler.authDone
        <4>1. /\ login.input = <<"fake">> /\ Quiet(wire) /\ ~login.dirty
              /\ ~handler.inputingLogin /\ ~handler.inputingPassword
          BY <2>2, <3>0, <3>1 DEF Follows, NoLine, OneLine
        <4>2. good = FALSE /\ login'.input = <<>>
          BY <2>9, <4>1 DEF LogsIn
        <4>3. Spoofing
          BY <1>3, <2>10, <3>1
        <4>4. /\ ~handler'.inputingPassword
              /\ ~handler'.waitingLoginEcho /\ ~handler'.authDone
          BY <1>4, <2>4, <4>1, <4>3, <3>1, BackendSendsIs
        <4>5. Follows(login', handler', wire, echoMissed')
          BY <2>7, <2>9, <4>1, <4>2, <4>4 DEF Follows, NoLine
        <4> QED
          BY <3>1, <3>a, <4>4, <4>5
      <3>2. CASE handler.authDone
        <4>1. login.name \in {"named", "login"} /\ Head(login.input) = "pass"
          BY <2>2, <3>0, <3>2 DEF Follows
        <4>2. good = TRUE
          BY <4>1 DEF LogsIn
        <4>3. handler' = handler
          BY <1>3, <1>4, <2>4, <2>10, <3>2, BackendSendsIs
        <4>4. Follows(login', handler', wire, echoMissed')
          BY <2>7, <2>9, <3>2, <4>2, <4>3 DEF Follows
        <4> QED
          BY <3>a, <4>3, <4>4
      <3> QED
        BY <3>1, <3>2
    <2>11. backend_buffer = <<>>
      BY <2>1, <2>2 DEF IInv, TypeOK, BackendSends, HasClient
    <2> QED
      BY <1>4, <2>4, <2>9, <2>10, <2>11, BackendSendsIs, DialogueKeeps
  <1>d. CASE OtherOutput
    <2>1. PICK packet \in SUBSET Shown :
            packet = {"output"} /\ BackendSends(packet)
      BY <1>d DEF OtherOutput, Shown
    <2>2. login' = login
      BY <1>d DEF OtherOutput
    <2>3. ASSUME Asked
          PROVE  /\ Follows(login', handler', wire, echoMissed')
                 /\ Hides(screen', echoMissed')
                 /\ handler'.authDone <=> handler.authDone
      <3>1. Follows(login, handler, wire, echoMissed)
        BY <1>2, <2>1, <2>3 DEF BackendSends
      <3>2. Hides(screen', echoMissed')
        BY <1>2, <1>4, <2>1, <2>3, HidesSend
      <3>3. CASE ~handler.authDone
        <4>1. Spoofing
          BY <1>3, <2>3, <3>3
        <4>2. /\ handler'.inputingLogin <=> handler.inputingLogin
              /\ handler'.inputingPassword <=> handler.inputingPassword
              /\ ~handler'.waitingLoginEcho /\ ~handler'.authDone
              /\ echoMissed' <=> (echoMissed \/ handler.waitingLoginEcho)
          BY <1>4, <2>1, <3>3, <4>1, BackendSendsIs
        <4>3. Follows(login, handler', wire, echoMissed')
          BY <3>1, <3>3, <4>2 DEF Follows
        <4> QED
          BY <2>2, <3>2, <3>3, <4>2, <4>3
      <3>4. CASE handler.authDone
        <4>1. handler' = handler
          BY <1>3, <1>4, <2>1, <2>3, <3>4, BackendSendsIs
        <4>2. Follows(login, handler, wire, echoMissed')
          BY <3>1, <3>4 DEF Follows
        <4> QED
          BY <2>2, <3>2, <4>1, <4>2
      <3> QED
        BY <3>3, <3>4
    <2>4. ~Asked => (handler'.authDone <=> handler.authDone)
      BY <1>4, <2>1, BackendSendsIs
    <2> QED
      BY <1>1, <1>4, <2>1, <2>2, <2>3, <2>4, BackendSendsIs, DialogueKeeps
  <1> QED
    BY <1>5, <1>6, <1>c, <1>7, <1>8, <1>d DEF Dialogue

-----------------------------------------------------------------------------
(* The pool and the connections *)

\* A step that leaves the dialogue alone, and does not connect the backend.
LEMMA SessionStep ==
    ASSUME IInv, TypeOK', VmFirst', ReuseInv',
           back' = "up" => back = "up" \/ ~HasClient,
           HasClient => HasClient',
           UNCHANGED <<config, handler, backend_buffer, wire, login, screen,
                       typedAhead, echoMissed>>
    PROVE  IInv'
  <1> USE DEF IInv
  <1>1. Silent'
    BY DEF Silent
  <1>2. Asked' = Asked
    BY DEF Asked
  <1>3. ASSUME ~HasClient, Asked PROVE Follows(login, handler, wire, echoMissed)
    <2>1. /\ login.at = "start" /\ login.name = "none" /\ ~login.dirty
          /\ login.input = <<>> /\ wire = <<>>
          /\ ~handler.inputingLogin /\ ~handler.inputingPassword
          /\ ~handler.waitingLoginEcho /\ ~handler.authDone
      BY <1>3 DEF Silent
    <2>2. NoLine(login, wire)
      BY <2>1, OutcomePackets DEF NoLine
    <2> QED
      BY <2>1, <2>2 DEF Follows
  <1>4. AskedInv'
    BY <1>2, <1>3 DEF AskedInv
  <1>5. OnePromptAtATime' /\ SpoofedIsHidden'
    BY DEF OnePromptAtATime, SpoofedIsHidden
  <1> QED
    BY <1>1, <1>4, <1>5

\* The steps of the pool keep the invariant.
LEMMA PoolStep ==
    ASSUME IInv, Pool
    PROVE  IInv'
  <1> USE DEF IInv, Pool
  <1>1. /\ front' \in {front, "closing"} /\ (front = "lost" => front' = "lost")
        /\ lease' \in {lease, "asked", "held", "refused", "none"}
        /\ poolconn' \in {poolconn, "up", "failed"}
        /\ \/ back' = back /\ vm_id' = vm_id
              /\ (poolconn' = "off" <=> poolconn = "off")
           \/ back = "none" /\ back' = "connecting" /\ vm_id'
    <2>1. CASE pool_connection_success
      BY <2>1 DEF pool_connection_success
    <2>2. CASE pool_connection_error
      BY <2>2 DEF pool_connection_error, LoseFront
    <2>3. CASE PoolDecides
      BY <2>3 DEF PoolDecides
    <2>4. CASE received_pool_data
      BY <2>4 DEF received_pool_data, VmFirst
    <2>5. CASE PoolRefusal
      BY <2>5 DEF PoolRefusal, LoseFront
    <2> QED
      BY <2>1, <2>2, <2>3, <2>4, <2>5
  <1>2. vm_id' \in BOOLEAN
    BY Zenon DEF TypeOK, pool_connection_success, pool_connection_error,
                 PoolDecides, received_pool_data, PoolRefusal
  <1>3. HasClient' <=> HasClient
    BY <1>1 DEF HasClient
  <1>4. TypeOK'
    BY <1>1, <1>2, <1>3 DEF TypeOK
  <1>5. VmFirst' /\ ReuseInv'
    BY <1>1 DEF VmFirst, ReuseInv
  <1> QED
    BY <1>1, <1>3, <1>4, <1>5, SessionStep

\* The steps of the connections keep the invariant.
LEMMA ConnectionStep ==
    ASSUME IInv, Connection
    PROVE  IInv'
  <1> USE DEF IInv, Connection, poolVars
  <1>1. /\ front' \in {front, "closing"} /\ (front = "lost" => front' = "lost")
        /\ \/ back' = back
           \/ back = "connecting" /\ back' \in {"up", "failed"}
           \/ back = "up" /\ back' \in {"closing", "lost"}
           \/ back = "closing" /\ back' = "lost"
        /\ ttylog' \in {"open", "closed"}
    <2>1. CASE BackendConnected
      BY <2>1 DEF BackendConnected, TypeOK
    <2>2. CASE backend_connection_error
      BY <2>2 DEF backend_connection_error, LoseFront, TypeOK
    <2>3. CASE timeoutConnection
      BY <2>3 DEF timeoutConnection, LoseFront, LoseBack
    <2>4. CASE BackendLost
      BY <2>4 DEF BackendLost, LoseFront
    <2> QED
      BY <2>1, <2>2, <2>3, <2>4
  <1>2. timer' \in BOOLEAN
    BY Zenon DEF TypeOK, BackendConnected, BackendTimer,
                 backend_connection_error, timeoutConnection, BackendLost
  <1>3. HasClient => HasClient'
    BY <1>1 DEF HasClient
  <1>4. TypeOK'
    <2>1. ~HasClient => wire = <<>> /\ login.name = "none"
                        /\ login.input = <<>> /\ ~login.dirty
      BY DEF Silent
    <2> QED
      BY <1>1, <1>2, <2>1 DEF TypeOK
  <1>5. VmFirst' /\ ReuseInv'
    BY <1>1 DEF VmFirst, ReuseInv
  <1>6. back' = "up" => back = "up" \/ ~HasClient
    BY <1>1 DEF HasClient
  <1> QED
    BY <1>3, <1>4, <1>5, <1>6, SessionStep

\* The end of the client's connection keeps the invariant: the VM goes back as
\* unused only if nobody logged in.
LEMMA LostStep ==
    ASSUME IInv, connectionLost
    PROVE  IInv'
  <1> USE DEF IInv, connectionLost
  <1>1. /\ back' \in {back, "closing"} /\ (back' # back => back = "up")
        /\ poolconn' \in {poolconn, "closed"}
        /\ (poolconn' = "off" <=> poolconn = "off")
    BY DEF LoseBack
  <1>2. lease' \in {lease, "freed", "reused"}
        /\ (lease' = "reused" => lease = "reused" \/ ~handler.authDone)
    BY DEF VmDirty
  <1>3. timer' \in BOOLEAN
    BY Zenon
  <1>4. HasClient' <=> HasClient
    BY <1>1 DEF HasClient
  <1>5. TypeOK'
    BY <1>1, <1>2, <1>3, <1>4 DEF TypeOK
  <1>6. VmFirst' /\ ReuseInv'
    BY <1>1, <1>2 DEF VmFirst, ReuseInv
  <1> QED
    BY <1>1, <1>4, <1>5, <1>6, SessionStep

\* Every step keeps the invariant.
LEMMA SessionInv ==
    ASSUME IInv, [Next]_vars
    PROVE  IInv'
  <1>1. CASE UNCHANGED vars
    BY <1>1 DEF vars, poolVars, IInv, TypeOK, Silent, VmFirst, HasClient,
                AskedInv, Asked, OnePromptAtATime, SpoofedIsHidden, ReuseInv
  <1>2. CASE Next
    BY <1>2, ClientStep, TerminalStep, DialogueStep, PoolStep, ConnectionStep,
       LostStep DEF Next
  <1> QED
    BY <1>1, <1>2

\* The first state satisfies the invariant.
LEMMA SessionInit == Init => IInv
  <1> SUFFICES ASSUME Init PROVE IInv
    OBVIOUS
  <1> USE TelnetProxyAssumption DEF Init
  <1>1. /\ login = [at |-> "start", name |-> "none", input |-> <<>>,
                    dirty |-> FALSE, tries |-> 0]
        /\ handler = NewHandler /\ wire = <<>> /\ backend_buffer = <<>>
        /\ screen = {} /\ lease = "none"
    OBVIOUS
  <1>2. login \in LoginState
    <2>1. <<>> \in Seq({"line", "cut", "login", "pass", "fake"})
          /\ 0 \in 0..(MaxTries - 1)
      BY DEF TelnetProxyAssumption
    <2> QED
      BY <1>1, <2>1 DEF LoginState
  <1>3. handler \in Flags
    BY <1>1 DEF NewHandler, Flags
  <1>4. {timer, vm_id, typedAhead, echoMissed} \subseteq BOOLEAN /\ ~typedAhead
    BY Zenon
  <1>5. back \in {"none", "connecting"} /\ poolconn \in {"off", "connecting"}
        /\ (poolconn # "off" => back = "none")
    OBVIOUS
  <1>6. TypeOK
    <2>1. sent \in 0..MaxPackets
      BY DEF TelnetProxyAssumption
    <2>2. wire \in Seq(Packet) /\ backend_buffer \in Seq(Packet)
      BY <1>1
    <2> QED
      BY <1>1, <1>2, <1>3, <1>4, <1>5, <2>1, <2>2 DEF TypeOK
  <1>7. /\ ~handler.inputingLogin /\ ~handler.inputingPassword
        /\ ~handler.waitingLoginEcho /\ ~handler.authDone
    BY <1>1 DEF NewHandler
  <1>8. Silent /\ VmFirst /\ OnePromptAtATime /\ ReuseInv
    BY <1>1, <1>5, <1>7 DEF Silent, VmFirst, OnePromptAtATime, ReuseInv
  <1>9. SpoofedIsHidden
    BY <1>1 DEF SpoofedIsHidden
  <1>10. AskedInv
    BY <1>1, <1>5, OutcomePackets DEF AskedInv
  <1> QED
    BY <1>6, <1>8, <1>9, <1>10 DEF IInv

\* The handler never believes anything false of the backend's dialogue or of the
\* VM of a client that types only when asked: it waits for a name or for a
\* password, never shows a password it wrote in the client's place, and the name only
\* when the echo did not come whole in the packet after it, agrees with the
\* backend on who is logged in, and returns no VM as unused that gave a shell.
THEOREM DialogueCorrect == Spec => []TelnetInv
  <1>1. IInv => LoginsAgree
    <2> SUFFICES ASSUME IInv, config.spoof, ~typedAhead, back = "up"
                 PROVE  /\ login.at = "shell" => handler.authDone
                        /\ handler.authDone =>
                            \/ login.at = "shell"
                            \/ /\ login.at = "password"
                               /\ login.name \in {"named", "login"}
                               /\ NextLine("pass")
      BY DEF LoginsAgree
    <2>1. Follows(login, handler, wire, echoMissed)
      BY DEF IInv, AskedInv, Asked
    <2> QED
      BY <2>1 DEF Follows, NextLine
  <1>2. IInv => ReturnedAsUsed
    BY DEF IInv, AskedInv, Asked, ReuseInv, ReturnedAsUsed
  <1>3. IInv => TelnetInv
    BY <1>1, <1>2 DEF IInv, TelnetInv
  <1> QED
    BY <1>3, SessionInit, SessionInv, PTL DEF Spec

=============================================================================
