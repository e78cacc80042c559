--------------------------- MODULE SSHProxyProofs ---------------------------
(* Theorems about SSHProxy, for every set of channels and number of logins. *)
EXTENDS SSHProxy, WellFoundedInduction, TLAPS

M(from, msg, ch) == [from |-> from, msg |-> msg, ch |-> ch]

Opener(ch) == config.opener[ch]
Acceptor(ch) == Other(config.opener[ch])

\* The handler keeps a channel of this type: forwarding is not refused.
Kept(ch) == Kind[ch] = "session" \/ config.forwarding

\* The packets the handler has parsed, as long as it has not raised.
Done == sent \ (ToSet(delayedPackets) \cup ToSet(heldReplies))

-----------------------------------------------------------------------------
(* What the parsed packets say of the table *)

\* The open of a channel was parsed and passed on, its failure was not, and the
\* two sides did not both close it.
InTable(D, ch) ==
    /\ M(Opener(ch), "open", ch) \in D /\ Kept(ch)
    /\ M(Acceptor(ch), "fail", ch) \notin D
    /\ ~(M("SERVER", "close", ch) \in D /\ M("CLIENT", "close", ch) \in D)

TableFits(D, table) ==
    /\ \A i, j \in DOMAIN table : table[i].ch = table[j].ch => i = j
    /\ \A ch \in Chan : InTable(D, ch) <=> \E i \in DOMAIN table : table[i].ch = ch
    /\ \A i \in DOMAIN table :
          LET ch == table[i].ch
          IN  /\ table[i].closed = {s \in Side : M(s, "close", ch) \in D}
              /\ Kind[ch] = "tcpip" \/ M("SERVER", "request", ch) \in D => table[i].session

\* What was passed on was parsed, but for the failures the handler answers
\* itself with, and only opens that are not refused are.
SeenFits(D, S) ==
    \A p \in S : p.msg # "fail" => p \in D /\ (p.msg = "open" => Kept(p.ch))

\* A channel is opened before anything else is said of it, and accepted or not.
DoneFits(D) ==
    \A p \in D : /\ p.msg # "open" => M(Opener(p.ch), "open", p.ch) \in D /\ Kept(p.ch)
                 /\ p.msg = "confirm" => M(p.from, "fail", p.ch) \notin D

Fits(D, table, S) == DoneFits(D) /\ TableFits(D, table) /\ SeenFits(D, S)

\* The handler can parse p after the packets D: it is in the table, with a
\* session if it needs one.
Legal(p, D) ==
    CASE p.msg = "open" -> Opener(p.ch) = p.from /\ p \notin D
      [] p.msg \in {"confirm", "fail"} ->
            /\ Acceptor(p.ch) = p.from
            /\ M(Opener(p.ch), "open", p.ch) \in D /\ Kept(p.ch)
            /\ \A msg \in {"confirm", "fail", "close"} : M(p.from, msg, p.ch) \notin D
      [] OTHER ->
            /\ M(Opener(p.ch), "open", p.ch) \in D /\ Kept(p.ch)
            /\ M(Acceptor(p.ch), "confirm", p.ch) \in D
            /\ M(p.from, "close", p.ch) \notin D
            /\ p.msg = "data" => Kind[p.ch] = "tcpip" \/ M("SERVER", "request", p.ch) \in D

\* The packets of a buffer can be parsed one after another.
LegalQueue(q, D) ==
    \A i \in DOMAIN q : Legal(q[i], D \cup {q[j] : j \in 1 .. i - 1})

\* Each channel is opened from one side, and closed once it was accepted.
OpenersFit == \A p \in sent : p.msg = "open" => Opener(p.ch) = p.from
ClosesFit == \A p \in sent : p.msg = "close" => M(Acceptor(p.ch), "confirm", p.ch) \in sent

\* Each buffer holds packets of its side, no packet twice.
QueueFits(q, side) ==
    /\ \A i \in DOMAIN q : q[i] \in sent /\ q[i].from = side
    /\ \A i, j \in DOMAIN q : q[i] = q[j] => i = j

-----------------------------------------------------------------------------
(* The inductive invariants *)

\* The handler has not raised and the client kept to the protocol.
Lawful == ~raised /\ strays = 0

\* The table and both buffers, until the handler raises or the client strays.
ParserInv ==
    /\ OpenersFit
    /\ QueueFits(delayedPackets, "SERVER") /\ QueueFits(heldReplies, "CLIENT")
    /\ Lawful => /\ ClosesFit /\ Fits(Done, channels, seen)
                 /\ LegalQueue(delayedPackets, Done) /\ LegalQueue(heldReplies, Done)

\* Before the backend takes packets there are only opens of a client that keeps
\* to the protocol; from then on it was authenticated to, if the client is still
\* there.  A VM that was returned is out of reach, or was never reached.
UsedInv ==
    /\ canAuth => HasClient
    /\ authDone => backendConnected
    /\ ~backendConnected =>
           /\ \A p \in sent : p.from = "SERVER" /\ (strays = 0 => p.msg = "open")
           /\ channels = <<>> /\ seen = {} /\ heldReplies = <<>>
    /\ backendConnected => HasClient
    /\ front # "lost" /\ backendConnected => authDone \/ (raised /\ strays > 0)
    /\ vm_id => back # "none"
    /\ lease = "reused" => front = "lost" /\ vm_id
    /\ lease = "reused" /\ ~backendConnected => early \/ back \in {"failed", "closing", "lost"}
    /\ poolconn # "off" /\ ~vm_id => back = "none"

-----------------------------------------------------------------------------
(* The table *)

Entry == [ch : Chan, ids : SUBSET Side, session : BOOLEAN, closed : SUBSET Side]
Run == [channels : Seq(Entry), timer : BOOLEAN, seen : SUBSET Packet,
        parsed : Seq(Packet), ok : BOOLEAN]

\* Every channel of the table has the number its opener gave it.
IdsFit(table) == \A i \in DOMAIN table : Opener(table[i].ch) \in table[i].ids

LEMMA Sides ==
    /\ Side = {"SERVER", "CLIENT"}
    /\ Other("SERVER") = "CLIENT" /\ Other("CLIENT") = "SERVER"
    /\ \A s \in Side : Other(s) \in Side /\ Other(s) # s /\ Other(Other(s)) = s
  BY DEF Side, Other

LEMMA EntryCh ==
    ASSUME NEW table \in Seq(Entry)
    PROVE  \A j \in DOMAIN table : table[j] \in Entry /\ table[j].ch \in Chan
  <1>1. \A j \in DOMAIN table : table[j] \in Entry
    OBVIOUS
  <1> QED
    BY <1>1 DEF Entry

\* What is left of a table when an entry is removed.
LEMMA RemovedEntry ==
    ASSUME NEW S, NEW s \in Seq(S), NEW i \in DOMAIN s
    PROVE  /\ RemoveAt(s, i) \in Seq(S)
           /\ DOMAIN RemoveAt(s, i) = 1 .. Len(s) - 1
           /\ \A k \in DOMAIN RemoveAt(s, i) :
                 /\ (IF k < i THEN k ELSE k + 1) \in DOMAIN s
                 /\ RemoveAt(s, i)[k] = s[IF k < i THEN k ELSE k + 1]
  <1>1. i \in 1 .. Len(s) /\ Len(s) \in Nat
    OBVIOUS
  <1>2. PICK a : a = SubSeq(s, 1, i - 1)
    OBVIOUS
  <1>3. PICK b : b = SubSeq(s, i + 1, Len(s))
    OBVIOUS
  <1>4. /\ a \in Seq(S) /\ Len(a) = i - 1
        /\ \A k \in 1 .. i - 1 : a[k] = s[k]
    BY <1>1, <1>2
  <1>5. /\ b \in Seq(S) /\ Len(b) = Len(s) - i
        /\ \A k \in 1 .. Len(s) - i : b[k] = s[i + k]
    BY <1>1, <1>3
  <1>6. RemoveAt(s, i) = a \o b
    BY <1>2, <1>3 DEF RemoveAt
  <1>7. a \o b \in Seq(S) /\ DOMAIN (a \o b) = 1 .. Len(s) - 1
    BY <1>1, <1>4, <1>5
  <1>8. ASSUME NEW k \in 1 .. Len(s) - 1
        PROVE  /\ (IF k < i THEN k ELSE k + 1) \in DOMAIN s
               /\ (a \o b)[k] = s[IF k < i THEN k ELSE k + 1]
    <2>1. a \in Seq(S) /\ b \in Seq(S) /\ k \in 1 .. Len(a) + Len(b)
      BY <1>1, <1>4, <1>5
    <2>2. (a \o b)[k] = IF k <= Len(a) THEN a[k] ELSE b[k - Len(a)]
      BY <2>1
    <2>3. CASE k < i
      <3>1. k <= Len(a) /\ k \in 1 .. i - 1 /\ k \in 1 .. Len(s)
        BY <1>1, <1>4, <2>3
      <3> QED
        BY <1>4, <2>2, <2>3, <3>1
    <2>4. CASE ~(k < i)
      <3>1. /\ ~(k <= Len(a)) /\ k - Len(a) \in 1 .. Len(s) - i
            /\ i + (k - Len(a)) = k + 1 /\ k + 1 \in 1 .. Len(s)
        <4>1. /\ k \in Int /\ i \in Int /\ Len(s) \in Int /\ Len(a) = i - 1
              /\ 1 <= k /\ k <= Len(s) - 1
          BY <1>1, <1>4
        <4> QED
          BY <2>4, <4>1
      <3> QED
        BY <1>5, <2>2, <2>4, <3>1
    <2> QED
      BY <2>3, <2>4
  <1> QED
    BY <1>6, <1>7, <1>8

\* Every other entry is still there.
LEMMA OthersStay ==
    ASSUME NEW S, NEW s \in Seq(S), NEW i \in DOMAIN s, NEW j \in DOMAIN s, i # j
    PROVE  \E k \in DOMAIN RemoveAt(s, i) : RemoveAt(s, i)[k] = s[j]
  <1>1. i \in 1 .. Len(s) /\ j \in 1 .. Len(s) /\ Len(s) \in Nat
    OBVIOUS
  <1>2. CASE j < i
    <2>1. j \in 1 .. Len(s) - 1
      BY <1>1, <1>2
    <2> QED
      BY <1>2, <2>1, RemovedEntry
  <1>3. CASE j > i
    <2>1. j - 1 \in 1 .. Len(s) - 1 /\ ~(j - 1 < i) /\ (j - 1) + 1 = j
      BY <1>1, <1>3
    <2>2. RemoveAt(s, i)[j - 1] = s[(j - 1) + 1] /\ j - 1 \in DOMAIN RemoveAt(s, i)
      BY <2>1, RemovedEntry
    <2> QED
      BY <2>1, <2>2
  <1> QED
    BY <1>1, <1>2, <1>3

\* The search of get_channel finds a channel of the table when all the numbers of
\* its recipient's side are known, and what it finds is at Index.
LEMMA FoundAt ==
    ASSUME NEW table \in Seq(Entry), NEW from \in Side, NEW ch \in Chan
    PROVE  /\ Found(table, from, ch) => \E i \in DOMAIN table : table[i].ch = ch
           /\ (\E i \in DOMAIN table : table[i].ch = ch) =>
                 /\ Index(table, ch) \in DOMAIN table /\ table[Index(table, ch)].ch = ch
                 /\ Found(table, from, ch) \/ \E j \in DOMAIN table : table[j].ids # Side
  <1>1. Found(table, from, ch) => \E i \in DOMAIN table : table[i].ch = ch
    BY DEF Found
  <1>2. ASSUME NEW i \in DOMAIN table, table[i].ch = ch
        PROVE  /\ Index(table, ch) \in DOMAIN table /\ table[Index(table, ch)].ch = ch
               /\ Found(table, from, ch) \/ \E j \in DOMAIN table : table[j].ids # Side
    <2>1. Index(table, ch) \in DOMAIN table /\ table[Index(table, ch)].ch = ch
      BY <1>2 DEF Index
    <2>2. \A j \in 1 .. i : j \in DOMAIN table
      OBVIOUS
    <2>3. Found(table, from, ch) \/ \E j \in DOMAIN table : table[j].ids # Side
      BY <1>2, <2>2, Sides DEF Found
    <2> QED
      BY <2>1, <2>3
  <1> QED
    BY <1>1, <1>2

-----------------------------------------------------------------------------
(* One packet *)

\* sendPacket raises only on a frontend that is lost.
LEMMA Sent ==
    ASSUME NEW r \in Run, NEW p \in Packet
    PROVE  /\ Send(r, p) \in Run
           /\ Send(r, p).channels = r.channels /\ Send(r, p).timer = r.timer
           /\ Send(r, p).ok => r.ok
           /\ p.from = "SERVER" \/ front # "lost" =>
                 /\ Send(r, p).ok = r.ok
                 /\ Send(r, p).seen = r.seen \cup {p} /\ Send(r, p).parsed = Append(r.parsed, p)
           /\ Send(r, p).ok => /\ Send(r, p).seen = r.seen \cup {p}
                               /\ Send(r, p).parsed = Append(r.parsed, p)
  <1>1. CASE p.from = "CLIENT" /\ front = "lost"
    BY <1>1 DEF Send, Raise, Run
  <1>2. CASE ~(p.from = "CLIENT" /\ front = "lost")
    <2>1. Append(r.parsed, p) \in Seq(Packet) /\ r.seen \cup {p} \in SUBSET Packet
      BY DEF Run
    <2>2. Send(r, p) = [r EXCEPT !.seen = r.seen \cup {p}, !.parsed = Append(r.parsed, p)]
      BY <1>2 DEF Send
    <2> QED
      BY <1>2, <2>1, <2>2 DEF Run
  <1>3. p.from \in {"SERVER", "CLIENT"}
    BY DEF Packet, Side
  <1> QED
    BY <1>1, <1>2

\* What parsing an open does.
LEMMA Opened ==
    ASSUME ProxyAssumption, config \in Settings,
           NEW r \in Run, r.ok, NEW p \in Packet, p.msg = "open"
    PROVE  LET q == parse_num_packet(r, p)
           IN  /\ q \in Run
               /\ q.channels = IF Kept(p.ch) THEN create_channel(r.channels, p) ELSE r.channels
               /\ q.ok => /\ q.parsed = Append(r.parsed, p)
                          /\ q.seen = r.seen \cup {IF Kept(p.ch) THEN p
                                                   ELSE M(Other(p.from), "fail", p.ch)}
               /\ ~q.ok => front = "lost" \/ \E j \in DOMAIN q.channels : q.channels[j].ids # Side
               /\ p.from = "SERVER" /\ front # "lost"
                    /\ (\A j \in DOMAIN r.channels : "SERVER" \in r.channels[j].ids) => q.ok
  <1> DEFINE table == create_channel(r.channels, p)
             new == [ch |-> p.ch, ids |-> {p.from}, session |-> Kind[p.ch] = "tcpip", closed |-> {}]
  <1>1. /\ p.from \in Side /\ p.ch \in Chan /\ r.channels \in Seq(Entry)
        /\ Kind[p.ch] \in {"session", "tcpip"} /\ config.forwarding \in BOOLEAN
    BY DEF Packet, Run, ProxyAssumption
  <1>2. new \in Entry
    BY <1>1 DEF Entry
  <1>3. table = Append(r.channels, new) /\ table \in Seq(Entry)
    BY <1>1, <1>2 DEF create_channel
  <1>4. /\ Len(r.channels) + 1 \in DOMAIN table /\ table[Len(r.channels) + 1] = new
        /\ \A j \in DOMAIN table : \/ j \in DOMAIN r.channels /\ table[j] = r.channels[j]
                                   \/ table[j] = new
    BY <1>1, <1>2, <1>3
  <1> HIDE DEF table
  <1>5. table[Len(r.channels) + 1].ids # Side
    BY <1>1, <1>4, Sides
  <1>6. parse_num_packet(r, p) = ParseOpen(r, p)
    BY DEF parse_num_packet
  <1>7. CASE Kind[p.ch] = "session"
    <2>1. PICK t : t = [r EXCEPT !.channels = table, !.timer = TRUE]
      OBVIOUS
    <2>2. t \in Run /\ t.channels = table /\ t.seen = r.seen /\ t.parsed = r.parsed /\ t.ok
      BY <1>3, <2>1 DEF Run
    <2>3. ParseOpen(r, p) = Send(t, p)
      BY <1>7, <2>1 DEF ParseOpen, table
    <2> QED
      BY <1>4, <1>5, <1>6, <1>7, <2>2, <2>3, Sent DEF Kept, table
  <1>8. CASE Kind[p.ch] = "tcpip" /\ ~config.forwarding
    <2>1. PICK fail : fail = M(Other(p.from), "fail", p.ch)
      OBVIOUS
    <2>2. fail \in Packet
      BY <1>1, <2>1, Sides DEF M, Packet, Message
    <2>3. PICK t : t = Send(r, fail)
      OBVIOUS
    <2>4. PICK q : q = [t EXCEPT !.parsed = Append(r.parsed, p)]
      OBVIOUS
    <2>5. ParseOpen(r, p) = q
      BY <1>8, <2>1, <2>3, <2>4 DEF ParseOpen, SendBack, M
    <2>6. /\ t \in Run /\ t.channels = r.channels
          /\ t.ok => t.seen = r.seen \cup {fail}
          /\ front # "lost" => t.ok
      BY <2>2, <2>3, Sent
    <2>7. Append(r.parsed, p) \in Seq(Packet)
      BY DEF Run
    <2>8. q \in Run /\ q.channels = t.channels /\ q.seen = t.seen /\ q.ok = t.ok
          /\ q.parsed = Append(r.parsed, p)
      BY <2>4, <2>6, <2>7 DEF Run
    <2>9. ~Kept(p.ch)
      BY <1>8 DEF Kept
    <2> QED
      BY <1>6, <2>1, <2>5, <2>6, <2>8, <2>9
  <1>9. CASE Kind[p.ch] = "tcpip" /\ config.forwarding
    <2>1. PICK t : t = [r EXCEPT !.channels = table]
      OBVIOUS
    <2>2. t \in Run /\ t.channels = table /\ t.seen = r.seen /\ t.parsed = r.parsed /\ t.ok
      BY <1>3, <2>1 DEF Run
    <2>3. Raise(t) \in Run /\ Raise(t).channels = table /\ ~Raise(t).ok
      BY <2>2 DEF Raise, Run
    <2>4. ParseOpen(r, p) = IF Found(table, Other(p.from), p.ch) THEN Send(t, p) ELSE Raise(t)
      BY <1>9, <2>1 DEF ParseOpen, table
    <2>5. ASSUME p.from = "SERVER", \A j \in DOMAIN r.channels : "SERVER" \in r.channels[j].ids
          PROVE  Found(table, Other(p.from), p.ch)
      <3>1. \A j \in DOMAIN table : "SERVER" \in table[j].ids
        BY <1>4, <2>5
      <3>2. \A j \in 1 .. Len(r.channels) + 1 : j \in DOMAIN table
        BY <1>1, <1>3, <1>4
      <3> QED
        BY <1>4, <2>5, <3>1, <3>2, Sides DEF Found
    <2>6. Kept(p.ch)
      BY <1>9 DEF Kept
    <2>7. CASE Found(table, Other(p.from), p.ch)
      BY <1>6, <2>2, <2>4, <2>6, <2>7, Sent DEF table
    <2>8. CASE ~Found(table, Other(p.from), p.ch)
      BY <1>4, <1>5, <1>6, <2>3, <2>4, <2>5, <2>6, <2>8 DEF table
    <2> QED
      BY <2>7, <2>8
  <1> QED
    BY <1>1, <1>7, <1>8, <1>9

\* The table after a packet about the channel at i.
TableAfter(table, p, i) ==
    CASE p.msg = "confirm" -> [table EXCEPT ![i].ids = @ \cup {p.from}]
      [] p.msg = "fail" -> RemoveAt(table, i)
      [] p.msg = "request" -> [table EXCEPT ![i].session = TRUE]
      [] p.msg = "close" ->
            LET closed == table[i].closed \cup {p.from}
            IN  IF closed = Side THEN RemoveAt(table, i) ELSE [table EXCEPT ![i].closed = closed]
      [] p.msg = "data" -> table

LEMMA TableAfterType ==
    ASSUME NEW table \in Seq(Entry), NEW p \in Packet, p.msg # "open", NEW i \in DOMAIN table
    PROVE  /\ TableAfter(table, p, i) \in Seq(Entry)
           /\ IdsFit(table) => IdsFit(TableAfter(table, p, i))
  <1>1. /\ p.msg \in {"confirm", "fail", "request", "close", "data"} /\ p.from \in Side
        /\ \A j \in DOMAIN table : table[j] \in Entry
    BY DEF Packet, Message
  <1>2. /\ RemoveAt(table, i) \in Seq(Entry)
        /\ IdsFit(table) => IdsFit(RemoveAt(table, i))
    <2>1. RemoveAt(table, i) \in Seq(Entry)
      BY RemovedEntry
    <2>2. ASSUME NEW k \in DOMAIN RemoveAt(table, i)
          PROVE  \E j \in DOMAIN table : RemoveAt(table, i)[k] = table[j]
      <3>1. PICK j : j = IF k < i THEN k ELSE k + 1
        OBVIOUS
      <3>2. j \in DOMAIN table /\ RemoveAt(table, i)[k] = table[j]
        BY <3>1, RemovedEntry
      <3> QED
        BY <3>2
    <2> QED
      BY <2>1, <2>2 DEF IdsFit
  <1>3. ASSUME NEW e \in Entry, e.ch = table[i].ch, table[i].ids \subseteq e.ids
        PROVE  /\ [table EXCEPT ![i] = e] \in Seq(Entry)
               /\ IdsFit(table) => IdsFit([table EXCEPT ![i] = e])
    BY <1>3 DEF IdsFit
  <1>4. [table EXCEPT ![i].ids = @ \cup {p.from}] =
            [table EXCEPT ![i] = [table[i] EXCEPT !.ids = table[i].ids \cup {p.from}]]
    OBVIOUS
  <1>5. [table EXCEPT ![i].session = TRUE] = [table EXCEPT ![i] = [table[i] EXCEPT !.session = TRUE]]
    OBVIOUS
  <1>6. \A closed : [table EXCEPT ![i].closed = closed] =
            [table EXCEPT ![i] = [table[i] EXCEPT !.closed = closed]]
    OBVIOUS
  <1>7. /\ [table[i] EXCEPT !.ids = table[i].ids \cup {p.from}] \in Entry
        /\ [table[i] EXCEPT !.session = TRUE] \in Entry
        /\ [table[i] EXCEPT !.closed = table[i].closed \cup {p.from}] \in Entry
    BY <1>1 DEF Entry
  <1>8. /\ [table[i] EXCEPT !.ids = table[i].ids \cup {p.from}].ch = table[i].ch
        /\ [table[i] EXCEPT !.ids = table[i].ids \cup {p.from}].ids = table[i].ids \cup {p.from}
        /\ [table[i] EXCEPT !.session = TRUE].ch = table[i].ch
        /\ [table[i] EXCEPT !.session = TRUE].ids = table[i].ids
        /\ [table[i] EXCEPT !.closed = table[i].closed \cup {p.from}].ch = table[i].ch
        /\ [table[i] EXCEPT !.closed = table[i].closed \cup {p.from}].ids = table[i].ids
    BY <1>1 DEF Entry
  <1> QED
    BY <1>1, <1>2, <1>3, <1>4, <1>5, <1>6, <1>7, <1>8 DEF TableAfter

\* What parsing a packet about a channel of the table does.
LEMMA OnChannel ==
    ASSUME NEW r \in Run, r.ok, NEW p \in Packet, p.msg # "open",
           \E i \in DOMAIN r.channels : r.channels[i].ch = p.ch
    PROVE  LET q == parse_num_packet(r, p)
               i == Index(r.channels, p.ch)
           IN  /\ q \in Run /\ i \in DOMAIN r.channels /\ r.channels[i].ch = p.ch
               /\ q.channels \in {r.channels, TableAfter(r.channels, p, i)}
               /\ q.ok => /\ q.channels = TableAfter(r.channels, p, i)
                          /\ q.seen = r.seen \cup {p} /\ q.parsed = Append(r.parsed, p)
               /\ ~q.ok => \/ front = "lost"
                           \/ \E j \in DOMAIN q.channels : q.channels[j].ids # Side
                           \/ p.msg = "data" /\ ~r.channels[i].session
  <1> DEFINE i == Index(r.channels, p.ch)
             table == TableAfter(r.channels, p, i)
  <1>1. /\ p.from \in Side /\ p.ch \in Chan /\ r.channels \in Seq(Entry)
        /\ p.msg \in {"confirm", "fail", "request", "close", "data"}
    BY DEF Packet, Message, Run
  <1>2. /\ i \in DOMAIN r.channels /\ r.channels[i].ch = p.ch
        /\ Found(r.channels, p.from, p.ch) \/ \E j \in DOMAIN r.channels : r.channels[j].ids # Side
    BY <1>1, FoundAt
  <1>3. table \in Seq(Entry)
    BY <1>1, <1>2, TableAfterType
  <1>4. Raise(r) \in Run /\ Raise(r).channels = r.channels /\ ~Raise(r).ok
    BY DEF Raise, Run
  <1>5. PICK t : t = [r EXCEPT !.channels = table]
    OBVIOUS
  <1>6. t \in Run /\ t.channels = table /\ t.seen = r.seen /\ t.parsed = r.parsed /\ t.ok
    BY <1>3, <1>5 DEF Run
  <1>7. CASE ~Found(r.channels, p.from, p.ch)
    <2>1. parse_num_packet(r, p) = Raise(r)
      BY <1>7 DEF parse_num_packet
    <2> QED
      BY <1>2, <1>4, <1>7, <2>1
  <1>8. CASE Found(r.channels, p.from, p.ch) /\ p.msg = "data" /\ ~r.channels[i].session
    <2>1. parse_num_packet(r, p) = Raise(r)
      BY <1>8 DEF parse_num_packet, ParseOnChannel
    <2> QED
      BY <1>2, <1>4, <1>8, <2>1
  <1>9. CASE Found(r.channels, p.from, p.ch) /\ ~(p.msg = "data" /\ ~r.channels[i].session)
    <2>1. parse_num_packet(r, p) = ParseOnChannel(r, p)
      BY <1>9 DEF parse_num_packet
    <2>2. ParseOnChannel(r, p) = Send(t, p)
      <3>1. CASE p.msg = "confirm"
        BY <1>5, <3>1 DEF ParseOnChannel, TableAfter
      <3>2. CASE p.msg = "fail"
        BY <1>5, <3>2 DEF ParseOnChannel, TableAfter
      <3>3. CASE p.msg = "request"
        BY <1>5, <3>3 DEF ParseOnChannel, TableAfter
      <3>4. CASE p.msg = "close"
        BY <1>5, <3>4 DEF ParseOnChannel, TableAfter, ParseClose, Removable
      <3>5. CASE p.msg = "data"
        <4>1. t = r
          BY <1>5, <3>5 DEF TableAfter, Run
        <4> QED
          BY <1>9, <3>5, <4>1 DEF ParseOnChannel
      <3> QED
        BY <1>1, <3>1, <3>2, <3>3, <3>4, <3>5
    <2>3. PICK q : q = Send(t, p)
      OBVIOUS
    <2>4. /\ q \in Run /\ q.channels = table
          /\ q.ok => q.seen = r.seen \cup {p} /\ q.parsed = Append(r.parsed, p)
          /\ ~q.ok => front = "lost"
      BY <1>6, <2>3, Sent
    <2> QED
      BY <1>2, <2>1, <2>2, <2>3, <2>4
  <1> QED
    BY <1>7, <1>8, <1>9

\* What the handler keeps of its invariant whatever it is given.
LEMMA ParseKeeps ==
    ASSUME ProxyAssumption, config \in Settings, NEW r \in Run, NEW p \in Packet,
           IdsFit(r.channels), p.msg = "open" => Opener(p.ch) = p.from
    PROVE  LET q == parse_num_packet(r, p)
           IN  /\ q \in Run /\ IdsFit(q.channels)
               /\ q.ok => r.ok /\ q.parsed = Append(r.parsed, p)
  <1> DEFINE q == parse_num_packet(r, p)
  <1>1. CASE ~r.ok
    <2>1. q = r
      BY <1>1 DEF parse_num_packet
    <2> QED
      BY <1>1, <2>1
  <1>2. CASE r.ok /\ p.msg = "open"
    <2>1. /\ q \in Run /\ (q.ok => q.parsed = Append(r.parsed, p))
          /\ q.channels = IF Kept(p.ch) THEN create_channel(r.channels, p) ELSE r.channels
      BY <1>2, Opened
    <2>2. IdsFit(create_channel(r.channels, p))
      <3>1. PICK e : e = [ch |-> p.ch, ids |-> {p.from}, session |-> Kind[p.ch] = "tcpip", closed |-> {}]
        OBVIOUS
      <3>2. e.ch = p.ch /\ e.ids = {p.from}
        BY <3>1
      <3>3. create_channel(r.channels, p) = Append(r.channels, e) /\ r.channels \in Seq(Entry)
        BY <3>1 DEF create_channel, Run
      <3>4. \A j \in DOMAIN Append(r.channels, e) :
               \/ j \in DOMAIN r.channels /\ Append(r.channels, e)[j] = r.channels[j]
               \/ Append(r.channels, e)[j] = e
        BY <3>3
      <3> QED
        BY <3>2, <3>3, <3>4, <1>2 DEF IdsFit
    <2> QED
      BY <1>2, <2>1, <2>2
  <1>3. CASE r.ok /\ p.msg # "open" /\ \E i \in DOMAIN r.channels : r.channels[i].ch = p.ch
    <2>1. /\ q \in Run /\ Index(r.channels, p.ch) \in DOMAIN r.channels
          /\ q.channels \in {r.channels, TableAfter(r.channels, p, Index(r.channels, p.ch))}
          /\ q.ok => q.parsed = Append(r.parsed, p)
      BY <1>3, OnChannel
    <2>2. r.channels \in Seq(Entry)
      BY DEF Run
    <2> QED
      BY <1>3, <2>1, <2>2, TableAfterType
  <1>4. CASE r.ok /\ p.msg # "open" /\ ~\E i \in DOMAIN r.channels : r.channels[i].ch = p.ch
    <2>1. p.from \in Side /\ p.ch \in Chan /\ r.channels \in Seq(Entry)
      BY DEF Packet, Run
    <2>2. q = Raise(r)
      BY <1>4, <2>1, FoundAt DEF parse_num_packet
    <2> QED
      BY <1>4, <2>2 DEF Raise, Run
  <1> QED
    BY <1>1, <1>2, <1>3, <1>4

-----------------------------------------------------------------------------
(* The table agrees with the packets *)

LEMMA Added ==
    ASSUME NEW D, NEW p \in Packet
    PROVE  /\ \A from, msg, ch : M(from, msg, ch) \in D \cup {p} <=>
                 M(from, msg, ch) \in D \/ (from = p.from /\ msg = p.msg /\ ch = p.ch)
           /\ p = M(p.from, p.msg, p.ch)
           /\ \A from, msg, ch : /\ M(from, msg, ch).from = from /\ M(from, msg, ch).msg = msg
                                 /\ M(from, msg, ch).ch = ch
  BY DEF M, Packet

LEMMA Replaced ==
    ASSUME NEW D, NEW E, NEW table \in Seq(Entry), NEW i \in DOMAIN table, NEW e \in Entry,
           TableFits(D, table), e.ch = table[i].ch,
           \A ch \in Chan : InTable(E, ch) <=> InTable(D, ch),
           \A s \in Side, ch \in Chan : \A msg :
              ch # e.ch => (M(s, msg, ch) \in E <=> M(s, msg, ch) \in D),
           e.closed = {s \in Side : M(s, "close", e.ch) \in E},
           Kind[e.ch] = "tcpip" \/ M("SERVER", "request", e.ch) \in E => e.session
    PROVE  TableFits(E, [table EXCEPT ![i] = e])
  <1> DEFINE t == [table EXCEPT ![i] = e]
  <1>1. /\ DOMAIN t = DOMAIN table /\ t[i] = e
        /\ \A j \in DOMAIN table : t[j].ch = table[j].ch /\ (j # i => t[j] = table[j])
        /\ \A j \in DOMAIN table : table[j].ch \in Chan
    BY EntryCh
  <1> HIDE DEF t
  <1>2. \A j, k \in DOMAIN t : t[j].ch = t[k].ch => j = k
    BY <1>1 DEF TableFits
  <1>3. \A ch \in Chan : InTable(E, ch) <=> \E j \in DOMAIN t : t[j].ch = ch
    BY <1>1 DEF TableFits
  <1>4. ASSUME NEW j \in DOMAIN t
        PROVE  /\ t[j].closed = {s \in Side : M(s, "close", t[j].ch) \in E}
               /\ Kind[t[j].ch] = "tcpip" \/ M("SERVER", "request", t[j].ch) \in E => t[j].session
    <2>1. CASE j = i
      BY <1>1, <2>1
    <2>2. CASE j # i
      <3>1. t[j] = table[j] /\ j \in DOMAIN table /\ t[j].ch # e.ch /\ t[j].ch \in Chan
        BY <1>1, <2>2 DEF TableFits
      <3>2. \A s \in Side : \A msg : M(s, msg, t[j].ch) \in E <=> M(s, msg, t[j].ch) \in D
        BY <3>1
      <3>3. /\ table[j].closed = {s \in Side : M(s, "close", table[j].ch) \in D}
            /\ Kind[table[j].ch] = "tcpip" \/ M("SERVER", "request", table[j].ch) \in D => table[j].session
        BY <3>1 DEF TableFits
      <3>4. t[j].closed = {s \in Side : M(s, "close", t[j].ch) \in E}
        BY <3>1, <3>2, <3>3
      <3>5. M("SERVER", "request", t[j].ch) \in E <=> M("SERVER", "request", t[j].ch) \in D
        BY <3>2, Sides
      <3> QED
        BY <3>1, <3>3, <3>4, <3>5
    <2> QED
      BY <2>1, <2>2
  <1> QED
    BY <1>2, <1>3, <1>4 DEF TableFits, t

LEMMA Removed ==
    ASSUME NEW D, NEW E, NEW table \in Seq(Entry), NEW i \in DOMAIN table,
           TableFits(D, table),
           \A ch \in Chan : InTable(E, ch) <=> InTable(D, ch) /\ ch # table[i].ch,
           \A s \in Side, ch \in Chan : \A msg :
              ch # table[i].ch => (M(s, msg, ch) \in E <=> M(s, msg, ch) \in D)
    PROVE  TableFits(E, RemoveAt(table, i))
  <1> DEFINE t == RemoveAt(table, i)
             at(k) == IF k < i THEN k ELSE k + 1
  <1>1. /\ t \in Seq(Entry) /\ DOMAIN t = 1 .. Len(table) - 1 /\ i \in Nat /\ Len(table) \in Nat
        /\ \A k \in DOMAIN t : at(k) \in DOMAIN table /\ t[k] = table[at(k)] /\ at(k) # i
        /\ \A j, k \in DOMAIN t : at(j) = at(k) => j = k
    <2>1. i \in 1 .. Len(table) /\ Len(table) \in Nat
      OBVIOUS
    <2>2. /\ t \in Seq(Entry) /\ DOMAIN t = 1 .. Len(table) - 1
          /\ \A k \in DOMAIN t : at(k) \in DOMAIN table /\ t[k] = table[at(k)]
      BY RemovedEntry
    <2>3. \A k \in 1 .. Len(table) - 1 : at(k) # i
      BY <2>1
    <2>4. \A j, k \in 1 .. Len(table) - 1 : at(j) = at(k) => j = k
      BY <2>1
    <2> QED
      BY <2>1, <2>2, <2>3, <2>4
  <1>2. \A j \in DOMAIN table : j # i => \E k \in DOMAIN t : t[k] = table[j]
    BY OthersStay
  <1>3. \A j \in DOMAIN table : table[j].ch \in Chan
    BY EntryCh
  <1> HIDE DEF t, at
  <1>4. \A j, k \in DOMAIN t : t[j].ch = t[k].ch => j = k
    BY <1>1 DEF TableFits
  <1>5. ASSUME NEW ch \in Chan
        PROVE  InTable(E, ch) <=> \E j \in DOMAIN t : t[j].ch = ch
    <2>1. InTable(D, ch) <=> \E j \in DOMAIN table : table[j].ch = ch
      BY DEF TableFits
    <2>2. \A j \in DOMAIN table : table[j].ch = table[i].ch => j = i
      BY DEF TableFits
    <2>3. (\E j \in DOMAIN t : t[j].ch = ch) <=> \E j \in DOMAIN table : table[j].ch = ch /\ j # i
      BY <1>1, <1>2
    <2> QED
      BY <2>1, <2>2, <2>3
  <1>6. ASSUME NEW j \in DOMAIN t
        PROVE  /\ t[j].closed = {s \in Side : M(s, "close", t[j].ch) \in E}
               /\ Kind[t[j].ch] = "tcpip" \/ M("SERVER", "request", t[j].ch) \in E => t[j].session
    <2>1. PICK k \in DOMAIN table : t[j] = table[k] /\ k # i
      BY <1>1
    <2>2. table[k].ch # table[i].ch /\ table[k].ch \in Chan
      BY <1>3, <2>1 DEF TableFits
    <2>3. \A s \in Side : \A msg : M(s, msg, table[k].ch) \in E <=> M(s, msg, table[k].ch) \in D
      BY <2>2
    <2>4. /\ table[k].closed = {s \in Side : M(s, "close", table[k].ch) \in D}
          /\ Kind[table[k].ch] = "tcpip" \/ M("SERVER", "request", table[k].ch) \in D => table[k].session
      BY DEF TableFits
    <2>5. table[k].closed = {s \in Side : M(s, "close", table[k].ch) \in E}
      BY <2>3, <2>4
    <2>6. M("SERVER", "request", table[k].ch) \in E <=> M("SERVER", "request", table[k].ch) \in D
      BY <2>3, Sides
    <2> QED
      BY <2>1, <2>4, <2>5, <2>6
  <1> QED
    BY <1>4, <1>5, <1>6 DEF TableFits, t

\* After an open, and the answer that is sent instead if it is refused.
LEMMA OpenFits ==
    ASSUME ProxyAssumption, config \in Settings,
           NEW D \in SUBSET Packet, NEW table \in Seq(Entry), NEW S, NEW p \in Packet, p.msg = "open",
           Fits(D, table, S), Legal(p, D)
    PROVE  Fits(D \cup {p}, IF Kept(p.ch) THEN create_channel(table, p) ELSE table,
                S \cup {IF Kept(p.ch) THEN p ELSE M(Other(p.from), "fail", p.ch)})
  <1> DEFINE E == D \cup {p}
             e == [ch |-> p.ch, ids |-> {p.from}, session |-> Kind[p.ch] = "tcpip", closed |-> {}]
             t == IF Kept(p.ch) THEN create_channel(table, p) ELSE table
  <1>1. /\ p.ch \in Chan /\ p.from \in Side /\ Opener(p.ch) = p.from /\ p \notin D
        /\ Kind[p.ch] \in {"session", "tcpip"}
    BY DEF Legal, Packet, ProxyAssumption
  <1>2. /\ \A from, msg, ch : M(from, msg, ch) \in E <=>
              M(from, msg, ch) \in D \/ (from = p.from /\ msg = p.msg /\ ch = p.ch)
        /\ p = M(p.from, "open", p.ch)
        /\ \A from, msg, ch : /\ M(from, msg, ch).from = from /\ M(from, msg, ch).msg = msg
                              /\ M(from, msg, ch).ch = ch
    BY Added
  <1>0. DoneFits(D)
    BY DEF Fits
  <1>3. \A q \in D : q.msg # "open" => M(Opener(q.ch), "open", q.ch) \in D /\ q.ch # p.ch
    <2>1. ASSUME NEW q \in D PROVE q.msg # "open" => M(Opener(q.ch), "open", q.ch) \in D
      BY <1>0, Zenon DEF DoneFits
    <2> QED
      BY <1>1, <1>2, <2>1
  <1>4. \A s, msg : msg # "open" => M(s, msg, p.ch) \notin E
    BY <1>2, <1>3
  <1>5. \A s, msg, ch : ch # p.ch => (M(s, msg, ch) \in E <=> M(s, msg, ch) \in D)
    BY <1>2
  <1>6. DoneFits(E)
    BY <1>2, <1>3 DEF DoneFits, Fits
  <1>7. SeenFits(E, S \cup {IF Kept(p.ch) THEN p ELSE M(Other(p.from), "fail", p.ch)})
    BY <1>2 DEF SeenFits, Fits
  <1> HIDE DEF E
  <1>8. /\ \A ch \in Chan : ch # p.ch => (InTable(E, ch) <=> InTable(D, ch))
        /\ InTable(E, p.ch) <=> Kept(p.ch)
        /\ ~InTable(D, p.ch)
    <2>1. \A ch \in Chan : ch # p.ch => (InTable(E, ch) <=> InTable(D, ch))
      BY <1>5 DEF InTable
    <2>2. M(Opener(p.ch), "open", p.ch) \in E
      BY <1>1, <1>2 DEF E
    <2>3. InTable(E, p.ch) <=> Kept(p.ch)
      BY <1>4, <2>2 DEF InTable
    <2>4. ~InTable(D, p.ch)
      BY <1>1, <1>2 DEF InTable
    <2> QED
      BY <2>1, <2>3, <2>4
  <1>9. \A j \in DOMAIN table : table[j].ch # p.ch /\ table[j].ch \in Chan
    <2>1. \A j \in DOMAIN table : table[j].ch \in Chan
      BY EntryCh
    <2> QED
      BY <1>1, <1>8, <2>1 DEF Fits, TableFits
  <1>10. \A j \in DOMAIN table :
            /\ table[j].closed = {s \in Side : M(s, "close", table[j].ch) \in E}
            /\ Kind[table[j].ch] = "tcpip" \/ M("SERVER", "request", table[j].ch) \in E => table[j].session
    <2> SUFFICES ASSUME NEW j \in DOMAIN table
                 PROVE  /\ table[j].closed = {s \in Side : M(s, "close", table[j].ch) \in E}
                        /\ Kind[table[j].ch] = "tcpip" \/ M("SERVER", "request", table[j].ch) \in E => table[j].session
      OBVIOUS
    <2>1. \A s, msg : M(s, msg, table[j].ch) \in E <=> M(s, msg, table[j].ch) \in D
      BY <1>5, <1>9
    <2>2. /\ table[j].closed = {s \in Side : M(s, "close", table[j].ch) \in D}
          /\ Kind[table[j].ch] = "tcpip" \/ M("SERVER", "request", table[j].ch) \in D => table[j].session
      BY DEF Fits, TableFits
    <2>3. table[j].closed = {s \in Side : M(s, "close", table[j].ch) \in E}
      BY <2>1, <2>2
    <2> QED
      BY <2>1, <2>2, <2>3
  <1>11. TableFits(E, t)
    <2>1. CASE ~Kept(p.ch)
      BY <1>8, <1>9, <1>10, <2>1 DEF TableFits, Fits
    <2>2. CASE Kept(p.ch)
      <3>1. /\ t = Append(table, e) /\ DOMAIN t = 1 .. Len(table) + 1 /\ Len(table) \in Nat
            /\ DOMAIN table = 1 .. Len(table)
            /\ \A j \in DOMAIN table : t[j] = table[j]
            /\ t[Len(table) + 1] = e
        BY <2>2 DEF create_channel
      <3>2. e.ch = p.ch /\ e.closed = {} /\ (Kind[p.ch] = "tcpip" => e.session)
        OBVIOUS
      <3> HIDE DEF t, e
      <3>3. \A j \in DOMAIN t : j \in DOMAIN table \/ j = Len(table) + 1
        BY <3>1
      <3>4. \A j, k \in DOMAIN t : t[j].ch = t[k].ch => j = k
        BY <1>9, <3>1, <3>2, <3>3 DEF Fits, TableFits
      <3>5. \A ch \in Chan : InTable(E, ch) <=> \E j \in DOMAIN t : t[j].ch = ch
        <4>1. Len(table) + 1 \in DOMAIN t /\ \A j \in DOMAIN table : j \in DOMAIN t
          BY <3>1
        <4>2. \A ch \in Chan : (\E j \in DOMAIN t : t[j].ch = ch) <=>
                                   ch = p.ch \/ \E j \in DOMAIN table : table[j].ch = ch
          BY <3>1, <3>2, <3>3, <4>1
        <4> QED
          BY <1>8, <2>2, <4>2 DEF Fits, TableFits
      <3>6. /\ e.closed = {s \in Side : M(s, "close", e.ch) \in E}
            /\ Kind[e.ch] = "tcpip" \/ M("SERVER", "request", e.ch) \in E => e.session
        BY <1>4, <3>2
      <3> QED
        BY <1>10, <3>1, <3>3, <3>4, <3>5, <3>6 DEF TableFits
    <2> QED
      BY <2>1, <2>2
  <1> QED
    BY <1>6, <1>7, <1>11 DEF Fits, E

\* A packet that can be parsed is about a channel of the table, data about one
\* with a session, and the table that is left fits.
LEMMA OnChannelFits ==
    ASSUME ProxyAssumption, config \in Settings,
           NEW D \in SUBSET Packet, NEW table \in Seq(Entry), NEW S, NEW p \in Packet, p.msg # "open",
           Fits(D, table, S), Legal(p, D)
    PROVE  /\ \E i \in DOMAIN table : table[i].ch = p.ch
           /\ \A i \in DOMAIN table : table[i].ch = p.ch =>
                 /\ p.msg = "data" => table[i].session
                 /\ Fits(D \cup {p}, TableAfter(table, p, i), S \cup {p})
  <1> DEFINE E == D \cup {p}
  <1>1. /\ p.ch \in Chan /\ p.from \in Side
        /\ p.msg \in {"confirm", "fail", "request", "data", "close"}
        /\ config.opener \in [Chan -> Side]
    BY DEF Packet, Message, ProxyAssumption
  <1>2. /\ \A from, msg, ch : M(from, msg, ch) \in E <=>
              M(from, msg, ch) \in D \/ (from = p.from /\ msg = p.msg /\ ch = p.ch)
        /\ p = M(p.from, p.msg, p.ch)
        /\ \A from, msg, ch : /\ M(from, msg, ch).from = from /\ M(from, msg, ch).msg = msg
                              /\ M(from, msg, ch).ch = ch
    BY Added
  <1>3. DoneFits(D) /\ TableFits(D, table) /\ SeenFits(D, S)
    BY DEF Fits
  <1>4. /\ M(Opener(p.ch), "open", p.ch) \in D /\ Kept(p.ch)
        /\ M(p.from, "close", p.ch) \notin D
        /\ p.msg = "confirm" => Acceptor(p.ch) = p.from /\ M(p.from, "fail", p.ch) \notin D
        /\ p.msg = "fail" => Acceptor(p.ch) = p.from /\ M(p.from, "fail", p.ch) \notin D
                                /\ M(p.from, "confirm", p.ch) \notin D
        /\ p.msg \in {"request", "data", "close"} => M(Acceptor(p.ch), "confirm", p.ch) \in D
        /\ p.msg = "data" => Kind[p.ch] = "tcpip" \/ M("SERVER", "request", p.ch) \in D
    BY <1>1 DEF Legal
  <1>5. p.msg \in {"request", "data", "close"} => M(Acceptor(p.ch), "fail", p.ch) \notin D
    BY <1>2, <1>3, <1>4 DEF DoneFits
  <1>6. M(Acceptor(p.ch), "fail", p.ch) \notin D
    BY <1>1, <1>4, <1>5
  <1>7. InTable(D, p.ch)
    <2>1. ~(M("SERVER", "close", p.ch) \in D /\ M("CLIENT", "close", p.ch) \in D)
      BY <1>1, <1>4, Sides
    <2> QED
      BY <1>4, <1>6, <2>1 DEF InTable
  <1>8. \E i \in DOMAIN table : table[i].ch = p.ch
    BY <1>1, <1>3, <1>7 DEF TableFits
  <1>9. DoneFits(E)
    <2>1. ASSUME NEW q \in E, q.msg # "open" PROVE M(Opener(q.ch), "open", q.ch) \in E /\ Kept(q.ch)
      BY <1>3, <1>4, <1>2, <2>1 DEF DoneFits
    <2>2. ASSUME NEW q \in E, q.msg = "confirm" PROVE M(q.from, "fail", q.ch) \notin E
      <3>1. CASE q = p
        BY <1>2, <1>4, <2>2, <3>1
      <3>2. CASE q \in D
        <4>1. M(q.from, "fail", q.ch) \notin D
          BY <1>3, <2>2, <3>2 DEF DoneFits
        <4>2. q.from = p.from /\ q.ch = p.ch => p.msg # "fail"
          <5> SUFFICES ASSUME q.from = p.from, q.ch = p.ch, p.msg = "fail" PROVE FALSE
            OBVIOUS
          <5>1. M(q.from, "confirm", q.ch) \notin D
            BY <1>4
          <5>2. q = M(q.from, "confirm", q.ch)
            BY <2>2, <3>2 DEF M, Packet
          <5> QED
            BY <3>2, <5>1, <5>2
        <4> QED
          BY <1>2, <4>1, <4>2
      <3> QED
        BY <2>2, <3>1, <3>2
    <2> QED
      BY <2>1, <2>2 DEF DoneFits
  <1>10. SeenFits(E, S \cup {p})
    BY <1>2, <1>3, <1>4 DEF SeenFits
  <1>11. \A i \in DOMAIN table : table[i].ch = p.ch /\ p.msg = "data" => table[i].session
    BY <1>3, <1>4 DEF TableFits
  <1>12. ASSUME NEW i \in DOMAIN table, table[i].ch = p.ch
         PROVE  TableFits(E, TableAfter(table, p, i))
    <2> HIDE DEF E
    <2>1. table[i] \in Entry
      OBVIOUS
    <2>2. /\ table[i].closed = {s \in Side : M(s, "close", p.ch) \in D}
          /\ Kind[p.ch] = "tcpip" \/ M("SERVER", "request", p.ch) \in D => table[i].session
      BY <1>3, <1>12 DEF TableFits
    <2>3. \A s \in Side, ch \in Chan : \A msg :
             ch # p.ch => (M(s, msg, ch) \in E <=> M(s, msg, ch) \in D)
      BY <1>2
    <2>4. \A ch \in Chan : ch # p.ch => (InTable(E, ch) <=> InTable(D, ch))
      <3>1. \A ch \in Chan : Opener(ch) \in Side /\ Acceptor(ch) \in Side
        BY <1>1, Sides DEF Opener, Acceptor
      <3> QED
        BY <2>3, <3>1, Sides DEF InTable
    <2>5. CASE p.msg \in {"confirm", "request", "data"}
      <3>1. InTable(E, p.ch)
        BY <1>2, <1>7, <2>5 DEF InTable
      <3>2. \A ch \in Chan : InTable(E, ch) <=> InTable(D, ch)
        BY <1>7, <2>4, <3>1
      <3>3. table[i].closed = {s \in Side : M(s, "close", p.ch) \in E}
        BY <1>2, <2>2, <2>5
      <3>4. ASSUME NEW e \in Entry, e.ch = p.ch, e.closed = table[i].closed,
                   table[i].session => e.session, p.msg = "request" => e.session
            PROVE  TableFits(E, [table EXCEPT ![i] = e])
        <4>1. e.closed = {s \in Side : M(s, "close", e.ch) \in E}
          BY <3>3, <3>4
        <4>2. Kind[e.ch] = "tcpip" \/ M("SERVER", "request", e.ch) \in E => e.session
          BY <1>2, <2>2, <3>4
        <4>3. \A s \in Side, ch \in Chan : \A msg :
                 ch # e.ch => (M(s, msg, ch) \in E <=> M(s, msg, ch) \in D)
          BY <2>3, <3>4
        <4> QED
          BY <1>3, <1>12, <3>2, <3>4, <4>1, <4>2, <4>3, Replaced
      <3>5. CASE p.msg = "confirm"
        <4>1. PICK e : e = [table[i] EXCEPT !.ids = table[i].ids \cup {p.from}]
          OBVIOUS
        <4>2. e \in Entry /\ e.ch = p.ch /\ e.closed = table[i].closed /\ e.session = table[i].session
          BY <1>1, <1>12, <2>1, <4>1 DEF Entry
        <4>3. TableAfter(table, p, i) = [table EXCEPT ![i] = e]
          BY <3>5, <4>1 DEF TableAfter
        <4> QED
          BY <3>4, <3>5, <4>2, <4>3
      <3>6. CASE p.msg = "request"
        <4>1. PICK e : e = [table[i] EXCEPT !.session = TRUE]
          OBVIOUS
        <4>2. e \in Entry /\ e.ch = p.ch /\ e.closed = table[i].closed /\ e.session
          BY <1>1, <1>12, <2>1, <4>1 DEF Entry
        <4>3. TableAfter(table, p, i) = [table EXCEPT ![i] = e]
          BY <3>6, <4>1 DEF TableAfter
        <4> QED
          BY <3>4, <3>6, <4>2, <4>3
      <3>7. CASE p.msg = "data"
        <4>1. TableAfter(table, p, i) = table
          BY <3>7 DEF TableAfter
        <4>2. table = [table EXCEPT ![i] = table[i]]
          OBVIOUS
        <4> QED
          BY <1>12, <2>1, <3>4, <3>7, <4>1, <4>2
      <3> QED
        BY <2>5, <3>5, <3>6, <3>7
    <2>6. CASE p.msg = "fail"
      <3>1. M(Acceptor(p.ch), "fail", p.ch) \in E
        BY <1>2, <1>4, <2>6
      <3>2. \A ch \in Chan : InTable(E, ch) <=> InTable(D, ch) /\ ch # table[i].ch
        BY <1>12, <2>4, <3>1 DEF InTable
      <3>3. TableAfter(table, p, i) = RemoveAt(table, i)
        BY <2>6 DEF TableAfter
      <3> QED
        BY <1>3, <1>12, <2>3, <3>2, <3>3, Removed
    <2>7. CASE p.msg = "close"
      <3>1. table[i].closed \cup {p.from} = {s \in Side : M(s, "close", p.ch) \in E}
        BY <1>1, <1>2, <2>2, <2>7
      <3>2. InTable(E, p.ch) <=> table[i].closed \cup {p.from} # Side
        <4>1. InTable(E, p.ch) <=> ~(M("SERVER", "close", p.ch) \in E /\ M("CLIENT", "close", p.ch) \in E)
          BY <1>2, <1>7, <2>7 DEF InTable
        <4> QED
          BY <3>1, <4>1, Sides
      <3>3. CASE table[i].closed \cup {p.from} = Side
        <4>1. TableAfter(table, p, i) = RemoveAt(table, i)
          BY <2>7, <3>3 DEF TableAfter
        <4>2. \A ch \in Chan : InTable(E, ch) <=> InTable(D, ch) /\ ch # table[i].ch
          BY <1>12, <2>4, <3>2, <3>3
        <4> QED
          BY <1>3, <1>12, <2>3, <4>1, <4>2, Removed
      <3>4. CASE table[i].closed \cup {p.from} # Side
        <4>1. PICK e : e = [table[i] EXCEPT !.closed = table[i].closed \cup {p.from}]
          OBVIOUS
        <4>2. /\ e \in Entry /\ e.ch = p.ch /\ e.closed = table[i].closed \cup {p.from}
              /\ e.session = table[i].session
          BY <1>1, <1>12, <2>1, <4>1 DEF Entry
        <4>3. TableAfter(table, p, i) = [table EXCEPT ![i] = e]
          BY <2>7, <3>4, <4>1 DEF TableAfter
        <4>4. \A ch \in Chan : InTable(E, ch) <=> InTable(D, ch)
          BY <1>7, <2>4, <3>2, <3>4
        <4>5. e.closed = {s \in Side : M(s, "close", e.ch) \in E}
          BY <3>1, <4>2
        <4>6. Kind[e.ch] = "tcpip" \/ M("SERVER", "request", e.ch) \in E => e.session
          BY <1>2, <2>2, <2>7, <4>2
        <4>7. e.ch = table[i].ch /\ e \in Entry
          BY <1>12, <4>2
        <4>8. \A s \in Side, ch \in Chan : \A msg :
                 ch # e.ch => (M(s, msg, ch) \in E <=> M(s, msg, ch) \in D)
          BY <2>3, <4>2
        <4>9. TableFits(E, [table EXCEPT ![i] = e])
          BY ONLY <1>3, <4>4, <4>5, <4>6, <4>7, <4>8, Replaced, table \in Seq(Entry), i \in DOMAIN table
        <4> QED
          BY <4>3, <4>9
      <3> QED
        BY <3>3, <3>4
    <2> QED
      BY <1>1, <2>5, <2>6, <2>7
  <1> QED
    BY <1>8, <1>9, <1>10, <1>11, <1>12 DEF Fits, E

\* The handler lost the client, or a channel is not answered yet.
Excused(table) == front = "lost" \/ \E j \in DOMAIN table : table[j].ids # Side

LEMMA ParseFits ==
    ASSUME ProxyAssumption, config \in Settings,
           NEW D \in SUBSET Packet, NEW r \in Run, r.ok, NEW p \in Packet,
           Fits(D, r.channels, r.seen), Legal(p, D)
    PROVE  LET q == parse_num_packet(r, p)
           IN  IF q.ok THEN Fits(D \cup {p}, q.channels, q.seen) ELSE Excused(q.channels)
  <1> DEFINE q == parse_num_packet(r, p)
  <1>1. r.channels \in Seq(Entry) /\ r.seen \in SUBSET Packet
    BY DEF Run
  <1>2. CASE p.msg = "open"
    <2>1. /\ q.channels = IF Kept(p.ch) THEN create_channel(r.channels, p) ELSE r.channels
          /\ q.ok => q.seen = r.seen \cup {IF Kept(p.ch) THEN p ELSE M(Other(p.from), "fail", p.ch)}
          /\ ~q.ok => front = "lost" \/ \E j \in DOMAIN q.channels : q.channels[j].ids # Side
      BY <1>2, Opened
    <2>2. Fits(D \cup {p}, IF Kept(p.ch) THEN create_channel(r.channels, p) ELSE r.channels,
               r.seen \cup {IF Kept(p.ch) THEN p ELSE M(Other(p.from), "fail", p.ch)})
      BY <1>1, <1>2, OpenFits
    <2> DEFINE t == IF Kept(p.ch) THEN create_channel(r.channels, p) ELSE r.channels
               a == IF Kept(p.ch) THEN p ELSE M(Other(p.from), "fail", p.ch)
    <2>3. /\ q.channels = t /\ (q.ok => q.seen = r.seen \cup {a}) /\ (~q.ok => Excused(q.channels))
          /\ Fits(D \cup {p}, t, r.seen \cup {a})
      BY <2>1, <2>2 DEF Excused
    <2> HIDE DEF q, t, a
    <2>4. IF q.ok THEN Fits(D \cup {p}, q.channels, q.seen) ELSE Excused(q.channels)
      BY <2>3
    <2> QED
      BY <2>4 DEF q
  <1>3. CASE p.msg # "open"
    <2> DEFINE i == Index(r.channels, p.ch)
    <2>0. /\ \E k \in DOMAIN r.channels : r.channels[k].ch = p.ch
          /\ \A k \in DOMAIN r.channels : r.channels[k].ch = p.ch =>
                /\ p.msg = "data" => r.channels[k].session
                /\ Fits(D \cup {p}, TableAfter(r.channels, p, k), r.seen \cup {p})
      <3>1. PICK table \in Seq(Entry), S \in SUBSET Packet : table = r.channels /\ S = r.seen
        BY <1>1
      <3> HIDE DEF q, i
      <3>2. Fits(D, table, S)
        BY <3>1
      <3>3. /\ \E k \in DOMAIN table : table[k].ch = p.ch
            /\ \A k \in DOMAIN table : table[k].ch = p.ch =>
                  /\ p.msg = "data" => table[k].session
                  /\ Fits(D \cup {p}, TableAfter(table, p, k), S \cup {p})
        BY <1>3, <3>2, OnChannelFits
      <3> QED
        BY <3>1, <3>3
    <2>1. \E k \in DOMAIN r.channels : r.channels[k].ch = p.ch
      BY <2>0
    <2>2. /\ i \in DOMAIN r.channels /\ r.channels[i].ch = p.ch
          /\ q.ok => q.channels = TableAfter(r.channels, p, i) /\ q.seen = r.seen \cup {p}
          /\ ~q.ok => \/ front = "lost"
                      \/ \E j \in DOMAIN q.channels : q.channels[j].ids # Side
                      \/ p.msg = "data" /\ ~r.channels[i].session
      BY <1>3, <2>1, OnChannel
    <2> HIDE DEF q, i
    <2>3. /\ p.msg = "data" => r.channels[i].session
          /\ Fits(D \cup {p}, TableAfter(r.channels, p, i), r.seen \cup {p})
      BY <2>0, <2>2
    <2>4. ~q.ok => Excused(q.channels)
      BY <2>2, <2>3 DEF Excused
    <2>5. IF q.ok THEN Fits(D \cup {p}, q.channels, q.seen) ELSE Excused(q.channels)
      BY <2>2, <2>3, <2>4
    <2> QED
      BY <2>5 DEF q
  <1> QED
    BY <1>2, <1>3

-----------------------------------------------------------------------------
(* A sequence of packets *)

\* A set of numbers that is not empty has a least one.
LEMMA LeastNumber ==
    ASSUME NEW T \in SUBSET Nat, T # {}
    PROVE  \E n \in T : \A m \in T : n <= m
  <1>1. PICK R : /\ IsWellFoundedOn(R, Nat)
                 /\ \A m, n \in Nat : m < n => <<m, n>> \in R
    BY NatLessThanWellFounded DEF OpToRel
  <1>2. \E n \in T : \A m \in T : ~(<<m, n>> \in R)
    <2>1. IsWellFoundedOn(R, Nat) /\ T \subseteq Nat
      BY <1>1
    <2> HIDE <1>1
    <2> QED
      BY <2>1, WFMin
  <1>3. PICK n \in T : \A m \in T : ~(<<m, n>> \in R)
    BY <1>2
  <1>4. \A m \in T : n <= m
    <2>1. \A m \in T : m \in Nat /\ n \in Nat /\ ~(m < n)
      BY <1>1, <1>3
    <2> QED
      BY <2>1
  <1> QED
    BY <1>4

Start == [channels |-> channels, timer |-> timer, seen |-> seen, parsed |-> <<>>, ok |-> TRUE]

\* Only packets of the client that open channels.
Opens(packets) == \A j \in DOMAIN packets : packets[j].from = "SERVER" /\ packets[j].msg = "open"

\* Opens of the client were parsed, at most.
ServerIds(table) == \A j \in DOMAIN table : "SERVER" \in table[j].ids

\* What the state r of the handler is after the first n of the packets.
SoFar(packets, n, r) ==
    /\ r \in Run /\ IdsFit(r.channels)
    /\ r.ok => r.parsed = SubSeq(packets, 1, n)
    /\ \A D \in SUBSET Packet :
          Fits(D, channels, seen) /\ LegalQueue(packets, D) =>
             IF r.ok THEN Fits(D \cup {packets[j] : j \in 1 .. n}, r.channels, r.seen)
             ELSE Excused(r.channels)
    /\ Opens(packets) /\ ServerIds(channels) =>
          ServerIds(r.channels) /\ (front # "lost" => r.ok)

LEMMA OneMore ==
    ASSUME ProxyAssumption, config \in Settings, NEW packets \in Seq(Packet),
           \A j \in DOMAIN packets : packets[j].msg = "open" => Opener(packets[j].ch) = packets[j].from,
           NEW n \in 1 .. Len(packets), NEW r, SoFar(packets, n - 1, r)
    PROVE  SoFar(packets, n, parse_num_packet(r, packets[n]))
  <1> DEFINE p == packets[n]
             q == parse_num_packet(r, p)
  <1>1. p \in Packet /\ n \in DOMAIN packets /\ n \in Nat /\ n - 1 \in Nat
    OBVIOUS
  <1>2. r \in Run /\ IdsFit(r.channels)
    BY DEF SoFar
  <1>3. q \in Run /\ IdsFit(q.channels) /\ (q.ok => r.ok /\ q.parsed = Append(r.parsed, p))
    BY <1>1, <1>2, ParseKeeps
  <1>4. q.ok => q.parsed = SubSeq(packets, 1, n)
    <2>1. SubSeq(packets, 1, n) = Append(SubSeq(packets, 1, n - 1), p)
      OBVIOUS
    <2> QED
      BY <1>3, <2>1 DEF SoFar
  <1>5. ASSUME NEW D \in SUBSET Packet, Fits(D, channels, seen), LegalQueue(packets, D)
        PROVE  IF q.ok THEN Fits(D \cup {packets[j] : j \in 1 .. n}, q.channels, q.seen)
               ELSE Excused(q.channels)
    <2> DEFINE before == D \cup {packets[j] : j \in 1 .. n - 1}
    <2>1. CASE ~r.ok
      <3>1. q = r
        BY <2>1 DEF parse_num_packet
      <3> QED
        BY <1>5, <2>1, <3>1 DEF SoFar
    <2>2. CASE r.ok
      <3>1. Fits(before, r.channels, r.seen)
        BY <1>5, <2>2 DEF SoFar
      <3>2. Legal(p, before)
        BY <1>1, <1>5 DEF LegalQueue
      <3>3. before \in SUBSET Packet
        <4>1. \A j \in 1 .. n - 1 : packets[j] \in Packet
          OBVIOUS
        <4> QED
          BY <4>1
      <3>4. before \cup {p} = D \cup {packets[j] : j \in 1 .. n}
        <4>1. \A j \in 1 .. n : j = n \/ j \in 1 .. n - 1
          OBVIOUS
        <4>2. \A j \in 1 .. n - 1 : j \in 1 .. n
          OBVIOUS
        <4>3. n \in 1 .. n
          BY <1>1
        <4> QED
          BY <4>1, <4>2, <4>3
      <3>5. IF q.ok THEN Fits(before \cup {p}, q.channels, q.seen) ELSE Excused(q.channels)
        <4> HIDE DEF before
        <4> QED
          BY <1>1, <1>2, <2>2, <3>1, <3>2, <3>3, ParseFits
      <3> QED
        BY <3>4, <3>5
    <2> QED
      BY <2>1, <2>2
  <1>6. ASSUME Opens(packets), ServerIds(channels)
        PROVE  ServerIds(q.channels) /\ (front # "lost" => q.ok)
    <2>1. ServerIds(r.channels) /\ (front # "lost" => r.ok) /\ p.from = "SERVER" /\ p.msg = "open"
      BY <1>1, <1>6 DEF SoFar, Opens
    <2>2. CASE ~r.ok
      <3>1. q = r
        BY <2>2 DEF parse_num_packet
      <3> QED
        BY <2>1, <3>1
    <2>3. CASE r.ok
      <3>1. /\ q.channels = IF Kept(p.ch) THEN create_channel(r.channels, p) ELSE r.channels
            /\ front # "lost" => q.ok
        BY <1>1, <1>2, <2>1, <2>3, Opened DEF ServerIds
      <3>2. ServerIds(create_channel(r.channels, p))
        <4>1. PICK e : e = [ch |-> p.ch, ids |-> {p.from}, session |-> Kind[p.ch] = "tcpip", closed |-> {}]
          OBVIOUS
        <4>2. "SERVER" \in e.ids
          BY <2>1, <4>1
        <4>3. create_channel(r.channels, p) = Append(r.channels, e) /\ r.channels \in Seq(Entry)
          BY <1>2, <4>1 DEF create_channel, Run
        <4>4. \A j \in DOMAIN Append(r.channels, e) :
                 \/ j \in DOMAIN r.channels /\ Append(r.channels, e)[j] = r.channels[j]
                 \/ Append(r.channels, e)[j] = e
          BY <4>3
        <4> QED
          BY <2>1, <4>2, <4>3, <4>4 DEF ServerIds
      <3> QED
        BY <2>1, <3>1, <3>2
    <2> QED
      BY <2>2, <2>3
  <1> HIDE DEF p, q
  <1> QED
    BY <1>3, <1>4, <1>5, <1>6 DEF SoFar, p, q

LEMMA ParsedSoFar ==
    ASSUME ProxyAssumption, config \in Settings, NEW packets \in Seq(Packet),
           \A j \in DOMAIN packets : packets[j].msg = "open" => Opener(packets[j].ch) = packets[j].from,
           Start \in Run, IdsFit(channels)
    PROVE  SoFar(packets, Len(packets), Parsed(packets))
  <1> DEFINE k == Len(packets)
             Rec(n, g) == g = [i \in 0 .. n |-> IF i = 0 THEN Start
                                                ELSE parse_num_packet(g[i - 1], packets[i])]
  <1>1. k \in Nat
    OBVIOUS
  <1>2. \A n \in 0 .. k : \E g : Rec(n, g)
    <2> DEFINE Bad == {n \in 0 .. k : ~\E g : Rec(n, g)}
    <2> SUFFICES ASSUME Bad # {} PROVE FALSE
      OBVIOUS
    <2>1. PICK n \in Bad : \A m \in Bad : n <= m
      <3>1. Bad \in SUBSET Nat
        BY <1>1
      <3> QED
        BY <3>1, LeastNumber
    <2>2. CASE n = 0
      <3>1. Rec(0, [i \in 0 .. 0 |-> Start])
        OBVIOUS
      <3> QED
        BY <2>1, <2>2, <3>1
    <2>3. CASE n # 0
      <3>1. n \in 1 .. k /\ n - 1 \in 0 .. k /\ ~(n <= n - 1)
        BY <1>1, <2>3
      <3>2. n - 1 \in 0 .. k /\ n - 1 \notin Bad
        <4> HIDE DEF Bad
        <4> QED
          BY <2>1, <3>1
      <3>3. PICK g : Rec(n - 1, g)
        BY <3>2
      <3> DEFINE h == [i \in 0 .. n |-> IF i = n THEN parse_num_packet(g[n - 1], packets[n]) ELSE g[i]]
      <3>4. ASSUME NEW i \in 0 .. n
            PROVE  h[i] = IF i = 0 THEN Start ELSE parse_num_packet(h[i - 1], packets[i])
        BY <3>1, <3>3
      <3>5. Rec(n, h)
        BY <3>4
      <3> QED
        BY <2>1, <3>5
    <2> QED
      BY <2>2, <2>3
  <1>3. PICK g : Rec(k, g) /\ Parsed(packets) = g[k]
    <2>1. \E g : Rec(k, g)
      <3>1. k \in 0 .. k
        BY <1>1
      <3> HIDE DEF Rec, k
      <3> QED
        BY <1>2, <3>1
    <2> QED
      BY <2>1 DEF Parsed, Start
  <1>4. \A n \in 0 .. k : SoFar(packets, n, g[n])
    <2> DEFINE Bad == {n \in 0 .. k : ~SoFar(packets, n, g[n])}
    <2> SUFFICES ASSUME Bad # {} PROVE FALSE
      OBVIOUS
    <2>1. PICK n \in Bad : \A m \in Bad : n <= m
      <3>1. Bad \in SUBSET Nat
        BY <1>1
      <3> QED
        BY <3>1, LeastNumber
    <2>2. CASE n = 0
      <3>1. g[0] = Start
        BY <1>1, <1>3
      <3>2. SubSeq(packets, 1, 0) = <<>> /\ {packets[j] : j \in 1 .. 0} = {}
        OBVIOUS
      <3>3. \A D : D \cup {packets[j] : j \in 1 .. 0} = D
        BY <3>2
      <3>4. SoFar(packets, 0, Start)
        <4>1. Start.ok /\ Start.channels = channels /\ Start.seen = seen /\ Start.parsed = <<>>
          BY DEF Start
        <4> QED
          BY <3>2, <3>3, <4>1 DEF SoFar
      <3> QED
        BY <2>1, <2>2, <3>1, <3>4
    <2>3. CASE n # 0
      <3>1. n \in 1 .. k /\ n - 1 \in 0 .. k /\ ~(n <= n - 1)
        BY <1>1, <2>3
      <3>2. n - 1 \in 0 .. k /\ n - 1 \notin Bad
        <4> HIDE DEF Bad
        <4> QED
          BY <2>1, <3>1
      <3>3. SoFar(packets, n - 1, g[n - 1])
        BY <3>2
      <3>4. g[n] = parse_num_packet(g[n - 1], packets[n])
        BY <1>3, <3>1
      <3>5. SoFar(packets, n, g[n])
        BY <3>1, <3>3, <3>4, OneMore
      <3> QED
        BY <2>1, <3>5
    <2> QED
      BY <2>2, <2>3
  <1>5. k \in 0 .. k
    BY <1>1
  <1> QED
    BY <1>3, <1>4, <1>5

-----------------------------------------------------------------------------
(* The buffers *)

IInv == TypeOK /\ HeldOrForwarded /\ ParserInv /\ UsedInv

LEMMA ItemOf ==
    ASSUME NEW S, NEW q \in Seq(S)
    PROVE  /\ \A i \in DOMAIN q : q[i] \in S /\ q[i] \in ToSet(q)
           /\ \A x \in ToSet(q) : x \in S /\ \E i \in DOMAIN q : q[i] = x
           /\ DOMAIN q = 1 .. Len(q) /\ Len(q) \in Nat
           /\ ToSet(q) = {q[j] : j \in 1 .. Len(q)}
           /\ \A x \in S : ToSet(Append(q, x)) = ToSet(q) \cup {x}
  <1>1. /\ DOMAIN q = 1 .. Len(q) /\ Len(q) \in Nat /\ \A i \in DOMAIN q : q[i] \in S
    OBVIOUS
  <1>2. ToSet(q) = {q[j] : j \in DOMAIN q}
    BY DEF ToSet
  <1>3. ASSUME NEW x \in S PROVE ToSet(Append(q, x)) = ToSet(q) \cup {x}
    <2>1. /\ DOMAIN Append(q, x) = 1 .. Len(q) + 1 /\ Append(q, x)[Len(q) + 1] = x
          /\ \A j \in 1 .. Len(q) : Append(q, x)[j] = q[j]
      OBVIOUS
    <2>2. /\ \A j \in 1 .. Len(q) + 1 : j \in 1 .. Len(q) \/ j = Len(q) + 1
          /\ \A j \in 1 .. Len(q) : j \in 1 .. Len(q) + 1
          /\ Len(q) + 1 \in 1 .. Len(q) + 1
      BY <1>1
    <2>3. ToSet(Append(q, x)) = {Append(q, x)[j] : j \in DOMAIN Append(q, x)}
      BY DEF ToSet
    <2> QED
      BY <1>1, <1>2, <2>1, <2>2, <2>3
  <1> QED
    BY <1>1, <1>2, <1>3

\* What the other side sends does not keep a packet from being parsed.
LEMMA LegalStays ==
    ASSUME NEW q \in Packet, NEW D, NEW A, Legal(q, D), \A a \in A : a.from # q.from
    PROVE  Legal(q, D \cup A)
  <1>1. \A msg, ch : M(q.from, msg, ch).from = q.from
    BY DEF M
  <1>2. \A msg, ch : M(q.from, msg, ch) \in D \cup A <=> M(q.from, msg, ch) \in D
    BY <1>1
  <1>3. q \in D \cup A <=> q \in D
    OBVIOUS
  <1>4. CASE q.msg = "open"
    BY <1>3, <1>4 DEF Legal
  <1>5. CASE q.msg \in {"confirm", "fail"}
    BY <1>2, <1>5 DEF Legal
  <1>6. CASE q.msg \notin {"open", "confirm", "fail"}
    BY <1>2, <1>6 DEF Legal
  <1> QED
    BY <1>4, <1>5, <1>6

LEMMA QueueStays ==
    ASSUME NEW q \in Seq(Packet), NEW s, NEW D, NEW A, LegalQueue(q, D),
           \A i \in DOMAIN q : q[i].from = s, \A a \in A : a.from # s
    PROVE  LegalQueue(q, D \cup A)
  <1> SUFFICES ASSUME NEW i \in DOMAIN q
               PROVE  Legal(q[i], (D \cup A) \cup {q[j] : j \in 1 .. i - 1})
    BY DEF LegalQueue
  <1>1. q[i] \in Packet /\ \A a \in A : a.from # q[i].from
    OBVIOUS
  <1>2. PICK B : B = D \cup {q[j] : j \in 1 .. i - 1}
    OBVIOUS
  <1>3. Legal(q[i], B)
    BY <1>2 DEF LegalQueue
  <1>4. Legal(q[i], B \cup A)
    BY <1>1, <1>3, LegalStays
  <1>5. B \cup A = (D \cup A) \cup {q[j] : j \in 1 .. i - 1}
    BY <1>2
  <1> QED
    BY <1>4, <1>5

LEMMA QueueGrows ==
    ASSUME NEW q \in Seq(Packet), NEW p \in Packet, NEW D, LegalQueue(q, D),
           Legal(p, D \cup ToSet(q))
    PROVE  LegalQueue(Append(q, p), D)
  <1> DEFINE t == Append(q, p)
  <1> SUFFICES ASSUME NEW i \in DOMAIN t
               PROVE  Legal(t[i], D \cup {t[j] : j \in 1 .. i - 1})
    BY DEF LegalQueue
  <1>1. /\ DOMAIN t = 1 .. Len(q) + 1 /\ Len(q) \in Nat /\ DOMAIN q = 1 .. Len(q)
        /\ t[Len(q) + 1] = p /\ \A j \in 1 .. Len(q) : t[j] = q[j]
    OBVIOUS
  <1> HIDE DEF t
  <1>2. \A j \in 1 .. i - 1 : j \in 1 .. Len(q)
    BY <1>1
  <1>3. {t[j] : j \in 1 .. i - 1} = {q[j] : j \in 1 .. i - 1}
    BY <1>1, <1>2
  <1>4. CASE i \in 1 .. Len(q)
    BY <1>1, <1>3, <1>4 DEF LegalQueue
  <1>5. CASE i = Len(q) + 1
    <2>1. i - 1 = Len(q) /\ t[i] = p
      BY <1>1, <1>5
    <2>2. {q[j] : j \in 1 .. i - 1} = ToSet(q)
      BY <2>1, ItemOf
    <2> QED
      BY <1>3, <2>1, <2>2
  <1> QED
    BY <1>1, <1>4, <1>5

\* What the type invariant says of the handler.
LEMMA Typed ==
    ASSUME ProxyAssumption, TypeOK
    PROVE  /\ config \in Settings /\ Start \in Run /\ IdsFit(channels)
           /\ Done \in SUBSET Packet /\ sent \subseteq Packet
           /\ delayedPackets \in Seq(Packet) /\ heldReplies \in Seq(Packet)
  <1>1. channels \in Seq(Entry) /\ timer \in BOOLEAN /\ seen \in SUBSET Packet
    BY DEF TypeOK, Entry
  <1>2. <<>> \in Seq(Packet)
    OBVIOUS
  <1>3. Start \in Run
    BY <1>1, <1>2 DEF Start, Run
  <1> QED
    BY <1>3 DEF TypeOK, IdsFit, Opener, Done

\* What a peer may send can be parsed after all that was parsed and the buffer of
\* its side.
LEMMA MaySendLegal ==
    ASSUME ProxyAssumption, IInv, Lawful, NEW p \in Packet, MaySend(p),
           NEW mine \in Seq(Packet), NEW theirs \in Seq(Packet),
           \/ p.from = "SERVER" /\ mine = delayedPackets /\ theirs = heldReplies
           \/ p.from = "CLIENT" /\ mine = heldReplies /\ theirs = delayedPackets
    PROVE  Legal(p, Done \cup ToSet(mine))
  <1> DEFINE D == Done \cup ToSet(mine)
  <1>1. /\ p.from \in Side /\ p.ch \in Chan /\ Opener(p.ch) \in Side
        /\ p.msg \in {"open", "confirm", "fail", "request", "data", "close"}
        /\ Kind[p.ch] \in {"session", "tcpip"}
        /\ p.from = Opener(p.ch) \/ p.from = Acceptor(p.ch)
        /\ Opener(p.ch) = p.from => Other(p.from) = Acceptor(p.ch)
        /\ Opener(p.ch) # p.from => Other(p.from) = Opener(p.ch)
    BY Sides DEF Packet, Message, ProxyAssumption, IInv, TypeOK, Opener, Acceptor
  <1>2. /\ Fits(Done, channels, seen) /\ ClosesFit
        /\ \A i \in DOMAIN mine : mine[i] \in sent
        /\ \A i \in DOMAIN theirs : theirs[i].from # p.from
        /\ LegalQueue(mine, Done)
        /\ Done = sent \ (ToSet(mine) \cup ToSet(theirs))
    BY DEF IInv, ParserInv, QueueFits, Done
  <1>3. D \subseteq sent /\ Done \subseteq D
    BY <1>2, ItemOf
  <1>4. \A msg, ch : M(p.from, msg, ch) \in sent => M(p.from, msg, ch) \in D
    <2>1. \A x \in ToSet(theirs) : x.from # p.from
      BY <1>2, ItemOf
    <2>2. \A msg, ch : M(p.from, msg, ch) \notin ToSet(theirs)
      BY <2>1 DEF M
    <2> QED
      BY <1>2, <2>2
  <1>5. \A from, msg, ch : M(from, msg, ch) \in seen /\ msg # "fail" =>
           M(from, msg, ch) \in D /\ (msg = "open" => Kept(ch))
    BY <1>2, <1>3 DEF Fits, SeenFits, M
  <1>6. p \notin sent
    BY DEF MaySend
  <1>7. CASE p.msg = "open"
    <2>1. Opener(p.ch) = p.from
      BY <1>7 DEF MaySend, Opener
    <2> QED
      BY <1>3, <1>6, <1>7, <2>1 DEF Legal
  <1>8. CASE p.msg \in {"confirm", "fail"}
    <2>1. /\ Opener(p.ch) # p.from /\ M(Other(p.from), "open", p.ch) \in seen
          /\ M(p.from, "confirm", p.ch) \notin sent /\ M(p.from, "fail", p.ch) \notin sent
      BY <1>8 DEF MaySend, Opener, M
    <2>2. /\ Acceptor(p.ch) = p.from /\ M(Opener(p.ch), "open", p.ch) \in D /\ Kept(p.ch)
      BY <1>1, <1>5, <2>1
    <2>3. M(p.from, "close", p.ch) \notin sent
      <3> SUFFICES ASSUME M(p.from, "close", p.ch) \in sent PROVE FALSE
        OBVIOUS
      <3>1. M(p.from, "close", p.ch).msg = "close" /\ M(p.from, "close", p.ch).ch = p.ch
        BY DEF M
      <3>2. M(Acceptor(p.ch), "confirm", p.ch) \in sent
        BY <1>2, <3>1 DEF ClosesFit
      <3> QED
        BY <2>1, <2>2, <3>2
    <2> QED
      BY <1>3, <1>8, <2>1, <2>2, <2>3 DEF Legal
  <1>9. CASE p.msg \in {"request", "data", "close"}
    <2>1. /\ Established(p.from, p.ch) /\ M(p.from, "close", p.ch) \notin sent
          /\ p.msg = "data" => \/ Kind[p.ch] = "tcpip"
                               \/ M("SERVER", "request", p.ch) \in
                                     (IF p.from = "SERVER" THEN sent ELSE seen)
      BY <1>9 DEF MaySend, M
    <2>2. M(Acceptor(p.ch), "confirm", p.ch) \in D
      <3>1. CASE Opener(p.ch) = p.from
        BY <1>1, <1>5, <2>1, <3>1 DEF Established, Opener, M
      <3>2. CASE Opener(p.ch) # p.from
        BY <1>1, <1>4, <2>1, <3>2 DEF Established, Opener, M
      <3> QED
        BY <3>1, <3>2
    <2>3. PICK c \in Packet : c = M(Acceptor(p.ch), "confirm", p.ch)
      BY <1>1, Sides DEF M, Packet, Message, Acceptor, Opener
    <2>4. c.msg = "confirm" /\ c.ch = p.ch /\ c \in D
      BY <2>2, <2>3 DEF M
    <2>5. M(Opener(p.ch), "open", p.ch) \in D /\ Kept(p.ch)
      <3>1. CASE c \in Done
        <4>1. DoneFits(Done)
          BY <1>2 DEF Fits
        <4>2. M(Opener(c.ch), "open", c.ch) \in Done /\ Kept(c.ch)
          BY <2>4, <3>1, <4>1 DEF DoneFits
        <4> QED
          BY <1>3, <2>4, <4>2
      <3>2. CASE c \in ToSet(mine)
        <4>1. PICK i \in DOMAIN mine : mine[i] = c
          BY <3>2, ItemOf
        <4>2. Legal(c, Done \cup {mine[j] : j \in 1 .. i - 1})
          BY <1>2, <4>1 DEF LegalQueue
        <4>3. {mine[j] : j \in 1 .. i - 1} \subseteq ToSet(mine)
          <5>1. \A j \in 1 .. i - 1 : j \in DOMAIN mine
            OBVIOUS
          <5> QED
            BY <5>1, ItemOf
        <4>4. M(Opener(c.ch), "open", c.ch) \in Done \cup {mine[j] : j \in 1 .. i - 1} /\ Kept(c.ch)
          BY <2>4, <4>2 DEF Legal
        <4> QED
          BY <2>4, <4>3, <4>4
      <3> QED
        BY <2>4, <3>1, <3>2
    <2>6. M(p.from, "close", p.ch) \notin D
      BY <1>3, <2>1
    <2>7. p.msg = "data" => Kind[p.ch] = "tcpip" \/ M("SERVER", "request", p.ch) \in D
      BY <1>4, <1>5, <2>1
    <2> QED
      BY <1>9, <2>2, <2>5, <2>6, <2>7 DEF Legal
  <1> QED
    BY <1>1, <1>7, <1>8, <1>9

-----------------------------------------------------------------------------
(* The steps *)

\* The configuration does not change, and with it what the packets say.
LEMMA FitsNext ==
    ASSUME config' = config, NEW D, NEW t, NEW S, D = Done', t = channels', S = seen',
           Fits(D, t, S)
    PROVE  Fits(Done, channels, seen)'
  <1>1. DoneFits(Done)'
    BY DEF Fits, DoneFits, Opener, Kept
  <1>2. TableFits(Done, channels)'
    BY DEF Fits, TableFits, InTable, Opener, Acceptor, Kept
  <1>3. SeenFits(Done, seen)'
    BY DEF Fits, SeenFits, Kept
  <1> QED
    BY <1>1, <1>2, <1>3 DEF Fits

LEMMA QueuesNext ==
    ASSUME config' = config, NEW D, D = Done'
    PROVE  /\ LegalQueue(delayedPackets', D) => LegalQueue(delayedPackets, Done)'
           /\ LegalQueue(heldReplies', D) => LegalQueue(heldReplies, Done)'
  BY DEF LegalQueue, Legal, Opener, Acceptor, Kept

\* The parser's part of the type invariant.
ParserType ==
    /\ channels \in Seq(Entry) /\ IdsFit(channels)
    /\ seen \subseteq Packet /\ sent \subseteq Packet
    /\ {timer, ordered, raised} \subseteq BOOLEAN
    /\ owed \in [Side -> Seq(Packet)]
    /\ delayedPackets \in Seq(Packet) /\ heldReplies \in Seq(Packet)

LEMMA Accounted ==
    ASSUME owed \in [Side -> Seq(Packet)], ordered \in BOOLEAN, NEW side \in Side,
           NEW received \in Seq(Packet), NEW parsed \in Seq(Packet),
           Account(side, received, parsed)
    PROVE  /\ owed' \in [Side -> Seq(Packet)] /\ ordered' \in BOOLEAN
           /\ owed'[Other(side)] = owed[Other(side)]
           /\ parsed = owed[side] \o received => ordered' = ordered /\ owed'[side] = <<>>
           /\ parsed = <<>> => ordered' = ordered /\ owed'[side] = owed[side] \o received
  <1> DEFINE all == owed[side] \o received
             rest == SubSeq(all, Len(parsed) + 1, Len(all))
  <1>1. owed[side] \in Seq(Packet) /\ all \in Seq(Packet)
    OBVIOUS
  <1>2. owed' = [owed EXCEPT ![side] = rest] /\ ordered' = (ordered /\ IsPrefix(parsed, all))
    BY DEF Account
  <1> HIDE DEF all
  <1>3. rest \in Seq(Packet)
    BY <1>1
  <1>4. owed' \in [Side -> Seq(Packet)] /\ owed'[Other(side)] = owed[Other(side)] /\ owed'[side] = rest
    BY <1>2, <1>3, Sides
  <1>5. parsed = all => IsPrefix(parsed, all) /\ rest = <<>>
    BY <1>1 DEF IsPrefix
  <1>6. parsed = <<>> => IsPrefix(parsed, all) /\ rest = all
    BY <1>1 DEF IsPrefix
  <1> QED
    BY <1>2, <1>4, <1>5, <1>6 DEF all

\* What the handler makes of packets that were not parsed yet.
LEMMA Outcome ==
    ASSUME ProxyAssumption, IInv, NEW packets \in Seq(Packet),
           \A j \in DOMAIN packets : packets[j].msg = "open" => Opener(packets[j].ch) = packets[j].from
    PROVE  LET r == Parsed(packets)
           IN  /\ r \in Run /\ IdsFit(r.channels)
               /\ r.ok => r.parsed = packets
               /\ Lawful /\ LegalQueue(packets, Done) =>
                     IF r.ok THEN Fits(Done \cup ToSet(packets), r.channels, r.seen)
                     ELSE Excused(r.channels)
               /\ ~backendConnected /\ Opens(packets) /\ front # "lost" => r.ok
  <1>1. SoFar(packets, Len(packets), Parsed(packets))
    BY Typed, ParsedSoFar DEF IInv
  <1>2. PICK r : r = Parsed(packets)
    OBVIOUS
  <1>3. SubSeq(packets, 1, Len(packets)) = packets
    OBVIOUS
  <1>4. {packets[j] : j \in 1 .. Len(packets)} = ToSet(packets)
    BY ItemOf
  <1>5. Done \in SUBSET Packet
    BY Typed DEF IInv
  <1>6. Lawful => Fits(Done, channels, seen)
    BY DEF IInv, ParserInv
  <1>7. ~backendConnected => ServerIds(channels)
    <2>1. ~backendConnected => channels = <<>>
      BY DEF IInv, UsedInv
    <2>2. ServerIds(<<>>)
      BY DEF ServerIds
    <2> QED
      BY <2>1, <2>2
  <1>8. SoFar(packets, Len(packets), r)
    BY <1>1, <1>2
  <1>9. /\ r \in Run /\ IdsFit(r.channels) /\ (r.ok => r.parsed = packets)
        /\ ~backendConnected /\ Opens(packets) /\ front # "lost" => r.ok
    BY <1>3, <1>7, <1>8 DEF SoFar
  <1>10. Lawful /\ LegalQueue(packets, Done) =>
            IF r.ok THEN Fits(Done \cup ToSet(packets), r.channels, r.seen) ELSE Excused(r.channels)
    BY <1>4, <1>5, <1>6, <1>8 DEF SoFar
  <1> QED
    BY <1>2, <1>9, <1>10

LEMMA Untouched ==
    ASSUME IInv, UNCHANGED <<config, sent, strays, bufferVars, channels, seen, owed, ordered, raised>>
    PROVE  HeldOrForwarded' /\ ParserInv'
  <1>1. HeldOrForwarded'
    BY DEF IInv, HeldOrForwarded, bufferVars
  <1>2. /\ config' = config /\ sent' = sent /\ Lawful' = Lawful /\ Done' = Done
        /\ delayedPackets' = delayedPackets /\ heldReplies' = heldReplies
        /\ channels' = channels /\ seen' = seen
    BY DEF bufferVars, Done, Lawful
  <1>3. OpenersFit' /\ (ClosesFit => ClosesFit')
    BY <1>2 DEF IInv, ParserInv, OpenersFit, ClosesFit, Opener, Acceptor
  <1>4. QueueFits(delayedPackets, "SERVER")' /\ QueueFits(heldReplies, "CLIENT")'
    BY <1>2 DEF IInv, ParserInv, QueueFits
  <1>5. Lawful => Fits(Done, channels, seen)' /\ LegalQueue(delayedPackets, Done)'
                      /\ LegalQueue(heldReplies, Done)'
    <2>1. Lawful => Fits(Done, channels, seen) /\ LegalQueue(delayedPackets, Done)
                        /\ LegalQueue(heldReplies, Done)
      BY DEF IInv, ParserInv
    <2>2. PICK D, t, S : D = Done /\ t = channels /\ S = seen
      OBVIOUS
    <2> QED
      BY <1>2, <2>1, <2>2, FitsNext, QueuesNext
  <1> QED
    BY <1>1, <1>2, <1>3, <1>4, <1>5 DEF IInv, ParserInv

\* The two buffers hold different packets.
LEMMA Apart ==
    ASSUME ProxyAssumption, IInv
    PROVE  /\ \A x \in ToSet(delayedPackets) : x \in sent /\ x.from = "SERVER"
           /\ \A x \in ToSet(heldReplies) : x \in sent /\ x.from = "CLIENT"
           /\ \A x \in ToSet(delayedPackets) : x \notin ToSet(heldReplies)
  BY Typed, ItemOf DEF IInv, ParserInv, QueueFits

LEMMA AuthenticateKeeps ==
    ASSUME ProxyAssumption, IInv, Authenticate(Parsed(delayedPackets)),
           UNCHANGED <<config, front, heldReplies, sent, strays>>
    PROVE  /\ ParserType' /\ HeldOrForwarded' /\ ParserInv'
           /\ ~raised /\ raised' => strays' > 0 \/ Excused(channels')
           /\ ~backendConnected /\ front # "lost" => authDone' \/ (raised' /\ strays > 0)
  <1> DEFINE q == delayedPackets
  <1>1. /\ q \in Seq(Packet) /\ heldReplies \in Seq(Packet) /\ sent \subseteq Packet
        /\ owed \in [Side -> Seq(Packet)] /\ ordered \in BOOLEAN /\ raised \in BOOLEAN
    BY Typed DEF IInv, TypeOK
  <1>2. \A j \in DOMAIN q : q[j] \in sent /\ q[j].from = "SERVER"
                            /\ (q[j].msg = "open" => Opener(q[j].ch) = q[j].from)
    BY DEF IInv, ParserInv, QueueFits, OpenersFit
  <1>3. PICK r : r = Parsed(q)
    OBVIOUS
  <1>4. /\ r \in Run /\ IdsFit(r.channels)
        /\ r.ok => r.parsed = q
        /\ Lawful /\ LegalQueue(q, Done) =>
              IF r.ok THEN Fits(Done \cup ToSet(q), r.channels, r.seen) ELSE Excused(r.channels)
        /\ ~backendConnected /\ Opens(q) /\ front # "lost" => r.ok
    BY <1>1, <1>2, <1>3, Outcome
  <1>5. /\ Apply(r) /\ Account("SERVER", <<>>, r.parsed)
        /\ delayedPackets' = Flushed(r.ok) /\ authDone' = (authDone \/ r.ok)
    BY <1>3 DEF Authenticate
  <1>6. /\ channels' = r.channels /\ timer' = r.timer /\ seen' = r.seen
        /\ raised' = (raised \/ ~r.ok)
        /\ r.channels \in Seq(Entry) /\ r.timer \in BOOLEAN /\ r.seen \subseteq Packet
        /\ r.parsed \in Seq(Packet) /\ r.ok \in BOOLEAN
    BY <1>4, <1>5 DEF Apply, Run
  <1>7. /\ owed' \in [Side -> Seq(Packet)] /\ ordered' \in BOOLEAN
        /\ owed'["CLIENT"] = owed["CLIENT"]
        /\ r.parsed = owed["SERVER"] \o <<>> => ordered' = ordered /\ owed'["SERVER"] = <<>>
    <2>1. <<>> \in Seq(Packet) /\ "SERVER" \in Side /\ Other("SERVER") = "CLIENT"
      BY Sides
    <2> QED
      BY <1>1, <1>5, <1>6, <2>1, Accounted
  <1>8. delayedPackets' \in Seq(Packet) /\ (r.ok => delayedPackets' = <<>>)
        /\ (~r.ok => delayedPackets' = delayedPackets)
    BY <1>1, <1>5 DEF Flushed
  <1>9. ParserType'
    <2>1. IdsFit(channels)'
      BY <1>4, <1>6 DEF IdsFit, Opener
    <2> QED
      BY <1>1, <1>6, <1>7, <1>8, <2>1 DEF ParserType
  <1>10. /\ ~raised' => /\ ~raised /\ r.ok /\ ordered
                         /\ owed["SERVER"] = q /\ owed["CLIENT"] = heldReplies
         /\ Lawful' => /\ Lawful /\ r.ok /\ Fits(Done, channels, seen) /\ ClosesFit
                       /\ LegalQueue(q, Done) /\ LegalQueue(heldReplies, Done)
    BY <1>6 DEF IInv, HeldOrForwarded, ParserInv, Lawful
  <1>11. HeldOrForwarded'
    <2>1. q = q \o <<>>
      BY <1>1
    <2> SUFFICES ASSUME ~raised'
                 PROVE  /\ ordered' /\ owed'["SERVER"] = delayedPackets'
                        /\ owed'["CLIENT"] = heldReplies'
      BY DEF HeldOrForwarded
    <2>2. /\ r.ok /\ ordered /\ owed["SERVER"] = q /\ owed["CLIENT"] = heldReplies
      BY <1>10
    <2>3. r.parsed = owed["SERVER"] \o <<>>
      BY <1>4, <2>1, <2>2
    <2> QED
      BY <1>7, <1>8, <2>2, <2>3
  <1>12. QueueFits(delayedPackets, "SERVER")' /\ QueueFits(heldReplies, "CLIENT")'
    <2>1. QueueFits(delayedPackets, "SERVER") /\ QueueFits(heldReplies, "CLIENT")
      BY DEF IInv, ParserInv
    <2>2. CASE r.ok
      BY <1>8, <2>1, <2>2 DEF QueueFits
    <2>3. CASE ~r.ok
      BY <1>8, <2>1, <2>3 DEF QueueFits
    <2> QED
      BY <2>2, <2>3
  <1>13. OpenersFit' /\ (ClosesFit => ClosesFit')
    BY DEF IInv, ParserInv, OpenersFit, ClosesFit, Opener, Acceptor
  <1>14. ASSUME Lawful'
         PROVE  Fits(Done, channels, seen)' /\ LegalQueue(delayedPackets, Done)'
                /\ LegalQueue(heldReplies, Done)'
    <2> DEFINE E == Done \cup ToSet(q)
    <2>1. ToSet(<<>>) = {}
      BY DEF ToSet
    <2>2. E = Done'
      <3>1. Done' = sent \ ({} \cup ToSet(heldReplies))
        BY <1>8, <1>10, <1>14, <2>1 DEF Done
      <3> QED
        BY <3>1, Apart DEF Done
    <2>3. Fits(E, r.channels, r.seen)
      BY <1>4, <1>10, <1>14
    <2>4. LegalQueue(heldReplies, E)
      <3>1. \A i \in DOMAIN heldReplies : heldReplies[i].from = "CLIENT"
        BY DEF IInv, ParserInv, QueueFits
      <3>2. \A a \in ToSet(q) : a.from # "CLIENT"
        BY Apart
      <3>3. PICK A : A = ToSet(q)
        OBVIOUS
      <3>4. LegalQueue(heldReplies, Done \cup A)
        BY <1>1, <1>10, <1>14, <3>1, <3>2, <3>3, QueueStays
      <3> QED
        BY <3>3, <3>4
    <2>5. LegalQueue(<<>>, E)
      BY DEF LegalQueue
    <2> HIDE DEF E
    <2> QED
      BY <1>6, <1>8, <1>10, <1>14, <2>2, <2>3, <2>4, <2>5, FitsNext, QueuesNext
  <1>15. ParserInv'
    BY <1>10, <1>12, <1>13, <1>14 DEF ParserInv
  <1>16. ~raised /\ raised' => strays' > 0 \/ Excused(channels')
    BY <1>4, <1>6 DEF IInv, ParserInv, TypeOK, Lawful
  <1>17. ~backendConnected /\ front # "lost" => authDone' \/ (raised' /\ strays > 0)
    <2>1. ~backendConnected /\ strays = 0 => Opens(q)
      BY <1>2 DEF Opens, IInv, UsedInv
    <2> QED
      <3>1. strays \in Nat /\ (strays = 0 \/ strays > 0)
        BY DEF IInv, TypeOK
      <3> QED
        BY <1>4, <1>5, <1>6, <2>1, <3>1
  <1> QED
    BY <1>9, <1>11, <1>15, <1>16, <1>17

LEMMA SentMore ==
    ASSUME ProxyAssumption, IInv, config' = config, NEW p \in Packet,
           MaySend(p) \/ Stray(p), sent' = sent \cup {p}
    PROVE  /\ OpenersFit' /\ p \notin sent /\ sent' \subseteq Packet
           /\ p.msg = "open" => Opener(p.ch) = p.from
           /\ Lawful /\ MaySend(p) => ClosesFit'
  <1>1. p \notin sent /\ (p.msg = "open" => Opener(p.ch) = p.from)
    BY DEF MaySend, Stray, Opener
  <1>2. OpenersFit'
    BY <1>1 DEF IInv, ParserInv, OpenersFit, Opener
  <1>3. ASSUME Lawful, MaySend(p) PROVE ClosesFit'
    <2>1. \A x \in sent : x.msg = "close" => M(Acceptor(x.ch), "confirm", x.ch) \in sent
      BY <1>3 DEF IInv, ParserInv, ClosesFit
    <2>2. ASSUME p.msg = "close" PROVE M(Acceptor(p.ch), "confirm", p.ch) \in sent
      <3>1. Established(p.from, p.ch)
        BY <1>3, <2>2 DEF MaySend
      <3>2. CASE Opener(p.ch) = p.from
        <4>1. M(Acceptor(p.ch), "confirm", p.ch) \in seen
          BY <3>1, <3>2 DEF Established, Opener, Acceptor, M
        <4>2. SeenFits(Done, seen)
          BY <1>3 DEF IInv, ParserInv, Fits
        <4>3. M(Acceptor(p.ch), "confirm", p.ch).msg = "confirm"
          BY DEF M
        <4> QED
          BY <4>1, <4>2, <4>3 DEF SeenFits, Done
      <3>3. CASE Opener(p.ch) # p.from
        <4>1. M(p.from, "confirm", p.ch) \in sent
          BY <3>1, <3>3 DEF Established, Opener, M
        <4>2. Acceptor(p.ch) = p.from
          <5>1. Opener(p.ch) \in Side /\ p.from \in Side
            BY DEF ProxyAssumption, IInv, TypeOK, Opener, Packet
          <5> QED
            BY <3>3, <5>1, Sides DEF Acceptor, Opener
        <4> QED
          BY <4>1, <4>2
      <3> QED
        BY <3>2, <3>3
    <2> QED
      BY <2>1, <2>2 DEF ClosesFit, Acceptor
  <1>4. sent' \subseteq Packet
    BY DEF IInv, TypeOK
  <1> QED
    BY <1>1, <1>2, <1>3, <1>4

\* A buffer that takes a new packet.
LEMMA Held ==
    ASSUME ProxyAssumption, IInv, NEW p \in Packet, p \notin sent, NEW side, p.from = side,
           NEW q \in Seq(Packet), QueueFits(q, side)
    PROVE  /\ Append(q, p) \in Seq(Packet)
           /\ \A i \in DOMAIN Append(q, p) :
                 Append(q, p)[i] \in sent \cup {p} /\ Append(q, p)[i].from = side
           /\ \A i, j \in DOMAIN Append(q, p) : Append(q, p)[i] = Append(q, p)[j] => i = j
  <1>1. /\ \A i \in DOMAIN Append(q, p) :
              \/ i \in DOMAIN q /\ Append(q, p)[i] = q[i]
              \/ i = Len(q) + 1 /\ Append(q, p)[i] = p
        /\ Append(q, p) \in Seq(Packet)
    OBVIOUS
  <1>2. \A i \in DOMAIN q : q[i] # p
    BY DEF QueueFits
  <1> QED
    BY <1>1, <1>2 DEF QueueFits

LEMMA ClientSendsKeeps ==
    ASSUME ProxyAssumption, IInv, NEW p \in Packet, ClientSends(p)
    PROVE  /\ ParserType' /\ HeldOrForwarded' /\ ParserInv'
           /\ ~raised /\ raised' => strays' > 0 \/ Excused(channels')
  <1> DEFINE q == delayedPackets
  <1>1. /\ q \in Seq(Packet) /\ heldReplies \in Seq(Packet) /\ sent \subseteq Packet
        /\ owed \in [Side -> Seq(Packet)] /\ {ordered, raised, timer} \subseteq BOOLEAN
        /\ channels \in Seq(Entry) /\ IdsFit(channels) /\ seen \subseteq Packet
    BY Typed DEF IInv, TypeOK, Entry
  <1>2. /\ p.from = "SERVER" /\ sent' = sent \cup {p}
        /\ MaySend(p) \/ Stray(p)
        /\ strays' = 0 => strays = 0 /\ MaySend(p)
        /\ strays' > 0 \/ (strays = 0 /\ MaySend(p))
        /\ config' = config /\ heldReplies' = heldReplies
    <2>1. strays \in Nat
      BY DEF IInv, TypeOK
    <2> QED
      BY <2>1 DEF ClientSends
  <1>3. /\ OpenersFit' /\ p \notin sent /\ sent' \subseteq Packet
        /\ p.msg = "open" => Opener(p.ch) = p.from
        /\ Lawful /\ MaySend(p) => ClosesFit'
    BY <1>2, SentMore
  <1>4. /\ Lawful => /\ Fits(Done, channels, seen) /\ LegalQueue(q, Done) /\ LegalQueue(heldReplies, Done)
        /\ ~raised => ordered /\ owed["SERVER"] = q /\ owed["CLIENT"] = heldReplies
        /\ QueueFits(q, "SERVER") /\ QueueFits(heldReplies, "CLIENT")
    BY DEF IInv, ParserInv, HeldOrForwarded
  <1>5. Lawful /\ MaySend(p) => Legal(p, Done \cup ToSet(q))
    BY <1>1, <1>2, MaySendLegal
  <1>6. p \notin ToSet(q) /\ p \notin ToSet(heldReplies)
    BY <1>3, Apart
  <1>7. <<p>> \in Seq(Packet) /\ <<>> \in Seq(Packet) /\ "SERVER" \in Side /\ Other("SERVER") = "CLIENT"
        /\ <<p>> = Append(<<>>, p) /\ <<p>> = <<>> \o <<p>> /\ Append(q, p) = q \o <<p>>
    BY <1>1, Sides
  <1>8. ToSet(<<>>) = {} /\ ToSet(<<p>>) = {p} /\ ToSet(Append(q, p)) = ToSet(q) \cup {p}
    <2>1. ToSet(<<>>) = {}
      BY DEF ToSet
    <2>2. ToSet(<<p>>) = {p}
      <3>1. DOMAIN <<p>> = {1} /\ <<p>>[1] = p
        OBVIOUS
      <3> QED
        BY <3>1 DEF ToSet
    <2>3. ToSet(Append(q, p)) = ToSet(q) \cup {p}
      BY <1>1, ItemOf
    <2> QED
      BY <2>1, <2>2, <2>3
  <1>9. QueueFits(heldReplies, "CLIENT")'
    BY <1>2, <1>4 DEF QueueFits
  <1>10. CASE backendConnected /\ q = <<>>
    <2>1. PICK r : r = Parsed(<<p>>)
      OBVIOUS
    <2>2. /\ Apply(r) /\ Account("SERVER", <<p>>, r.parsed) /\ delayedPackets' = delayedPackets
      BY <1>10, <2>1 DEF ClientSends
    <2>3. LegalQueue(<<>>, Done)
      BY DEF LegalQueue
    <2>4. Lawful /\ MaySend(p) => LegalQueue(<<p>>, Done)
      BY <1>5, <1>7, <1>10, <2>3, QueueGrows
    <2>5. \A j \in DOMAIN <<p>> : <<p>>[j] = p
      OBVIOUS
    <2>6. /\ r \in Run /\ IdsFit(r.channels) /\ (r.ok => r.parsed = <<p>>)
          /\ Lawful /\ LegalQueue(<<p>>, Done) =>
                IF r.ok THEN Fits(Done \cup ToSet(<<p>>), r.channels, r.seen) ELSE Excused(r.channels)
      BY <1>3, <1>7, <2>1, <2>5, Outcome
    <2>7. /\ channels' = r.channels /\ timer' = r.timer /\ seen' = r.seen
          /\ raised' = (raised \/ ~r.ok)
          /\ r.channels \in Seq(Entry) /\ r.timer \in BOOLEAN /\ r.seen \subseteq Packet
          /\ r.parsed \in Seq(Packet) /\ r.ok \in BOOLEAN
      BY <2>2, <2>6 DEF Apply, Run
    <2>8. /\ owed' \in [Side -> Seq(Packet)] /\ ordered' \in BOOLEAN
          /\ owed'["CLIENT"] = owed["CLIENT"]
          /\ r.parsed = owed["SERVER"] \o <<p>> => ordered' = ordered /\ owed'["SERVER"] = <<>>
      BY <1>1, <1>7, <2>2, <2>7, Accounted
    <2>9. ParserType'
      <3>1. IdsFit(channels)'
        BY <1>2, <2>6, <2>7 DEF IdsFit, Opener
      <3> QED
        BY <1>1, <1>2, <1>3, <2>2, <2>7, <2>8, <3>1 DEF ParserType
    <2>10. HeldOrForwarded'
      <3> SUFFICES ASSUME ~raised'
                   PROVE  /\ ordered' /\ owed'["SERVER"] = delayedPackets'
                          /\ owed'["CLIENT"] = heldReplies'
        BY DEF HeldOrForwarded
      <3>1. ~raised /\ r.ok
        BY <2>7
      <3>2. r.parsed = owed["SERVER"] \o <<p>>
        BY <1>4, <1>7, <1>10, <2>6, <3>1
      <3> QED
        BY <1>2, <1>4, <1>10, <2>2, <2>8, <3>1, <3>2
    <2>11. QueueFits(delayedPackets, "SERVER")'
      BY <1>2, <1>4, <2>2 DEF QueueFits
    <2>12. ASSUME Lawful'
           PROVE  Fits(Done, channels, seen)' /\ LegalQueue(delayedPackets, Done)'
                  /\ LegalQueue(heldReplies, Done)'
      <3> DEFINE E == Done \cup {p}
      <3>1. E = Done'
        BY <1>2, <1>3, <1>6, <1>8, <1>10, <2>2 DEF Done
      <3>2. Fits(E, r.channels, r.seen) /\ Lawful
        BY <1>2, <1>8, <2>4, <2>6, <2>7, <2>12 DEF Lawful
      <3>3. LegalQueue(heldReplies, E)
        <4>1. \A i \in DOMAIN heldReplies : heldReplies[i].from = "CLIENT"
          BY <1>4 DEF QueueFits
        <4>2. PICK A : A = {p}
          OBVIOUS
        <4>3. \A a \in A : a.from # "CLIENT"
          BY <1>2, <4>2
        <4>4. LegalQueue(heldReplies, Done \cup A)
          BY <1>1, <1>4, <3>2, <4>1, <4>3, QueueStays
        <4> QED
          BY <4>2, <4>4
      <3>4. LegalQueue(<<>>, E)
        BY DEF LegalQueue
      <3> HIDE DEF E
      <3> QED
        BY <1>2, <1>10, <2>2, <2>7, <3>1, <3>2, <3>3, <3>4, FitsNext, QueuesNext
    <2>13. ParserInv'
      BY <1>2, <1>3, <1>9, <2>7, <2>11, <2>12 DEF ParserInv, Lawful
    <2>14. ~raised /\ raised' => strays' > 0 \/ Excused(channels')
      BY <1>2, <2>4, <2>6, <2>7 DEF Lawful
    <2> QED
      BY <2>9, <2>10, <2>13, <2>14
  <1>11. CASE ~(backendConnected /\ q = <<>>)
    <2>1. /\ delayedPackets' = Append(delayedPackets, p) /\ Account("SERVER", <<p>>, <<>>)
          /\ UNCHANGED <<front, timer, channels, seen, raised>>
      BY <1>11 DEF ClientSends
    <2>2. /\ owed' \in [Side -> Seq(Packet)] /\ ordered' \in BOOLEAN
          /\ owed'["CLIENT"] = owed["CLIENT"]
          /\ ordered' = ordered /\ owed'["SERVER"] = owed["SERVER"] \o <<p>>
      BY <1>1, <1>7, <2>1, Accounted
    <2>3. /\ Append(q, p) \in Seq(Packet)
          /\ \A i \in DOMAIN Append(q, p) :
                Append(q, p)[i] \in sent \cup {p} /\ Append(q, p)[i].from = "SERVER"
          /\ \A i, j \in DOMAIN Append(q, p) : Append(q, p)[i] = Append(q, p)[j] => i = j
      BY <1>1, <1>2, <1>3, <1>4, Held
    <2>4. ParserType'
      <3>1. IdsFit(channels)'
        BY <1>1, <1>2, <2>1 DEF IdsFit, Opener
      <3> QED
        BY <1>1, <1>2, <1>3, <2>1, <2>2, <2>3, <3>1 DEF ParserType
    <2>5. HeldOrForwarded'
      BY <1>2, <1>4, <1>7, <2>1, <2>2 DEF HeldOrForwarded
    <2>6. QueueFits(delayedPackets, "SERVER")'
      BY <1>2, <2>1, <2>3 DEF QueueFits
    <2>7. ASSUME Lawful'
          PROVE  Fits(Done, channels, seen)' /\ LegalQueue(delayedPackets, Done)'
                 /\ LegalQueue(heldReplies, Done)'
      <3>1. PICK D : D = Done
        OBVIOUS
      <3>2. D = Done'
        BY <1>2, <1>3, <1>6, <1>8, <2>1, <3>1 DEF Done
      <3>3. LegalQueue(Append(q, p), D)
        BY <1>1, <1>2, <1>4, <1>5, <2>1, <2>7, <3>1, QueueGrows DEF Lawful
      <3>4. Lawful
        BY <1>2, <2>1, <2>7 DEF Lawful
      <3> QED
        BY <1>2, <1>4, <2>1, <3>4, <3>1, <3>2, <3>3, FitsNext, QueuesNext
    <2>8. ParserInv'
      BY <1>2, <1>3, <1>9, <2>1, <2>6, <2>7 DEF ParserInv, Lawful
    <2> QED
      BY <2>1, <2>4, <2>5, <2>8
  <1> QED
    BY <1>10, <1>11

LEMMA BackendSendsKeeps ==
    ASSUME ProxyAssumption, IInv, NEW p \in Packet, BackendSends(p)
    PROVE  /\ ParserType' /\ HeldOrForwarded' /\ ParserInv'
           /\ ~raised /\ raised' => strays' > 0 \/ Excused(channels')
  <1> DEFINE q == heldReplies
             all == Append(q, p)
  <1>1. /\ q \in Seq(Packet) /\ delayedPackets \in Seq(Packet) /\ sent \subseteq Packet
        /\ owed \in [Side -> Seq(Packet)] /\ {ordered, raised, timer} \subseteq BOOLEAN
        /\ channels \in Seq(Entry) /\ IdsFit(channels) /\ seen \subseteq Packet
    BY Typed DEF IInv, TypeOK, Entry
  <1>2. /\ p.from = "CLIENT" /\ MaySend(p) /\ sent' = sent \cup {p}
        /\ strays' = strays /\ strays \in Nat
        /\ config' = config /\ delayedPackets' = delayedPackets
    BY DEF BackendSends, IInv, TypeOK
  <1>3. /\ OpenersFit' /\ p \notin sent /\ sent' \subseteq Packet
        /\ p.msg = "open" => Opener(p.ch) = p.from
        /\ Lawful /\ MaySend(p) => ClosesFit'
    BY <1>2, SentMore
  <1>4. /\ Lawful => /\ Fits(Done, channels, seen) /\ LegalQueue(q, Done)
                     /\ LegalQueue(delayedPackets, Done)
        /\ ~raised => ordered /\ owed["CLIENT"] = q /\ owed["SERVER"] = delayedPackets
        /\ QueueFits(q, "CLIENT") /\ QueueFits(delayedPackets, "SERVER")
    BY DEF IInv, ParserInv, HeldOrForwarded
  <1>5. Lawful => LegalQueue(all, Done)
    <2>1. Lawful => Legal(p, Done \cup ToSet(q))
      BY <1>1, <1>2, MaySendLegal
    <2> QED
      BY <1>1, <1>4, <2>1, QueueGrows
  <1>6. p \notin ToSet(q) /\ p \notin ToSet(delayedPackets)
    BY <1>3, Apart
  <1>7. <<p>> \in Seq(Packet) /\ <<>> \in Seq(Packet) /\ "CLIENT" \in Side /\ Other("CLIENT") = "SERVER"
        /\ all = q \o <<p>>
    BY <1>1, Sides
  <1>8. ToSet(<<>>) = {} /\ ToSet(all) = ToSet(q) \cup {p}
    <2>1. ToSet(<<>>) = {}
      BY DEF ToSet
    <2> QED
      BY <1>1, <2>1, ItemOf
  <1>9. QueueFits(delayedPackets, "SERVER")'
    BY <1>2, <1>4 DEF QueueFits
  <1>10. /\ all \in Seq(Packet)
         /\ \A i \in DOMAIN all : all[i] \in sent \cup {p} /\ all[i].from = "CLIENT"
         /\ \A i, j \in DOMAIN all : all[i] = all[j] => i = j
    BY <1>1, <1>2, <1>3, <1>4, Held
  <1> HIDE DEF all
  <1>11. QueueFits(heldReplies, "CLIENT")'
    <2>1. heldReplies' \in {<<>>, all}
      <3>1. CASE ClientReady
        BY <3>1 DEF BackendSends, all
      <3>2. CASE ~ClientReady
        BY <3>2 DEF BackendSends, all
      <3> QED
        BY <3>1, <3>2
    <2>2. CASE heldReplies' = <<>>
      BY <2>2 DEF QueueFits
    <2>3. CASE heldReplies' = all
      BY <1>2, <1>10, <2>3 DEF QueueFits
    <2> QED
      BY <2>1, <2>2, <2>3
  <1>12. CASE ClientReady
    <2>1. PICK r : r = Parsed(all)
      OBVIOUS
    <2>2. /\ Apply(r) /\ Account("CLIENT", <<p>>, r.parsed)
          /\ heldReplies' = IF r.ok \/ heldReplies = <<>> THEN <<>> ELSE all
      BY <1>12, <2>1 DEF BackendSends, all
    <2>3. \A j \in DOMAIN all : all[j].msg = "open" => Opener(all[j].ch) = all[j].from
      BY <1>3, <1>10 DEF IInv, ParserInv, OpenersFit
    <2>4. /\ r \in Run /\ IdsFit(r.channels) /\ (r.ok => r.parsed = all)
          /\ Lawful /\ LegalQueue(all, Done) =>
                IF r.ok THEN Fits(Done \cup ToSet(all), r.channels, r.seen) ELSE Excused(r.channels)
      BY <1>10, <2>1, <2>3, Outcome
    <2>5. /\ channels' = r.channels /\ timer' = r.timer /\ seen' = r.seen
          /\ raised' = (raised \/ ~r.ok)
          /\ r.channels \in Seq(Entry) /\ r.timer \in BOOLEAN /\ r.seen \subseteq Packet
          /\ r.parsed \in Seq(Packet) /\ r.ok \in BOOLEAN
      BY <2>2, <2>4 DEF Apply, Run
    <2>6. /\ owed' \in [Side -> Seq(Packet)] /\ ordered' \in BOOLEAN
          /\ owed'["SERVER"] = owed["SERVER"]
          /\ r.parsed = owed["CLIENT"] \o <<p>> => ordered' = ordered /\ owed'["CLIENT"] = <<>>
      BY <1>1, <1>7, <2>2, <2>5, Accounted
    <2>7. heldReplies' \in Seq(Packet) /\ (r.ok => heldReplies' = <<>>)
      BY <1>7, <1>10, <2>2
    <2>8. ParserType'
      <3>1. IdsFit(channels)'
        BY <1>2, <2>4, <2>5 DEF IdsFit, Opener
      <3> QED
        BY <1>1, <1>2, <1>3, <2>5, <2>6, <2>7, <3>1 DEF ParserType
    <2>9. HeldOrForwarded'
      <3> SUFFICES ASSUME ~raised'
                   PROVE  /\ ordered' /\ owed'["SERVER"] = delayedPackets'
                          /\ owed'["CLIENT"] = heldReplies'
        BY DEF HeldOrForwarded
      <3>1. ~raised /\ r.ok
        BY <2>5
      <3>2. r.parsed = owed["CLIENT"] \o <<p>>
        BY <1>4, <1>7, <2>4, <3>1
      <3> QED
        BY <1>2, <1>4, <2>6, <2>7, <3>1, <3>2
    <2>10. ASSUME Lawful'
           PROVE  Fits(Done, channels, seen)' /\ LegalQueue(delayedPackets, Done)'
                  /\ LegalQueue(heldReplies, Done)'
      <3> DEFINE E == Done \cup ToSet(all)
      <3>1. r.ok /\ Lawful /\ heldReplies' = <<>>
        BY <1>2, <2>5, <2>7, <2>10 DEF Lawful
      <3>2. E = Done'
        <4>1. Done' = (sent \cup {p}) \ (ToSet(delayedPackets) \cup {})
          BY <1>2, <1>8, <3>1 DEF Done
        <4> QED
          BY <1>6, <1>8, <4>1, Apart DEF Done
      <3>3. Fits(E, r.channels, r.seen)
        BY <1>5, <2>4, <3>1
      <3>4. LegalQueue(delayedPackets, E)
        <4>1. \A i \in DOMAIN delayedPackets : delayedPackets[i].from = "SERVER"
          BY <1>4 DEF QueueFits
        <4>2. PICK A : A = ToSet(all)
          OBVIOUS
        <4>3. \A a \in A : a.from # "SERVER"
          BY <1>2, <1>8, <4>2, Apart
        <4>4. LegalQueue(delayedPackets, Done \cup A)
          BY <1>1, <1>4, <3>1, <4>1, <4>3, QueueStays
        <4> QED
          BY <4>2, <4>4
      <3>5. LegalQueue(<<>>, E)
        BY DEF LegalQueue
      <3> HIDE DEF E
      <3> QED
        BY <1>2, <2>5, <3>1, <3>2, <3>3, <3>4, <3>5, FitsNext, QueuesNext
    <2>11. ParserInv'
      BY <1>2, <1>3, <1>9, <1>11, <2>5, <2>10 DEF ParserInv, Lawful
    <2>12. ~raised /\ raised' => strays' > 0 \/ Excused(channels')
      <3>1. strays = 0 \/ strays > 0
        BY <1>2
      <3> QED
        BY <1>2, <1>5, <2>4, <2>5, <3>1 DEF Lawful
    <2> QED
      BY <2>8, <2>9, <2>11, <2>12
  <1>13. CASE ~ClientReady
    <2>1. /\ heldReplies' = all /\ Account("CLIENT", <<p>>, <<>>)
          /\ UNCHANGED <<back, timer, channels, seen, raised>>
      BY <1>13 DEF BackendSends, all
    <2>2. /\ owed' \in [Side -> Seq(Packet)] /\ ordered' \in BOOLEAN
          /\ owed'["SERVER"] = owed["SERVER"]
          /\ ordered' = ordered /\ owed'["CLIENT"] = owed["CLIENT"] \o <<p>>
      BY <1>1, <1>7, <2>1, Accounted
    <2>3. ParserType'
      <3>1. IdsFit(channels)'
        BY <1>1, <1>2, <2>1 DEF IdsFit, Opener
      <3> QED
        BY <1>1, <1>2, <1>3, <1>10, <2>1, <2>2, <3>1 DEF ParserType
    <2>4. HeldOrForwarded'
      BY <1>2, <1>4, <1>7, <2>1, <2>2 DEF HeldOrForwarded
    <2>5. ASSUME Lawful'
          PROVE  Fits(Done, channels, seen)' /\ LegalQueue(delayedPackets, Done)'
                 /\ LegalQueue(heldReplies, Done)'
      <3>1. PICK D : D = Done
        OBVIOUS
      <3>2. D = Done'
        BY <1>2, <1>3, <1>6, <1>8, <2>1, <3>1 DEF Done
      <3>3. Lawful
        BY <1>2, <2>1, <2>5 DEF Lawful
      <3> QED
        BY <1>2, <1>4, <1>5, <2>1, <3>1, <3>2, <3>3, FitsNext, QueuesNext
    <2>6. ParserInv'
      BY <1>2, <1>3, <1>9, <1>11, <2>1, <2>5 DEF ParserInv, Lawful
    <2> QED
      BY <2>1, <2>3, <2>4, <2>6
  <1> QED
    BY <1>12, <1>13

\* What a step may do to a VM that is returned as unused.
ReturnStep ==
    /\ (lease' = "reused" /\ lease # "reused") =>
            ~backendConnected \/ (raised /\ strays > 0)
    /\ (lease = "reused" /\ ~backendConnected) => ~backendConnected' \/ early

\* The rest of the type invariant.
ControlType ==
    /\ config \in Settings
    /\ front \in {"up", "closing", "lost"}
    /\ poolconn \in {"off", "connecting", "up", "failed", "closed"}
    /\ lease \in {"none", "asked", "held", "refused", "freed", "reused"}
    /\ back \in {"none", "connecting", "failed", "up", "closing", "lost"}
    /\ {frontendAuthenticated, backendConnected, vm_id, canAuth, authDone, loggedIn, early} \subseteq BOOLEAN
    /\ logins \in 0 .. MaxLogins /\ strays \in 0 .. MaxStrays

LEMMA TypeParts ==
    /\ TypeOK <=> ParserType /\ ControlType
    /\ TypeOK' <=> ParserType' /\ ControlType'
  BY DEF TypeOK, ParserType, ControlType, Entry, IdsFit, Opener

LEMMA LoginKeeps ==
    ASSUME ProxyAssumption, IInv, NEW ok \in BOOLEAN, Login(ok)
    PROVE  IInv' /\ (~raised /\ raised' => strays' > 0 \/ Excused(channels')) /\ ReturnStep
  <1>1. UNCHANGED <<config, front, poolVars, back, canAuth, heldReplies, sent, strays, early>>
    BY DEF Login
  <1>2. ControlType'
    <2>1. ControlType /\ logins' \in 0 .. MaxLogins /\ frontendAuthenticated' \in BOOLEAN
          /\ loggedIn' \in BOOLEAN
      BY TypeParts DEF IInv, ControlType, Login, ProxyAssumption
    <2>2. backendConnected' \in BOOLEAN /\ authDone' \in BOOLEAN
      BY <2>1 DEF Login, Authenticate, NotYet, ControlType
    <2> QED
      BY <1>1, <2>1, <2>2 DEF ControlType, poolVars
  <1>3. ReturnStep
    BY <1>1 DEF Login, ReturnStep, IInv, UsedInv, poolVars
  <1>4. CASE ok /\ HasClient /\ canAuth
    <2>1. Authenticate(Parsed(delayedPackets))
      BY <1>4 DEF Login
    <2>2. /\ ParserType' /\ HeldOrForwarded' /\ ParserInv'
          /\ ~raised /\ raised' => strays' > 0 \/ Excused(channels')
          /\ ~backendConnected /\ front # "lost" => authDone' \/ (raised' /\ strays > 0)
      BY <1>1, <2>1, AuthenticateKeeps
    <2>3. UsedInv'
      BY <1>1, <1>4, <2>1, <2>2 DEF IInv, UsedInv, Authenticate, Apply, HasClient, poolVars
    <2> QED
      BY <1>1, <1>2, <1>3, <2>2, <2>3, TypeParts DEF IInv, poolVars
  <1>5. CASE ~(ok /\ HasClient /\ canAuth)
    <2>1. NotYet
      BY <1>5 DEF Login
    <2>2. HeldOrForwarded' /\ ParserInv'
      BY <1>1, <2>1, Untouched DEF NotYet, parserVars, bufferVars
    <2>3. ParserType'
      BY <1>1, <2>1, TypeParts DEF IInv, ParserType, NotYet, parserVars, IdsFit, Opener
    <2>4. UsedInv'
      BY <1>1, <2>1 DEF IInv, UsedInv, NotYet, parserVars, HasClient, poolVars
    <2> QED
      BY <1>1, <1>2, <1>3, <2>1, <2>2, <2>3, <2>4, TypeParts DEF IInv, poolVars, NotYet, parserVars
  <1> QED
    BY <1>4, <1>5

LEMMA SecureKeeps ==
    ASSUME ProxyAssumption, IInv, connectionSecure
    PROVE  IInv' /\ (~raised /\ raised' => strays' > 0 \/ Excused(channels')) /\ ReturnStep
  <1>1. /\ UNCHANGED <<config, front, authVars, poolVars, heldReplies, sent, strays, early>>
        /\ back = "up" /\ canAuth' = TRUE /\ back' \in {"up", "closing"}
    BY DEF connectionSecure, NotYet
  <1>2. ControlType'
    <2>1. ControlType
      BY TypeParts DEF IInv
    <2>2. backendConnected' \in BOOLEAN /\ authDone' \in BOOLEAN
      BY <2>1 DEF connectionSecure, Authenticate, NotYet, ControlType
    <2> QED
      BY <1>1, <2>1, <2>2 DEF ControlType, poolVars, authVars
  <1>3. ReturnStep
    BY <1>1 DEF ReturnStep, IInv, UsedInv, poolVars
  <1>4. CASE frontendAuthenticated
    <2>1. Authenticate(Parsed(delayedPackets))
      BY <1>4 DEF connectionSecure
    <2>2. /\ ParserType' /\ HeldOrForwarded' /\ ParserInv'
          /\ ~raised /\ raised' => strays' > 0 \/ Excused(channels')
          /\ ~backendConnected /\ front # "lost" => authDone' \/ (raised' /\ strays > 0)
      BY <1>1, <2>1, AuthenticateKeeps
    <2>3. UsedInv'
      BY <1>1, <1>4, <2>1, <2>2 DEF IInv, UsedInv, Authenticate, Apply, HasClient, poolVars
    <2> QED
      BY <1>1, <1>2, <1>3, <2>2, <2>3, TypeParts DEF IInv, poolVars
  <1>5. CASE ~frontendAuthenticated
    <2>1. NotYet
      BY <1>5 DEF connectionSecure
    <2>2. HeldOrForwarded' /\ ParserInv'
      BY <1>1, <2>1, Untouched DEF NotYet, parserVars, bufferVars
    <2>3. ParserType'
      BY <1>1, <2>1, TypeParts DEF IInv, ParserType, NotYet, parserVars, IdsFit, Opener
    <2>4. UsedInv'
      BY <1>1, <2>1 DEF IInv, UsedInv, NotYet, parserVars, HasClient, poolVars
    <2> QED
      BY <1>1, <1>2, <1>3, <2>1, <2>2, <2>3, <2>4, TypeParts DEF IInv, poolVars, NotYet, parserVars
  <1> QED
    BY <1>4, <1>5

LEMMA ClientKeeps ==
    ASSUME ProxyAssumption, IInv, NEW p \in Packet, ClientSends(p)
    PROVE  IInv' /\ (~raised /\ raised' => strays' > 0 \/ Excused(channels')) /\ ReturnStep
  <1>1. /\ ParserType' /\ HeldOrForwarded' /\ ParserInv'
        /\ ~raised /\ raised' => strays' > 0 \/ Excused(channels')
    BY ClientSendsKeeps
  <1>2. /\ UNCHANGED <<config, authVars, poolVars, back, backendVars, heldReplies, early>>
        /\ front = "up" /\ front' \in {"up", "closing"}
        /\ p.from = "SERVER" /\ sent' = sent \cup {p}
        /\ strays' \in 0 .. MaxStrays /\ (strays' > 0 \/ (strays = 0 /\ MaySend(p)))
        /\ strays > 0 => strays' > 0
        /\ strays' = 0 => strays = 0
    BY DEF ClientSends, IInv, TypeOK, ProxyAssumption
  <1>3. ControlType'
    BY <1>2, TypeParts DEF IInv, ControlType, authVars, poolVars, backendVars
  <1>4. ASSUME ~backendConnected
        PROVE  /\ strays' = 0 => p.msg = "open"
               /\ channels' = channels /\ seen' = seen
    <2>0. strays' = 0 => strays = 0 /\ MaySend(p)
      BY <1>2
    <2>1. channels' = channels /\ seen' = seen
      BY <1>4 DEF ClientSends
    <2>2. seen = {} /\ (strays = 0 => \A x \in sent : x.msg = "open")
      BY <1>4 DEF IInv, UsedInv
    <2>3. \A from, ch : /\ M(from, "confirm", ch) \notin seen
                        /\ M(from, "open", ch) \notin seen
                        /\ strays = 0 => M(from, "confirm", ch) \notin sent
      BY <2>2 DEF M
    <2>4. MaySend(p) /\ p.msg \in {"confirm", "fail"} => M(Other(p.from), "open", p.ch) \in seen
      BY <1>2 DEF MaySend, M
    <2>5. MaySend(p) /\ p.msg \notin {"open", "confirm", "fail"} => Established(p.from, p.ch)
      BY <1>2 DEF MaySend
    <2>6. strays = 0 => ~Established(p.from, p.ch)
      BY <2>3 DEF Established, M
    <2> QED
      BY <2>0, <2>1, <2>3, <2>4, <2>5, <2>6
  <1>5. UsedInv'
    <2>1. raised => raised'
      BY DEF ClientSends, Apply
    <2>2. front # "lost" /\ front' # "lost" /\ lease' = lease /\ lease # "reused"
      BY <1>2 DEF IInv, UsedInv, poolVars
    <2> QED
      BY <1>2, <1>4, <2>1, <2>2 DEF IInv, UsedInv, HasClient, authVars, poolVars, backendVars
  <1>6. ReturnStep
    BY <1>2 DEF ReturnStep, IInv, UsedInv, poolVars, backendVars
  <1> QED
    BY <1>1, <1>2, <1>3, <1>5, <1>6, TypeParts DEF IInv, poolVars

LEMMA BackendKeeps ==
    ASSUME ProxyAssumption, IInv, NEW p \in Packet, BackendSends(p)
    PROVE  IInv' /\ (~raised /\ raised' => strays' > 0 \/ Excused(channels')) /\ ReturnStep
  <1>1. /\ ParserType' /\ HeldOrForwarded' /\ ParserInv'
        /\ ~raised /\ raised' => strays' > 0 \/ Excused(channels')
    BY BackendSendsKeeps
  <1>2. /\ UNCHANGED <<config, front, authVars, poolVars, backendVars, strays, early>>
        /\ back = "up" /\ back' \in {"up", "closing"} /\ backendConnected
    BY DEF BackendSends
  <1>3. ControlType'
    BY <1>2, TypeParts DEF IInv, ControlType, authVars, poolVars, backendVars
  <1>4. UsedInv'
    <2>1. raised => raised'
      BY DEF BackendSends, Apply
    <2> QED
      BY <1>2, <2>1 DEF IInv, UsedInv, HasClient, authVars, poolVars, backendVars
  <1>5. ReturnStep
    BY <1>2 DEF ReturnStep, poolVars, backendVars
  <1> QED
    BY <1>1, <1>2, <1>3, <1>4, <1>5, TypeParts DEF IInv, poolVars

\* The steps that concern the connections alone.
LEMMA ConnectionKeeps ==
    ASSUME ProxyAssumption, IInv,
           \/ Pool \/ BackendConnected \/ backend_connection_error
           \/ timeoutConnection \/ connectionLost \/ BackendLost
    PROVE  /\ IInv' /\ raised' = raised
           /\ ReturnStep
  <1>1. ControlType /\ ParserType
    BY TypeParts DEF IInv
  <1>2. /\ UNCHANGED <<config, sent, strays, bufferVars, channels, seen, owed, ordered, raised>>
        /\ UNCHANGED <<authVars, backendVars>> /\ timer' \in BOOLEAN
    <2>1. CASE Pool
      BY <1>1, <2>1 DEF ParserType, Pool, PoolConnected, pool_connection_error, PoolDecides,
            received_pool_data, PoolRefusal, parserVars
    <2>2. CASE BackendConnected
      BY <1>1, <2>2 DEF BackendConnected, BackendTimer, parserVars
    <2>3. CASE backend_connection_error
      BY <1>1, <2>3 DEF ParserType, backend_connection_error, parserVars
    <2>4. CASE timeoutConnection
      BY <1>1, <2>4 DEF timeoutConnection, parserVars
    <2>5. CASE connectionLost
      BY <1>1, <2>5 DEF connectionLost, parserVars
    <2>6. CASE BackendLost
      BY <1>1, <2>6 DEF ParserType, BackendLost, parserVars
    <2> QED
      BY <2>1, <2>2, <2>3, <2>4, <2>5, <2>6
  <1>3. HeldOrForwarded' /\ ParserInv'
    BY <1>2, Untouched
  <1>4. ParserType'
    BY <1>1, <1>2 DEF ParserType, IdsFit, Opener, bufferVars
  <1>5. ControlType' /\ UsedInv' /\ ReturnStep
    <2>0. UsedInv /\ HasClient \in BOOLEAN
      BY DEF IInv, HasClient
    <2> USE DEF ControlType, UsedInv, ReturnStep, HasClient, authVars, backendVars, bufferVars, poolVars
    <2>1. CASE PoolConnected
      BY <1>1, <1>2, <2>0, <2>1 DEF PoolConnected
    <2>2. CASE pool_connection_error
      BY <1>1, <1>2, <2>0, <2>2 DEF LoseFront, pool_connection_error
    <2>3. CASE PoolDecides
      BY <1>1, <1>2, <2>0, <2>3 DEF PoolDecides
    <2>4. CASE received_pool_data
      BY <1>1, <1>2, <2>0, <2>4 DEF received_pool_data
    <2>5. CASE PoolRefusal
      BY <1>1, <1>2, <2>0, <2>5 DEF LoseFront, PoolRefusal
    <2>6. CASE BackendConnected
      BY <1>1, <1>2, <2>0, <2>6 DEF BackendConnected
    <2>7. CASE backend_connection_error
      BY <1>1, <1>2, <2>0, <2>7 DEF LoseFront, backend_connection_error
    <2>8. CASE timeoutConnection
      BY <1>1, <1>2, <2>0, <2>8 DEF LoseFront, LoseBack, timeoutConnection
    <2>9. CASE connectionLost
      BY <1>1, <1>2, <2>0, <2>9 DEF LoseBack, VmDirty, connectionLost
    <2>10. CASE BackendLost
      BY <1>1, <1>2, <2>0, <2>10 DEF LoseFront, BackendLost
    <2> QED
      BY <2>1, <2>2, <2>3, <2>4, <2>5, <2>6, <2>7, <2>8, <2>9, <2>10 DEF Pool
  <1> QED
    BY <1>2, <1>3, <1>4, <1>5, TypeParts DEF IInv

LEMMA InitKeeps == ASSUME ProxyAssumption, Init PROVE IInv
  <1>1. <<>> \in Seq(Packet) /\ <<>> \in Seq(Entry) /\ DOMAIN <<>> = {} /\ ToSet(<<>>) = {}
    BY DEF ToSet
  <1>2. TypeOK
    <2>1. ParserType
      BY <1>1 DEF Init, ParserType, IdsFit
    <2>2. ControlType
      <3>1. 0 \in 0 .. MaxLogins
        BY DEF ProxyAssumption
      <3>3. 0 \in 0 .. MaxStrays
        BY DEF ProxyAssumption
      <3>2. poolconn \in {"connecting", "off"} /\ back \in {"none", "connecting"}
        BY DEF Init
      <3> QED
        BY <3>1, <3>2, <3>3 DEF Init, ControlType
    <2> QED
      BY <2>1, <2>2, TypeParts
  <1>3. HeldOrForwarded
    BY Sides DEF Init, HeldOrForwarded
  <1>4. ParserInv
    <2>1. Done = {}
      BY DEF Init, Done
    <2>2. Fits({}, <<>>, {})
      BY <1>1 DEF Fits, DoneFits, TableFits, SeenFits, InTable
    <2>3. LegalQueue(<<>>, {}) /\ QueueFits(<<>>, "SERVER") /\ QueueFits(<<>>, "CLIENT")
      BY <1>1 DEF LegalQueue, QueueFits
    <2>4. OpenersFit /\ ClosesFit
      BY DEF Init, OpenersFit, ClosesFit
    <2> QED
      BY <2>1, <2>2, <2>3, <2>4 DEF Init, ParserInv
  <1>5. UsedInv
    BY DEF Init, UsedInv, HasClient
  <1> QED
    BY <1>2, <1>3, <1>4, <1>5 DEF IInv

LEMMA NextKeeps ==
    ASSUME ProxyAssumption, IInv, [Next]_vars
    PROVE  /\ IInv' /\ (~raised /\ raised' => strays' > 0 \/ Excused(channels'))
           /\ ReturnStep
  <1>1. ASSUME NEW ok \in BOOLEAN, Login(ok)
        PROVE  IInv' /\ (~raised /\ raised' => strays' > 0 \/ Excused(channels')) /\ ReturnStep
    BY <1>1, LoginKeeps
  <1>2. CASE connectionSecure
    BY <1>2, SecureKeeps
  <1>3. ASSUME NEW p \in Packet, ClientSends(p) \/ BackendSends(p)
        PROVE  IInv' /\ (~raised /\ raised' => strays' > 0 \/ Excused(channels')) /\ ReturnStep
    BY <1>3, ClientKeeps, BackendKeeps
  <1>4. CASE \/ Pool \/ BackendConnected \/ backend_connection_error
             \/ timeoutConnection \/ connectionLost \/ BackendLost
    BY <1>4, ConnectionKeeps
  <1>5. CASE UNCHANGED vars
    <2>1. UNCHANGED <<config, sent, strays, bufferVars, channels, seen, owed, ordered, raised>>
          /\ UNCHANGED <<timer, front, authVars, poolVars, back, backendVars, early>>
      BY <1>5 DEF vars, parserVars
    <2>2. HeldOrForwarded' /\ ParserInv'
      BY <2>1, Untouched
    <2>3. ParserType' /\ ControlType'
      BY <2>1, TypeParts DEF IInv, ParserType, ControlType, IdsFit, Opener, authVars, poolVars,
            backendVars, bufferVars
    <2>4. UsedInv'
      BY <2>1 DEF IInv, UsedInv, HasClient, poolVars, backendVars, bufferVars
    <2> QED
      BY <2>1, <2>2, <2>3, <2>4, TypeParts DEF IInv, ReturnStep, poolVars, backendVars
  <1> QED
    BY <1>1, <1>2, <1>3, <1>4, <1>5 DEF Next

-----------------------------------------------------------------------------

LEMMA Inductive == Spec => []IInv
  <1>1. Init => IInv
    BY InitKeeps, ProxyAssumption
  <1>2. IInv /\ [Next]_vars => IInv'
    BY NextKeeps, ProxyAssumption
  <1> QED
    BY <1>1, <1>2, PTL DEF Spec

\* The variables of the session and the handler's table have their types, and as
\* long as the handler has not raised every packet of either peer was parsed once
\* and in order, or is still in its buffer (packet_buffer, parse_num_packet).
THEOREM SessionHoldsPackets == Spec => []ProxyInv
  <1>1. IInv => ProxyInv
    BY DEF IInv, ProxyInv
  <1> QED
    BY <1>1, Inductive, PTL

\* get_channel raises on a peer that keeps to the protocol only while a channel
\* is not answered, or after the client is gone.
THEOREM HandlerRaises == Spec => RaisesOnlyWhileOpening
  <1>1. IInv /\ [Next]_vars =>
           [(~raised /\ raised') => \/ front = "lost"
                                    \/ strays' > 0
                                    \/ \E i \in DOMAIN channels' : channels'[i].ids # Side]_vars
    BY NextKeeps, ProxyAssumption DEF Excused
  <1> QED
    BY <1>1, Inductive, PTL DEF Spec, RaisesOnlyWhileOpening

\* connectionLost returns a VM as unused only if no authentication was sent to it,
\* or the flush raised on a packet outside the protocol, and none is sent to it
\* afterwards unless the client had left while the backend was connecting.
THEOREM VmReturnedAsUsed == Spec => ReturnedAsUsed
  <1>1. IInv /\ [Next]_vars => [ReturnStep]_vars
    BY NextKeeps, ProxyAssumption
  <1> QED
    BY <1>1, Inductive, PTL DEF Spec, ReturnedAsUsed, ReturnStep

=============================================================================
