----------------------------- MODULE EvidenceProofs -----------------------------
(* Theorems about EvidenceStore, for every set of sessions, files, contents *)
(* and inodes, and for files and sessions of every length.                  *)
EXTENDS EvidenceStore, FiniteSetTheorems, WellFoundedInduction, TLAPS

Tags == {"sha", "redir", "sftp", "stdin", "art"}

\* A directory: every file has an inode of its own, and a temporary file of a
\* download is named for it.
DirOK(d) ==
    /\ \A n \in DOMAIN d : /\ n[1] \in Tags /\ d[n] \in Inodes
                           /\ n[1] = "art" => n[2] = d[n]
    /\ \A m, n \in DOMAIN d : d[m] = d[n] => m = n

Content == Chunks \cup {"hole"}
Contents == {c \in Seq(Content) : Len(c) <= MaxLen}
DataOK == data \in [Inodes -> Contents]

\* Files open by SFTP, in sessions that last.
HandleOK ==
    /\ DOMAIN handle = Sessions
    /\ \A s \in Sessions : handle[s] # <<>> =>
          /\ s \in open /\ kind[s] = "sftp"
          /\ DOMAIN handle[s] = {"name", "inode", "pos"}
          /\ handle[s].name[1] = "sftp" /\ handle[s].inode \in Inodes /\ handle[s].pos \in Nat

\* What a client writes to by SFTP has the name it was opened by, or a hash that
\* is known to be shared.
HeldNamed ==
    \A n \in DOMAIN disk : disk[n] \in Held(handle) => n[1] = "sftp" \/ (IsSha(n) /\ n \in taken)

\* No two downloads have a temporary file in common.
ArtOK ==
    /\ DOMAIN art = Sessions
    /\ \A s \in Sessions : art[s] # <<>> => art[s] \in DOMAIN disk /\ art[s][1] = "art"
    /\ \A s, t \in Sessions : art[s] # <<>> /\ art[s] = art[t] => s = t

\* A redirection goes to a file of this session, or to a hash known to be reused.
\* One that the current pipe does not know is not going to be recorded.
Target(s, n, hashes) == (n[1] = "redir" /\ n[2] = s) \/ (IsSha(n) /\ n \in hashes)
TargetOK ==
    /\ DOMAIN running = Sessions /\ DOMAIN redir = Sessions /\ DOMAIN pp = Sessions
    /\ <<>> \notin unrecorded
    /\ \A s \in Sessions :
          /\ running[s] # <<>> => Target(s, running[s], taken)
          /\ pp[s] = <<>> \/ pp[s] = running[s]
          /\ running[s] # <<>> /\ running[s][1] = "redir" =>
                pp[s] = running[s] \/ running[s] \in unrecorded
          /\ IsFiniteSet(redir[s])
          /\ \A n \in redir[s] : Target(s, n, taken)
          /\ redir[s] # {} => s \in open
          /\ running[s] # <<>> \/ redir[s] # {} => kind[s] # "sftp"

\* What a virtual file of a shell can be backed by.
RealOK ==
    /\ DOMAIN real = Sessions /\ \A s \in Sessions : DOMAIN real[s] = Files
    /\ \A s \in Shells, f \in Files :
          \/ real[s][f] \in {Gone, Plain} \/ IsSha(real[s][f])
          \/ real[s][f] # <<>> /\ real[s][f][1] = "redir" /\ real[s][f][2] = s

\* Whose a temporary file is.
TempsOwned ==
    \A n \in DOMAIN disk :
       /\ n[1] = "redir" => \/ n \in unrecorded
                           \/ \E s \in Sessions : (running[s] # <<>> /\ n = running[s]) \/ n \in redir[s]
       /\ n[1] = "stdin" => n[2] \in Shells \cap open /\ n = StdinName(n[2])
       /\ n[1] = "sftp" => \E s \in Sessions : handle[s] # <<>> /\ handle[s].name = n

\* The inductive invariant.
EvidenceIInv ==
    /\ open \subseteq Sessions
    /\ DirOK(disk) /\ DataOK /\ HandleOK /\ HeldNamed /\ ArtOK /\ TargetOK /\ RealOK
    /\ TempsOwned /\ HashNamesContent /\ BackingThere

-----------------------------------------------------------------------------
(* Names and directories *)

LEMMA Names ==
    ASSUME NEW x, NEW y, NEW z
    PROVE  /\ Sha(x)[1] = "sha" /\ Sha(x)[2] = x /\ IsSha(Sha(x))
           /\ RedirName(x, y)[1] = "redir" /\ RedirName(x, y)[2] = x
           /\ SftpName(x)[1] = "sftp"
           /\ StdinName(x)[1] = "stdin" /\ StdinName(x)[2] = x
           /\ ArtName(x)[1] = "art" /\ ArtName(x)[2] = x /\ ArtName(x) # <<>>
           /\ Gone[1] = "gone" /\ Plain[1] = "plain"
  BY DEF Sha, IsSha, RedirName, SftpName, StdinName, ArtName, Gone, Plain

LEMMA Tagged ==
    ASSUME NEW n
    PROVE  /\ n[1] \in {"redir", "sftp", "stdin", "art", "gone", "plain"} => ~IsSha(n)
           /\ IsSha(n) => n[1] = "sha"
           /\ n[1] \in Tags => n # Gone /\ n # Plain
  BY DEF IsSha, Tags, Gone, Plain

\* What Update leaves on the disk of the host.
LEMMA Updated ==
    ASSUME NEW d, NEW dt \in [Inodes -> Contents], Update(d, dt)
    PROVE  /\ disk' = d /\ DataOK'
           /\ \A i \in Inodes : i \in Used(d) \cup Held(handle') => data'[i] = dt[i]
  <1>1. <<>> \in Contents
    BY EvidenceAssumption DEF EvidenceAssumption, Contents
  <1> QED
    BY <1>1 DEF Update, DataOK

LEMMA WithNew ==
    ASSUME NEW d, DirOK(d), NEW n, n[1] \in Tags, NEW i \in Inodes, i \notin Used(d),
           n[1] = "art" => n[2] = i, n \notin DOMAIN d
    PROVE  /\ DirOK(With(d, n, i))
           /\ DOMAIN With(d, n, i) = DOMAIN d \cup {n}
           /\ With(d, n, i)[n] = i
           /\ \A m \in DOMAIN d : With(d, n, i)[m] = d[m]
  BY DEF DirOK, With, Used

LEMMA WithArt ==
    ASSUME NEW d, DirOK(d), NEW i \in Inodes, i \notin Used(d), ArtName(i) \notin DOMAIN d
    PROVE  /\ DirOK(With(d, ArtName(i), i))
           /\ DOMAIN With(d, ArtName(i), i) = DOMAIN d \cup {ArtName(i)}
           /\ With(d, ArtName(i), i)[ArtName(i)] = i
           /\ \A m \in DOMAIN d : With(d, ArtName(i), i)[m] = d[m]
  <1>1. PICK n : n = ArtName(i)
    OBVIOUS
  <1>2. n[1] \in Tags /\ n[2] = i /\ n \notin DOMAIN d
    BY <1>1, Names DEF Tags
  <1>3. /\ DirOK(With(d, n, i))
        /\ DOMAIN With(d, n, i) = DOMAIN d \cup {n}
        /\ With(d, n, i)[n] = i
        /\ \A m \in DOMAIN d : With(d, n, i)[m] = d[m]
    BY <1>2, WithNew
  <1> QED
    BY <1>1, <1>3

LEMMA WithoutOne ==
    ASSUME NEW d, DirOK(d), NEW n
    PROVE  /\ DirOK(Without(d, n))
           /\ DOMAIN Without(d, n) = DOMAIN d \ {n}
           /\ \A m \in DOMAIN d \ {n} : Without(d, n)[m] = d[m]
  BY DEF DirOK, Without

LEMMA FreshIsNew ==
    ASSUME CanCreate
    PROVE  FreshInode \in Inodes /\ FreshInode \notin Used(disk) /\ FreshInode \notin Held(handle)
  <1>1. PICK i : i \in Inodes \ Live
    BY DEF CanCreate
  <1>2. FreshInode \in Inodes \ Live
    BY <1>1 DEF FreshInode
  <1> QED
    BY <1>2 DEF Live

-----------------------------------------------------------------------------
(* Collecting files under their hashes *)

\* Directory e has come from d by collecting the files in gone: each of them was
\* removed or has got the hash of what it holds for a name.
Moved(d, e, gone) ==
    /\ DirOK(e)
    /\ \A n \in DOMAIN d \ gone : n \in DOMAIN e /\ e[n] = d[n]
    /\ \A n \in DOMAIN e :
          \/ n \in DOMAIN d /\ e[n] = d[n]
          \/ IsSha(n) /\ data[e[n]] = n[2] /\ \E m \in gone \cap DOMAIN d : e[n] = d[m]
    /\ \A n \in gone : ~IsSha(n) => n \notin DOMAIN e

LEMMA MovedNothing ==
    ASSUME NEW d, DirOK(d)
    PROVE  Moved(d, d, {})
  BY DEF Moved

LEMMA RemovalMoves ==
    ASSUME NEW d, DirOK(d), NEW name
    PROVE  Moved(d, Without(d, name), {name})
  <1> DEFINE w == Without(d, name)
  <1>1. DirOK(w) /\ DOMAIN w = DOMAIN d \ {name} /\ \A m \in DOMAIN d \ {name} : w[m] = d[m]
    BY WithoutOne
  <1> HIDE DEF w
  <1>2. Moved(d, w, {name})
    BY <1>1 DEF Moved
  <1> QED
    BY <1>2 DEF w

LEMMA StoredMoves ==
    ASSUME NEW d, DirOK(d), NEW tmp \in DOMAIN d
    PROVE  Moved(d, Stored(d, tmp), {tmp})
  <1> DEFINE name == Sha(data[d[tmp]])
  <1>1. IsSha(name) /\ name[1] = "sha" /\ name[2] = data[d[tmp]]
    BY Names
  <1>2. CASE name \in DOMAIN d
    <2>1. Stored(d, tmp) = Without(d, tmp)
      BY <1>2 DEF Stored
    <2> QED
      BY <2>1, RemovalMoves
  <1>3. CASE name \notin DOMAIN d
    <2> DEFINE w == Without(d, tmp)
    <2>1. Stored(d, tmp) = With(w, name, d[tmp])
      BY <1>3 DEF Stored
    <2>2. DirOK(w) /\ DOMAIN w = DOMAIN d \ {tmp} /\ \A m \in DOMAIN d \ {tmp} : w[m] = d[m]
      BY WithoutOne
    <2>3. d[tmp] \in Inodes /\ d[tmp] \notin Used(w)
      BY <2>2 DEF DirOK, Used
    <2>4. name \notin DOMAIN w /\ name[1] \in Tags /\ name[1] # "art"
      BY <1>1, <1>3, <2>2 DEF Tags
    <2> HIDE DEF w, name
    <2>5. /\ DirOK(With(w, name, d[tmp]))
          /\ DOMAIN With(w, name, d[tmp]) = DOMAIN w \cup {name}
          /\ With(w, name, d[tmp])[name] = d[tmp]
          /\ \A m \in DOMAIN w : With(w, name, d[tmp])[m] = w[m]
      BY <2>2, <2>3, <2>4, WithNew
    <2> QED
      BY <1>1, <1>3, <2>1, <2>2, <2>5 DEF Moved
  <1> QED
    BY <1>2, <1>3

LEMMA CollectMoves ==
    ASSUME NEW d, DirOK(d), NEW name
    PROVE  Moved(d, CollectRedir(d, name), {name})
  <1>1. CASE name \notin DOMAIN d
    BY <1>1 DEF CollectRedir, Moved
  <1>2. CASE name \in DOMAIN d /\ data[d[name]] = <<>>
    BY <1>2, RemovalMoves DEF CollectRedir
  <1>3. CASE name \in DOMAIN d /\ data[d[name]] # <<>>
    BY <1>3, StoredMoves DEF CollectRedir
  <1> QED
    BY <1>1, <1>2, <1>3

LEMMA MovedTwice ==
    ASSUME NEW c, NEW d, NEW e, NEW S, NEW T, Moved(c, d, S), Moved(d, e, T)
    PROVE  Moved(c, e, S \cup T)
  <1>1. DirOK(e)
    BY DEF Moved
  <1>2. ASSUME NEW n \in DOMAIN c \ (S \cup T) PROVE n \in DOMAIN e /\ e[n] = c[n]
    BY DEF Moved
  <1>3. ASSUME NEW n \in DOMAIN e
        PROVE  \/ n \in DOMAIN c /\ e[n] = c[n]
               \/ /\ IsSha(n) /\ data[e[n]] = n[2]
                  /\ \E m \in (S \cup T) \cap DOMAIN c : e[n] = c[m]
    <2>1. CASE n \in DOMAIN d /\ e[n] = d[n]
      BY <2>1 DEF Moved
    <2>2. ASSUME IsSha(n), data[e[n]] = n[2], NEW m \in T \cap DOMAIN d, e[n] = d[m]
          PROVE  \E k \in (S \cup T) \cap DOMAIN c : e[n] = c[k]
      BY <2>2 DEF Moved
    <2> QED
      BY <2>1, <2>2 DEF Moved
  <1>4. ASSUME NEW n \in S \cup T, ~IsSha(n) PROVE n \notin DOMAIN e
    BY <1>4 DEF Moved
  <1> QED
    BY <1>1, <1>2, <1>3, <1>4 DEF Moved

\* A set of numbers that is not empty has a least one.
LEMMA LeastNumber ==
    ASSUME NEW T \in SUBSET Nat, T # {}
    PROVE  \E n \in T : \A m \in T : n <= m
  <1>1. PICK R : /\ IsWellFoundedOn(R, Nat)
                 /\ \A m, n \in Nat : m < n => <<m, n>> \in R
    BY NatLessThanWellFounded DEF OpToRel
  <1>2. T \subseteq Nat
    OBVIOUS
  <1>3. \E n \in T : \A m \in T : ~(<<m, n>> \in R)
    <2>1. IsWellFoundedOn(R, Nat)
      BY <1>1
    <2> HIDE <1>1
    <2> QED
      BY <1>2, <2>1, WFMin
  <1>4. PICK n \in T : \A m \in T : ~(<<m, n>> \in R)
    BY <1>3
  <1>5. ASSUME NEW m \in T PROVE n <= m
    <2>1. m \in Nat /\ n \in Nat /\ ~(m < n)
      BY <1>1, <1>4
    <2> QED
      BY <2>1
  <1> QED
    BY <1>5

\* One file after another, whatever the order.
LEMMA CollectedMoves ==
    ASSUME NEW S, NEW k \in Nat, NEW order \in [1 .. k -> S], NEW d, DirOK(d),
           \A n \in S : \E i \in 1 .. k : order[i] = n
    PROVE  Moved(d, Collected(d, order), S)
  <1> DEFINE Rec(n, g) == g = [i \in 0 .. n |-> IF i = 0 THEN d ELSE CollectRedir(g[i - 1], order[i])]
  <1>1. Len(order) = k
    OBVIOUS
  <1>2. \A n \in 0 .. k : \E g : Rec(n, g)
    <2> DEFINE Bad == {n \in 0 .. k : ~\E g : Rec(n, g)}
    <2> SUFFICES ASSUME Bad # {} PROVE FALSE
      OBVIOUS
    <2>1. PICK n \in Bad : \A m \in Bad : n <= m
      <3>1. Bad \in SUBSET Nat
        OBVIOUS
      <3> QED
        BY <3>1, LeastNumber
    <2>2. CASE n = 0
      <3>1. Rec(0, [i \in 0 .. 0 |-> d])
        OBVIOUS
      <3> QED
        BY <2>1, <2>2, <3>1
    <2>3. CASE n # 0
      <3>0. n \in 1 .. k /\ n - 1 \in 0 .. k /\ ~(n <= n - 1)
        BY <2>3
      <3>1. n - 1 \in 0 .. k /\ n - 1 \notin Bad
        <4> HIDE DEF Bad
        <4> QED
          BY <2>1, <3>0
      <3>2. PICK g : Rec(n - 1, g)
        BY <3>1
      <3> DEFINE h == [i \in 0 .. n |-> IF i = n THEN CollectRedir(g[n - 1], order[n]) ELSE g[i]]
      <3>3. ASSUME NEW i \in 0 .. n
            PROVE  h[i] = IF i = 0 THEN d ELSE CollectRedir(h[i - 1], order[i])
        BY <2>1, <2>3, <3>2
      <3>4. Rec(n, h)
        BY <3>3
      <3> QED
        BY <2>1, <3>4
    <2> QED
      BY <2>2, <2>3
  <1>3. PICK g : Rec(k, g) /\ Collected(d, order) = g[k]
    <2>1. \E g : Rec(k, g)
      BY <1>2
    <2> QED
      BY <1>1, <2>1 DEF Collected
  <1>4. \A n \in 0 .. k : Moved(d, g[n], {order[i] : i \in 1 .. n})
    <2> DEFINE Bad == {n \in 0 .. k : ~Moved(d, g[n], {order[i] : i \in 1 .. n})}
    <2> SUFFICES ASSUME Bad # {} PROVE FALSE
      OBVIOUS
    <2>1. PICK n \in Bad : \A m \in Bad : n <= m
      <3>1. Bad \in SUBSET Nat
        OBVIOUS
      <3> QED
        BY <3>1, LeastNumber
    <2>2. CASE n = 0
      <3>1. g[0] = d /\ {order[i] : i \in 1 .. 0} = {}
        BY <1>3
      <3> QED
        BY <2>1, <2>2, <3>1, MovedNothing
    <2>3. CASE n # 0
      <3>0. n \in 1 .. k /\ n - 1 \in 0 .. k /\ ~(n <= n - 1)
        BY <2>3
      <3>1. n - 1 \in 0 .. k /\ n - 1 \notin Bad
        <4> HIDE DEF Bad
        <4> QED
          BY <2>1, <3>0
      <3>2. Moved(d, g[n - 1], {order[i] : i \in 1 .. n - 1})
        BY <3>1
      <3>3. g[n] = CollectRedir(g[n - 1], order[n])
        BY <1>3, <2>1, <2>3
      <3>4. Moved(g[n - 1], g[n], {order[n]})
        BY <3>2, <3>3, CollectMoves DEF Moved
      <3>5. {order[i] : i \in 1 .. n - 1} \cup {order[n]} = {order[i] : i \in 1 .. n}
        BY <2>1, <2>3
      <3>6. Moved(d, g[n], {order[i] : i \in 1 .. n - 1} \cup {order[n]})
        BY <3>2, <3>4, MovedTwice
      <3> QED
        BY <2>1, <3>5, <3>6
    <2> QED
      BY <2>2, <2>3
  <1>5. Moved(d, g[k], {order[i] : i \in 1 .. k})
    <2>1. k \in 0 .. k
      OBVIOUS
    <2> QED
      BY <1>4, <2>1
  <1>6. {order[i] : i \in 1 .. k} = S
    OBVIOUS
  <1> QED
    BY <1>3, <1>5, <1>6

-----------------------------------------------------------------------------
(* What a step does to the directory *)

\* The files in gone are collected or removed, those in new are created, and
\* what is stored under a hash is not written to unless it is known to be.
DirStep(gone, new) ==
    /\ DirOK(disk') /\ DataOK'
    /\ \A n \in DOMAIN disk \ gone : n \in DOMAIN disk' /\ disk'[n] = disk[n]
    /\ \A n \in DOMAIN disk' :
          \/ /\ n \in DOMAIN disk /\ disk'[n] = disk[n]
             /\ data'[disk[n]] = data[disk[n]] \/ ~IsSha(n) \/ n \in taken'
          \/ /\ n \in new \ DOMAIN disk /\ disk'[n] \notin Held(handle)
             /\ IsSha(n) => data'[disk'[n]] = n[2] \/ n \in taken'
          \/ /\ IsSha(n) /\ data'[disk'[n]] = n[2]
             /\ \E m \in gone \cap DOMAIN disk : disk'[n] = disk[m]
    /\ \A n \in gone : ~IsSha(n) => n \notin DOMAIN disk'
    /\ taken \subseteq taken'

LEMMA SameDir ==
    ASSUME DirOK(disk), DataOK, UNCHANGED <<disk, data>>, taken \subseteq taken'
    PROVE  DirStep({}, {})
  BY DEF DirStep, DataOK

LEMMA MoveStep ==
    ASSUME DataOK, NEW d, NEW gone, Moved(disk, d, gone), Update(d, data), taken \subseteq taken'
    PROVE  DirStep(gone, {})
  <1>1. /\ disk' = d /\ DataOK'
        /\ \A i \in Inodes : i \in Used(d) => data'[i] = data[i]
    BY Updated DEF DataOK
  <1>2. \A n \in DOMAIN d : data'[d[n]] = data[d[n]]
    BY <1>1 DEF Moved, DirOK, Used
  <1> QED
    BY <1>1, <1>2 DEF Moved, DirStep

LEMMA AppendStep ==
    ASSUME DirOK(disk), DataOK, UNCHANGED handle, taken \subseteq taken',
           NEW name, name[1] \in Tags \ {"art"}, NEW chunks \in Contents,
           Appends(name, chunks),
           name \in DOMAIN disk => data[disk[name]] \o chunks \in Contents,
           IsSha(name) => \/ name \in taken'
                          \/ name \notin DOMAIN disk /\ chunks = name[2]
    PROVE  DirStep({}, {name}) /\ name \in DOMAIN disk'
  <1>1. CASE name \in DOMAIN disk
    <2> DEFINE dt == [data EXCEPT ![disk[name]] = @ \o chunks]
    <2>1. disk[name] \in Inodes /\ dt \in [Inodes -> Contents]
      BY <1>1 DEF DirOK, DataOK
    <2>2. Update(disk, dt)
      BY <1>1 DEF Appends
    <2>3. \A n \in DOMAIN disk : n # name => dt[disk[n]] = data[disk[n]]
      BY <1>1, <2>1 DEF DirOK, DataOK
    <2> HIDE DEF dt
    <2>4. /\ disk' = disk /\ DataOK'
          /\ \A i \in Inodes : i \in Used(disk) => data'[i] = dt[i]
      BY <2>1, <2>2, Updated
    <2>5. \A n \in DOMAIN disk : data'[disk[n]] = dt[disk[n]]
      BY <2>4 DEF DirOK, Used
    <2> QED
      BY <1>1, <2>3, <2>4, <2>5 DEF DirStep
  <1>2. CASE name \notin DOMAIN disk
    <2> DEFINE i == FreshInode
               d == With(disk, name, i)
               dt == [data EXCEPT ![i] = chunks]
    <2>1. i \in Inodes /\ i \notin Used(disk) /\ i \notin Held(handle) /\ Update(d, dt)
      BY <1>2, FreshIsNew DEF Appends
    <2>2. /\ dt \in [Inodes -> Contents] /\ dt[i] = chunks
          /\ \A n \in DOMAIN disk : dt[disk[n]] = data[disk[n]]
      BY <2>1 DEF DirOK, DataOK, Used
    <2> HIDE DEF dt, d, i
    <2>3. /\ DirOK(d) /\ DOMAIN d = DOMAIN disk \cup {name} /\ d[name] = i
          /\ \A m \in DOMAIN disk : d[m] = disk[m]
      BY <1>2, <2>1, WithNew DEF d
    <2>4. /\ disk' = d /\ DataOK'
          /\ \A j \in Inodes : j \in Used(d) => data'[j] = dt[j]
      BY <2>1, <2>2, Updated
    <2>5. \A n \in DOMAIN d : data'[d[n]] = dt[d[n]]
      BY <2>3, <2>4 DEF DirOK, Used
    <2> QED
      BY <1>2, <2>1, <2>2, <2>3, <2>4, <2>5 DEF DirStep
  <1> QED
    BY <1>1, <1>2

\* What a step that leaves the SFTP files alone preserves.
LEMMA HashKept ==
    ASSUME HashNamesContent, NEW gone, NEW new, DirStep(gone, new)
    PROVE  HashNamesContent'
  BY DEF DirStep, HashNamesContent

LEMMA StoredKept ==
    ASSUME NEW gone, NEW new, DirStep(gone, new), \A n \in gone : IsSha(n) => n \in taken
    PROVE  \A n \in DOMAIN disk : IsSha(n) /\ n \notin taken => n \in DOMAIN disk'
  BY DEF DirStep

LEMMA HeldKept ==
    ASSUME HandleOK, HeldNamed, UNCHANGED <<handle, kind>>, NEW gone, NEW new, DirStep(gone, new),
           \A n \in gone : n[1] # "sftp",
           (\A n \in gone : ~IsSha(n)) \/ WrittenTo \subseteq taken',
           \A s \in open : s \in open' \/ kind[s] # "sftp"
    PROVE  HandleOK' /\ HeldNamed'
  <1>1. HandleOK'
    BY DEF HandleOK
  <1>2. ASSUME NEW n \in DOMAIN disk', disk'[n] \in Held(handle')
        PROVE  n[1] = "sftp" \/ (IsSha(n) /\ n \in taken')
    <2>1. disk'[n] \in Held(handle)
      BY <1>2
    <2>2. CASE n \in DOMAIN disk /\ disk'[n] = disk[n]
      BY <2>1, <2>2 DEF DirStep, HeldNamed
    <2>3. ASSUME IsSha(n), NEW m \in gone \cap DOMAIN disk, disk'[n] = disk[m]
          PROVE  n \in taken'
      BY <1>2, <2>1, <2>3 DEF HeldNamed, WrittenTo
    <2> QED
      BY <2>1, <2>2, <2>3 DEF DirStep
  <1> QED
    BY <1>1, <1>2 DEF HeldNamed

LEMMA ArtKept ==
    ASSUME ArtOK, UNCHANGED art, NEW gone, NEW new, DirStep(gone, new),
           \A s \in Sessions : art[s] # <<>> => art[s] \notin gone
    PROVE  ArtOK'
  BY DEF ArtOK, DirStep

LEMMA TargetKept ==
    ASSUME TargetOK, UNCHANGED <<kind, running, redir, open, pp, unrecorded>>, taken \subseteq taken'
    PROVE  TargetOK'
  BY DEF TargetOK, Target

\* A backing file is collected only with the session it belongs to.
LEMMA BackingKept ==
    ASSUME RealOK, BackingThere, UNCHANGED kind, open' \subseteq open,
           NEW gone, NEW new, DirStep(gone, new),
           \A n \in gone : /\ IsSha(n) => n \in taken
                           /\ n[1] = "redir" => n[2] \notin open',
           \A s \in Shells \cap open', f \in Files :
              \/ ~Backed(real'[s][f]) \/ real'[s][f] \in DOMAIN disk'
              \/ \E g \in Files : real'[s][f] = real[s][g]
    PROVE  BackingThere'
  <1>1. ASSUME NEW s \in (Shells \cap open)', NEW f \in Files, Backed(real'[s][f])
        PROVE  real'[s][f] \in DOMAIN disk' \/ real'[s][f] \in taken'
    <2>1. s \in Shells \cap open /\ s \in open'
      BY DEF Shells
    <2>2. ASSUME NEW g \in Files, real'[s][f] = real[s][g]
          PROVE  real'[s][f] \in DOMAIN disk' \/ real'[s][f] \in taken'
      <3>1. PICK n : n = real[s][g] /\ real'[s][f] = n
        BY <2>2
      <3>2. Backed(n) /\ (n \in DOMAIN disk \/ n \in taken)
        BY <1>1, <2>1, <3>1 DEF BackingThere
      <3>3. n \notin {Gone, Plain} /\ s \in Shells
        BY <2>1, <3>2 DEF Backed
      <3>4. \/ n \in {Gone, Plain} \/ IsSha(n)
            \/ n # <<>> /\ n[1] = "redir" /\ n[2] = s
        <4>1. \/ real[s][g] \in {Gone, Plain} \/ IsSha(real[s][g])
              \/ real[s][g] # <<>> /\ real[s][g][1] = "redir" /\ real[s][g][2] = s
          BY <3>3, Zenon DEF RealOK
        <4> QED
          BY <3>1, <4>1
      <3>5. n \in gone => n \in taken
        BY <2>1, <3>3, <3>4
      <3> QED
        BY <3>1, <3>2, <3>5 DEF DirStep
    <2> QED
      BY <1>1, <2>1, <2>2 DEF Shells
  <1> QED
    BY <1>1 DEF BackingThere

LEMMA TempsKept ==
    ASSUME TempsOwned, UNCHANGED <<kind, open, handle>>,
           NEW gone, NEW new, DirStep(gone, new),
           \A s \in Sessions : /\ redir[s] \subseteq redir'[s]
                               /\ running[s] # <<>> /\ running[s][1] = "redir" =>
                                     \/ running'[s] = running[s] \/ running[s] \in redir'[s]
                                     \/ running[s] \in unrecorded',
           \A n \in unrecorded : n[1] = "redir" =>
              n \in unrecorded' \/ \E s \in Sessions : n \in redir'[s],
           \A n \in new :
              /\ n[1] = "redir" => \/ n \in unrecorded'
                                  \/ \E s \in Sessions : running'[s] # <<>> /\ n = running'[s]
              /\ n[1] = "stdin" => n[2] \in Shells \cap open /\ n = StdinName(n[2])
              /\ n[1] # "sftp"
    PROVE  TempsOwned'
  <1>1. ASSUME NEW n \in DOMAIN disk', n[1] \in {"redir", "stdin", "sftp"}
        PROVE  n \in DOMAIN disk \/ n \in new
    BY <1>1, Tagged DEF DirStep
  <1>2. ASSUME NEW n \in DOMAIN disk', n[1] = "redir"
        PROVE  \/ n \in unrecorded'
               \/ \E s \in Sessions : (running'[s] # <<>> /\ n = running'[s]) \/ n \in redir'[s]
    <2>1. CASE n \in new
      BY <1>2, <2>1
    <2>2. CASE n \in DOMAIN disk
      <3>1. CASE n \in unrecorded
        BY <1>2, <3>1
      <3>2. ASSUME NEW s \in Sessions, (running[s] # <<>> /\ n = running[s]) \/ n \in redir[s]
            PROVE  \/ n \in unrecorded'
                   \/ (running'[s] # <<>> /\ n = running'[s]) \/ n \in redir'[s]
        BY <1>2, <3>2
      <3> QED
        BY <1>2, <2>2, <3>1, <3>2 DEF TempsOwned
    <2> QED
      BY <1>1, <1>2, <2>1, <2>2
  <1>3. ASSUME NEW n \in DOMAIN disk', n[1] = "stdin"
        PROVE  n[2] \in (Shells \cap open)' /\ n = StdinName(n[2])
    BY <1>1, <1>3 DEF TempsOwned, Shells
  <1>4. ASSUME NEW n \in DOMAIN disk', n[1] = "sftp"
        PROVE  \E s \in Sessions : handle'[s] # <<>> /\ handle'[s].name = n
    BY <1>1, <1>4 DEF TempsOwned
  <1> QED
    BY <1>2, <1>3, <1>4 DEF TempsOwned

-----------------------------------------------------------------------------
(* The contents of files *)

LEMMA ContentsFacts ==
    /\ <<>> \in Contents
    /\ \A c \in Chunks : <<c>> \in Contents
    /\ \A x \in Contents : x \o <<>> \in Contents
    /\ \A x \in Contents, c \in Chunks :
          Len(x) < MaxLen => x \o <<c>> \in Contents /\ Append(x, c) \in Contents
  BY EvidenceAssumption DEF EvidenceAssumption, Contents, Content

\* A step that writes to one file.
LEMMA PokeStep ==
    ASSUME DirOK(disk), DataOK', UNCHANGED disk, taken \subseteq taken', NEW i,
           \A j \in Used(disk) : j # i => data'[j] = data[j],
           \A n \in DOMAIN disk : disk[n] = i /\ IsSha(n) => n \in taken'
    PROVE  DirStep({}, {})
  BY DEF DirStep, Used

LEMMA TruncateStep ==
    ASSUME DirOK(disk), DataOK, taken \subseteq taken', NEW name \in DOMAIN disk,
           Update(disk, [data EXCEPT ![disk[name]] = <<>>]),
           IsSha(name) => name \in taken'
    PROVE  DirStep({}, {})
  <1> DEFINE dt == [data EXCEPT ![disk[name]] = <<>>]
  <1>1. disk[name] \in Inodes /\ dt \in [Inodes -> Contents]
    BY ContentsFacts DEF DirOK, DataOK
  <1>2. \A j \in Inodes : j # disk[name] => dt[j] = data[j]
    BY DEF DataOK
  <1>3. Update(disk, dt)
    OBVIOUS
  <1> HIDE DEF dt
  <1>4. /\ disk' = disk /\ DataOK'
        /\ \A i \in Inodes : i \in Used(disk) => data'[i] = dt[i]
    BY <1>1, <1>3, Updated
  <1>5. \A j \in Used(disk) : j \in Inodes
    BY DEF DirOK, Used
  <1>6. \A n \in DOMAIN disk : disk[n] = disk[name] /\ IsSha(n) => n \in taken'
    BY DEF DirOK
  <1> QED
    BY <1>2, <1>4, <1>5, <1>6, PokeStep

-----------------------------------------------------------------------------
(* The steps *)

\* What is stored under its hash is not removed.
StoredStays == \A n \in DOMAIN disk : IsSha(n) /\ n \notin taken => n \in DOMAIN disk'

\* A step that collects at most the temporary file of a download.
LEMMA StepKeeps ==
    ASSUME EvidenceIInv, NEW gone, NEW new, DirStep(gone, new), UNCHANGED <<kind, open, handle>>,
           \A n \in gone : n[1] = "art",
           ArtOK', TargetOK', RealOK', BackingThere', TempsOwned'
    PROVE  EvidenceIInv' /\ StoredStays
  <1>1. \A n \in gone : ~IsSha(n) /\ n[1] # "sftp"
    BY Tagged
  <1>2. HandleOK' /\ HeldNamed'
    BY <1>1, HeldKept DEF EvidenceIInv
  <1>3. HashNamesContent'
    BY HashKept DEF EvidenceIInv
  <1>4. StoredStays
    BY <1>1, StoredKept DEF StoredStays
  <1>5. DirOK(disk)' /\ DataOK' /\ (open \subseteq Sessions)'
    BY DEF DirStep, EvidenceIInv
  <1> QED
    BY <1>2, <1>3, <1>4, <1>5 DEF EvidenceIInv

\* A step of a redirection or of the shell, that collects nothing.
LEMMA ShellStepKeeps ==
    ASSUME EvidenceIInv, NEW new, DirStep({}, new), UNCHANGED <<kind, open, handle, art>>,
           TargetOK', RealOK',
           \A s \in Shells \cap open, f \in Files :
              \/ ~Backed(real'[s][f]) \/ real'[s][f] \in DOMAIN disk'
              \/ \E g \in Files : real'[s][f] = real[s][g],
           \A s \in Sessions : /\ redir[s] \subseteq redir'[s]
                               /\ running[s] # <<>> /\ running[s][1] = "redir" =>
                                     \/ running'[s] = running[s] \/ running[s] \in redir'[s]
                                     \/ running[s] \in unrecorded',
           \A n \in unrecorded : n[1] = "redir" =>
              n \in unrecorded' \/ \E s \in Sessions : n \in redir'[s],
           \A n \in new :
              /\ n[1] = "redir" => \/ n \in unrecorded'
                                  \/ \E s \in Sessions : running'[s] # <<>> /\ n = running'[s]
              /\ n[1] = "stdin" => n[2] \in Shells \cap open /\ n = StdinName(n[2])
              /\ n[1] # "sftp"
    PROVE  EvidenceIInv' /\ StoredStays
  <1>1. ArtOK'
    BY ArtKept DEF EvidenceIInv
  <1>2. BackingThere'
    BY BackingKept DEF EvidenceIInv
  <1>3. TempsOwned'
    BY TempsKept DEF EvidenceIInv
  <1> QED
    BY <1>1, <1>2, <1>3, StepKeeps

\* Who has a redirection that was set up.
Redirected(s, name, whom) ==
    /\ UNCHANGED <<session, redir, art>>
    /\ running' = [running EXCEPT ![s] = IF whom = "nothing" THEN <<>> ELSE name]
    /\ pp' = [pp EXCEPT ![s] = IF whom = "command" THEN name ELSE <<>>]
    /\ unrecorded' = IF whom = "command" THEN unrecorded ELSE unrecorded \cup {name}

LEMMA RedirectedOK ==
    ASSUME EvidenceIInv, NEW s \in Sessions, running[s] = <<>>, s \in open, kind[s] = "exec",
           NEW name, name # <<>>, Target(s, name, taken'), taken \subseteq taken',
           NEW whom, Redirected(s, name, whom)
    PROVE  /\ TargetOK'
           /\ \A t \in Sessions : /\ redir[t] \subseteq redir'[t]
                                  /\ running[t] # <<>> => running'[t] = running[t]
           /\ \A n \in unrecorded : n \in unrecorded'
           /\ name \in unrecorded' \/ running'[s] = name
  <1>1. /\ DOMAIN running' = Sessions /\ DOMAIN pp' = Sessions /\ UNCHANGED <<redir, kind, open>>
        /\ \A t \in Sessions \ {s} : running'[t] = running[t] /\ pp'[t] = pp[t]
        /\ unrecorded \subseteq unrecorded'
    BY DEF Redirected, EvidenceIInv, TargetOK, session
  <1>2. \/ running'[s] = name /\ pp'[s] = name
        \/ running'[s] = name /\ pp'[s] = <<>> /\ name \in unrecorded'
        \/ running'[s] = <<>> /\ pp'[s] = <<>> /\ name \in unrecorded'
    BY DEF Redirected, EvidenceIInv, TargetOK
  <1>3. ASSUME NEW t \in Sessions
        PROVE  /\ running'[t] # <<>> => Target(t, running'[t], taken')
               /\ pp'[t] = <<>> \/ pp'[t] = running'[t]
               /\ running'[t] # <<>> /\ running'[t][1] = "redir" =>
                     pp'[t] = running'[t] \/ running'[t] \in unrecorded'
               /\ IsFiniteSet(redir'[t]) /\ \A n \in redir'[t] : Target(t, n, taken')
               /\ redir'[t] # {} => t \in open'
               /\ running'[t] # <<>> \/ redir'[t] # {} => kind'[t] # "sftp"
    <2>1. CASE t = s
      BY <1>1, <1>2, <2>1 DEF EvidenceIInv, TargetOK, Target
    <2>2. CASE t # s
      BY <1>1, <2>2 DEF EvidenceIInv, TargetOK, Target
    <2> QED
      BY <2>1, <2>2
  <1>4. TargetOK'
    <2>1. <<>> \notin unrecorded'
      BY DEF Redirected, EvidenceIInv, TargetOK
    <2> QED
      BY <1>1, <1>3, <2>1 DEF EvidenceIInv, TargetOK
  <1> QED
    BY <1>1, <1>2, <1>4

LEMMA CreateKeeps ==
    ASSUME EvidenceIInv, NEW s \in Sessions, NEW f \in Files, Idle(s),
           _create_redirect_target(s, f), NEW whom, Redirected(s, real'[s][f], whom)
    PROVE  EvidenceIInv' /\ StoredStays
  <1> DEFINE name == RedirName(s, f)
  <1>1. name[1] = "redir" /\ name[2] = s /\ name # <<>> /\ ~IsSha(name)
    BY Tagged DEF RedirName
  <1>2. /\ Appends(name, <<>>) /\ UNCHANGED <<handle, taken, session, redir, art>>
        /\ real' = [real EXCEPT ![s][f] = name] /\ Redirected(s, real'[s][f], whom)
        /\ running[s] = <<>> /\ s \in open /\ kind[s] = "exec"
    BY DEF _create_redirect_target, Idle, Redirected
  <1> HIDE DEF name
  <1>3. DirStep({}, {name}) /\ name \in DOMAIN disk'
    <2>1. name \in DOMAIN disk => data[disk[name]] \o <<>> \in Contents
      BY ContentsFacts DEF EvidenceIInv, DirOK, DataOK
    <2>2. name[1] \in Tags \ {"art"}
      BY <1>1 DEF Tags
    <2> QED
      BY <1>1, <1>2, <2>1, <2>2, ContentsFacts, AppendStep DEF EvidenceIInv
  <1>4. real'[s][f] = name /\ Target(s, name, taken') /\ taken \subseteq taken'
    BY <1>1, <1>2 DEF EvidenceIInv, RealOK, Target
  <1>5. RealOK' /\ \A t \in Sessions, g \in Files : \/ real'[t][g] = name
                                                    \/ real'[t][g] = real[t][g]
    BY <1>1, <1>2 DEF EvidenceIInv, RealOK, Shells, session
  <1>6. /\ TargetOK'
        /\ \A t \in Sessions : /\ redir[t] \subseteq redir'[t]
                               /\ running[t] # <<>> => running'[t] = running[t]
        /\ \A n \in unrecorded : n \in unrecorded'
        /\ name \in unrecorded' \/ running'[s] = name
    BY <1>1, <1>2, <1>4, RedirectedOK
  <1> QED
    BY <1>1, <1>2, <1>3, <1>5, <1>6, ShellStepKeeps DEF session, Shells

LEMMA ReuseKeeps ==
    ASSUME EvidenceIInv, NEW s \in Sessions, NEW f \in Files, NEW append, Idle(s),
           _reuse_existing_backing(s, f, append), NEW whom, Redirected(s, real'[s][f], whom)
    PROVE  EvidenceIInv' /\ StoredStays
  <1>1. PICK name : name = real[s][f]
    OBVIOUS
  <1>2. /\ Backed(name) /\ UNCHANGED <<handle, session, redir, art, real>>
        /\ Redirected(s, name, whom)
        /\ running[s] = <<>> /\ s \in open /\ s \in Shells /\ kind[s] = "exec"
        /\ taken' = IF IsSha(name) THEN taken \cup {name} ELSE taken
    BY <1>1 DEF _reuse_existing_backing, _needs_new_backing, Idle, Shells, Redirected
  <1>3. name # <<>> /\ Target(s, name, taken')
    <2>1. \/ name \in {Gone, Plain} \/ IsSha(name)
          \/ name # <<>> /\ name[1] = "redir" /\ name[2] = s
      <3>1. \/ real[s][f] \in {Gone, Plain} \/ IsSha(real[s][f])
            \/ real[s][f] # <<>> /\ real[s][f][1] = "redir" /\ real[s][f][2] = s
        BY <1>2, Zenon DEF EvidenceIInv, RealOK
      <3> QED
        BY <1>1, <3>1
    <2>2. name \notin {Gone, Plain}
      BY <1>2 DEF Backed
    <2> QED
      BY <1>2, <2>1, <2>2 DEF IsSha, Target
  <1>4. taken \subseteq taken' /\ (IsSha(name) => name \in taken')
    BY <1>2
  <1>5. \E new \in {{}, {name}} : DirStep({}, new)
    <2>1. CASE UNCHANGED <<disk, data>>
      BY <1>4, <2>1, SameDir DEF EvidenceIInv
    <2>2. CASE name \in DOMAIN disk /\ Update(disk, [data EXCEPT ![disk[name]] = <<>>])
      BY <1>4, <2>2, TruncateStep DEF EvidenceIInv
    <2>3. CASE name \notin DOMAIN disk /\ Appends(name, <<>>)
      <3>1. name[1] \in Tags \ {"art"}
        BY <1>3 DEF Target, IsSha, Tags
      <3> QED
        BY <1>2, <1>4, <2>3, <3>1, ContentsFacts, AppendStep DEF EvidenceIInv
    <2> QED
      BY <1>1, <2>1, <2>2, <2>3 DEF _reuse_existing_backing
  <1>6. /\ TargetOK'
        /\ \A t \in Sessions : /\ redir[t] \subseteq redir'[t]
                               /\ running[t] # <<>> => running'[t] = running[t]
        /\ \A n \in unrecorded : n \in unrecorded'
        /\ name \in unrecorded' \/ running'[s] = name
    BY <1>2, <1>3, <1>4, RedirectedOK
  <1>7. RealOK' /\ \A t \in Sessions, g \in Files : real'[t][g] = real[t][g]
    BY <1>2 DEF EvidenceIInv, RealOK, Shells, session
  <1>8. ~(name[1] \in {"stdin", "sftp"})
    BY <1>3 DEF Target, IsSha
  <1> QED
    BY <1>2, <1>3, <1>5, <1>6, <1>7, <1>8, ShellStepKeeps DEF session, Shells

LEMMA WriteToFileKeeps ==
    ASSUME EvidenceIInv, NEW s \in Sessions, NEW c \in Chunks, _write_to_file(s, c)
    PROVE  EvidenceIInv' /\ StoredStays
  <1>1. PICK name : name = running[s]
    OBVIOUS
  <1>2. /\ name # <<>> /\ Appends(name, <<c>>)
        /\ name \in DOMAIN disk => Len(data[disk[name]]) < MaxLen
        /\ UNCHANGED <<session, real, running, redir, art, handle, taken, pp, unrecorded>>
    BY <1>1 DEF _write_to_file
  <1>3. Target(s, name, taken) /\ running'[s] = name
    BY <1>1, <1>2 DEF EvidenceIInv, TargetOK
  <1>4. DirStep({}, {name})
    <2>1. name \in DOMAIN disk => data[disk[name]] \o <<c>> \in Contents
      BY <1>2, ContentsFacts DEF EvidenceIInv, DirOK, DataOK
    <2>2. name[1] \in Tags \ {"art"} /\ (IsSha(name) => name \in taken')
      BY <1>2, <1>3, Tagged DEF Target, Tags, IsSha
    <2> QED
      BY <1>2, <2>1, <2>2, ContentsFacts, AppendStep DEF EvidenceIInv
  <1>5. TargetOK'
    BY <1>2, TargetKept DEF EvidenceIInv, session
  <1>6. RealOK'
    BY <1>2 DEF EvidenceIInv, RealOK, Shells, session
  <1>7. ~(name[1] \in {"stdin", "sftp"})
    BY <1>3 DEF Target, IsSha
  <1> QED
    BY <1>2, <1>3, <1>4, <1>5, <1>6, <1>7, ShellStepKeeps DEF session

LEMMA ExitKeeps ==
    ASSUME EvidenceIInv, NEW s \in Sessions, exit(s) \/ raises(s)
    PROVE  EvidenceIInv' /\ StoredStays
  <1>1. PICK r : r = running[s]
    OBVIOUS
  <1>2. /\ UNCHANGED <<session, disk, data, real, art, handle, taken>>
        /\ running' = [running EXCEPT ![s] = <<>>] /\ pp' = [pp EXCEPT ![s] = <<>>]
        /\ r # <<>> /\ s \in open
    BY <1>1 DEF exit, raises
  <1>3. /\ DOMAIN running' = Sessions /\ DOMAIN pp' = Sessions
        /\ running'[s] = <<>> /\ pp'[s] = <<>>
        /\ \A t \in Sessions \ {s} : running'[t] = running[t] /\ pp'[t] = pp[t]
    BY <1>2 DEF EvidenceIInv, TargetOK
  <1>4. Target(s, r, taken) /\ kind[s] # "sftp"
    BY <1>1, <1>2 DEF EvidenceIInv, TargetOK
  <1>5. /\ DOMAIN redir' = Sessions
        /\ \A t \in Sessions \ {s} : redir'[t] = redir[t]
        /\ \/ redir'[s] = redir[s] \cup {r} /\ unrecorded' = unrecorded \ {r}
           \/ redir'[s] = redir[s] /\ unrecorded \ {<<>>} \subseteq unrecorded'
    <2>1. pp[s] = <<>> \/ pp[s] = r
      BY <1>1 DEF EvidenceIInv, TargetOK
    <2>2. CASE exit(s) /\ pp[s] = <<>>
      BY <2>2 DEF exit, EvidenceIInv, TargetOK
    <2>3. CASE exit(s) /\ pp[s] = r
      BY <1>2, <2>3 DEF exit, EvidenceIInv, TargetOK
    <2>4. CASE raises(s)
      BY <2>4 DEF raises, EvidenceIInv, TargetOK
    <2> QED
      BY <2>1, <2>2, <2>3, <2>4
  <1>6. r[1] = "redir" => r \in redir'[s] \/ r \in unrecorded'
    <2>1. CASE exit(s)
      <3>1. pp[s] = r \/ (pp[s] = <<>> /\ (r[1] = "redir" => r \in unrecorded))
        BY <1>1, <1>2 DEF EvidenceIInv, TargetOK
      <3> QED
        BY <1>2, <2>1, <3>1 DEF exit, EvidenceIInv, TargetOK
    <2>2. CASE raises(s)
      BY <1>1, <2>2 DEF raises
    <2> QED
      BY <2>1, <2>2
  <1>7. ASSUME NEW t \in Sessions \ {s}, running[t] # <<>>, running[t][1] = "redir"
        PROVE  running[t] # r /\ running[t] # <<>>
    <2>1. Target(t, running[t], taken)
      BY <1>7 DEF EvidenceIInv, TargetOK
    <2> QED
      BY <1>4, <1>7, <2>1, Tagged DEF Target
  <1>8. TargetOK'
    <2>1. IsFiniteSet(redir[s] \cup {r}) /\ IsFiniteSet(redir[s])
      BY FS_AddElement DEF EvidenceIInv, TargetOK
    <2>2. IsFiniteSet(redir'[s]) /\ \A n \in redir'[s] : Target(s, n, taken')
      BY <1>2, <1>4, <1>5, <2>1 DEF EvidenceIInv, TargetOK
    <2>3. ASSUME NEW t \in Sessions \ {s}, running[t] # <<>>, running[t][1] = "redir"
          PROVE  pp[t] = running[t] \/ running[t] \in unrecorded'
      BY <1>5, <1>7, <2>3 DEF EvidenceIInv, TargetOK
    <2>4. <<>> \notin unrecorded'
      <3>1. <<>> \notin unrecorded
        BY DEF EvidenceIInv, TargetOK
      <3> QED
        BY <1>1, <1>2, <3>1 DEF exit, raises
    <2>5. ASSUME NEW t \in Sessions \ {s}
          PROVE  /\ running'[t] # <<>> => Target(t, running'[t], taken')
                 /\ pp'[t] = <<>> \/ pp'[t] = running'[t]
                 /\ running'[t] # <<>> /\ running'[t][1] = "redir" =>
                       pp'[t] = running'[t] \/ running'[t] \in unrecorded'
                 /\ IsFiniteSet(redir'[t]) /\ \A n \in redir'[t] : Target(t, n, taken')
                 /\ redir'[t] # {} => t \in open'
                 /\ running'[t] # <<>> \/ redir'[t] # {} => kind'[t] # "sftp"
      BY <1>2, <1>3, <1>5, <2>3 DEF EvidenceIInv, TargetOK, session
    <2>6. /\ redir'[s] # {} => s \in open'
          /\ running'[s] # <<>> \/ redir'[s] # {} => kind'[s] # "sftp"
      BY <1>2, <1>4 DEF session
    <2> QED
      BY <1>3, <1>5, <2>2, <2>4, <2>5, <2>6 DEF TargetOK
  <1>9. RealOK'
    BY <1>2 DEF EvidenceIInv, RealOK, Shells, session
  <1>10. \A t \in Sessions : /\ redir[t] \subseteq redir'[t]
                             /\ running[t] # <<>> /\ running[t][1] = "redir" =>
                                   \/ running'[t] = running[t] \/ running[t] \in redir'[t]
                                   \/ running[t] \in unrecorded'
    BY <1>1, <1>3, <1>5, <1>6
  <1>11. \A n \in unrecorded : n[1] = "redir" =>
             n \in unrecorded' \/ \E t \in Sessions : n \in redir'[t]
    <2>1. \A n \in unrecorded : n # <<>>
      BY DEF EvidenceIInv, TargetOK
    <2> QED
      BY <1>5, <2>1
  <1>12. DirStep({}, {})
    BY <1>2, SameDir DEF EvidenceIInv
  <1> QED
    BY <1>2, <1>8, <1>9, <1>10, <1>11, <1>12, ShellStepKeeps DEF session

\* cp and rm, which change virtual files only.
LEMMA VirtualKeeps ==
    ASSUME EvidenceIInv, NEW s \in Sessions, NEW f \in Files, NEW x,
           x = Gone \/ \E g \in Files : x = real[s][g],
           real' = [real EXCEPT ![s][f] = x],
           UNCHANGED <<session, disk, data, running, redir, art, handle, taken, pp, unrecorded>>
    PROVE  EvidenceIInv' /\ StoredStays
  <1>1. DirStep({}, {})
    BY SameDir DEF EvidenceIInv
  <1>2. TargetOK'
    BY TargetKept DEF EvidenceIInv, session
  <1>3. /\ DOMAIN real' = Sessions /\ \A t \in Sessions : DOMAIN real'[t] = Files
        /\ \A t \in Sessions, g \in Files :
              real'[t][g] = real[t][g] \/ (t = s /\ real'[t][g] = x)
    BY DEF EvidenceIInv, RealOK
  <1>4. RealOK'
    BY <1>3 DEF EvidenceIInv, RealOK, Shells, session
  <1>5. ~Backed(Gone)
    BY DEF Backed
  <1> QED
    BY <1>1, <1>2, <1>3, <1>4, <1>5, ShellStepKeeps DEF session, Shells

LEMMA DataReceivedKeeps ==
    ASSUME EvidenceIInv, NEW s \in Sessions, NEW c \in Chunks, dataReceived(s, c)
    PROVE  EvidenceIInv' /\ StoredStays
  <1> DEFINE name == StdinName(s)
  <1>1. name[1] = "stdin" /\ name[2] = s /\ name = StdinName(name[2]) /\ ~IsSha(name)
    BY Names, Tagged
  <1>2. /\ s \in Shells \cap open /\ Appends(name, <<c>>)
        /\ name \in DOMAIN disk => Len(data[disk[name]]) < MaxLen
        /\ UNCHANGED <<session, real, running, redir, art, handle, taken, pp, unrecorded>>
    BY DEF dataReceived, Shells
  <1> HIDE DEF name
  <1>3. DirStep({}, {name})
    <2>1. name \in DOMAIN disk => data[disk[name]] \o <<c>> \in Contents
      BY <1>2, ContentsFacts DEF EvidenceIInv, DirOK, DataOK
    <2>2. name[1] \in Tags \ {"art"}
      BY <1>1 DEF Tags
    <2> QED
      BY <1>1, <1>2, <2>1, <2>2, ContentsFacts, AppendStep DEF EvidenceIInv
  <1>4. TargetOK'
    BY <1>2, TargetKept DEF EvidenceIInv, session
  <1>5. RealOK'
    BY <1>2 DEF EvidenceIInv, RealOK, Shells, session
  <1> QED
    BY <1>1, <1>2, <1>3, <1>4, <1>5, ShellStepKeeps DEF session

\* What is stored in one go, with whatever that sets as a backing file.
LEMMA StoreKeeps ==
    ASSUME EvidenceIInv, NEW c \in Chunks,
           UNCHANGED <<session, running, redir, art, handle, taken, pp, unrecorded>>,
           IF Sha(<<c>>) \in DOMAIN disk THEN UNCHANGED <<disk, data>> ELSE Appends(Sha(<<c>>), <<c>>),
           UNCHANGED real \/ \E s \in Sessions, f \in Files :
                                real' = [real EXCEPT ![s][f] = Sha(<<c>>)]
    PROVE  EvidenceIInv' /\ StoredStays
  <1> DEFINE name == Sha(<<c>>)
  <1>1. name[1] = "sha" /\ name[2] = <<c>> /\ IsSha(name)
    BY Names
  <1>2. (name \in DOMAIN disk /\ UNCHANGED <<disk, data>>) \/ (name \notin DOMAIN disk /\ Appends(name, <<c>>))
    OBVIOUS
  <1>3. UNCHANGED real \/ \E s \in Sessions, f \in Files : real' = [real EXCEPT ![s][f] = name]
    OBVIOUS
  <1> HIDE DEF name
  <1>4. /\ \E new \in {{}, {name}} : DirStep({}, new)
        /\ name \in DOMAIN disk'
    <2>1. name[1] \in Tags \ {"art"}
      BY <1>1 DEF Tags
    <2>2. <<c>> \in Contents
      BY ContentsFacts
    <2>3. CASE name \in DOMAIN disk
      BY <1>2, <2>3, SameDir DEF EvidenceIInv
    <2>4. CASE name \notin DOMAIN disk
      BY <1>1, <1>2, <2>1, <2>2, <2>4, AppendStep DEF EvidenceIInv
    <2> QED
      BY <2>3, <2>4
  <1>5. TargetOK'
    BY TargetKept DEF EvidenceIInv, session
  <1>6. /\ DOMAIN real' = Sessions /\ \A t \in Sessions : DOMAIN real'[t] = Files
        /\ \A t \in Sessions, g \in Files : real'[t][g] = real[t][g] \/ real'[t][g] = name
    BY <1>3 DEF EvidenceIInv, RealOK
  <1>7. RealOK'
    BY <1>1, <1>6 DEF EvidenceIInv, RealOK, Shells, session
  <1> QED
    BY <1>1, <1>4, <1>5, <1>6, <1>7, ShellStepKeeps DEF session, Shells

\* A temporary file for a download.
LEMMA ArtifactKeeps ==
    ASSUME EvidenceIInv, NEW s \in Sessions, art[s] = <<>>, Artifact(s)
    PROVE  EvidenceIInv' /\ StoredStays
  <1> DEFINE i == FreshInode
             name == ArtName(i)
             d == With(disk, name, i)
             dt == [data EXCEPT ![i] = <<>>]
  <1>1. name[1] = "art" /\ name[2] = i /\ name # <<>> /\ ~IsSha(name)
    BY Names, Tagged
  <1>2. /\ i \in Inodes /\ i \notin Used(disk) /\ i \notin Held(handle)
        /\ Update(d, dt)
        /\ art' = [art EXCEPT ![s] = name]
        /\ UNCHANGED <<session, real, running, redir, handle, taken, pp, unrecorded>>
    BY FreshIsNew DEF Artifact
  <1>3. /\ dt \in [Inodes -> Contents]
        /\ \A n \in DOMAIN disk : dt[disk[n]] = data[disk[n]]
    BY <1>2, ContentsFacts DEF EvidenceIInv, DirOK, DataOK, Used
  <1>4. name \notin DOMAIN disk
    BY <1>1, <1>2 DEF EvidenceIInv, DirOK, Used
  <1> HIDE DEF dt, d, name, i
  <1>5. /\ DirOK(d) /\ DOMAIN d = DOMAIN disk \cup {name} /\ d[name] = i
        /\ \A m \in DOMAIN disk : d[m] = disk[m]
    <2>1. DirOK(disk) /\ i \in Inodes /\ i \notin Used(disk) /\ name \notin DOMAIN disk
      BY <1>2, <1>4 DEF EvidenceIInv
    <2>2. /\ DirOK(With(disk, name, i)) /\ DOMAIN With(disk, name, i) = DOMAIN disk \cup {name}
          /\ With(disk, name, i)[name] = i
          /\ \A m \in DOMAIN disk : With(disk, name, i)[m] = disk[m]
      BY <2>1, WithArt DEF name
    <2> QED
      BY <2>2 DEF d
  <1>6. /\ disk' = d /\ DataOK'
        /\ \A j \in Inodes : j \in Used(d) => data'[j] = dt[j]
    BY <1>2, <1>3, Updated
  <1>7. \A n \in DOMAIN d : data'[d[n]] = dt[d[n]]
    BY <1>5, <1>6 DEF DirOK, Used
  <1>8. DirStep({}, {name})
    BY <1>1, <1>2, <1>3, <1>4, <1>5, <1>6, <1>7 DEF DirStep
  <1>9. ArtOK'
    <2>1. DOMAIN art' = Sessions /\ art'[s] = name /\ \A t \in Sessions \ {s} : art'[t] = art[t]
      BY <1>2 DEF EvidenceIInv, ArtOK
    <2>2. \A t \in Sessions : art[t] # <<>> => /\ art[t] \in DOMAIN disk' /\ art[t][1] = "art"
                                               /\ art[t] # name
      BY <1>4, <1>5, <1>6 DEF EvidenceIInv, ArtOK
    <2> QED
      BY <1>1, <1>5, <1>6, <2>1, <2>2 DEF EvidenceIInv, ArtOK
  <1>10. TargetOK'
    BY <1>2, TargetKept DEF EvidenceIInv, session
  <1>11. RealOK'
    BY <1>2 DEF EvidenceIInv, RealOK, Shells, session
  <1>12. BackingThere'
    <2>1. \A t \in Shells \cap open', f \in Files : \E g \in Files : real'[t][f] = real[t][g]
      BY <1>2
    <2> QED
      BY <1>2, <1>8, <2>1, BackingKept DEF EvidenceIInv, session
  <1>13. TempsOwned'
    BY <1>1, <1>2, <1>8, TempsKept DEF EvidenceIInv, session
  <1> QED
    BY <1>2, <1>8, <1>9, <1>10, <1>11, <1>12, <1>13, StepKeeps DEF session

LEMMA WriteKeeps ==
    ASSUME EvidenceIInv, NEW s \in Sessions, NEW c \in Chunks, write(s, c)
    PROVE  EvidenceIInv' /\ StoredStays
  <1>1. PICK n : n = art[s]
    OBVIOUS
  <1>2. /\ n # <<>> /\ Len(data[disk[n]]) < MaxLen
        /\ data' = [data EXCEPT ![disk[n]] = Append(@, c)]
        /\ UNCHANGED <<session, disk, real, running, redir, art, handle, taken, pp, unrecorded>>
    BY <1>1 DEF write
  <1>3. n \in DOMAIN disk /\ n[1] = "art" /\ disk[n] \in Inodes
    BY <1>1, <1>2 DEF EvidenceIInv, ArtOK, DirOK
  <1>4. DataOK' /\ \A j \in Used(disk) : j # disk[n] => data'[j] = data[j]
    <2>1. data \in [Inodes -> Contents] /\ data[disk[n]] \in Contents
      BY <1>3 DEF EvidenceIInv, DataOK
    <2>2. Append(data[disk[n]], c) \in Contents
      BY <1>2, <2>1, ContentsFacts
    <2>3. \A j \in Used(disk) : j \in Inodes
      BY DEF EvidenceIInv, DirOK, Used
    <2> QED
      BY <1>2, <1>3, <2>1, <2>2, <2>3 DEF DataOK
  <1>5. \A m \in DOMAIN disk : disk[m] = disk[n] => ~IsSha(m)
    BY <1>3, Tagged DEF EvidenceIInv, DirOK
  <1>6. DirStep({}, {})
    BY <1>2, <1>4, <1>5, PokeStep DEF EvidenceIInv
  <1>7. TargetOK'
    BY <1>2, TargetKept DEF EvidenceIInv, session
  <1>8. RealOK'
    BY <1>2 DEF EvidenceIInv, RealOK, Shells, session
  <1> QED
    BY <1>2, <1>6, <1>7, <1>8, ShellStepKeeps DEF session

LEMMA StoredThere ==
    ASSUME NEW d, NEW tmp \in DOMAIN d, ~IsSha(tmp)
    PROVE  Sha(data[d[tmp]]) \in DOMAIN Stored(d, tmp)
  BY Names DEF Stored, With, Without

LEMMA CloseStep ==
    ASSUME EvidenceIInv, NEW s \in Sessions, art[s] # <<>>, close(s), taken \subseteq taken'
    PROVE  /\ DirStep({art[s]}, {})
           /\ ~Emptied(s) => Sha(data[disk[art[s]]]) \in DOMAIN disk'
  <1>1. PICK n : n = art[s]
    OBVIOUS
  <1>2. n \in DOMAIN disk /\ ~IsSha(n) /\ DirOK(disk) /\ DataOK
    BY <1>1, Tagged DEF EvidenceIInv, ArtOK
  <1>3. CASE Emptied(s)
    <2>1. Update(Without(disk, n), data)
      BY <1>1, <1>3 DEF close
    <2>2. DirStep({n}, {})
      BY <1>2, <2>1, RemovalMoves, MoveStep
    <2> QED
      BY <1>1, <1>3, <2>2
  <1>4. CASE ~Emptied(s)
    <2>1. Update(Stored(disk, n), data)
      BY <1>1, <1>4 DEF close
    <2>2. DirStep({n}, {})
      BY <1>2, <2>1, StoredMoves, MoveStep
    <2>3. Sha(data[disk[n]]) \in DOMAIN disk'
      BY <1>2, <2>1, StoredThere DEF Update
    <2> QED
      BY <1>1, <2>2, <2>3
  <1> QED
    BY <1>3, <1>4

\* The end of a download, whether its artifact is closed or left.
LEMMA FinishKeeps ==
    ASSUME EvidenceIInv, NEW s \in Sessions, art[s] # <<>>,
           art' = [art EXCEPT ![s] = <<>>],
           UNCHANGED <<session, running, redir, handle, taken, pp, unrecorded>>,
           close(s) \/ UNCHANGED <<disk, data>>,
           RealOK',
           \A t \in Shells \cap open, f \in Files :
              \/ ~Backed(real'[t][f]) \/ real'[t][f] \in DOMAIN disk'
              \/ \E g \in Files : real'[t][f] = real[t][g]
    PROVE  EvidenceIInv' /\ StoredStays
  <1>1. PICK gone \in {{}, {art[s]}} : DirStep(gone, {})
    BY CloseStep, SameDir DEF EvidenceIInv
  <1>2. \A n \in gone : n[1] = "art" /\ ~IsSha(n)
    BY Tagged DEF EvidenceIInv, ArtOK
  <1>3. ArtOK'
    <2>1. DOMAIN art' = Sessions /\ art'[s] = <<>> /\ \A t \in Sessions \ {s} : art'[t] = art[t]
      BY DEF EvidenceIInv, ArtOK
    <2>2. \A t \in Sessions \ {s} : art[t] # <<>> => art[t] \notin gone
      BY DEF EvidenceIInv, ArtOK
    <2>3. \A t \in Sessions \ {s} : art[t] # <<>> => art[t] \in DOMAIN disk' /\ art[t][1] = "art"
      BY <1>1, <2>2 DEF EvidenceIInv, ArtOK, DirStep
    <2> QED
      BY <2>1, <2>3 DEF EvidenceIInv, ArtOK
  <1>4. TargetOK'
    BY TargetKept DEF EvidenceIInv, session
  <1>5. BackingThere'
    <2>1. \A n \in gone : ~IsSha(n) /\ n[1] # "redir"
      BY <1>2
    <2> QED
      BY <1>1, <2>1, BackingKept DEF EvidenceIInv, session
  <1>6. TempsOwned'
    BY <1>1, TempsKept DEF EvidenceIInv, session
  <1> QED
    BY <1>1, <1>2, <1>3, <1>4, <1>5, <1>6, StepKeeps DEF session

\* A virtual file is given a backing file, or none.
LEMMA RealGiven ==
    ASSUME RealOK, UNCHANGED kind, NEW x, x = Plain \/ IsSha(x),
           DOMAIN real' = Sessions, \A t \in Sessions : DOMAIN real'[t] = Files,
           \A t \in Sessions, g \in Files : real'[t][g] = x \/ real'[t][g] = real[t][g]
    PROVE  RealOK'
  BY DEF RealOK, Shells

LEMMA DownloadEndKeeps ==
    ASSUME EvidenceIInv, NEW s \in Sessions,
           \/ \E f \in Files : collectioncomplete(s, f) \/ _download_success_tftp(s, f)
           \/ \E b \in BOOLEAN : _download_error(s, b)
           \/ _finalize_udp_or_ftp(s) \/ _finish_http_success(s) \/ _finish_http_exception(s)
    PROVE  EvidenceIInv' /\ StoredStays
  <1>1. ~Backed(Plain)
    BY DEF Backed
  <1>2. ASSUME NEW f \in Files, collectioncomplete(s, f) PROVE EvidenceIInv' /\ StoredStays
    <2>1. PICK x : x = IF Emptied(s) THEN Plain ELSE Sha(data[disk[art[s]]])
      OBVIOUS
    <2>2. /\ art[s] # <<>> /\ art' = [art EXCEPT ![s] = <<>>] /\ close(s)
          /\ UNCHANGED <<session, running, redir, handle, taken, pp, unrecorded>>
          /\ real' = [real EXCEPT ![s][f] = x]
      BY <1>2, <2>1 DEF collectioncomplete
    <2>3. x = Plain \/ (IsSha(x) /\ x \in DOMAIN disk')
      BY <2>1, <2>2, CloseStep, Names
    <2>4. /\ RealOK'
          /\ \A t \in Sessions, g \in Files : real'[t][g] = x \/ real'[t][g] = real[t][g]
      <3>1. RealOK /\ UNCHANGED kind
        BY <2>2, <2>3 DEF EvidenceIInv, session
      <3>2. /\ DOMAIN real' = Sessions /\ \A t \in Sessions : DOMAIN real'[t] = Files
            /\ \A t \in Sessions, g \in Files : real'[t][g] = x \/ real'[t][g] = real[t][g]
        BY <2>2, <3>1 DEF RealOK
      <3> QED
        BY <2>2, <2>3, <3>1, <3>2, RealGiven
    <2> QED
      BY <1>1, <2>2, <2>3, <2>4, FinishKeeps DEF Shells
  <1>3. ASSUME NEW f \in Files, _download_success_tftp(s, f) PROVE EvidenceIInv' /\ StoredStays
    <2>1. /\ art[s] # <<>> /\ art' = [art EXCEPT ![s] = <<>>]
          /\ UNCHANGED <<session, disk, data, running, redir, handle, taken, pp, unrecorded>>
          /\ real' = [real EXCEPT ![s][f] = Plain]
      BY <1>3 DEF _download_success_tftp
    <2>2. /\ RealOK'
          /\ \A t \in Sessions, g \in Files : real'[t][g] = Plain \/ real'[t][g] = real[t][g]
      <3>1. RealOK /\ UNCHANGED kind
        BY <2>1 DEF EvidenceIInv, session
      <3>2. /\ DOMAIN real' = Sessions /\ \A t \in Sessions : DOMAIN real'[t] = Files
            /\ \A t \in Sessions, g \in Files : real'[t][g] = Plain \/ real'[t][g] = real[t][g]
        BY <2>1, <3>1 DEF RealOK
      <3> QED
        BY <2>1, <3>1, <3>2, RealGiven
    <2> QED
      BY <1>1, <2>1, <2>2, FinishKeeps DEF Shells
  <1>4. ASSUME art[s] # <<>>, art' = [art EXCEPT ![s] = <<>>], close(s) \/ UNCHANGED <<disk, data>>,
               UNCHANGED <<session, real, running, redir, handle, taken, pp, unrecorded>>
        PROVE  EvidenceIInv' /\ StoredStays
    <2>1. RealOK'
      BY <1>4 DEF EvidenceIInv, RealOK, Shells, session
    <2> QED
      BY <1>4, <2>1, FinishKeeps
  <1>5. ASSUME NEW b \in BOOLEAN, _download_error(s, b) PROVE EvidenceIInv' /\ StoredStays
    BY <1>4, <1>5 DEF _download_error
  <1>6. CASE _finalize_udp_or_ftp(s) \/ _finish_http_success(s) \/ _finish_http_exception(s)
    BY <1>4, <1>6 DEF _finalize_udp_or_ftp, _finish_http_success, _finish_http_exception, Finished
  <1> QED
    BY <1>2, <1>3, <1>5, <1>6

-----------------------------------------------------------------------------
(* SFTP *)

LEMMA SftpOpenKeeps ==
    ASSUME EvidenceIInv, NEW s \in Sessions, NEW f \in Files, sftp_open(s, f)
    PROVE  EvidenceIInv' /\ StoredStays
  <1> DEFINE name == SftpName(f)
             i == IF name \in DOMAIN disk THEN disk[name] ELSE FreshInode
             d == With(disk, name, i)
             dt == [data EXCEPT ![i] = <<>>]
             h == [name |-> name, inode |-> i, pos |-> 0]
  <1>1. name[1] = "sftp" /\ ~IsSha(name)
    BY Names, Tagged
  <1>2. /\ kind[s] = "sftp" /\ s \in open /\ handle[s] = <<>>
        /\ name \notin DOMAIN disk => CanCreate
        /\ handle' = [handle EXCEPT ![s] = h] /\ Update(d, dt)
        /\ real' = [real EXCEPT ![s][f] = name]
        /\ UNCHANGED <<session, running, redir, art, taken, pp, unrecorded>>
    BY DEF sftp_open
  <1>3. DirOK(disk) /\ data \in [Inodes -> Contents]
    BY DEF EvidenceIInv, DataOK
  <1>4. /\ i \in Inodes
        /\ \A n \in DOMAIN disk : disk[n] = i => n = name
        /\ name \notin DOMAIN disk => i \notin Used(disk) /\ i \notin Held(handle)
        /\ name \in DOMAIN disk => i = disk[name]
    BY <1>2, <1>3, FreshIsNew DEF DirOK, Used
  <1>5. /\ DOMAIN h = {"name", "inode", "pos"} /\ h.name = name /\ h.inode = i /\ h.pos = 0
        /\ h # <<>>
    OBVIOUS
  <1>6. dt \in [Inodes -> Contents] /\ \A j \in Inodes : j # i => dt[j] = data[j]
    BY <1>3, <1>4, ContentsFacts
  <1> HIDE DEF dt, h, i, name
  <1>7. /\ DirOK(d) /\ DOMAIN d = DOMAIN disk \cup {name} /\ d[name] = i
        /\ \A n \in DOMAIN disk : d[n] = disk[n]
    <2>1. CASE name \in DOMAIN disk
      <3>1. /\ DOMAIN d = DOMAIN disk \cup {name} /\ DOMAIN d = DOMAIN disk /\ d[name] = i
            /\ \A n \in DOMAIN disk : d[n] = disk[n]
        BY <1>4, <2>1 DEF With
      <3> HIDE DEF d
      <3> QED
        BY <1>3, <3>1 DEF DirOK
    <2>2. CASE name \notin DOMAIN disk
      <3>1. name[1] \in Tags /\ name[1] # "art"
        BY <1>1 DEF Tags
      <3> QED
        BY <1>3, <1>4, <2>2, <3>1, WithNew
    <2> QED
      BY <2>1, <2>2
  <1> HIDE DEF d
  <1>8. /\ disk' = d /\ DataOK'
        /\ \A j \in Inodes : j \in Used(d) => data'[j] = dt[j]
    BY <1>2, <1>6, Updated
  <1>9. \A n \in DOMAIN disk : n # name => disk'[n] = disk[n] /\ data'[disk[n]] = data[disk[n]]
    BY <1>3, <1>4, <1>6, <1>7, <1>8 DEF DirOK, Used
  <1>10. DirStep({}, {name})
    BY <1>1, <1>2, <1>4, <1>7, <1>8, <1>9 DEF DirStep
  <1>11. /\ DOMAIN handle' = Sessions /\ handle'[s] = h
         /\ \A t \in Sessions \ {s} : handle'[t] = handle[t]
    BY <1>2 DEF EvidenceIInv, HandleOK
  <1>12. HandleOK'
    BY <1>1, <1>2, <1>4, <1>5, <1>11 DEF EvidenceIInv, HandleOK, session
  <1>13. HeldNamed'
    <2>1. ASSUME NEW n \in DOMAIN disk', disk'[n] \in Held(handle')
          PROVE  n[1] = "sftp" \/ (IsSha(n) /\ n \in taken')
      <3>1. CASE n = name
        BY <1>1, <3>1
      <3>2. CASE n # name
        <4>1. n \in DOMAIN disk /\ disk'[n] = disk[n] /\ disk[n] # i
          BY <1>4, <1>7, <1>8, <3>2
        <4>2. disk[n] \in Held(handle)
          BY <1>5, <1>11, <2>1, <4>1 DEF Held
        <4> QED
          BY <1>2, <4>1, <4>2 DEF EvidenceIInv, HeldNamed
      <3> QED
        BY <3>1, <3>2
    <2> QED
      BY <2>1 DEF HeldNamed
  <1>14. ArtOK' /\ TargetOK'
    <2>1. UNCHANGED <<art, kind, running, redir, open, pp, unrecorded>> /\ taken \subseteq taken' /\ ArtOK /\ TargetOK
      BY <1>2 DEF session, EvidenceIInv
    <2> QED
      BY <1>10, <2>1, ArtKept, TargetKept
  <1>15. RealOK' /\ BackingThere'
    <2>1. /\ DOMAIN real' = Sessions /\ \A t \in Sessions : DOMAIN real'[t] = Files
          /\ \A t \in Sessions \ {s} : real'[t] = real[t]
      BY <1>2 DEF EvidenceIInv, RealOK
    <2>2. s \notin Shells /\ UNCHANGED <<kind, open>>
      BY <1>2 DEF Shells, session
    <2>3. RealOK'
      BY <2>1, <2>2 DEF EvidenceIInv, RealOK, Shells
    <2>4. \A t \in Shells \cap open', g \in Files : real'[t][g] = real[t][g]
      BY <2>1, <2>2 DEF Shells
    <2>5. RealOK /\ BackingThere /\ UNCHANGED kind /\ open' \subseteq open
      BY <2>2 DEF EvidenceIInv
    <2> QED
      BY <1>10, <2>3, <2>4, <2>5, BackingKept
  <1>16. TempsOwned'
    <2>1. UNCHANGED <<kind, open, running, redir, unrecorded>>
      BY <1>2 DEF session
    <2>2. ASSUME NEW n \in DOMAIN disk', n[1] = "sftp"
          PROVE  \E t \in Sessions : handle'[t] # <<>> /\ handle'[t].name = n
      <3>1. CASE n = name
        BY <1>5, <1>11, <3>1
      <3>2. CASE n # name
        <4>1. PICK t \in Sessions : handle[t] # <<>> /\ handle[t].name = n
          BY <1>7, <1>8, <2>2, <3>2 DEF EvidenceIInv, TempsOwned
        <4> QED
          BY <1>2, <1>11, <4>1
      <3> QED
        BY <3>1, <3>2
    <2>3. ASSUME NEW n \in DOMAIN disk', n[1] \in {"redir", "stdin"}
          PROVE  n \in DOMAIN disk
      BY <1>1, <1>7, <1>8, <2>3
    <2> QED
      BY <2>1, <2>2, <2>3 DEF EvidenceIInv, TempsOwned, Shells
  <1>17. HashNamesContent' /\ StoredStays
    BY <1>10, HashKept, StoredKept DEF EvidenceIInv, StoredStays
  <1> QED
    BY <1>2, <1>7, <1>8, <1>12, <1>13, <1>14, <1>15, <1>16, <1>17 DEF EvidenceIInv, session

LEMMA SftpWriteKeeps ==
    ASSUME EvidenceIInv, NEW s \in Sessions, NEW c \in Chunks, sftp_write(s, c)
    PROVE  EvidenceIInv' /\ StoredStays
  <1>1. PICK i, p, old : i = handle[s].inode /\ p = handle[s].pos /\ old = data[i]
    OBVIOUS
  <1> DEFINE len == IF Len(old) > p THEN Len(old) ELSE p + 1
             x == [k \in 1 .. len |-> IF k = p + 1 THEN c ELSE IF k <= Len(old) THEN old[k] ELSE "hole"]
  <1>2. /\ handle[s] # <<>> /\ p < MaxLen
        /\ data' = [data EXCEPT ![i] = x]
        /\ handle' = [handle EXCEPT ![s].pos = @ + 1]
        /\ UNCHANGED <<session, disk, real, running, redir, art, taken, pp, unrecorded>>
    BY <1>1 DEF sftp_write
  <1>3. /\ i \in Inodes /\ p \in Nat /\ s \in open /\ kind[s] = "sftp"
        /\ DOMAIN handle[s] = {"name", "inode", "pos"} /\ handle[s].name[1] = "sftp"
    BY <1>1, <1>2 DEF EvidenceIInv, HandleOK
  <1>4. x \in Contents
    <2>1. old \in Seq(Content) /\ Len(old) <= MaxLen /\ Len(old) \in Nat
      BY <1>1, <1>3 DEF EvidenceIInv, DataOK, Contents
    <2>2. len \in Nat /\ len <= MaxLen
      BY <1>2, <1>3, <2>1, EvidenceAssumption DEF EvidenceAssumption
    <2>3. \A k \in 1 .. len : x[k] \in Content
      BY <1>3, <2>1, <2>2 DEF Content
    <2> HIDE DEF len
    <2>4. x \in Seq(Content) /\ Len(x) = len
      BY <2>2, <2>3
    <2> QED
      BY <2>2, <2>4 DEF Contents
  <1> HIDE DEF x
  <1>5. DataOK' /\ \A j \in Used(disk) : j # i => data'[j] = data[j]
    <2>1. \A j \in Used(disk) : j \in Inodes
      BY DEF EvidenceIInv, DirOK, Used
    <2> QED
      BY <1>2, <1>3, <1>4, <2>1 DEF EvidenceIInv, DataOK
  <1>6. i \in Held(handle)
    BY <1>1, <1>2 DEF Held
  <1>7. DirStep({}, {})
    <2>1. \A n \in DOMAIN disk : disk[n] = i /\ IsSha(n) => n \in taken'
      BY <1>2, <1>6, Tagged DEF EvidenceIInv, HeldNamed
    <2> QED
      BY <1>2, <1>5, <2>1, PokeStep DEF EvidenceIInv
  <1>8. PICK h : h = [handle[s] EXCEPT !.pos = @ + 1]
    OBVIOUS
  <1>9. /\ DOMAIN h = {"name", "inode", "pos"} /\ h.name = handle[s].name /\ h.inode = i
        /\ h.pos = p + 1 /\ h # <<>>
        /\ DOMAIN handle' = Sessions /\ handle'[s] = h
        /\ \A t \in Sessions \ {s} : handle'[t] = handle[t]
    <2>1. DOMAIN h = {"name", "inode", "pos"} /\ h.name = handle[s].name /\ h.inode = i /\ h.pos = p + 1
      BY <1>1, <1>3, <1>8
    <2>2. h # <<>>
      <3>1. DOMAIN <<>> = {} /\ DOMAIN h # {}
        BY <2>1
      <3> QED
        BY <3>1, Zenon
    <2>3. /\ DOMAIN handle' = Sessions /\ handle'[s] = h
          /\ \A t \in Sessions \ {s} : handle'[t] = handle[t]
      BY <1>2, <1>8 DEF EvidenceIInv, HandleOK
    <2> QED
      BY <2>1, <2>2, <2>3
  <1>10. HandleOK'
    <2>1. /\ h.pos \in Nat /\ h.name[1] = "sftp" /\ h.inode \in Inodes
          /\ UNCHANGED <<open, kind>>
      BY <1>2, <1>3, <1>9 DEF session
    <2> QED
      BY <1>3, <1>9, <2>1 DEF EvidenceIInv, HandleOK
  <1>11. Held(handle') = Held(handle)
    BY <1>1, <1>2, <1>9 DEF Held
  <1>12. HeldNamed'
    BY <1>2, <1>11 DEF EvidenceIInv, HeldNamed
  <1>13. ArtOK' /\ TargetOK' /\ RealOK'
    BY <1>2 DEF EvidenceIInv, ArtOK, TargetOK, RealOK, Shells, session
  <1>14. BackingThere'
    BY <1>2 DEF EvidenceIInv, BackingThere, Shells, session
  <1>15. TempsOwned'
    <2>1. ASSUME NEW n \in DOMAIN disk', n[1] = "sftp"
          PROVE  \E t \in Sessions : handle'[t] # <<>> /\ handle'[t].name = n
      <3>1. PICK t \in Sessions : handle[t] # <<>> /\ handle[t].name = n
        BY <1>2, <2>1 DEF EvidenceIInv, TempsOwned
      <3> QED
        BY <1>9, <3>1
    <2> QED
      BY <1>2, <2>1 DEF EvidenceIInv, TempsOwned, Shells, session
  <1>16. HashNamesContent' /\ StoredStays
    BY <1>7, HashKept, StoredKept DEF EvidenceIInv, StoredStays
  <1> QED
    BY <1>2, <1>5, <1>10, <1>12, <1>13, <1>14, <1>15, <1>16 DEF EvidenceIInv, session

\* What is collected is a temporary name of this client, or nothing is.
LEMMA SftpCloseKeeps ==
    ASSUME EvidenceIInv, NEW s \in Sessions, sftp_close(s)
    PROVE  EvidenceIInv' /\ StoredStays
  <1>1. PICK name : name = handle[s].name
    OBVIOUS
  <1>2. /\ handle[s] # <<>> /\ handle' = [handle EXCEPT ![s] = <<>>]
        /\ Update(IF name \in DOMAIN disk THEN Stored(disk, name) ELSE disk, data)
        /\ taken' = taken \cup WrittenTo
        /\ UNCHANGED <<session, real, running, redir, art, pp, unrecorded>>
    BY <1>1 DEF sftp_close
  <1>3. name[1] = "sftp" /\ ~IsSha(name)
    BY <1>1, <1>2, Tagged DEF EvidenceIInv, HandleOK
  <1>4. PICK gone : /\ DirStep(gone, {}) /\ gone \subseteq {name}
                    /\ name \in DOMAIN disk => name \in gone
    <2>1. CASE name \in DOMAIN disk
      <3>1. Moved(disk, Stored(disk, name), {name}) /\ Update(Stored(disk, name), data)
        BY <1>2, <2>1, StoredMoves DEF EvidenceIInv
      <3>2. DirStep({name}, {})
        BY <1>2, <3>1, MoveStep DEF EvidenceIInv
      <3> QED
        BY <3>2
    <2>2. CASE name \notin DOMAIN disk
      <3>1. Moved(disk, disk, {}) /\ Update(disk, data)
        BY <1>2, <2>2, MovedNothing DEF EvidenceIInv
      <3>2. DirStep({}, {})
        BY <1>2, <3>1, MoveStep DEF EvidenceIInv
      <3> QED
        BY <2>2, <3>2
    <2> QED
      BY <2>1, <2>2
  <1>5. /\ DOMAIN handle' = Sessions /\ handle'[s] = <<>>
        /\ \A t \in Sessions \ {s} : handle'[t] = handle[t]
    BY <1>2 DEF EvidenceIInv, HandleOK
  <1>6. HandleOK'
    BY <1>2, <1>5 DEF EvidenceIInv, HandleOK, session
  <1>7. HeldNamed'
    <2>1. ASSUME NEW n \in DOMAIN disk', disk'[n] \in Held(handle')
          PROVE  n[1] = "sftp" \/ (IsSha(n) /\ n \in taken')
      <3>1. disk'[n] \in Held(handle)
        BY <1>5, <2>1 DEF Held
      <3>2. CASE n \in DOMAIN disk /\ disk'[n] = disk[n]
        BY <1>2, <3>1, <3>2 DEF EvidenceIInv, HeldNamed
      <3>3. CASE IsSha(n)
        BY <1>2, <2>1, <3>3 DEF WrittenTo
      <3> QED
        BY <1>4, <3>2, <3>3 DEF DirStep
    <2> QED
      BY <2>1 DEF HeldNamed
  <1>8. ArtOK' /\ TargetOK'
    <2>1. /\ UNCHANGED <<art, kind, running, redir, open, pp, unrecorded>> /\ taken \subseteq taken' /\ ArtOK /\ TargetOK
          /\ \A t \in Sessions : art[t] # <<>> => art[t] \notin gone
      BY <1>2, <1>3, <1>4 DEF session, EvidenceIInv, ArtOK
    <2> QED
      BY <1>4, <2>1, ArtKept, TargetKept
  <1>9. RealOK' /\ BackingThere'
    <2>1. RealOK'
      BY <1>2 DEF EvidenceIInv, RealOK, Shells, session
    <2>2. /\ RealOK /\ BackingThere /\ UNCHANGED <<kind, real>> /\ open' \subseteq open
          /\ \A n \in gone : ~IsSha(n) /\ n[1] # "redir"
          /\ \A t \in Shells \cap open', f \in Files : real'[t][f] = real[t][f]
      BY <1>2, <1>3, <1>4 DEF EvidenceIInv, session
    <2> QED
      BY <1>4, <2>1, <2>2, BackingKept
  <1>10. TempsOwned'
    <2>1. ASSUME NEW n \in DOMAIN disk', n[1] \in {"redir", "stdin", "sftp"}
          PROVE  n \in DOMAIN disk /\ n # name
      BY <1>3, <1>4, <2>1, Tagged DEF DirStep
    <2>2. ASSUME NEW n \in DOMAIN disk', n[1] = "sftp"
          PROVE  \E t \in Sessions : handle'[t] # <<>> /\ handle'[t].name = n
      <3>1. n \in DOMAIN disk /\ n # name
        BY <2>1, <2>2
      <3>2. PICK t \in Sessions : handle[t] # <<>> /\ handle[t].name = n
        BY <2>2, <3>1 DEF EvidenceIInv, TempsOwned
      <3> QED
        BY <1>1, <1>5, <3>1, <3>2
    <2> QED
      BY <1>2, <2>1, <2>2 DEF EvidenceIInv, TempsOwned, Shells, session
  <1>11. HashNamesContent' /\ StoredStays
    <2>1. \A n \in gone : ~IsSha(n)
      BY <1>3, <1>4
    <2> QED
      BY <1>4, <2>1, HashKept, StoredKept DEF EvidenceIInv, StoredStays
  <1>12. DirOK(disk)' /\ DataOK'
    BY <1>4 DEF DirStep
  <1> QED
    BY <1>2, <1>6, <1>7, <1>8, <1>9, <1>10, <1>11, <1>12 DEF EvidenceIInv, session

-----------------------------------------------------------------------------
(* The end of a session *)

\* What the end of a session collects.
LEMMA LostStep ==
    ASSUME EvidenceIInv, NEW s \in Sessions, connectionLost(s)
    PROVE  \E gone : /\ DirStep(gone, {})
                     /\ \A n \in gone : n = StdinName(s) \/ n \in redir[s]
                     /\ redir[s] \subseteq gone
                     /\ s \in open /\ StdinName(s) \in DOMAIN disk => StdinName(s) \in gone
  <1> DEFINE name == StdinName(s)
             d1 == IF s \in open /\ name \in DOMAIN disk THEN Stored(disk, name) ELSE disk
  <1>1. PICK order \in Orders(redir[s]) : Update(Collected(d1, order), data)
    BY DEF connectionLost
  <1>2. PICK first : /\ Moved(disk, d1, first) /\ first \subseteq {name}
                     /\ s \in open /\ name \in DOMAIN disk => name \in first
    <2>1. CASE s \in open /\ name \in DOMAIN disk
      <3>1. Moved(disk, d1, {name})
        BY <2>1, StoredMoves DEF EvidenceIInv
      <3> QED
        BY <3>1
    <2>2. CASE ~(s \in open /\ name \in DOMAIN disk)
      <3>1. Moved(disk, d1, {})
        BY <2>2, MovedNothing DEF EvidenceIInv
      <3> QED
        BY <2>2, <3>1
    <2> QED
      BY <2>1, <2>2
  <1>3. PICK k \in Nat : order \in [1 .. k -> redir[s]] /\ \A n \in redir[s] : \E i \in 1 .. k : order[i] = n
    <2>1. Cardinality(redir[s]) \in Nat
      BY FS_CardinalityType DEF EvidenceIInv, TargetOK
    <2> QED
      BY <2>1 DEF Orders
  <1>4. DirOK(d1)
    BY <1>2 DEF Moved
  <1> HIDE DEF d1, name
  <1>5. Moved(d1, Collected(d1, order), redir[s])
    BY <1>3, <1>4, CollectedMoves
  <1>6. Moved(disk, Collected(d1, order), first \cup redir[s])
    BY <1>2, <1>5, MovedTwice
  <1>7. DataOK /\ taken \subseteq taken'
    BY DEF connectionLost, EvidenceIInv
  <1>8. DirStep(first \cup redir[s], {})
    BY <1>1, <1>6, <1>7, MoveStep
  <1> QED
    BY <1>2, <1>8 DEF name

LEMMA LostKeeps ==
    ASSUME EvidenceIInv, NEW s \in Sessions, connectionLost(s)
    PROVE  EvidenceIInv' /\ StoredStays
  <1>1. PICK gone : /\ DirStep(gone, {})
                    /\ \A n \in gone : n = StdinName(s) \/ n \in redir[s]
                    /\ redir[s] \subseteq gone
                    /\ s \in open /\ StdinName(s) \in DOMAIN disk => StdinName(s) \in gone
    BY LostStep
  <1>2. /\ UNCHANGED <<kind, real, running, art, handle, pp, unrecorded>> /\ kind[s] # "sftp"
        /\ taken' = taken \cup WrittenTo
        /\ redir' = [redir EXCEPT ![s] = {}]
        /\ open' = open \ {s}
    BY DEF connectionLost
  <1>3. \A n \in gone :
           \/ n[1] = "stdin" /\ ~IsSha(n)
           \/ n[1] = "redir" /\ n[2] = s /\ ~IsSha(n)
           \/ n[1] = "sha" /\ IsSha(n) /\ n \in taken
    <2>1. ASSUME NEW n \in gone, n = StdinName(s) PROVE n[1] = "stdin" /\ ~IsSha(n)
      BY <2>1, Names, Tagged
    <2>2. ASSUME NEW n \in redir[s]
          PROVE  (n[1] = "redir" /\ n[2] = s /\ ~IsSha(n)) \/ (n[1] = "sha" /\ IsSha(n) /\ n \in taken)
      <3>1. Target(s, n, taken)
        BY DEF EvidenceIInv, TargetOK
      <3> QED
        BY <3>1, Tagged DEF Target
    <2> QED
      BY <1>1, <2>1, <2>2
  <1>4. HandleOK' /\ HeldNamed'
    <2>1. WrittenTo \subseteq taken' /\ HandleOK /\ HeldNamed /\ UNCHANGED <<handle, kind>>
      BY <1>2 DEF EvidenceIInv
    <2>2. \A t \in open : t \in open' \/ kind[t] # "sftp"
      BY <1>2
    <2>3. \A n \in gone : n[1] # "sftp"
      BY <1>3
    <2> QED
      BY <1>1, <2>1, <2>2, <2>3, HeldKept
  <1>5. ArtOK'
    <2>1. ArtOK /\ UNCHANGED art /\ \A t \in Sessions : art[t] # <<>> => art[t] \notin gone
      BY <1>2, <1>3 DEF EvidenceIInv, ArtOK
    <2> QED
      BY <1>1, <2>1, ArtKept
  <1>6. TargetOK'
    BY <1>2, FS_EmptySet DEF EvidenceIInv, TargetOK, Target
  <1>7. RealOK' /\ BackingThere'
    <2>1. RealOK'
      BY <1>2 DEF EvidenceIInv, RealOK, Shells
    <2>2. /\ RealOK /\ BackingThere /\ UNCHANGED <<kind, real>> /\ open' \subseteq open
          /\ \A t \in Shells \cap open', f \in Files : real'[t][f] = real[t][f]
      BY <1>2 DEF EvidenceIInv
    <2>3. \A n \in gone : (IsSha(n) => n \in taken) /\ (n[1] = "redir" => n[2] \notin open')
      BY <1>2, <1>3
    <2> QED
      BY <1>1, <2>1, <2>2, <2>3, BackingKept
  <1>8. TempsOwned'
    <2>1. ASSUME NEW n \in DOMAIN disk', n[1] \in {"redir", "stdin", "sftp"}
          PROVE  n \in DOMAIN disk /\ n \notin gone
      BY <1>1, <2>1, Tagged DEF DirStep
    <2>2. ASSUME NEW n \in DOMAIN disk', n[1] = "redir"
          PROVE  \/ n \in unrecorded'
                 \/ \E t \in Sessions : (running'[t] # <<>> /\ n = running'[t]) \/ n \in redir'[t]
      <3>1. n \in DOMAIN disk /\ n \notin redir[s]
        BY <1>1, <2>1, <2>2
      <3>2. CASE n \in unrecorded
        BY <1>2, <3>2
      <3>3. ASSUME NEW t \in Sessions, (running[t] # <<>> /\ n = running[t]) \/ n \in redir[t]
            PROVE  (running'[t] # <<>> /\ n = running'[t]) \/ n \in redir'[t]
        BY <1>2, <3>1, <3>3 DEF EvidenceIInv, TargetOK
      <3> QED
        BY <2>2, <3>1, <3>2, <3>3 DEF EvidenceIInv, TempsOwned
    <2>3. ASSUME NEW n \in DOMAIN disk', n[1] = "stdin"
          PROVE  n[2] \in (Shells \cap open)' /\ n = StdinName(n[2])
      <3>1. n \in DOMAIN disk /\ n \notin gone /\ n[2] \in Shells \cap open /\ n = StdinName(n[2])
        BY <2>1, <2>3 DEF EvidenceIInv, TempsOwned
      <3>2. n[2] # s
        BY <1>1, <3>1
      <3> QED
        BY <1>2, <3>1, <3>2 DEF Shells
    <2>4. ASSUME NEW n \in DOMAIN disk', n[1] = "sftp"
          PROVE  \E t \in Sessions : handle'[t] # <<>> /\ handle'[t].name = n
      <3>1. n \in DOMAIN disk
        BY <2>1, <2>4
      <3> QED
        BY <1>2, <2>4, <3>1 DEF EvidenceIInv, TempsOwned
    <2> QED
      BY <2>2, <2>3, <2>4 DEF TempsOwned
  <1>9. HashNamesContent' /\ StoredStays
    <2>1. \A n \in gone : IsSha(n) => n \in taken
      BY <1>3
    <2> QED
      BY <1>1, <2>1, HashKept, StoredKept DEF EvidenceIInv, StoredStays
  <1>10. DirOK(disk)' /\ DataOK' /\ (open \subseteq Sessions)'
    BY <1>1, <1>2 DEF DirStep, EvidenceIInv
  <1> QED
    BY <1>4, <1>5, <1>6, <1>7, <1>8, <1>9, <1>10 DEF EvidenceIInv

\* A session of SFTP ends when it has closed its files; and time passes.
LEMMA QuietKeeps ==
    ASSUME EvidenceIInv, UNCHANGED <<kind, disk, data, real, running, redir, art, handle, taken, pp, unrecorded>>,
           UNCHANGED open \/ \E s \in Sessions : sftp_lost(s)
    PROVE  EvidenceIInv' /\ StoredStays
  <1>1. DirStep({}, {})
    BY SameDir DEF EvidenceIInv
  <1>2. /\ open' \subseteq open
        /\ \A s \in open : s \in open' \/ (kind[s] = "sftp" /\ handle[s] = <<>>)
    BY DEF sftp_lost
  <1>3. HandleOK' /\ HeldNamed'
    BY <1>2 DEF EvidenceIInv, HandleOK, HeldNamed
  <1>4. ArtOK' /\ RealOK'
    BY DEF EvidenceIInv, ArtOK, RealOK, Shells
  <1>5. \A s \in Sessions : s \in Shells \cap open => s \in Shells' \cap open'
    BY <1>2 DEF Shells
  <1>6. TargetOK'
    BY <1>5 DEF EvidenceIInv, TargetOK, Target, Shells
  <1>7. BackingThere' /\ HashNamesContent'
    BY <1>2 DEF EvidenceIInv, BackingThere, HashNamesContent, Shells
  <1>8. TempsOwned'
    BY <1>5 DEF EvidenceIInv, TempsOwned, Shells
  <1>9. StoredStays /\ DirOK(disk)' /\ DataOK' /\ (open \subseteq Sessions)'
    BY <1>2 DEF StoredStays, EvidenceIInv, DataOK
  <1> QED
    BY <1>3, <1>4, <1>6, <1>7, <1>8, <1>9 DEF EvidenceIInv

-----------------------------------------------------------------------------
(* The theorems *)

LEMMA EvidenceInitInv == EvidenceInit => EvidenceIInv
  <1> SUFFICES ASSUME EvidenceInit PROVE EvidenceIInv
    OBVIOUS
  <1>1. DOMAIN disk = {}
    BY DEF EvidenceInit
  <1>2. DirOK(disk) /\ HeldNamed /\ TempsOwned /\ HashNamesContent
    BY <1>1 DEF DirOK, HeldNamed, TempsOwned, HashNamesContent
  <1>3. open \subseteq Sessions /\ DataOK /\ HandleOK /\ ArtOK
    BY ContentsFacts DEF EvidenceInit, DataOK, HandleOK, ArtOK
  <1>4. TargetOK
    BY FS_EmptySet DEF EvidenceInit, TargetOK
  <1>5. RealOK /\ BackingThere
    BY DEF EvidenceInit, RealOK, BackingThere, Backed, Shells
  <1> QED
    BY <1>2, <1>3, <1>4, <1>5 DEF EvidenceIInv

LEMMA EvidenceStep ==
    ASSUME EvidenceIInv, EvidenceNext
    PROVE  EvidenceIInv' /\ StoredStays
  <1>1. ASSUME NEW s \in Sessions, NEW f \in Files, NEW b \in BOOLEAN,
               NEW whom \in {"command", "stage", "nothing"}, Redirect(s, f, b, whom)
        PROVE  EvidenceIInv' /\ StoredStays
    <2>1. Redirected(s, real'[s][f], whom)
      BY <1>1 DEF Redirect, Redirected
    <2> QED
      BY <1>1, <2>1, CreateKeeps, ReuseKeeps DEF Redirect
  <1>2. ASSUME NEW s \in Sessions, NEW c \in Chunks,
               _write_to_file(s, c) \/ dataReceived(s, c) \/ write(s, c) \/ sftp_write(s, c)
        PROVE  EvidenceIInv' /\ StoredStays
    BY <1>2, WriteToFileKeeps, DataReceivedKeeps, WriteKeeps, SftpWriteKeeps
  <1>3. ASSUME NEW s \in Sessions, NEW c \in Chunks, _persist_scp_file(s, c)
        PROVE  EvidenceIInv' /\ StoredStays
    BY <1>3, StoreKeeps DEF _persist_scp_file
  <1>5. ASSUME NEW s \in Sessions, download(s) \/ fetch(s)
        PROVE  EvidenceIInv' /\ StoredStays
    BY <1>5, ArtifactKeeps DEF download, fetch, Idle
  <1>6. ASSUME NEW s \in Sessions, NEW f \in Files, NEW g \in Files, cp(s, f, g)
        PROVE  EvidenceIInv' /\ StoredStays
    <2>1. PICK x : x = real[s][f]
      OBVIOUS
    <2>2. /\ real' = [real EXCEPT ![s][g] = x]
          /\ UNCHANGED <<session, disk, data, running, redir, art, handle, taken, pp, unrecorded>>
      BY <1>6, <2>1 DEF cp
    <2> QED
      BY <2>1, <2>2, VirtualKeeps
  <1>7. ASSUME NEW s \in Sessions, NEW f \in Files, rm(s, f)
        PROVE  EvidenceIInv' /\ StoredStays
    BY <1>7, VirtualKeeps DEF rm
  <1>8. CASE Tick
    BY <1>8, QuietKeeps DEF Tick
  <1>9. ASSUME NEW s \in Sessions, sftp_lost(s)
        PROVE  EvidenceIInv' /\ StoredStays
    BY <1>9, QuietKeeps DEF sftp_lost
  <1> QED
    BY <1>1, <1>2, <1>3, <1>5, <1>6, <1>7, <1>8, <1>9, ExitKeeps, SftpOpenKeeps, SftpCloseKeeps,
       LostKeeps, DownloadEndKeeps DEF EvidenceNext

LEMMA EvidenceInductive == EvidenceSpec => []EvidenceIInv
  <1>1. EvidenceIInv /\ [EvidenceNext]_vars => EvidenceIInv'
    <2> SUFFICES ASSUME EvidenceIInv, UNCHANGED vars PROVE EvidenceIInv'
      BY EvidenceStep
    <2>1. EvidenceIInv'
      BY QuietKeeps DEF vars
    <2> QED
      BY <2>1
  <1> QED
    BY <1>1, EvidenceInitInv, PTL DEF EvidenceSpec

\* A file under a hash holds what hashes to it, for any number of sessions that
\* redirect, download, upload and end in any order, unless a redirection reused
\* the file or an upload still wrote to it when it was renamed (fs.py's close,
\* artifact.py's close and the connectionLost of insults.py).
THEOREM HashesNameContent == EvidenceSpec => []HashNamesContent
  <1>1. EvidenceIInv => HashNamesContent
    BY DEF EvidenceIInv
  <1> QED
    BY <1>1, EvidenceInductive, PTL

\* Every file has an inode of its own, no download loses its temporary file, a
\* shell's virtual files keep their backing files while the session lasts, and
\* no temporary name is left when all sessions are over, but for the output of a
\* command the loss cut off and the redirections no exit() recorded.
THEOREM EvidenceCorrect == EvidenceSpec => []EvidenceInv
  <1>1. EvidenceIInv => EvidenceInv
    <2> SUFFICES ASSUME EvidenceIInv PROVE EvidenceInv
      OBVIOUS
    <2>1. EvidenceTypeOK
      BY DEF EvidenceIInv, EvidenceTypeOK, DirOK, DataOK, Contents, ArtOK, Tags
    <2>2. TempsCollected
      <3> SUFFICES ASSUME open = {}, NEW n \in DOMAIN disk, n[1] \in {"redir", "stdin", "sftp"}
                   PROVE  n \in unrecorded \/ \E s \in Sessions : running[s] = n
        BY DEF TempsCollected
      <3> QED
        BY DEF EvidenceIInv, TempsOwned, TargetOK, HandleOK
    <2> QED
      BY <2>1, <2>2 DEF EvidenceInv, EvidenceIInv
  <1> QED
    BY <1>1, EvidenceInductive, PTL

\* What is stored under its hash stays: neither the end of this session or of
\* another one nor a duplicate removes it, unless a redirection reused it.
THEOREM EvidenceStays == EvidenceSpec => EvidenceKept
  <1>1. EvidenceIInv /\ [EvidenceNext]_vars
            => [\A n \in DOMAIN disk : IsSha(n) /\ n \notin taken => n \in DOMAIN disk']_vars
    BY EvidenceStep DEF StoredStays
  <1> QED
    BY <1>1, EvidenceInductive, PTL DEF EvidenceSpec, EvidenceKept
=============================================================================
