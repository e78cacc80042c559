------------------------------ MODULE VirtualTree ------------------------------
(***************************************************************************)
(* The virtual file system of a session (shell/fs.py): a tree of entries   *)
(* read from a pickle, looked up by path and edited in place.  An entry is *)
(* a Python list, so it has an identity and may be reached along several   *)
(* paths; the model is a heap of nodes.  What an operation returns or      *)
(* raises is kept in its outcome, since most of what can go wrong here is  *)
(* an exception halfway through an edit.                                   *)
(***************************************************************************)
EXTENDS Integers, Sequences, FiniteSets, SequencesExt, FiniteSetsExt

CONSTANTS Names,      \* strings: the pieces of paths
          Ids,        \* the entries that can exist at once: 1 .. some bound
          MaxNew,     \* "newcount > 10000" in the code
          Special     \* the first names of SPECIAL_PATHS

ASSUME NamesAssumption == "" \in Names
ASSUME IdsAssumption == Ids \subseteq Nat \ {0} /\ IsFiniteSet(Ids) /\ 1 \in Ids
ASSUME MaxNewAssumption == MaxNew \in Nat

Root == 1
\* getfile's None; an exception (TypeError, RecursionError); fs.FileNotFound
None == 0
Raised == -1
NotFound == -2

\* [A_NAME, A_TYPE, ..., A_CONTENTS, A_TARGET, A_REALFILE].  A_CONTENTS is a
\* list, of files too, unless the pickle holds the bytes of the file.
Entry(name, type) == [name |-> name, type |-> type, bytes |-> FALSE, kids |-> <<>>,
                      target |-> <<>>, real |-> FALSE]
Free == Entry("", "free")

Used(t) == {i \in Ids : t[i].type # "free"}
Fresh(t) == Min(Ids \ Used(t))

\* What a call leaves behind: the tree, newcount and how it ended.
Result(t, n, out) == [t |-> t, n |-> n, out |-> out]

-----------------------------------------------------------------------------
(* Lookup *)

Parent(path) == IF path = <<>> THEN <<>> ELSE Front(path)
Base(path) == IF path = <<>> THEN "" ELSE Last(path)

\* resolve_path: an argument is [abs, parts, slash], its parts already split.
Resolved(path, part) == IF part = ".." THEN Parent(path) ELSE Append(path, part)
resolve_path(arg, cwd) ==
    LET path[i \in 0 .. Len(arg.parts)] ==
          IF i = 0 THEN IF arg.abs THEN <<>> ELSE cwd ELSE Resolved(path[i - 1], arg.parts[i])
    IN  path[Len(arg.parts)]

\* os.path.basename of the argument as it was typed
Typed(arg) == IF arg.slash THEN "" ELSE Base(arg.parts)

\* The places in d of the entries of a name, and the first of these entries.
Places(t, d, name) == {i \in DOMAIN t[d].kids : t[t[d].kids[i]].name = name}
First(t, d, name) == LET places == Places(t, d, name)
                     IN  IF places = {} THEN None ELSE t[d].kids[Min(places)]

\* Along the pieces of a path: from the root, as next[i] says of the i-th piece,
\* until a lookup fails.
Walk(n, next) ==
    LET w[i \in 0 .. n] == IF i = 0 THEN Root
                           ELSE LET p == w[i - 1] IN IF p <= 0 THEN p ELSE next[i][p]
    IN  w[n]

(* getfile: of several entries of one name the last counts, unless one is a *)
(* broken link; links are resolved from the root, whatever their form; a    *)
(* link met twice recurses for ever; iterating the bytes of a file raises;  *)
(* and "not follow" spares every piece that equals the last one.            *)

\* What of the entries of a name counts, when comes[x] is what x comes to.
Counted(t, p, name, comes) ==
    LET hits == Places(t, p, name)
        bad == {i \in hits : comes[t[p].kids[i]] <= 0}
    IN  IF t[p].bytes THEN Raised
        ELSE IF hits = {} THEN None
        ELSE comes[t[p].kids[IF bad # {} THEN Min(bad) ELSE Max(hits)]]

\* A path, when linked[q] is what the target q of a link comes to.
Followed(t, path, follow, linked) ==
    Walk(Len(path), [i \in 1 .. Len(path) |-> [p \in Ids |->
        Counted(t, p, path[i], [x \in Ids |->
            IF t[x].type # "link" \/ (~follow /\ path[i] = Last(path)) THEN x ELSE linked[t[x].target]])]])

getfile(t, path, follow) ==
    LET links == {i \in Ids : t[i].type = "link"}
        g[k \in 0 .. Cardinality(links)] == [q \in Seq(Names) |->
            Followed(t, q, follow, IF k = 0 THEN [target \in Seq(Names) |-> Raised] ELSE g[k - 1])]
    IN  g[Cardinality(links)][path]

(* get_path: the entry whose contents are returned; of several entries of   *)
(* one name the first counts, and every link is followed.                   *)
get_path(t, path) ==
    Walk(Len(path), [i \in 1 .. Len(path) |-> [p \in Ids |->
        LET c == First(t, p, path[i])
            f == getfile(t, t[c].target, TRUE)
        IN  IF t[p].bytes \/ c = None THEN NotFound
            ELSE IF t[c].type # "link" THEN c
            ELSE IF f = None THEN NotFound ELSE f]])

isdir(t, path) == LET f == getfile(t, path, TRUE) IN f > 0 /\ t[f].type = "dir"

-----------------------------------------------------------------------------
(* Editing *)

Children(t, i) == ToSet(t[i].kids)
\* One step down, and all steps down: as many as there are entries.
Below(t, S) == S \cup (Ids \cap UNION {Children(t, i) : i \in S})
Under(t, S) ==
    LET r[n \in 0 .. Cardinality(Ids)] == IF n = 0 THEN S ELSE Below(t, r[n - 1])
    IN  r[Cardinality(Ids)]
Reachable(t) == Under(t, {Root})

\* Entries no path leads to any more are garbage.
Collect(t) == LET live == Reachable(t) IN [i \in Ids |-> IF i \in live THEN t[i] ELSE Free]

Attach(t, d, x) == [t EXCEPT ![d].kids = Append(@, x)]
Detach(t, d, x) == [t EXCEPT ![d].kids = RemoveFirst(@, x)]
Holds(t, d, x) == x \in Children(t, d)
\* A new entry of d.  The model's heap has room for it: no call is made that
\* fills it (HasRoom).
Full(t) == Used(t) = Ids
Add(t, d, e) == LET x == Fresh(t) IN IF Full(t) THEN t ELSE Attach([t EXCEPT ![x] = e], d, x)
\* .append and iteration need a list
Listed(t, d) == d > 0 /\ ~t[d].bytes

IsSpecial(path) == path # <<>> /\ Head(path) \in Special

\* Removes the first entry of the name, whatever it is, and appends a file.
mkfile(s, path) ==
    LET d == get_path(s.t, Parent(path))
        old == First(s.t, d, Base(path))
        t1 == IF old = None THEN s.t ELSE Detach(s.t, d, old)
    IN  CASE s.n > MaxNew -> [s EXCEPT !.out = "full"]
          [] s.n <= MaxNew /\ (IsSpecial(Parent(path)) \/ ~Listed(s.t, d)) -> [s EXCEPT !.out = "raised"]
          [] OTHER -> Result(Add(t1, d, Entry(Base(path), "file")), s.n + 1, "ok")

\* Does not look whether the name is taken.
mkdir(s, path) ==
    LET d == get_path(s.t, Parent(path))
    IN  IF s.n > MaxNew \/ path = <<>> \/ ~Listed(s.t, d) THEN [s EXCEPT !.out = "raised"]
        ELSE Result(Add(s.t, d, Entry(Base(path), "dir")), s.n + 1, "ok")

\* One call after another, until one raises.
Then(s, Op(_, _), path) == IF s.out = "raised" THEN s ELSE Op(s, path)

update_realfile(s, path) ==
    LET f == getfile(s.t, path, TRUE)
    IN  IF s.out = "raised" \/ f <= 0 THEN [s EXCEPT !.out = "raised"]
        ELSE [s EXCEPT !.t[f].real = TRUE]

\* The SFTP calls raise OSError for a missing or an unsuitable entry.
Fails(s) == [s EXCEPT !.out = "raised"]

\* os.open of the temporary file fails without O_CREAT, after mkfile.
open(s, path, creat) ==
    LET made == mkfile(s, path)
    IN  IF made.out = "raised" THEN made
        ELSE IF ~creat THEN Fails(made) ELSE update_realfile(made, path)

mkdir2(s, path) == IF getfile(s.t, path, TRUE) # None THEN Fails(s) ELSE mkdir(s, path)

\* Mutant: the directory is taken out before it is found not to be empty.
rmdir_Early(s, path) ==
    LET x == IF path = <<>> THEN None ELSE getfile(s.t, path, FALSE)
        p == get_path(s.t, path)
        d == get_path(s.t, Parent(path))
    IN  IF x <= 0 \/ s.t[x].type # "dir" \/ p <= 0 \/ d <= 0 THEN Fails(s)
        ELSE Result(Detach(s.t, d, First(s.t, d, Base(path))), s.n,
                    IF s.t[p].kids # <<>> THEN "raised" ELSE "ok")

rmdir(s, path) ==
    LET x == IF path = <<>> THEN None ELSE getfile(s.t, path, FALSE)
        p == get_path(s.t, path)
        d == get_path(s.t, Parent(path))
    IN  IF x <= 0 \/ s.t[x].type # "dir" \/ p <= 0 \/ s.t[p].kids # <<>> \/ d <= 0 THEN Fails(s)
        ELSE Result(Detach(s.t, d, First(s.t, d, Base(path))), s.n, "ok")

remove(s, path) ==
    LET x == getfile(s.t, path, FALSE)
        d == get_path(s.t, Parent(path))
    IN  IF x <= 0 \/ d <= 0 \/ ~Holds(s.t, d, x) THEN Fails(s)
        ELSE Result(Detach(s.t, d, x), s.n, "ok")

\* The entry is removed and renamed before the new directory is looked up.
rename(s, oldpath, newpath) ==
    LET old == getfile(s.t, oldpath, TRUE)
        new == getfile(s.t, newpath, TRUE)
        d == get_path(s.t, Parent(oldpath))
        t1 == [Detach(s.t, d, old) EXCEPT ![old].name = Base(newpath)]
        d2 == get_path(t1, Parent(newpath))
    IN  IF old <= 0 \/ new # None \/ d <= 0 \/ ~Holds(s.t, d, old) THEN Fails(s)
        ELSE IF ~Listed(t1, d2) THEN Result(t1, s.n, "raised")
        ELSE Result(Attach(t1, d2, old), s.n, "ok")

\* Mutant: the entry itself instead of a deep copy.
Copied_Shared(t, x) == [t |-> t, x |-> x]

\* copy.deepcopy: fresh entries for everything under x, and the copy of x.
Copied(t, x) ==
    LET from == Under(t, {x})
        m == CHOOSE f \in [from -> Ids \ Used(t)] : \A i, j \in from : f[i] = f[j] => i = j
        Of(j) == CHOOSE i \in from : m[i] = j
    IN  [t |-> [j \in Ids |-> IF \E i \in from : m[i] = j
                              THEN [t[Of(j)] EXCEPT !.kids = [k \in DOMAIN @ |-> m[@[k]]]]
                              ELSE t[j]],
         x |-> m[x]]
\* The model's heap has room for the copy.
Fits(t, x) == Cardinality(Under(t, {x})) <= Cardinality(Ids \ Used(t))
=============================================================================
