----------------------------- MODULE TreeSessions -----------------------------
(***************************************************************************)
(* A session of the shell, of SFTP or of the editor on one tree, and what  *)
(* such a session may never do to it.                                      *)
(***************************************************************************)
EXTENDS FsCtl

TreeNext == ShellNext \/ SftpNext \/ FsctlNext
TreeSpec == TreeInit /\ [][TreeNext]_treeVars

-----------------------------------------------------------------------------
\* The entries in use, and where they are, fit together.
Entries == [name : Names, type : {"free", "dir", "file", "link"}, bytes : BOOLEAN,
            kids : Seq(Ids), target : Seq(Names), real : BOOLEAN]
WellFormed(t) ==
    /\ t \in [Ids -> Entries]
    /\ t[Root].type = "dir"
    /\ \A i \in Ids : /\ Children(t, i) \subseteq Used(t)
                      /\ t[i].bytes => t[i].kids = <<>>

\* Two entries of one directory with the same name.
Doubled(t) == \E d \in Used(t) : \E i, j \in DOMAIN t[d].kids :
                 i # j /\ t[t[d].kids[i]].name = t[t[d].kids[j]].name
\* No entry is in two places, and the root in none.
IsTree(t) ==
    \A d, e \in Ids : \A i \in DOMAIN t[d].kids, j \in DOMAIN t[e].kids :
        /\ t[d].kids[i] # Root
        /\ t[d].kids[i] = t[e].kids[j] => d = e /\ i = j

\* A pickle is a tree of which all is reached from its root, without two entries
\* of a name.
ASSUME TreeAssumption ==
    /\ \A t \in Pickles : WellFormed(t) /\ Collect(t) = t /\ IsTree(t) /\ ~Doubled(t)
    /\ Args \subseteq [abs : BOOLEAN, parts : Seq(Names), slash : BOOLEAN]
    /\ Paths \subseteq Seq(Names)
    /\ {"n", "g", ".git"} \subseteq Names
    /\ Archives \subseteq Seq([parts : Seq(Names), dir : BOOLEAN])

\* The heap is well formed, and nothing is kept that cannot be reached.
TreeTypeOK ==
    /\ front \in {"shell", "sftp", "fsctl"}
    /\ WellFormed(tree) /\ Collect(tree) = tree
    /\ newcount \in 0 .. MaxNew + 1
    /\ last.out \in {"ok", "full", "refused", "raised"}

\* The editor's checks keep the names of the pickle unique, whatever is
\* copied, moved, made or loaded; and what nothing leads to is not kept.
TreeInv == TreeTypeOK /\ (front = "fsctl" => ~Doubled(tree))

\* getfile and get_path agree only while names are unique.  Only mv, which does
\* not look at the destination, an archive, which makes its directories without
\* a look, and a mkdir or rename to the name of a broken link double a name.
KeepsNames ==
    ~Doubled(tree) /\ Doubled(tree') =>
        \/ last'.op \in {"mv", "tar"}
        \/ last'.op \in {"mkdir", "mkdir2", "git", "rename"}
             /\ \E i \in Ids, p \in ToSet(last'.paths) :
                   tree[i].type = "link" /\ tree[i].name = Base(p)

\* An entry in two places is edited twice and never freed.  Only a mv that
\* raised, through a link or of the root, leaves one behind.
KeepsPlaces == IsTree(tree) /\ ~IsTree(tree') => last'.op = "mv" /\ last'.out = "raised"

\* What a call reports as made is found under its name by the next lookup.  This
\* is what goes wrong once a name is doubled, or is that of the root or a broken link.
FindsMade ==
    /\ last'.out = "ok" /\ ~Doubled(tree) /\ ~Doubled(tree')
    /\ last'.paths[1] # <<>> /\ last'.op \in {"touch", "download", "mkdir", "mkdir2", "open", "cp", "git"}
    => getfile(tree', last'.paths[1], TRUE) \in Reachable(tree') \ Reachable(tree)

\* Every call keeps the tree a tree with one entry for a name, in which the next
\* lookup finds what was made, but for the calls named above.
ShapeKept == [][tree' # tree => KeepsNames /\ KeepsPlaces /\ FindsMade]_treeVars

\* A call that refuses, raises or finds the tree full has changed nothing, but
\* for the six that notice after a part of their work.
RefusalChangesNothing ==
    [][\/ last'.out = "refused"
       \/ last'.out \in {"raised", "full"}
            /\ last'.op \notin {"mv", "rename", "open", "tar", "git", "download"}
       => tree' = tree]_treeVars

\* Whatever a call does, the entries it cuts off are the ones its paths name,
\* links followed or not, and what is below them; but "rmdir d/" takes an entry
\* that has lost its name for d.
Directories(path) == {d \in {get_path(tree, path), getfile(tree, path, TRUE), getpath(tree, path)} : d > 0}
NamedBy(path) ==
    IF path = <<>> THEN {Root}
    ELSE Directories(path) \cup UNION {{k \in Children(tree, d) : tree[k].name = Base(path)} : d \in Directories(Parent(path))}
CutsOnlyNamed ==
    [][LET named == UNION {NamedBy(p) : p \in ToSet(last'.paths)}
           nameless == {i \in Ids \ {Root} : last'.op = "rmdir" /\ tree[i].name = ""}
       IN  tree' # tree =>
               Reachable(tree) \ Reachable(tree') \subseteq Under(tree, named \cup nameless)]_treeVars
=============================================================================
