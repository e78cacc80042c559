--------------------------------- MODULE FsCtl ---------------------------------
(***************************************************************************)
(* The editor of the pickled tree (scripts/fsctl.py).  It looks entries up *)
(* in its own way: no link is followed, of several entries of one name the *)
(* first counts, and walking into the bytes of a file is a TypeError that  *)
(* ends the program.  Every change is saved to the pickle at once, so the  *)
(* tree of the model is also the one on disk, and a program that ended is  *)
(* started again at "/".                                                   *)
(***************************************************************************)
EXTENDS TreeCommands

getpath(t, path) ==
    Walk(Len(path), [i \in 1 .. Len(path) |-> [p \in Ids |->
        IF t[p].bytes THEN Raised ELSE First(t, p, path[i])]])

\* A command of the editor; an exception ends it before anything is saved.
Edit(op, paths, s) ==
    /\ front = "fsctl"
    /\ Did(op, paths, s)
    /\ cwd' = IF s.out = "raised" THEN <<>> ELSE cwd
Edited(t) == Result(t, newcount, "ok")

do_cd(arg) ==
    LET f == getpath(tree, At(arg))
    IN  /\ front = "fsctl"
        /\ Did("do_cd", <<>>, Ends(Found(f)))
        /\ cwd' = IF f = Raised THEN <<>> ELSE IF f > 0 /\ tree[f].type = "dir" THEN At(arg) ELSE cwd

\* mkfile makes the missing parents first, each in the same way.
editor_mkfile(arg, type) ==
    LET p == At(arg)
        f == getpath(tree, p)
        Missing(t, k) ==
            LET q == SubSeq(p, 1, k)
            IN  IF getpath(t, q) # None THEN t
                ELSE Add(t, getpath(t, Parent(q)), Entry(Base(q), IF k = Len(p) THEN type ELSE "dir"))
        made[k \in 0 .. Len(p)] == IF k = 0 THEN tree ELSE Missing(made[k - 1], k)
    IN  /\ HasRoom(Len(p))
        /\ Edit("mkfile", <<p>>,
             Guarded(<<When(f = Raised, "raised"), When(f > 0, "refused")>>,
                     Edited(made[Len(p)])))
do_mkdir(arg) == editor_mkfile(arg, "dir")
do_touch(arg) == editor_mkfile(arg, "file")

do_rm(arg, recursive) ==
    LET p == At(arg)
        f == getpath(tree, p)
    IN  Edit("do_rm", <<p>>,
          Guarded(<<Found(f), When(p = <<>>, "refused"),
                    When(f > 0 /\ tree[f].type = "dir" /\ ~recursive, "refused")>>,
                  Edited(Detach(tree, getpath(tree, Parent(p)), f))))

\* The pwd moves up when it was the directory removed.  Removing "/" raises.
do_rmdir(arg) ==
    LET p == At(arg)
        f == getpath(tree, p)
        s == Guarded(<<Found(f), When(f > 0 /\ (tree[f].type # "dir" \/ tree[f].bytes \/ tree[f].kids # <<>>), "refused"),
                       When(p = <<>>, "raised")>>,
                     Edited(Detach(tree, getpath(tree, Parent(p)), f)))
    IN  /\ front = "fsctl"
        /\ Did("do_rmdir", <<p>>, s)
        /\ cwd' = IF s.out = "raised" THEN <<>>
                  ELSE IF s.out = "ok" /\ cwd = p THEN Parent(p) ELSE cwd

\* Where mv and cp put the entry, and what stops them.
Target(src, dst) ==
    LET f == getpath(tree, At(src))
        e == getpath(tree, At(dst))
    IN  IF e > 0 /\ tree[e].type = "dir" /\ f > Root THEN Append(At(dst), tree[f].name) ELSE At(dst)
\* Mutant: nothing looks whether the name is taken.
Blocked_NotTaken(src, dst) ==
    LET f == getpath(tree, At(src))
        e == getpath(tree, At(dst))
        to == Target(src, dst)
        taken == getpath(tree, to)
    IN  IF f <= 0 THEN <<Found(f)>>
        ELSE IF e = Raised THEN <<"raised">>
        ELSE <<When(taken = Raised, "raised"),
               Found(getpath(tree, Parent(to)))>>

Blocked(src, dst) ==
    LET f == getpath(tree, At(src))
        e == getpath(tree, At(dst))
        to == Target(src, dst)
        taken == getpath(tree, to)
    IN  IF f <= 0 THEN <<Found(f)>>
        ELSE IF e = Raised THEN <<"raised">>
        ELSE <<When(taken = Raised, "raised"), When(taken > 0, "refused"),
               Found(getpath(tree, Parent(to)))>>

\* A shallow copy, appended before the original is removed: moving a
\* directory into itself removes both.
do_mv(src, dst) ==
    LET p == At(src)
        f == getpath(tree, p)
        to == Target(src, dst)
        x == Fresh(tree)
        t1 == Attach([tree EXCEPT ![x] = [tree[f] EXCEPT !.name = Base(to)]],
                     getpath(tree, Parent(to)), x)
    IN  /\ HasRoom(1)
        /\ Edit("do_mv", <<p>>,
             Guarded(<<When(p = <<>>, "refused")>> \o Blocked(src, dst),
                     Edited(Detach(t1, getpath(t1, Parent(p)), f))))

do_cp(src, dst) ==
    LET f == getpath(tree, At(src))
        to == Target(src, dst)
        c == Copied(tree, f)
    IN  /\ f > 0 => Fits(tree, f)
        /\ Edit("do_cp", <<to>>,
             Guarded(Blocked(src, dst),
                     Edited(Attach([c.t EXCEPT ![c.x].name = Base(to)],
                                   getpath(tree, Parent(to)), c.x))))

\* load takes any entry; embed only files, and leaves the rest alone.
Filled(f) == Edited([tree EXCEPT ![f].bytes = TRUE, ![f].kids = <<>>])
do_load(arg) ==
    LET f == getpath(tree, At(arg))
    IN  Edit("do_load", <<At(arg)>>, Guarded(<<Found(f)>>, Filled(f)))
do_embed(path) ==
    LET f == getpath(tree, path)
    IN  Edit("do_embed", <<path>>,
             IF f = Raised THEN Ends("raised")
             ELSE IF f > 0 /\ tree[f].type = "file" THEN Filled(f) ELSE State)

FsctlNext ==
    \/ \E a \in Operands("fsctl", Args) : \/ do_cd(a) \/ do_mkdir(a) \/ do_touch(a) \/ do_rmdir(a) \/ do_load(a)
                                          \/ \E r \in BOOLEAN : do_rm(a, r)
    \/ \E a, b \in Operands("fsctl", Args) : do_mv(a, b) \/ do_cp(a, b)
    \/ \E p \in Operands("fsctl", Paths) : do_embed(p)
=============================================================================
