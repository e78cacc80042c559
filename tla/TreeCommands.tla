----------------------------- MODULE TreeCommands -----------------------------
(***************************************************************************)
(* Who edits a virtual file system: the commands of an emulated shell      *)
(* (commands/fs.py and its neighbours) or an SFTP session                  *)
(* (shell/filetransfer.py).  Each session has a tree of its own, a deep    *)
(* copy of the pickle, and the two kinds of session never share one.       *)
(***************************************************************************)
EXTENDS VirtualTree

CONSTANTS Args,       \* what may be typed: [abs, parts, slash]
          Paths,      \* what an SFTP client may name: sequences of names
          Archives,   \* what a downloaded archive may hold: Seq of [parts, dir]
          Pickles,    \* the trees a session or an editor may start from
          MaxCalls    \* the calls of one behaviour

VARIABLES
    front,     \* who holds the tree: "shell", "sftp" or "fsctl"
    tree,      \* HoneyPotFilesystem.fs, or the editor's fs
    newcount,  \* HoneyPotFilesystem.newcount
    cwd,       \* protocol.cwd, or the editor's pwd
    calls,     \* how many calls were made
    last       \* the last call: what it was, what it named, how it ended

treeVars == <<front, tree, newcount, cwd, calls, last>>

State == Result(tree, newcount, "ok")
At(arg) == resolve_path(arg, cwd)
Lookup(path) == getfile(tree, path, TRUE)
HasRoom(n) == Cardinality(Ids \ Used(tree)) >= n

\* How a lookup lets a command go on: exists() is None-or-entry, and may raise.
Found(f) == IF f = Raised THEN "raised" ELSE IF f = None THEN "refused" ELSE "ok"
When(c, out) == IF c THEN out ELSE "ok"
Ends(out) == [State EXCEPT !.out = out]
\* What a command does unless one of its checks stops it, the first that does.
Guarded(checks, s) ==
    LET stops == {i \in DOMAIN checks : checks[i] # "ok"}
    IN  IF stops = {} THEN s ELSE Ends(checks[Min(stops)])

Did(op, paths, s) ==
    /\ calls < MaxCalls
    /\ calls' = calls + 1
    /\ tree' = Collect(s.t)
    /\ newcount' = s.n
    /\ last' = [op |-> op, paths |-> paths, out |-> s.out]
    /\ UNCHANGED front

Shell(op, paths, s) == front = "shell" /\ Did(op, paths, s) /\ UNCHANGED cwd
Sftp(op, paths, s) == front = "sftp" /\ Did(op, paths, s) /\ UNCHANGED cwd

-----------------------------------------------------------------------------
(* The shell's commands, one operand each *)

Command_cd(arg) ==
    LET f == Lookup(At(arg))
    IN  /\ front = "shell"
        /\ cwd' = IF f > 0 /\ tree[f].type = "dir" THEN At(arg) ELSE cwd
        /\ Did("cd", <<>>, Ends(IF cwd' = At(arg) THEN "ok" ELSE "refused"))

Command_touch(arg) ==
    LET p == At(arg)
        f == Lookup(p)
    IN  /\ HasRoom(1)
        /\ Shell("touch", <<p>>,
             Guarded(<<Found(Lookup(Parent(p))), When(f = Raised, "raised")>>,
                     IF f > 0 THEN State
                     ELSE IF IsSpecial(p) THEN Ends("refused") ELSE mkfile(State, p)))

Command_nohup(name) ==
    LET p == Append(cwd, name)
        f == Lookup(p)
    IN  /\ HasRoom(1)
        /\ Shell("touch", <<p>>, Guarded(<<When(f = Raised, "raised")>>,
                                         IF f > 0 THEN State ELSE mkfile(State, p)))

\* A download or a redirection: the file is made, then given its content.
Command_wget(arg) ==
    LET p == At(arg)
    IN  /\ HasRoom(1)
        /\ Shell("download", <<p>>,
             Guarded(<<Found(Lookup(Parent(p))), When(~isdir(tree, Parent(p)), "refused")>>,
                     update_realfile(mkfile(State, p), p)))

Command_mkdir(arg) ==
    LET p == At(arg)
    IN  /\ HasRoom(1)
        /\ Shell("mkdir", <<p>>,
             Guarded(<<When(Lookup(p) = Raised, "raised"), When(Lookup(p) > 0, "refused")>>,
                     mkdir(State, p)))

Command_rmdir(arg) ==
    LET p == At(arg)
        x == get_path(tree, p)
        d == get_path(tree, Parent(p))
        hit == First(tree, d, Typed(arg))
    IN  Shell("rmdir", <<p>>,
          Guarded(<<When(x = Raised, "raised"), When(x = NotFound, "refused"),
                    When(x > 0 /\ (tree[x].kids # <<>> \/ tree[x].bytes), "refused")>>,
                  IF hit = None \/ tree[hit].type # "dir" THEN Ends("refused")
                  ELSE Result(Detach(tree, d, hit), newcount, "ok")))

\* The kids that stay, in their order.
Without(kids, gone) ==
    LET stay[n \in 0 .. Len(kids)] ==
          IF n = 0 THEN <<>> ELSE IF kids[n] \in gone THEN stay[n - 1] ELSE Append(stay[n - 1], kids[n])
    IN  stay[Len(kids)]

\* Mutant: the name matters only with -r.
Command_rm_Precedence(arg, recursive) ==
    LET p == At(arg)
        x == get_path(tree, p)
        d == get_path(tree, Parent(p))
        Goes(k) == (tree[k].name = Base(p) /\ recursive) \/ tree[k].type # "dir"
        gone == {k \in Children(tree, d) : Goes(k)}
    IN  Shell("rm", <<p>>,
          Guarded(<<When(Raised \in {x, d}, "raised"), When(NotFound \in {x, d}, "refused")>>,
                  IF gone = {} THEN Ends("refused")
                  ELSE Result([tree EXCEPT ![d].kids = Without(@, gone)], newcount, "ok")))

Command_rm(arg, recursive) ==
    LET p == At(arg)
        x == get_path(tree, p)
        d == get_path(tree, Parent(p))
        Goes(k) == tree[k].name = Base(p) /\ (recursive \/ tree[k].type # "dir")
        gone == {k \in Children(tree, d) : Goes(k)}
    IN  Shell("rm", <<p>>,
          Guarded(<<When(Raised \in {x, d}, "raised"), When(NotFound \in {x, d}, "refused")>>,
                  IF gone = {} THEN Ends("refused")
                  ELSE Result([tree EXCEPT ![d].kids = Without(@, gone)], newcount, "ok")))

\* The part cp and mv share: the operands are looked up and checked.
Transfer(src, dst, mustExist) ==
    LET to == At(dst)
        e == Lookup(to)
    IN  <<When(dst.slash /\ (e = Raised \/ mustExist), Found(e)),
          When(~isdir(tree, to), Found(Lookup(Parent(to)))), Found(Lookup(At(src)))>>
Into(dst) == IF isdir(tree, At(dst)) THEN At(dst) ELSE Parent(At(dst))

Command_cp(src, dst, recursive) ==
    LET x == Lookup(At(src))
        d == get_path(tree, Into(dst))
        outfile == IF isdir(tree, At(dst)) THEN Typed(src) ELSE Base(dst.parts)
        old == First(tree, d, outfile)
        c == Copied(tree, x)
        t1 == IF old = None THEN c.t ELSE Detach(c.t, d, old)
    IN  /\ x > 0 => Fits(tree, x)
        /\ Shell("cp", <<Append(Into(dst), outfile)>>,
             Guarded(Transfer(src, dst, ~recursive)
                       \o <<When(~recursive /\ isdir(tree, At(src)), "refused"), When(~Listed(tree, d), "raised")>>,
                     Result(Attach([t1 EXCEPT ![c.x].name = outfile], d, c.x), newcount, "ok")))

\* The entry is renamed and appended before it is taken from where it was;
\* nothing looks whether the name is taken, or whether the directory lies
\* inside what is moved.
Command_mv(src, dst) ==
    LET x == Lookup(At(src))
        d == get_path(tree, Into(dst))
        outfile == IF isdir(tree, At(dst)) THEN Typed(src) ELSE Typed(dst)
        t1 == [tree EXCEPT ![x].name = outfile]
        t2 == Attach(t1, d, x)
        sd == get_path(t2, Parent(At(src)))
    IN  Shell("mv", <<At(src)>>,
          Guarded(Append(Transfer(src, dst, FALSE), When(d <= 0, "raised")),
                  IF ~Listed(t1, d) THEN Result(t1, newcount, "raised")
                  ELSE IF sd <= 0 \/ ~Holds(t2, sd, x) THEN Result(t2, newcount, "raised")
                  ELSE Result(Detach(t2, sd, x), newcount, "ok")))

\* tar and unzip: a directory is made without a look, a file after the
\* directories above it that getfile does not find.
Member(s, m) ==
    LET p == resolve_path([abs |-> FALSE, parts |-> m.parts, slash |-> FALSE], cwd)
        Missing(r, q) ==
            LET f == getfile(r.t, q, TRUE)
            IN  IF r.out = "raised" \/ f > 0 THEN r ELSE IF f = Raised THEN Fails(r) ELSE mkdir(r, q)
        above[k \in 0 .. Len(p)] == IF k = 0 THEN s ELSE Missing(above[k - 1], SubSeq(p, 1, k))
    IN  IF s.out = "raised" THEN s
        ELSE IF m.dir THEN mkdir(s, p)
        ELSE Then(above[Len(Parent(p))], mkfile, p)

\* The members of an archive, one after another.
Unpacked(archive) ==
    LET after[n \in 0 .. Len(archive)] == IF n = 0 THEN State ELSE Member(after[n - 1], archive[n])
    IN  after[Len(archive)]

Command_tar(arg, archive) ==
    LET f == Lookup(At(arg))
    IN  /\ ~Full(Unpacked(archive).t)
        /\ Shell("tar", [i \in DOMAIN archive |-> cwd \o archive[i].parts],
             Guarded(<<Found(f), When(f > 0 /\ ~tree[f].real, "refused")>>,
                     Unpacked(archive)))

\* unzip differs in its messages only.
Command_unzip(arg, archive) == Command_tar(arg, archive)

Command_git(repo) ==
    LET p == Append(cwd, repo)
    IN  /\ HasRoom(2)
        /\ Shell("git", <<p>>,
             Guarded(<<When(Lookup(p) = Raised, "raised"), When(Lookup(p) > 0, "refused")>>,
                     Then(mkdir(State, p), mkdir, Append(p, ".git"))))

-----------------------------------------------------------------------------
(* The SFTP server *)

openFile(p, creat) == HasRoom(1) /\ Sftp("open", <<p>>, open(State, p, creat))
removeFile(p) == Sftp("remove", <<p>>, remove(State, p))
renameFile(old, new) == Sftp("rename", <<old, new>>, rename(State, old, new))
makeDirectory(p) == HasRoom(1) /\ Sftp("mkdir2", <<p>>, mkdir2(State, p))
removeDirectory(p) == Sftp("rmdir", <<p>>, rmdir(State, p))

-----------------------------------------------------------------------------
TreeInit ==
    /\ front \in {"shell", "sftp", "fsctl"}
    /\ tree \in Pickles
    /\ newcount = 0
    /\ cwd = <<>>
    /\ calls = 0
    /\ last = [op |-> "start", paths |-> <<>>, out |-> "ok"]

\* The operands of the one who holds the tree
Operands(who, S) == IF front = who /\ calls < MaxCalls THEN S ELSE {}

ShellNext ==
    \/ \E a \in Operands("shell", Args) : \/ Command_cd(a) \/ Command_touch(a) \/ Command_wget(a)
                                          \/ Command_mkdir(a) \/ Command_rmdir(a)
    \/ \E a \in Operands("shell", Args), r \in BOOLEAN : Command_rm(a, r)
    \/ \E a, b \in Operands("shell", Args), r \in BOOLEAN : Command_cp(a, b, r)
    \/ \E a, b \in Operands("shell", Args) : Command_mv(a, b)
    \/ \E a \in Operands("shell", Args), ar \in Archives : Command_tar(a, ar) \/ Command_unzip(a, ar)
    \/ Command_nohup("n") \/ Command_git("g")

SftpNext ==
    \/ \E p \in Operands("sftp", Paths) : \/ \E c \in BOOLEAN : openFile(p, c)
                                           \/ removeFile(p) \/ makeDirectory(p) \/ removeDirectory(p)
    \/ \E p, q \in Operands("sftp", Paths) : renameFile(p, q)
=============================================================================
