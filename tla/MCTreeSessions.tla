---------------------------- MODULE MCTreeSessions ----------------------------
(***************************************************************************)
(* Two pickles: a directory with a file whose bytes are in the pickle, a   *)
(* link to the directory or a broken link, and a special directory; six    *)
(* entries at once and a handful of operands that meet them all.           *)
(***************************************************************************)
EXTENDS TreeSessions

CONSTANT MaxIds

Typing(abs, parts, slash) == [abs |-> abs, parts |-> parts, slash |-> slash]

MCIds == 1 .. MaxIds
MCNames == {"", "..", "a", "d", "e", "f", "g", "l", "n", "s", "x", ".git"}

MCArgs == {Typing(TRUE, <<>>, TRUE), Typing(FALSE, <<"..">>, FALSE),
           Typing(FALSE, <<"a">>, FALSE), Typing(TRUE, <<"d">>, FALSE),
           Typing(TRUE, <<"d">>, TRUE), Typing(TRUE, <<"d", "a">>, FALSE),
           Typing(FALSE, <<"d", "f">>, FALSE), Typing(FALSE, <<"l">>, FALSE),
           Typing(TRUE, <<"l", "a">>, FALSE), Typing(TRUE, <<"d", "f", "a">>, FALSE),
           Typing(TRUE, <<"s", "a">>, FALSE)}

MCPaths == {<<>>, <<"a">>, <<"d">>, <<"l">>, <<"d", "a">>, <<"d", "f">>, <<"l", "f">>, <<"x", "a">>, <<"s", "a">>}

MCArchives == {<<[parts |-> <<"d">>, dir |-> TRUE]>>, <<[parts |-> <<"e", "a">>, dir |-> FALSE]>>}

Tree(target) ==
    LET e == [i \in MCIds |-> Free]
    IN  [e EXCEPT ![1] = [Entry("", "dir") EXCEPT !.kids = <<2, 4, 5>>],
                  ![2] = [Entry("d", "dir") EXCEPT !.kids = <<3>>],
                  ![3] = [Entry("f", "file") EXCEPT !.bytes = TRUE],
                  ![4] = [Entry("l", "link") EXCEPT !.target = target],
                  ![5] = Entry("s", "dir")]
\* What a call was does not matter to the calls that follow.
MCView == <<front, tree, newcount, cwd, calls>>

MCPickles == {Tree(<<"d">>), Tree(<<"x">>)}
=============================================================================
