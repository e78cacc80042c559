--------------------------- MODULE MCEmulatedShell ---------------------------
(***************************************************************************)
(* Lines for the emulated shell: every command alone, and the combinations *)
(* that nest, pipe, queue and interrupt.                                   *)
(***************************************************************************)
EXTENDS EmulatedShell

stage(c) == [c |-> c, arg |-> "none"]
with(c, arg) == [c |-> c, arg |-> arg]
pipe(stages) == [k |-> "cmd", stages |-> stages]
one(c) == pipe(<<stage(c)>>)
item(k) == [k |-> k]
sub(lines) == [k |-> "sub", lines |-> lines]

alone == [c \in DOMAIN commands \ {"sh_c", "sh_file", "scriptcmd", "busybox", "sudo"} |->
             <<one(c)>>]

combined ==
    [two        |-> <<one("echo"), one("ls")>>,
     piped      |-> <<pipe(<<stage("echo"), stage("cat")>>)>>,
     pipedthen  |-> <<pipe(<<stage("cat"), stage("ls")>>), one("sleep")>>,
     sudoed     |-> <<pipe(<<with("sudo", stage("sleep"))>>), one("ls")>>,
     boxed      |-> <<pipe(<<with("busybox", stage("passwd")), stage("ls")>>)>>,
     shc        |-> <<pipe(<<with("sh_c", "two")>>)>>,
     shwait     |-> <<pipe(<<with("sh_c", "sleep"), stage("ls")>>)>>,
     shexit     |-> <<pipe(<<with("sh_c", "exit")>>)>>,
     shbash     |-> <<pipe(<<with("sh_c", "sh")>>)>>,
     substituted |-> <<sub(<<"echo", "rm">>), one("ls")>>,
     substwait  |-> <<sub(<<"sleep">>), one("ls")>>,
     substexit  |-> <<sub(<<"exit">>)>>,
     loop       |-> <<one("echo"), pipe(<<with("sh_file", "loop")>>)>>,
     script     |-> <<pipe(<<with("scriptcmd", "two")>>)>>,
     shthen     |-> <<pipe(<<stage("sh"), stage("ls")>>), one("echo")>>,
     notfound   |-> <<pipe(<<stage("ls"), stage("missing")>>), one("echo")>>,
     lastmissing |-> <<one("missing")>>,
     noredirect |-> <<one("badredirect")>>,
     assigned   |-> <<item("set"), one("sleep")>>,
     stopped    |-> <<item("stop"), one("ls")>>,
     unclosed   |-> <<one("ls"), item("bad")>>,
     swallowed  |-> <<one("curl"), one("chmod")>>,
     empty      |-> <<>>]

Lines == combined @@ alone
First == DOMAIN Lines
Second == {"echo", "two", "sleep", "exit", "sh", "passwd", "wget", "unclosed"}
TypedLines == <<First, Second, {"echo", "exit", "sleep"}, {"echo"}>>
=============================================================================
