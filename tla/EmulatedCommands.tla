-------------------------- MODULE EmulatedCommands --------------------------
(***************************************************************************)
(* The emulated commands of cowrie/commands, each as its life on the       *)
(* command stack of a session: what start() does, what a line, CTRL-C or   *)
(* CTRL-D does to it while it is on top, and what its timers and network   *)
(* callbacks do when they fire, whether or not the command is still there. *)
(*                                                                         *)
(* A life is a set of rules.  A rule applies in one phase to one event,    *)
(* performs operations in order and moves the command to a phase.  Where   *)
(* arguments or data decide, a life has several rules for the same event.  *)
(* What a command prints is left out, and so are the file system           *)
(* operations it makes (module TreeCommands has those).                    *)
(*                                                                         *)
(* The operations:                                                         *)
(*   exit            self.exit()                                           *)
(*   call l          reactor.callLater or a Deferred, to fire as event l   *)
(*   cancel l        scheduled.cancel()                                    *)
(*   noecho, echo    protocol.password_input = True, False                 *)
(*   end             terminal.transport.processEnded                       *)
(*   nest            a line run in a shell pushed for it                   *)
(*   script          the same for a script file, counted in _script_depth  *)
(*   shell           interactive_shell                                     *)
(*   popshell        Command_exit: pop(-2) and its processEnded            *)
(*   insert, next    pp.insert_command, pp.outConnectionLost               *)
(*   async           what follows runs in inlineCallbacks, which keeps an  *)
(*                   exception in its Deferred                             *)
(*   done, failed    file_download and file_download.failed are logged     *)
(*   report          done, then exit; an exception of exit goes to the     *)
(*                   errback, which is failed, then exit                   *)
(*   raise           an exception of the command's own                     *)
(*   store e         the virtual file is written, in the user's name; if   *)
(*                   that raises, the errback reports and exits (failed)   *)
(*                   or raises itself (stuck)                              *)
(*                                                                         *)
(* A command with no rule for CTRL-C has HoneyPotCommand.handle_CTRL_C,    *)
(* with none for CTRL-D ignores it, and with none for a line queues it.    *)
(***************************************************************************)
EXTENDS Sequences

Op(name) == <<name>>
call(label) == <<"call", label>>
cancel(label) == <<"cancel", label>>
store(errback) == <<"store", errback>>

exit == Op("exit")
async == Op("async")

\* "any" as a phase stands for all of them, "same" for the one it applies in.
Rule(phase, event, ops, to) ==
    [phase |-> phase, event |-> event, ops |-> ops, to |-> to]
Start(ops, to) == Rule("new", "start", ops, to)
On(event, ops) == Rule("any", event, ops, "same")

-----------------------------------------------------------------------------
(* Shapes several commands share. *)

\* HoneyPotCommand.start: call() and then exit().
CallThenExit == {Start(<<exit>>, "gone")}

\* call() raises on some file trees (TreeCommands) and exit() is not reached.
CallMayRaise == CallThenExit \cup {Start(<<Op("raise")>>, "gone")}

\* Reads its standard input line by line until CTRL-D, unless its arguments
\* or the pipe give it something else to work on.
ReadsInput ==
    {Start(<<exit>>, "gone"), Start(<<>>, "reading"),
     Rule("reading", "line", <<>>, "reading"),
     Rule("reading", "ctrl_d", <<exit>>, "gone")}

\* start() parses arguments in inlineCallbacks and may give up at once.
GivesUp == Start(<<async, exit>>, "gone")

-----------------------------------------------------------------------------
(* Text printed by call(). *)

Command_txtcmd == CallThenExit
Command_whoami == CallThenExit
Command_help == CallThenExit
Command_w == CallThenExit
Command_who == CallThenExit
Command_echo == CallThenExit
Command_printf == CallThenExit
Command_clear == CallThenExit
Command_hostname == CallThenExit
Command_ps == CallThenExit
Command_id == CallThenExit
Command_history == CallThenExit
Command_date == CallThenExit
Command_set == CallThenExit
Command_nop == CallThenExit
Command_env == CallThenExit
Command_ethtool == CallThenExit
Command_free == CallThenExit
Command_ifconfig == CallThenExit
Command_last == CallThenExit
Command_lspci == CallThenExit
Command_netstat == CallThenExit
Command_service == CallThenExit
Command_ulimit == CallThenExit
Command_uname == CallThenExit
Command_uptime == CallThenExit
Command_du == CallThenExit
Command_ls == CallThenExit

(* A path is looked up, a file read or bytes decoded outside of any try. *)

Command_chattr == CallMayRaise
Command_chmod == CallMayRaise
Command_which == CallMayRaise
Command_finger == CallMayRaise
Command_groups == CallMayRaise
Command_locate == CallMayRaise
Command_awk == CallMayRaise

(* start() overridden, with one exit() on every path. *)

Command_dig == CallThenExit
Command_find == CallThenExit
Command_grep == CallThenExit
Command_iptables == CallThenExit
Command_wc == CallThenExit

\* An unknown option makes call() exit before start() does.
Command_rm == CallMayRaise \cup {Start(<<exit, exit>>, "gone")}

\* call() leaves a timer behind and the command exits at once.  A CTRL-C
\* never finds it on the stack.
Command_gcc ==
    CallThenExit \cup
    {Start(<<call("generate_file"), exit>>, "gone"),
     On("generate_file", <<>>), On("generate_file", <<Op("raise")>>)}

-----------------------------------------------------------------------------
(* Readers of standard input. *)

Command_base64 == ReadsInput
Command_cat == ReadsInput
Command_crontab == ReadsInput
Command_cut == ReadsInput
Command_head == ReadsInput
Command_php == ReadsInput
Command_tail == ReadsInput
Command_tee == ReadsInput \cup {Start(<<Op("raise")>>, "reading")}
Command_uniq == ReadsInput

\* An unknown crypt method exits and goes on.
Command_chpasswd == ReadsInput \cup {Start(<<exit, exit>>, "gone")}

\* One exit() for every script named.
Command_perl == ReadsInput \cup {Start(<<exit, exit>>, "gone")}
Command_python == ReadsInput \cup {Start(<<exit, exit>>, "gone")}

\* A bad operand exits and goes on: to a failed split, or to the copy.
Command_dd ==
    ReadsInput \cup
    {Start(<<exit, Op("raise")>>, "gone"), Start(<<exit, exit>>, "gone")}

\* -d without a directory raises.
Command_scp == ReadsInput \cup {Start(<<Op("raise")>>, "reading")}

-----------------------------------------------------------------------------
(* Dialogues and timers. *)

Command_passwd ==
    {Start(<<Op("noecho")>>, "first"),
     Rule("first", "line", <<>>, "again"),
     Rule("again", "line", <<Op("echo"), exit>>, "gone")}

\* A numeric host that is no address exits and then uses the missing ip.
Command_ssh ==
    {Start(<<exit>>, "gone"), Start(<<exit, Op("raise")>>, "gone"),
     Start(<<>>, "yesno"),
     Rule("yesno", "line", <<Op("noecho")>>, "wait"),
     Rule("wait", "line", <<call("finish")>>, "finish"),
     Rule("finish", "line", <<>>, "finish"),
     Rule("any", "finish", <<Op("echo"), exit>>, "gone")}

\* The texts, passwords and questions of adduser by what comes next.  The
\* timer prints the item the dialogue is at (consecutive texts are one); a
\* line moves it on, in every phase, and starts one more timer.
adduser_next == {<<"intro", "password">>, <<"info", "question">>, <<"error", "again">>}

adduser_answered ==
    adduser_next \cup
    {<<"intro", "intro">>, <<"info", "info">>, <<"error", "error">>,
     <<"password", "retype">>, <<"retype", "info">>, <<"question", "question">>,
     <<"question", "confirm">>, <<"confirm", "info">>, <<"confirm", "error">>,
     <<"again", "again">>, <<"again", "over">>, <<"over", "beyond">>,
     <<"beyond", "beyond">>}

Command_adduser ==
    {Start(<<exit>>, "gone"), Start(<<call("do_output")>>, "intro")}
    \cup {Rule(p[1], "do_output", <<call("do_output")>>, p[2]) :
              p \in adduser_next \cup {<<"over", "info">>}}
    \cup {Rule(p, "do_output", <<Op("noecho")>>, p) : p \in {"password", "retype"}}
    \cup {Rule(p, "do_output", <<>>, p) :
              p \in {"question", "confirm", "again", "gone"}}
    \cup {Rule("beyond", "do_output", <<Op("raise")>>, "beyond")}
    \cup {Rule(p[1], "line", <<call("do_output"), Op("echo")>>, p[2]) :
              p \in adduser_answered}
    \cup {Rule("again", "line", <<exit>>, "gone"),
          Rule("over", "line", <<Op("raise")>>, "over")}

\* Mutant: the timer starts itself again, as ping's does.
Command_sleep_Restarts ==
    {Start(<<exit>>, "gone"), Start(<<call("done")>>, "asleep"),
     On("done", <<call("done"), exit>>),
     Rule("asleep", "ctrl_c", <<cancel("done"), exit>>, "gone")}

\* Mutant: the timer is never started.
Command_sleep_Untimed ==
    {Start(<<exit>>, "gone"), Start(<<>>, "asleep"),
     On("done", <<exit>>),
     Rule("asleep", "ctrl_c", <<cancel("done"), exit>>, "gone")}

Command_sleep ==
    {Start(<<exit>>, "gone"), Start(<<call("done")>>, "asleep"),
     On("done", <<exit>>),
     Rule("asleep", "ctrl_c", <<cancel("done"), exit>>, "gone")}

\* -c takes no argument in "ci:", so a count is always refused.
Command_ping ==
    {Start(<<exit>>, "gone"), Start(<<call("showreply")>>, "endless"),
     On("showreply", <<call("showreply")>>),
     On("ctrl_c", <<cancel("showreply"), exit>>)}

Command_yes ==
    {Start(<<call("y")>>, "endless"), On("y", <<call("y")>>),
     On("ctrl_c", <<cancel("y"), exit>>)}

Command_shutdown ==
    {Start(<<exit>>, "gone"), Start(<<call("finish")>>, "down"),
     On("finish", <<Op("end")>>)}

Command_reboot ==
    {Start(<<call("finish")>>, "down"), On("finish", <<Op("end")>>)}

\* Consecutive sleeps of an installation are one.  /usr/bin may be gone by then.
Command_aptget ==
    {GivesUp, Start(<<async, call("installed")>>, "running"),
     On("installed", <<exit>>), On("installed", <<Op("raise")>>)}

\* Every line starts an installation, at the question or before it.
Command_yum ==
    {GivesUp, Start(<<async, call("said")>>, "running"),
     Start(<<async, call("resolved")>>, "running"),
     On("said", <<exit>>), Rule("any", "resolved", <<>>, "same"),
     Rule("running", "line", <<async, call("installed")>>, "running"),
     On("installed", <<exit>>)}

-----------------------------------------------------------------------------
(* Downloads.  communication_allowed may answer at once or after a name was
   resolved; nothing cancels the request when the command is interrupted,
   except in tftp. *)

\* What another host decides the time of: a name, a connection, a body, which no
\* time limit ends (the one of treq ends with the headers), or datagrams, each of
\* which sets tftp's timer again.
OfPeers ==
    {"allowed", "success", "collect", "collectioncomplete", "retrieved", "transferred"}

\* start() up to the request: the host is looked up first, or known.
Looks(request) ==
    {GivesUp, Start(<<async, call("allowed")>>, "running"),
     Start(<<async, call(request)>>, "running"),
     On("allowed", <<exit>>), On("allowed", <<call(request)>>)}

\* The response may be refused for its length, a chunk may pass the limit
\* (the rest still arrives), and any stage may fail, the last before it reports.
Fetches ==
    Looks("success") \cup
    {On("success", <<exit>>), On("success", <<call("collect")>>),
     On("success", <<Op("failed"), exit>>),
     Rule("any", "collect", <<exit, call("collectioncomplete")>>, "over"),
     On("collect", <<call("collectioncomplete")>>),
     On("collect", <<Op("failed"), exit>>),
     On("collectioncomplete", <<Op("report")>>),
     On("collectioncomplete", <<Op("failed"), exit>>)}

Command_wget == Fetches

\* A URL with no host exits and goes on with the missing attribute.
Command_curl == Fetches \cup {Start(<<async, exit, Op("raise")>>, "gone")}

\* An empty file is reported, then has no size, which is an error.  After a file
\* that was kept the errback closes it again, which raises.
Command_ftpget ==
    Looks("retrieved") \cup
    {On("retrieved", <<Op("done"), store("stuck"), exit>>),
     Rule("any", "retrieved", <<Op("done"), Op("failed"), exit>>, "empty"),
     On("retrieved", <<Op("failed"), exit>>)}

\* The connection itself is made and read without returning to the reactor.
Command_nc ==
    {GivesUp, Start(<<async, call("allowed")>>, "running"), On("allowed", <<exit>>),
     On("line", <<>>), On("ctrl_d", <<exit>>)}

\* A datagram that is not answered stops the timer: only another one goes on.
Command_tftp ==
    Looks("transferred") \cup
    {On("transferred", <<Op("done"), store("failed"), exit>>),
     On("transferred", <<Op("failed"), exit>>),
     Rule("running", "transferred", <<call("transferred")>>, "untimed"),
     Rule("untimed", "transferred", <<call("transferred")>>, "running"),
     On("ctrl_c", <<cancel("transferred"), exit>>)}

-----------------------------------------------------------------------------
(* Shells and commands that run others. *)

\* sh -c, and sh at the end of a pipe.
Command_sh_c == {Start(<<Op("nest"), exit>>, "gone")}
Command_sh_file == {Start(<<Op("script"), exit>>, "gone"), Start(<<exit>>, "gone")}
Command_sh == {Start(<<Op("shell")>>, "gone")}
Command_scriptcmd == Command_sh_file
Command_exit == {Start(<<Op("popshell"), exit>>, "gone")}
Command_busybox == CallThenExit \cup {Start(<<Op("insert"), Op("next"), exit>>, "gone")}
Command_sudo == CallThenExit \cup {Start(<<Op("insert"), exit>>, "gone")}

-----------------------------------------------------------------------------
\* HoneyPotBaseProtocol.commands: the lives by name.
commands ==
    [txtcmd |-> Command_txtcmd, whoami |-> Command_whoami, help |-> Command_help,
     w |-> Command_w, who |-> Command_who, echo |-> Command_echo,
     printf |-> Command_printf, clear |-> Command_clear,
     hostname |-> Command_hostname, ps |-> Command_ps, id |-> Command_id,
     history |-> Command_history, date |-> Command_date,
     chattr |-> Command_chattr, set |-> Command_set, nop |-> Command_nop,
     env |-> Command_env, ethtool |-> Command_ethtool,
     finger |-> Command_finger, free |-> Command_free,
     groups |-> Command_groups, ifconfig |-> Command_ifconfig,
     last |-> Command_last, lspci |-> Command_lspci,
     netstat |-> Command_netstat, service |-> Command_service,
     ulimit |-> Command_ulimit, uname |-> Command_uname,
     uptime |-> Command_uptime, which |-> Command_which,
     locate |-> Command_locate, du |-> Command_du, ls |-> Command_ls,
     awk |-> Command_awk, dig |-> Command_dig, find |-> Command_find,
     grep |-> Command_grep, iptables |-> Command_iptables, wc |-> Command_wc,
     rm |-> Command_rm, gcc |-> Command_gcc, base64 |-> Command_base64,
     cat |-> Command_cat, crontab |-> Command_crontab, cut |-> Command_cut,
     head |-> Command_head, php |-> Command_php, tail |-> Command_tail,
     tee |-> Command_tee, uniq |-> Command_uniq,
     chpasswd |-> Command_chpasswd, perl |-> Command_perl,
     python |-> Command_python, dd |-> Command_dd, scp |-> Command_scp,
     passwd |-> Command_passwd, ssh |-> Command_ssh,
     adduser |-> Command_adduser, sleep |-> Command_sleep,
     ping |-> Command_ping, yes |-> Command_yes,
     shutdown |-> Command_shutdown, reboot |-> Command_reboot,
     apt |-> Command_aptget, yum |-> Command_yum, wget |-> Command_wget,
     curl |-> Command_curl, ftpget |-> Command_ftpget, nc |-> Command_nc,
     tftp |-> Command_tftp, sh_c |-> Command_sh_c,
     sh_file |-> Command_sh_file, sh |-> Command_sh,
     scriptcmd |-> Command_scriptcmd, exit |-> Command_exit,
     busybox |-> Command_busybox, sudo |-> Command_sudo,
     cd |-> CallThenExit, cp |-> CallMayRaise, mv |-> CallMayRaise,
     mkdir |-> CallMayRaise, rmdir |-> CallMayRaise, pwd |-> CallThenExit,
     touch |-> CallMayRaise, chmod |-> Command_chmod, tar |-> CallMayRaise,
     unzip |-> CallMayRaise, git |-> CallMayRaise, nohup |-> CallMayRaise]

Matches(r, phase, event) == r.phase \in {phase, "any"} /\ r.event = event

RulesFor(c, phase, event) == {r \in commands[c] : Matches(r, phase, event)}
=============================================================================
