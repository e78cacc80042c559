---------------------------- MODULE MCLLMSession ----------------------------
(* Small instances of LLMSession for TLC. *)
EXTENDS LLMSession, TLC

CONSTANTS cd, exit, su, whoami, missing, top, vi, wget, df, ss, disk, sockets

AllCmds == {cd, exit, su, whoami, missing, top, vi, wget, df, ss}

KindOf == (cd :> "fast") @@ (exit :> "exit") @@ (su :> "su")
            @@ (whoami :> "info") @@ (missing :> "fail") @@ (top :> "top")
            @@ (vi :> "vi") @@ (wget :> "wget") @@ (df :> "ask") @@ (ss :> "ask")

FamilyOf == [c \in AllCmds |->
                CASE c = df -> disk [] c = ss -> sockets [] OTHER -> NoFact]

S(op, cmd) == [op |-> op, cmd |-> cmd]

Single(cmd) == <<S("", cmd)>>

\* One command a line.
Singles == {Single(c) : c \in AllCmds}

\* The chains that take every path through _dispatch_chain.
Chains ==
    {<<S("", cd), S("&&", wget)>>,
     <<S("", missing), S("&&", cd), S("||", df)>>,
     <<S("", su), S(";", cd)>>,
     <<S("", top), S(";", top)>>,
     <<S("", exit), S(";", wget)>>}

AllLines == Singles \cup Chains

\* The default configuration, streaming from LangChain without local answers and
\* jitter, and streaming asked of a provider that cannot.
Default == [deterministic |-> TRUE, jitter |-> TRUE, stream |-> FALSE,
            provider |-> FALSE, bounded |-> TRUE]
Streaming == [deterministic |-> FALSE, jitter |-> FALSE, stream |-> TRUE,
              provider |-> TRUE, bounded |-> FALSE]
Unsupported == [Default EXCEPT !.stream = TRUE]

Configurations == {Default, Streaming, Unsupported}
=============================================================================
