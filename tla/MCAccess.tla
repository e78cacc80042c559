-------------------------------- MODULE MCAccess -------------------------------
(***************************************************************************)
(* Two connections, from one address or two, two pairs, two hosts for a    *)
(* limiter that tracks one, and time limits of a tick.  AuthRandom, which  *)
(* does not see the protocol, is tried with SSH only.                      *)
(***************************************************************************)
EXTENDS Access, TLC

MCConfigs == {[class |-> "UserDB", none |-> TRUE, anykey |-> TRUE, enabled |-> {"ssh", "telnet"}],
              [class |-> "AuthRandom", none |-> FALSE, anykey |-> FALSE, enabled |-> {"ssh"}]}

Sym == Permutations(Conns) \cup Permutations(Ips) \cup Permutations(Hosts)

\* A line that refuses a pair comes before one that lets it in, and another
\* line comes again with the other policy; the other file has a line without a
\* password.
MCRuleFiles ==
    LET Deny(s) == [pairs |-> s, policy |-> FALSE]
        Allow(s) == [pairs |-> s, policy |-> TRUE]
    IN  {<<Deny({"q"}), Deny({"p"}), Allow({"p", "q"}), Allow({"q"})>>,
         <<Allow({"p", "q"}), Deny({})>>}

\* The counts of AuthRandom take three attempts and no request.  With UserDB
\* two show the order of the lines and one that a file with a line without a
\* password lets nobody in; a third request counts after two hosts were let
\* through, of which the limiter has forgotten one.
FewOps ==
    CASE config.class = "AuthRandom" -> lim = NoRequests
      [] config.class = "UserDB" /\ Len(rules) = 4 ->
            ops <= 2 \/ \A i \in Hosts : spent[i] # <<>>
      [] OTHER -> ops <= 1
=============================================================================
