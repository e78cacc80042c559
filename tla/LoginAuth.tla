------------------------------- MODULE LoginAuth -------------------------------
(***************************************************************************)
(* Who is let in (core/auth.py) and how often a host may be contacted      *)
(* (core/rate_limiter.py), as operators on the state they keep: the user   *)
(* database, the variables AuthRandom reads and writes on every attempt,   *)
(* and the requests the limiter remembers.  A login and its password are   *)
(* one value, a pair; times are ages in ticks.                             *)
(***************************************************************************)
EXTENDS Integers, Sequences, FiniteSets, SequencesExt

CONSTANTS Ips, Pairs, Hosts,
          MinTry, MaxTry, MaxCache,       \* auth_class_parameters
          MaxRequests, Window, MaxKeys    \* of the rate limiter

ASSUME AuthAssumption == MinTry \in Nat \ {0} /\ MaxTry \in Nat /\ MaxCache \in Nat
ASSUME LimiterAssumption == MaxRequests \in Nat /\ Window \in Nat \ {0} /\ MaxKeys \in Nat

-----------------------------------------------------------------------------
(* UserDB *)

\* A rule is [pairs, policy]: the pairs that it matches, and whether they may
\* log in.  The rules are a dict in the order of the file: a rule that comes
\* again keeps its place and changes its policy.
adduser(db, rule) ==
    LET same == {i \in DOMAIN db : db[i].pairs = rule.pairs}
    IN  IF same = {} THEN Append(db, rule) ELSE [db EXCEPT ![Min(same)].policy = rule.policy]

addusers(lines) ==
    LET db[n \in 0 .. Len(lines)] == IF n = 0 THEN <<>> ELSE adduser(db[n - 1], lines[n])
    IN  db[Len(lines)]

\* A line without a password matches no pair.  Its first letter is looked at
\* outside the try: there is no database, and nobody is let in.
load(lines) == IF \E i \in DOMAIN lines : lines[i].pairs = {} THEN <<>> ELSE addusers(lines)

match_rule(db, p) == {i \in DOMAIN db : p \in db[i].pairs}

\* Mutant: the last rule that matches decides.
checklogin_UserDB_Last(db, p) ==
    LET m == match_rule(db, p) IN m # {} /\ db[Max(m)].policy

\* The first rule that matches decides.
checklogin_UserDB(db, p) ==
    LET m == match_rule(db, p) IN m # {} /\ db[Min(m)].policy

-----------------------------------------------------------------------------
(* AuthRandom *)

NoPair == "nobody"
NoInfo == [tries |-> 0, need |-> 0, tried |-> {}, pair |-> NoPair]
NoVars == [cache |-> <<>>, info |-> [i \in Ips |-> NoInfo]]

\* __init__: maxtry is adjusted when it is below mintry.
Needs == MinTry .. (IF MaxTry < MinTry THEN MinTry + 1 ELSE MaxTry)

\* The oldest pair makes room.
Cached(cache, p) ==
    LET c == Append(cache, p) IN IF Len(c) > MaxCache THEN Tail(c) ELSE c

\* Mutant: repeated pairs count as attempts.
checklogin_Repeats(uv, ip, p, drawn) ==
    LET info == IF uv.info[ip].need = 0 THEN [NoInfo EXCEPT !.need = drawn] ELSE uv.info[ip]
        n == info.tries + 1
        Keep(i, cache, ok) == [vars |-> [cache |-> cache, info |-> [uv.info EXCEPT ![ip] = i]],
                               auth |-> ok]
    IN  CASE p \in Range(uv.cache) -> Keep([info EXCEPT !.need = 1, !.pair = p], uv.cache, TRUE)
          [] p \notin Range(uv.cache) /\ n < info.need ->
               Keep([info EXCEPT !.tries = n, !.tried = @ \cup {p}], uv.cache, FALSE)
          [] p \notin Range(uv.cache) /\ n = info.need ->
               Keep([info EXCEPT !.tries = n, !.pair = p], Cached(uv.cache, p), TRUE)
          [] OTHER -> Keep([info EXCEPT !.tries = n], uv.cache, FALSE)

\* A pair somebody was let in with is let in at once.  Else each new pair of an
\* address counts, and the one that makes up the number drawn at its first
\* visit is let in.  Later ones never are: the login, as bytes, is compared
\* with the text it was stored as.
checklogin(uv, ip, p, drawn) ==
    LET info == IF uv.info[ip].need = 0 THEN [NoInfo EXCEPT !.need = drawn] ELSE uv.info[ip]
        n == info.tries + 1
        known == p \in Range(uv.cache)
        Keep(i, cache, ok) == [vars |-> [cache |-> cache, info |-> [uv.info EXCEPT ![ip] = i]],
                               auth |-> ok]
    IN  CASE known -> Keep([info EXCEPT !.need = 1, !.pair = p], uv.cache, TRUE)
          [] ~known /\ p \in info.tried -> Keep(info, uv.cache, FALSE)
          [] ~known /\ p \notin info.tried /\ n < info.need ->
               Keep([info EXCEPT !.tries = n, !.tried = @ \cup {p}], uv.cache, FALSE)
          [] ~known /\ p \notin info.tried /\ n = info.need ->
               Keep([info EXCEPT !.tries = n, !.pair = p], Cached(uv.cache, p), TRUE)
          [] OTHER -> Keep([info EXCEPT !.tries = n], uv.cache, FALSE)

-----------------------------------------------------------------------------
(* RateLimiter *)

NoRequests == [tracker |-> <<>>, cleaned |-> 0]

InWindow(ages) ==
    LET kept[n \in 0 .. Len(ages)] ==
            IF n = 0 THEN <<>>
            ELSE IF ages[n] < Window THEN Append(kept[n - 1], ages[n]) ELSE kept[n - 1]
    IN  kept[Len(ages)]

_cleanup_all(tracker) ==
    [h \in {k \in DOMAIN tracker : InWindow(tracker[k]) # <<>>} |-> InWindow(tracker[h])]

\* A key without requests counts as the oldest.
LatestActivity(tracker, h) == IF tracker[h] = <<>> THEN Window + 2 ELSE Min(Range(tracker[h]))

\* The keys that may be removed: the oldest tenth, at least one, in any order
\* among those of the same age.
_remove_oldest_keys(tracker) ==
    {gone \in kSubset(Max({1, Cardinality(DOMAIN tracker) \div 10}), DOMAIN tracker) :
       \A g \in gone, h \in DOMAIN tracker \ gone :
          LatestActivity(tracker, g) >= LatestActivity(tracker, h)}

Ages(tracker, h) == IF h \in DOMAIN tracker THEN tracker[h] ELSE <<>>
Put(tracker, h, ages) == [k \in DOMAIN tracker \cup {h} |-> IF k = h THEN ages ELSE tracker[k]]

\* Mutant: a request takes the place of the ones before it.
check_NoLimit(lim, h) ==
    {[lim |-> [lim EXCEPT !.tracker = Put(@, h, <<0>>)], allowed |-> TRUE, gone |-> {}]}

\* The outcomes of a check: the key is cleaned up and created, keys beyond the
\* maximum are removed, this one included, and the request is refused or noted.
check(lim, h) ==
    LET cleanup == lim.cleaned > Window
        t1 == IF cleanup THEN _cleanup_all(lim.tracker) ELSE lim.tracker
        t2 == Put(t1, h, InWindow(Ages(t1, h)))
        evictions == IF Cardinality(DOMAIN t2) > MaxKeys THEN _remove_oldest_keys(t2) ELSE {{}}
        Outcome(gone) ==
            LET t3 == Restrict(t2, DOMAIN t2 \ gone)
                ages == Ages(t3, h)
                ok == Len(ages) < MaxRequests
            IN  [lim |-> [tracker |-> Put(t3, h, IF ok THEN Append(ages, 0) ELSE ages),
                          cleaned |-> IF cleanup THEN 0 ELSE lim.cleaned],
                 allowed |-> ok, gone |-> gone]
    IN  {Outcome(gone) : gone \in evictions}

\* A tick for ages; past the window they no longer matter.
Older(a) == Min({a + 1, Window + 1})
Aged(lim) ==
    [tracker |-> [h \in DOMAIN lim.tracker |-> [i \in DOMAIN lim.tracker[h] |-> Older(lim.tracker[h][i])]],
     cleaned |-> Older(lim.cleaned)]
=============================================================================
