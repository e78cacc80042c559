--------------------------- MODULE MCBackendPool ---------------------------
(* Small instances of BackendPool for TLC. *)
EXTENDS BackendPool, TLC

CONSTANTS v1, v2, v3, v4, x1, x2, x3, c1, c2, a1, a2, p1

OneVm == [max_vm |-> 1, share_guests |-> TRUE]
TwoVms == [max_vm |-> 2, share_guests |-> TRUE]
Unshared == [max_vm |-> 2, share_guests |-> FALSE]

ConfigsShared == {TwoVms}
ConfigsUnshared == {Unshared}
ConfigsSizes == {OneVm, TwoVms}

\* Four domains, two to an address; three domains, each with its own.
FourVmsTwoAddresses ==
    (v1 :> x1) @@ (v2 :> x1) @@ (v3 :> x2) @@ (v4 :> x2)
ThreeVms == (v1 :> x1) @@ (v2 :> x2) @@ (v3 :> x3)

\* One attacker, or two with one connection each.
SrcIp1 == c1 :> a1
SrcIp2 == (c1 :> a1) @@ (c2 :> a2)

\* Addresses are interchangeable, so are the domains of one address, and so
\* are attackers with one connection each.
SwapIn1 == (v1 :> v2) @@ (v2 :> v1) @@ (v3 :> v3) @@ (v4 :> v4)
SwapIn2 == (v1 :> v1) @@ (v2 :> v2) @@ (v3 :> v4) @@ (v4 :> v3)
Across  == (v1 :> v3) @@ (v3 :> v1) @@ (v2 :> v4) @@ (v4 :> v2)
KeepVms == (v1 :> v1) @@ (v2 :> v2) @@ (v3 :> v3) @@ (v4 :> v4)
KeepAddresses == (x1 :> x1) @@ (x2 :> x2)
SwapAddresses == (x1 :> x2) @@ (x2 :> x1)
After(f, g) == [v \in Vm |-> f[g[v]]]

Within == {KeepVms, SwapIn1, SwapIn2, After(SwapIn1, SwapIn2)}
SymVms == {f @@ KeepAddresses : f \in Within}
          \cup {After(Across, f) @@ SwapAddresses : f \in Within}

Swap2 == (c1 :> c2) @@ (c2 :> c1) @@ (a1 :> a2) @@ (a2 :> a1)
Keep2 == (c1 :> c1) @@ (c2 :> c2) @@ (a1 :> a1) @@ (a2 :> a2)
SymVmsAttackers == {f @@ g : f \in SymVms, g \in {Keep2, Swap2}}

\* Explore up to the first guest id that is issued again, up to two clients of
\* a guest, vanished ones included, and closed listeners of the first guest
\* while no client has vanished.
FirstIds ==
    /\ ~idReset
    /\ \A i \in DOMAIN guests : guests[i].connected <= 2
    /\ closed \subseteq {0}
    /\ closed # {} => \A i \in DOMAIN guests :
            guests[i].connected <= Cardinality(Holders(guests[i].vm))

\* Ids issued twice can drive client counts apart; stop where they do.
SaneCounts == \A i \in DOMAIN guests : guests[i].connected \in 0..1

=============================================================================
