------------------------- MODULE BackendPoolProofs -------------------------
(* Theorems about BackendPool, for every value of its constants. *)
EXTENDS BackendPool, FiniteSetTheorems, TLAPS

\* Mapping a Guest-valued function over a list of guests gives such a list.
LEMMA MapType ==
    ASSUME NEW s \in Seq(Guest), NEW f,
           f = [i \in DOMAIN s |-> f[i]],
           \A i \in DOMAIN s : f[i] \in Guest
    PROVE  f \in Seq(Guest)
  <1>1. DOMAIN s = 1..Len(s) /\ Len(s) \in Nat
    OBVIOUS
  <1>2. f \in [1..Len(s) -> Guest]
    BY <1>1
  <1> QED
    BY <1>1, <1>2

\* Setting the state of some guests gives a list of guests.
LEMMA WithStateType ==
    ASSUME guests \in Seq(Guest), NEW vms, NEW st \in GuestState
    PROVE  WithState(vms, st) \in Seq(Guest)
  <1>1. \A i \in DOMAIN guests : guests[i] \in Guest
    OBVIOUS
  <1>2. \A i \in DOMAIN guests : WithState(vms, st)[i] \in Guest
    BY <1>1 DEF Guest, WithState
  <1> QED
    BY <1>2, MapType DEF WithState

\* Removing an element of a list of guests gives a list of guests.
LEMMA WithoutType ==
    ASSUME NEW s \in Seq(Guest), NEW i \in DOMAIN s
    PROVE  Without(s, i) \in Seq(Guest)
  <1>1. Len(s) \in Nat /\ DOMAIN s = 1..Len(s) /\ Len(s) - 1 \in Nat
    OBVIOUS
  <1>2. \A j \in 1..(Len(s) - 1) :
            (IF j < i THEN s[j] ELSE s[j + 1]) \in Guest
    BY <1>1
  <1>3. Without(s, i) \in [1..(Len(s) - 1) -> Guest]
    BY <1>2 DEF Without
  <1> QED
    BY <1>1, <1>3

\* What a guest becomes when it is granted, freed or returned unused is a guest.
LEMMA ConsumerGuestType ==
    ASSUME NEW g \in Guest
    PROVE  /\ \A ip \in Ip : Granted(g, ip) \in Guest
           /\ Freed(g) \in Guest
           /\ Reused(g) \in Guest
  <1> DEFINE St == GuestState \cup {"none"}
  <1>1. "using" \in St /\ "used" \in St /\ "none" \in St
    BY DEF GuestState
  <1>2. /\ g.connected + 1 \in Int
        /\ g.connected - 1 \in Int
        /\ g.state \in St
        /\ g.prev_state \in St
    BY DEF Guest
  <1>3. ASSUME NEW ip \in Ip PROVE Granted(g, ip) \in Guest
    <2>1. g.client_ips \cup {ip} \in SUBSET Ip
      BY DEF Guest
    <2> QED
      BY <1>1, <1>2, <2>1 DEF Guest, Granted
  <1>4. ASSUME NEW st \in St, NEW pr \in St
        PROVE  /\ [g EXCEPT !.timed_out = FALSE, !.connected = @ - 1,
                            !.state = st] \in Guest
               /\ [g EXCEPT !.connected = @ - 1, !.state = st,
                            !.prev_state = pr] \in Guest
    BY <1>2 DEF Guest
  <1>5. Freed(g) \in Guest
    BY <1>1, <1>2, <1>4 DEF Freed
  <1>6. Reused(g) \in Guest
    BY <1>1, <1>2, <1>4 DEF Reused
  <1> QED
    BY <1>3, <1>5, <1>6

\* free_vm and reuse_vm leave a list of guests.
LEMMA ReturnedType ==
    ASSUME guests \in Seq(Guest), NEW id
    PROVE  free_vm(id) \in Seq(Guest) /\ reuse_vm(id) \in Seq(Guest)
  <1>1. \A i \in DOMAIN guests : guests[i] \in Guest
    OBVIOUS
  <1>2. \A i \in DOMAIN guests : free_vm(id)[i] \in Guest
    BY <1>1, ConsumerGuestType DEF free_vm
  <1>3. \A i \in DOMAIN guests : reuse_vm(id)[i] \in Guest
    BY <1>1, ConsumerGuestType DEF reuse_vm
  <1>4. free_vm(id) \in Seq(Guest)
    BY <1>2, MapType DEF free_vm
  <1>5. reuse_vm(id) \in Seq(Guest)
    BY <1>3, MapType DEF reuse_vm
  <1> QED
    BY <1>4, <1>5

\* A lookup yields indices of guests of the list.
LEMMA LookupType ==
    ASSUME guests \in Seq(Guest), NEW ip
    PROVE  Lookup(ip) \subseteq DOMAIN guests
  BY DEF Lookup, __consumers_get_guest_ip, __consumers_get_available_guest,
         __consumers_get_any_guest, First, FewestClients, get_guest_states

\* The values that stand for nothing have the types of what they stand for.
LEMMA NoValuesType ==
    /\ NoReq \in ReqType
    /\ NoLease \in LeaseType
    /\ DOMAIN NoBindings \subseteq 0..(IdWrap - 1)
    /\ NoBindings \in [DOMAIN NoBindings -> BindingType]
  <1>1. 0 \in 0..(IdWrap - 1)
    BY PoolConstantsAssumption
  <1>2. NoReq \in ReqType /\ NoLease \in LeaseType
    BY <1>1 DEF NoReq, NoLease, ReqType, LeaseType
  <1>3. DOMAIN NoBindings = {}
    BY DEF NoBindings
  <1> QED
    BY <1>2, <1>3 DEF NoBindings

\* request_binding leaves a table of bindings of guest ids.
LEMMA RequestBindingType ==
    ASSUME TypeOK, NEW id \in 0..(IdWrap - 1), NEW vm \in Vm \cup {NoVm}
    PROVE  /\ DOMAIN request_binding(id, vm) \subseteq 0..(IdWrap - 1)
           /\ request_binding(id, vm)
                \in [DOMAIN request_binding(id, vm) -> BindingType]
  <1>1. [count |-> 1, vm |-> vm, open |-> TRUE] \in BindingType
    BY DEF BindingType
  <1>2. ASSUME NEW b \in BindingType
        PROVE  [b EXCEPT !.count = @ + 1] \in BindingType
    BY DEF BindingType
  <1>3. CASE id \in DOMAIN bindings /\ bindings[id].open
    <2>1. request_binding(id, vm) =
            [bindings EXCEPT ![id] = [bindings[id] EXCEPT !.count = @ + 1]]
      BY <1>3 DEF request_binding
    <2>2. [bindings[id] EXCEPT !.count = @ + 1] \in BindingType
      BY <1>2, <1>3 DEF TypeOK
    <2> QED
      BY <2>1, <2>2, <1>3 DEF TypeOK
  <1>4. CASE ~(id \in DOMAIN bindings /\ bindings[id].open)
    BY <1>1, <1>4 DEF request_binding, TypeOK
  <1> QED
    BY <1>3, <1>4

\* free_binding leaves a table of bindings of guest ids.
LEMMA FreeBindingType ==
    ASSUME TypeOK, NEW id
    PROVE  /\ DOMAIN free_binding(id) \subseteq 0..(IdWrap - 1)
           /\ free_binding(id) \in [DOMAIN free_binding(id) -> BindingType]
  <1>2. ASSUME NEW b \in BindingType
        PROVE  [b EXCEPT !.count = @ - 1] \in BindingType
    BY DEF BindingType
  <1>3. CASE id \in DOMAIN bindings /\ UseNat /\ bindings[id].count > 1
    <2>1. free_binding(id) =
            [bindings EXCEPT ![id] = [bindings[id] EXCEPT !.count = @ - 1]]
      BY <1>3 DEF free_binding
    <2>2. [bindings[id] EXCEPT !.count = @ - 1] \in BindingType
      BY <1>2, <1>3 DEF TypeOK
    <2> QED
      BY <2>1, <2>2, <1>3 DEF TypeOK
  <1>4. CASE id \notin DOMAIN bindings \/ ~UseNat \/ ~(bindings[id].count > 1)
    BY <1>4 DEF free_binding, TypeOK
  <1> QED
    BY <1>3, <1>4

\* The size of the pool, a cardinality, is a natural number.
LEMMA PoolSizeType ==
    ASSUME guests \in Seq(Guest)
    PROVE  existing_pool_size \in Nat
  <1>1. IsFiniteSet(DOMAIN guests)
    BY FS_Interval
  <1>2. IsFiniteSet({i \in DOMAIN guests : guests[i].state # "destroyed"})
    BY <1>1, FS_Subset
  <1> QED
    BY <1>2, FS_CardinalityType DEF existing_pool_size

\* Every variable of the pool keeps its type: in particular no operation leaves
\* a guest id outside 0..IdWrap-1, or a domain that answers but does not exist.
THEOREM TypeCorrect == Spec => []TypeOK
  <1> USE PoolConfigAssumption, PoolConstantsAssumption
  <1>1. Init => TypeOK
    <2> SUFFICES ASSUME Init PROVE TypeOK
      OBVIOUS
    <2>1. guests \in Seq(Guest) /\ 0 \in 0..(IdWrap - 1)
      BY DEF Init
    <2>2. pc \in [Producer -> ProducerPc] /\ thread \subseteq Producer
      BY DEF Init, ProducerPc
    <2> QED
      BY <2>1, <2>2, NoValuesType DEF Init, TypeOK
  <1>2. TypeOK /\ [Next]_vars => TypeOK'
    <2> SUFFICES ASSUME TypeOK, [Next]_vars PROVE TypeOK'
      OBVIOUS
    <2> USE DEF TypeOK
    <2>1. ASSUME NEW p \in Producer, TimerFires(p) PROVE TypeOK'
      BY <2>1 DEF TimerFires, Goto, ProducerPc, poolVars, qemuVars, connVars, histVars
    <2>2. ASSUME NEW p \in Producer, MarkTimedOut(p) PROVE TypeOK'
      <3>1. guests' \in Seq(Guest)
        BY <2>2, WithStateType DEF MarkTimedOut, GuestState
      <3> QED
        BY <2>2, <3>1 DEF MarkTimedOut, Goto, ProducerPc, qemuVars, connVars, histVars
    <2>3. ASSUME NEW p \in Producer, DestroyTimedOut(p) PROVE TypeOK'
      <3>1. guests' \in Seq(Guest)
        BY <2>3, WithStateType DEF DestroyTimedOut, GuestState
      <3> QED
        BY <2>3, <3>1 DEF DestroyTimedOut, Goto, ProducerPc, connVars, histVars
    <2>4. ASSUME NEW p \in Producer, CheckHealth(p) PROVE TypeOK'
      <3>1. guests' \in Seq(Guest)
        BY <2>4, WithStateType DEF CheckHealth, GuestState
      <3> QED
        BY <2>4, <3>1 DEF CheckHealth, Goto, ProducerPc, qemuVars, connVars, histVars
    <2>5. ASSUME NEW p \in Producer, RemoveDestroyed(p) PROVE TypeOK'
      <3>1. guests' \in Seq(Guest)
        BY <2>5, WithoutType DEF RemoveDestroyed, get_guest_states
      <3> QED
        BY <2>5, <3>1 DEF RemoveDestroyed, loopVars, qemuVars, connVars, histVars
    <2>6. ASSUME NEW p \in Producer, StartCreating(p) PROVE TypeOK'
      <3>1. config.max_vm \in Nat
        OBVIOUS
      <3>2. existing_pool_size \in Nat
        BY PoolSizeType
      <3>3. to_create' \in [Producer -> Nat]
        BY <2>6, <3>1, <3>2 DEF StartCreating
      <3> QED
        BY <2>6, <3>3 DEF StartCreating, Goto, ProducerPc, poolVars, qemuVars,
                          connVars, histVars
    <2>7. ASSUME NEW p \in Producer, CreateGuest(p) PROVE TypeOK'
      <3>1. to_create' \in [Producer -> Nat]
        BY <2>7 DEF CreateGuest
      <3>2. CASE ~ready
        BY <2>7, <3>1, <3>2 DEF CreateGuest, connVars, histVars
      <3>3. CASE ready
        <4>1. PICK vm \in Vm :
                /\ guests' = Append(guests, NewGuest(vm))
                /\ running' = running \cup {vm}
                /\ guest_id' = NextId
                /\ idReset' = (idReset \/ guest_id + 1 = IdWrap)
          BY <2>7, <3>3 DEF CreateGuest
        <4>2. NewGuest(vm) \in Guest
          BY DEF NewGuest, Guest, GuestState
        <4>3. guests' \in Seq(Guest)
          BY <4>1, <4>2
        <4>4. guest_id' \in 0..(IdWrap - 1)
          BY <4>1 DEF NextId
        <4> QED
          BY <2>7, <3>1, <4>1, <4>3, <4>4 DEF CreateGuest, connVars, histVars
      <3> QED
        BY <3>2, <3>3
    <2>8. ASSUME NEW p \in Producer, CreateRaises(p) PROVE TypeOK'
      BY <2>8 DEF CreateRaises, Goto, ProducerPc, poolVars, qemuVars, connVars, histVars
    <2>9. ASSUME NEW p \in Producer, StartProbing(p) PROVE TypeOK'
      <3>1. VmsIn({"created"}) \subseteq Vm
        <4>1. \A i \in DOMAIN guests : guests[i] \in Guest
          OBVIOUS
        <4> QED
          BY <4>1 DEF VmsIn, get_guest_states, Guest
      <3> QED
        BY <2>9, <3>1 DEF StartProbing, Goto, ProducerPc, poolVars, qemuVars,
                          connVars, histVars
    <2>10. ASSUME NEW p \in Producer, MarkAvailable(p) PROVE TypeOK'
      <3>1. PICK vm \in todo[p] :
              /\ todo' = [todo EXCEPT ![p] = @ \ {vm}]
              /\ \/ guests' = WithState({vm}, "available") /\ any_vm_up' = TRUE
                 \/ guests' = guests /\ any_vm_up' = any_vm_up
        BY <2>10 DEF MarkAvailable
      <3>2. guests' \in Seq(Guest)
        BY <3>1, WithStateType DEF GuestState
      <3>3. any_vm_up' \in BOOLEAN
        BY <3>1
      <3> QED
        BY <2>10, <3>1, <3>2, <3>3 DEF MarkAvailable, qemuVars, connVars, histVars
    <2>11. ASSUME NEW p \in Producer, ScheduleNext(p) PROVE TypeOK'
      BY <2>11 DEF ScheduleNext, Goto, ProducerPc, poolVars, qemuVars, connVars, histVars
    <2>12. CASE RestartPool
      <3>1. Cancelled \in [Producer -> ProducerPc]
        BY DEF Cancelled, ProducerPc
      <3>2. bindings' = bindings \/ bindings' = NoBindings
        BY <2>12 DEF RestartPool, connVars, histVars
      <3>3. pc' \in [Producer -> ProducerPc] /\ thread' \subseteq Producer
        BY <2>12, <3>1 DEF RestartPool, ProducerPc
      <3>4. CASE StopRaises
        BY <2>12, <3>2, <3>3, <3>4 DEF RestartPool, poolVars, qemuVars, connVars, histVars
      <3>5. CASE ~StopRaises
        <4>1. /\ guests' = <<>>
              /\ guest_id' = 0
              /\ any_vm_up' = FALSE
              /\ running' = {}
              /\ up' = {}
              /\ ready' = TRUE
              /\ idReset' = TRUE
              /\ UNCHANGED <<config, to_create, todo, loop_next_call, recycle,
                             req, lease, closed>>
          BY <2>12, <3>5 DEF RestartPool
        <4>2. guests' \in Seq(Guest) /\ guest_id' \in 0..(IdWrap - 1)
          BY <4>1
        <4> QED
          BY <3>2, <3>3, <4>1, <4>2, NoValuesType
      <3> QED
        BY <3>4, <3>5
    <2>13. ASSUME NEW c \in Conn, RequestVm(c) PROVE TypeOK'
      <3>1. \A i \in Lookup(SrcIp[c]) : guests[i] \in Guest
        BY LookupType
      <3>2. ASSUME NEW i \in Lookup(SrcIp[c])
            PROVE  [conn |-> c, vm |-> guests[i].vm, id |-> guests[i].id]
                        \in ReqType
        BY <3>1 DEF ReqType, Guest
      <3>3. [NoReq EXCEPT !.conn = c] \in ReqType
        BY NoValuesType DEF ReqType
      <3>4. req' \in ReqType
        BY <2>13, <3>2, <3>3 DEF RequestVm
      <3> QED
        BY <2>13, <3>4 DEF RequestVm, poolVars, loopVars, qemuVars, histVars
    <2>14. ASSUME NEW c \in Conn, FreeVm(c) \/ ReuseVm(c) PROVE TypeOK'
      <3>1. guests' \in Seq(Guest)
        BY <2>14, ReturnedType DEF FreeVm, ReuseVm, Return
      <3>2. lease' \in [Conn -> LeaseType]
        BY <2>14, NoValuesType DEF FreeVm, ReuseVm, Return
      <3>3. bindings' = bindings \/ bindings' = free_binding(lease[c].id)
        BY <2>14 DEF FreeVm, ReuseVm, Return
      <3>4. /\ DOMAIN bindings' \subseteq 0..(IdWrap - 1)
            /\ bindings' \in [DOMAIN bindings' -> BindingType]
        BY <3>3, FreeBindingType
      <3> QED
        BY <2>14, <3>1, <3>2, <3>4 DEF FreeVm, ReuseVm, Return, loopVars, qemuVars, histVars
    <2>15. ASSUME NEW c \in Conn, Vanish(c) PROVE TypeOK'
      BY <2>15, NoValuesType DEF Vanish, poolVars, loopVars, qemuVars, histVars
    <2>16. CASE ServeVm
      <3>0. req.conn \in Conn /\ SrcIp[req.conn] \in Ip
        BY <2>16 DEF ServeVm, ReqType
      <3>1. \A i \in DOMAIN guests : guests[i] \in Guest
        OBVIOUS
      <3>2. ASSUME NEW i \in DOMAIN guests PROVE guests'[i] \in Guest
        BY <2>16, <3>0, <3>1, ConsumerGuestType DEF ServeVm
      <3>3. guests' \in Seq(Guest)
        BY <2>16, <3>2, MapType DEF ServeVm
      <3>4. [vm |-> req.vm, id |-> req.id] \in LeaseType
        BY DEF ReqType, LeaseType
      <3>5. lease' \in [Conn -> LeaseType]
        BY <2>16, <3>4 DEF ServeVm
      <3>6. bindings' = bindings \/ bindings' = request_binding(req.id, req.vm)
        BY <2>16 DEF ServeVm
      <3>7. req.id \in 0..(IdWrap - 1) /\ req.vm \in Vm \cup {NoVm}
        BY DEF ReqType
      <3>8. /\ DOMAIN bindings' \subseteq 0..(IdWrap - 1)
            /\ bindings' \in [DOMAIN bindings' -> BindingType]
        BY <3>6, <3>7, RequestBindingType
      <3> QED
        BY <2>16, <3>3, <3>5, <3>8, NoValuesType DEF ServeVm, loopVars, qemuVars, histVars
    <2>17. CASE RefuseVm
      <3>1. Cancelled \in [Producer -> ProducerPc]
        BY DEF Cancelled, ProducerPc
      <3>2. bindings' = bindings \/ bindings' = NoBindings
        BY <2>17 DEF RefuseVm, stop_pool
      <3>3. pc' \in [Producer -> ProducerPc]
        BY <2>17, <3>1 DEF RefuseVm, stop_pool
      <3>4. ready' \in BOOLEAN /\ running' \subseteq Vm /\ up' \subseteq running'
        BY <2>17 DEF RefuseVm, stop_pool, qemuVars, histVars
      <3> QED
        BY <2>17, <3>2, <3>3, <3>4, NoValuesType DEF RefuseVm, poolVars, histVars
    <2>18. ASSUME NEW k \in Configs, SetConfigs(k) PROVE TypeOK'
      BY <2>18 DEF SetConfigs, loopVars, qemuVars, connVars, histVars
    <2>19. CASE TimePasses
      <3>1. guests' \in Seq(Guest)
        <4>1. PICK i \in DOMAIN guests :
                guests' = [guests EXCEPT ![i].timed_out = TRUE]
          BY <2>19 DEF TimePasses
        <4>2. guests[i] \in Guest
          OBVIOUS
        <4>3. [guests[i] EXCEPT !.timed_out = TRUE] \in Guest
          BY <4>2 DEF Guest
        <4>4. guests' = [guests EXCEPT ![i] = [guests[i] EXCEPT !.timed_out = TRUE]]
          BY <4>1
        <4> QED
          BY <4>3, <4>4
      <3> QED
        BY <2>19, <3>1 DEF TimePasses, loopVars, qemuVars, connVars, histVars
    <2>20. CASE Boot
      BY <2>20 DEF Boot, poolVars, loopVars, connVars, histVars
    <2>21. CASE Hang
      BY <2>21 DEF Hang, poolVars, loopVars, connVars, histVars
    <2>22. CASE ListenerCloses
      <3>1. PICK g \in DOMAIN bindings :
                /\ bindings' = [bindings EXCEPT ![g].open = FALSE]
                /\ closed' = closed \cup {g}
        BY <2>22 DEF ListenerCloses
      <3>2. bindings[g] \in BindingType
        OBVIOUS
      <3>3. [bindings[g] EXCEPT !.open = FALSE] \in BindingType
        BY <3>2 DEF BindingType
      <3>4. bindings' = [bindings EXCEPT ![g] = [bindings[g] EXCEPT !.open = FALSE]]
        BY <3>1
      <3>5. /\ DOMAIN bindings' = DOMAIN bindings
            /\ bindings' \in [DOMAIN bindings' -> BindingType]
        BY <3>3, <3>4
      <3> QED
        BY <2>22, <3>1, <3>5 DEF ListenerCloses, poolVars, loopVars, qemuVars
    <2>23. CASE UNCHANGED vars
      BY <2>23 DEF vars, poolVars, loopVars, qemuVars, connVars, histVars
    <2> QED
      BY <2>1, <2>2, <2>3, <2>4, <2>5, <2>6, <2>7, <2>8, <2>9, <2>10, <2>11,
         <2>12, <2>13, <2>14, <2>15, <2>16, <2>17, <2>18, <2>19, <2>20, <2>21,
         <2>22, <2>23 DEF Next, producer_loop
  <1> QED
    BY <1>1, <1>2, PTL DEF Spec

\* A pool that is recycled, and a counter that wraps, reset ids for good.
LEMMA ResetForGood ==
    ASSUME TypeOK, [Next]_vars, ~idReset'
    PROVE  ~idReset
  <1>1. ASSUME NEW p \in Producer, producer_loop(p) PROVE idReset' = idReset \/ idReset'
    <2>1. CASE CreateGuest(p)
      BY <2>1 DEF CreateGuest, TypeOK
    <2> QED
      BY <1>1, <2>1 DEF producer_loop, TimerFires, MarkTimedOut, DestroyTimedOut, CheckHealth,
            RemoveDestroyed, StartCreating, CreateRaises, StartProbing, MarkAvailable, ScheduleNext,
            histVars
  <1> QED
    BY <1>1 DEF Next, RestartPool, RequestVm, FreeVm, ReuseVm, Return, Vanish, ServeVm, RefuseVm,
                SetConfigs, TimePasses, Boot, Hang, ListenerCloses, vars, histVars

-----------------------------------------------------------------------------
(* The producer loop *)

\* Two producer loops are never alive together: the pool is not recycled, or
\* there is one loop to start.  (restart_pool while the first iteration still
\* runs in its thread starts a second loop beside it.)
SingleLoop == ~Recycle \/ \E p \in Producer : Producer = {p}

Alone == SingleLoop \/ ~idReset

Usable == {"available", "using", "used"}

\* The steps of an iteration before it creates guests.
Early == {"begin", "destroy", "health", "remove"}

\* One loop runs at most.
OneLoop == \A p, q \in Producer : p # q => pc[p] = "off" \/ pc[q] = "off"

\* A thread runs the first iteration, and until it creates guests there are none.
FirstIteration ==
    \A p \in thread : InIteration(p) /\ (pc[p] \in Early => DOMAIN guests = {})

\* The guest of a request that was looked up is in the list and can be served.
ReqUsable ==
    req.vm # NoVm => /\ req.conn # NoConn
                     /\ \E i \in DOMAIN guests : /\ guests[i].vm = req.vm
                                                 /\ guests[i].state \in Usable

\* What is still to be created fits into a limit some proxy configured.
CreatesWithinLimit ==
    \A p \in Producer : pc[p] = "create" =>
        \E k \in Configs : Len(guests) + to_create[p] <= k.max_vm

LoopInv ==
    /\ recycle => Recycle
    /\ Alone => OneLoop /\ FirstIteration /\ ReqUsable /\ CreatesWithinLimit /\ PoolWithinLimit

LEMMA IntervalSize ==
    ASSUME NEW n \in Nat
    PROVE  Cardinality(1 .. n) = n
  <1>1. 1 \in Int /\ n \in Int
    OBVIOUS
  <1>2. Cardinality(1 .. n) = IF 1 > n THEN 0 ELSE n - 1 + 1
    BY <1>1, FS_Interval, Zenon
  <1> QED
    BY <1>2

LEMMA LenSame ==
    ASSUME NEW s \in Seq(Guest), NEW t \in Seq(Guest), DOMAIN s = DOMAIN t
    PROVE  Len(s) = Len(t)
  <1>1. ASSUME NEW m \in Nat, NEW n \in Nat, 1 .. m = 1 .. n PROVE m <= n
    <2>1. CASE m = 0
      BY <2>1
    <2>2. CASE m # 0
      <3>1. m \in 1 .. m
        BY <2>2
      <3>2. m \in 1 .. n
        BY <1>1, <3>1
      <3> QED
        BY <3>2
    <2> QED
      BY <2>1, <2>2
  <1>2. Len(s) \in Nat /\ Len(t) \in Nat /\ 1 .. Len(s) = 1 .. Len(t)
    OBVIOUS
  <1>3. Len(s) <= Len(t) /\ Len(t) <= Len(s)
    BY <1>1, <1>2
  <1> QED
    BY <1>2, <1>3

LEMMA LoopInitInv == Init => LoopInv
  <1> SUFFICES ASSUME Init PROVE LoopInv
    OBVIOUS
  <1>1. PICK p \in Producer : /\ pc = [q \in Producer |-> IF q = p THEN "begin" ELSE "off"]
                              /\ thread = {p}
    BY DEF Init
  <1>2. OneLoop /\ FirstIteration
    BY <1>1 DEF Init, OneLoop, FirstIteration, InIteration
  <1>3. ReqUsable
    BY DEF Init, ReqUsable, NoReq
  <1>4. CreatesWithinLimit
    BY <1>1 DEF CreatesWithinLimit
  <1>5. PoolWithinLimit
    BY PoolConfigAssumption DEF Init, PoolWithinLimit
  <1> QED
    BY <1>2, <1>3, <1>4, <1>5 DEF Init, LoopInv

\* A step of the reactor that leaves the loop alone, or cancels its next
\* iteration.
LEMMA ReactorStep ==
    ASSUME TypeOK, TypeOK', LoopInv, Alone, DOMAIN guests' = DOMAIN guests,
           \A q \in Producer : pc'[q] = pc[q] \/ (pc'[q] = "off" /\ q \notin thread),
           UNCHANGED <<thread, to_create, recycle>>, ReqUsable'
    PROVE  LoopInv'
  <1> USE DEF LoopInv
  <1>1. OneLoop'
    BY DEF OneLoop
  <1>2. FirstIteration'
    BY DEF FirstIteration, InIteration, TypeOK
  <1>3. Len(guests') = Len(guests)
    BY LenSame DEF TypeOK
  <1>4. CreatesWithinLimit' /\ PoolWithinLimit'
    BY <1>3 DEF CreatesWithinLimit, PoolWithinLimit
  <1> QED
    BY <1>1, <1>2, <1>4

\* While a loop runs it is the only one.
LEMMA OthersOff ==
    ASSUME TypeOK, LoopInv, Alone, NEW p \in Producer, pc[p] # "off"
    PROVE  thread \subseteq {p} /\ \A q \in Producer : q # p => pc[q] = "off"
  BY DEF LoopInv, OneLoop, FirstIteration, InIteration, TypeOK

\* A step of a loop.
LEMMA LoopStep ==
    ASSUME TypeOK, LoopInv, Alone, NEW p \in Producer, pc[p] # "off",
           \A q \in Producer : q # p => pc'[q] = pc[q],
           thread' \subseteq thread, recycle' = recycle,
           p \in thread' => InIteration(p)' /\ (pc'[p] \in Early => DOMAIN guests' = {}),
           pc'[p] = "create" =>
                \E k \in Configs : Len(guests') + to_create'[p] <= k.max_vm,
           PoolWithinLimit', ReqUsable'
    PROVE  LoopInv'
  <1>1. OneLoop' /\ FirstIteration' /\ CreatesWithinLimit'
    BY OthersOff DEF OneLoop, FirstIteration, CreatesWithinLimit
  <1> QED
    BY <1>1 DEF LoopInv

\* No request waits for a guest while the loop is before its creations.
LEMMA EarlyNoRequest ==
    ASSUME LoopInv, Alone, NEW p \in Producer, Runs(p), pc[p] \in Early
    PROVE  req.vm = NoVm
  BY DEF LoopInv, FirstIteration, ReqUsable, Runs

\* The lookups of request_vm find guests that can be served.
LEMMA LookupUsable ==
    ASSUME NEW ip, NEW i \in Lookup(ip)
    PROVE  i \in DOMAIN guests /\ guests[i].state \in Usable
  BY DEF Lookup, __consumers_get_guest_ip, __consumers_get_available_guest,
         __consumers_get_any_guest, First, FewestClients, get_guest_states, Usable

\* The steps of an iteration before it creates guests.
LEMMA EarlyInv ==
    ASSUME TypeOK, TypeOK', LoopInv, Alone, NEW p \in Producer,
           MarkTimedOut(p) \/ DestroyTimedOut(p) \/ CheckHealth(p) \/ RemoveDestroyed(p)
    PROVE  LoopInv'
  <1>1. /\ pc[p] \in Early /\ Runs(p) /\ pc'[p] \in Early
        /\ \A q \in Producer : q # p => pc'[q] = pc[q]
        /\ UNCHANGED <<thread, recycle, req>>
    BY DEF MarkTimedOut, DestroyTimedOut, CheckHealth, RemoveDestroyed, Early, Goto, loopVars,
           connVars, TypeOK
  <1>2. /\ DOMAIN guests = {} => DOMAIN guests' = {}
        /\ Len(guests') <= Len(guests)
    <2>1. CASE RemoveDestroyed(p)
      <3>1. PICK k \in DOMAIN guests : guests' = Without(guests, k)
        BY <2>1 DEF RemoveDestroyed, get_guest_states
      <3>2. /\ Len(guests) \in Nat /\ DOMAIN guests = 1 .. Len(guests)
            /\ Len(guests') \in Nat /\ DOMAIN guests' = 1 .. Len(guests')
            /\ DOMAIN guests' = 1 .. (Len(guests) - 1)
        BY <3>1 DEF TypeOK, Without
      <3>3. Len(guests') > 0 => Len(guests') \in 1 .. (Len(guests) - 1)
        BY <3>2
      <3> QED
        BY <3>1, <3>2, <3>3
    <2>2. CASE MarkTimedOut(p) \/ DestroyTimedOut(p) \/ CheckHealth(p)
      <3>1. DOMAIN guests' = DOMAIN guests
        BY <2>2 DEF MarkTimedOut, DestroyTimedOut, CheckHealth, WithState
      <3> QED
        BY <3>1, LenSame DEF TypeOK
    <2> QED
      BY <2>1, <2>2
  <1>3. ReqUsable'
    BY <1>1, EarlyNoRequest DEF ReqUsable
  <1>4. PoolWithinLimit'
    <2>1. Len(guests) \in Nat /\ Len(guests') \in Nat
      BY DEF TypeOK
    <2> QED
      BY <1>2, <2>1, PoolConfigAssumption DEF LoopInv, PoolWithinLimit
  <1>5. p \in thread' => InIteration(p)' /\ (pc'[p] \in Early => DOMAIN guests' = {})
    BY <1>1, <1>2 DEF LoopInv, FirstIteration, InIteration, Early
  <1> QED
    BY <1>1, <1>3, <1>4, <1>5, LoopStep DEF Early

\* __producer_create_guests: the pool grows up to the limit that it read.
LEMMA CreateInv ==
    ASSUME TypeOK, TypeOK', LoopInv, Alone, NEW p \in Producer,
           StartCreating(p) \/ CreateGuest(p)
    PROVE  LoopInv'
  <1>1. /\ pc[p] # "off" /\ pc'[p] = "create" /\ Runs(p)
        /\ \A q \in Producer : q # p => pc'[q] = pc[q]
        /\ UNCHANGED <<thread, recycle, req, config>>
    BY DEF StartCreating, CreateGuest, Goto, connVars, poolVars, TypeOK
  <1>2. p \in thread' => InIteration(p)' /\ (pc'[p] \in Early => DOMAIN guests' = {})
    BY <1>1 DEF InIteration, Early
  <1>3. /\ Len(guests) \in Nat /\ to_create[p] \in Nat
        /\ \A k \in Configs : k.max_vm \in Nat
        /\ config \in Configs
    BY PoolConfigAssumption DEF TypeOK
  <1>4. CASE StartCreating(p)
    <2>1. guests' = guests /\ get_guest_states({"destroyed"}) = {}
      BY <1>4 DEF StartCreating, poolVars
    <2>2. existing_pool_size = Len(guests)
      <3>1. {i \in DOMAIN guests : guests[i].state # "destroyed"} = 1 .. Len(guests)
        BY <2>1 DEF get_guest_states, TypeOK
      <3>2. Cardinality(1 .. Len(guests)) = Len(guests)
        BY <1>3, IntervalSize
      <3> QED
        BY <3>1, <3>2 DEF existing_pool_size
    <2>3. \E k \in Configs : Len(guests') + to_create'[p] <= k.max_vm
      <3>1. to_create'[p] = IF config.max_vm > Len(guests)
                            THEN config.max_vm - Len(guests) ELSE 0
        BY <1>4, <2>2 DEF StartCreating, TypeOK
      <3>2. CASE config.max_vm > Len(guests)
        BY <1>3, <2>1, <3>1, <3>2
      <3>3. CASE ~(config.max_vm > Len(guests))
        BY <1>3, <2>1, <3>1, <3>3 DEF LoopInv, PoolWithinLimit
      <3> QED
        BY <3>2, <3>3
    <2>4. PoolWithinLimit' /\ ReqUsable'
      BY <1>1, <2>1 DEF LoopInv, PoolWithinLimit, ReqUsable
    <2> QED
      BY <1>1, <1>2, <2>3, <2>4, LoopStep
  <1>5. CASE CreateGuest(p)
    <2>1. /\ to_create[p] > 0 /\ to_create'[p] = to_create[p] - 1
          /\ \/ guests' = guests
             \/ \E vm \in Vm : guests' = Append(guests, NewGuest(vm))
      BY <1>5 DEF CreateGuest, TypeOK
    <2>2. /\ DOMAIN guests \subseteq DOMAIN guests'
          /\ \A i \in DOMAIN guests : guests'[i] = guests[i]
          /\ Len(guests') \in Nat /\ Len(guests') <= Len(guests) + 1
      <3>1. CASE guests' = guests
        BY <1>3, <3>1
      <3>2. ASSUME NEW vm \in Vm, guests' = Append(guests, NewGuest(vm))
            PROVE  /\ DOMAIN guests \subseteq DOMAIN guests'
                   /\ \A i \in DOMAIN guests : guests'[i] = guests[i]
                   /\ Len(guests') \in Nat /\ Len(guests') <= Len(guests) + 1
        BY <1>3, <3>2 DEF TypeOK
      <3> QED
        BY <2>1, <3>1, <3>2
    <2>3. PICK k \in Configs : Len(guests) + to_create[p] <= k.max_vm
      BY <1>5 DEF CreateGuest, LoopInv, CreatesWithinLimit
    <2>4. Len(guests') + to_create'[p] <= k.max_vm /\ Len(guests') <= k.max_vm
      BY <1>3, <2>1, <2>2, <2>3
    <2>5. PoolWithinLimit'
      BY <2>4 DEF PoolWithinLimit
    <2>6. ReqUsable'
      BY <1>1, <2>2 DEF LoopInv, ReqUsable
    <2> QED
      BY <1>1, <1>2, <2>4, <2>5, <2>6, LoopStep
  <1> QED
    BY <1>4, <1>5

\* The steps of an iteration after it created guests, and the timer.
LEMMA LateInv ==
    ASSUME TypeOK, TypeOK', LoopInv, Alone, NEW p \in Producer,
           TimerFires(p) \/ CreateRaises(p) \/ StartProbing(p) \/ MarkAvailable(p) \/ ScheduleNext(p)
    PROVE  LoopInv'
  <1>1. /\ pc[p] # "off" /\ pc'[p] # "create"
        /\ \A q \in Producer : q # p => pc'[q] = pc[q]
        /\ thread' \subseteq thread /\ recycle' = recycle /\ req' = req
    BY DEF TimerFires, CreateRaises, StartProbing, MarkAvailable, ScheduleNext, Goto, connVars,
           TypeOK
  <1>2. p \in thread' => InIteration(p)' /\ (pc'[p] \in Early => DOMAIN guests' = {})
    BY DEF TimerFires, CreateRaises, StartProbing, MarkAvailable, ScheduleNext, Goto, TypeOK,
           InIteration, Early, LoopInv, FirstIteration
  <1>3. \/ guests' = guests
        \/ \E vm : guests' = WithState({vm}, "available")
    BY DEF TimerFires, CreateRaises, StartProbing, MarkAvailable, ScheduleNext, poolVars
  <1>4. DOMAIN guests' = DOMAIN guests
    BY <1>3 DEF WithState
  <1>5. PoolWithinLimit'
    BY <1>4, LenSame DEF PoolWithinLimit, LoopInv, TypeOK
  <1>6. ReqUsable'
    <2>1. \A i \in DOMAIN guests :
            /\ guests'[i].vm = guests[i].vm
            /\ guests'[i].state \in {guests[i].state, "available"}
      <3>1. \A i \in DOMAIN guests : guests[i] \in Guest
        BY DEF TypeOK
      <3> QED
        BY <1>3, <3>1 DEF WithState, Guest
    <2> QED
      BY <1>1, <1>4, <2>1 DEF LoopInv, ReqUsable, Usable
  <1> QED
    BY <1>1, <1>2, <1>5, <1>6, LoopStep

\* restart_pool starts a loop when none is alive.
LEMMA RestartInv ==
    ASSUME TypeOK, TypeOK', LoopInv, Alone', RestartPool
    PROVE  LoopInv'
  <1>1. recycle /\ Recycle /\ (recycle' => recycle)
    BY DEF RestartPool, LoopInv
  <1>2. CASE StopRaises
    <2>1. UNCHANGED <<poolVars, pc, thread, to_create, connVars, idReset>>
      BY <1>2 DEF RestartPool, histVars
    <2> QED
      BY <1>1, <2>1 DEF LoopInv, Alone, OneLoop, FirstIteration, InIteration, ReqUsable,
            CreatesWithinLimit, PoolWithinLimit, poolVars, connVars
  <1>3. CASE ~StopRaises
    <2>1. /\ idReset' /\ guests' = <<>> /\ req' = req /\ req.conn = NoConn
          /\ \E q \in Producer : pc'[q] = "begin" /\ thread' = thread \cup {q}
      BY <1>3 DEF RestartPool, ReactorIdle, Cancelled
    <2>2. PICK p \in Producer : Producer = {p}
      BY <1>1, <2>1 DEF Alone, SingleLoop
    <2>3. pc'[p] = "begin" /\ thread' = {p}
      BY <2>1, <2>2 DEF TypeOK
    <2>4. OneLoop' /\ CreatesWithinLimit' /\ FirstIteration'
      BY <2>1, <2>2, <2>3 DEF OneLoop, CreatesWithinLimit, FirstIteration, InIteration
    <2>5. PoolWithinLimit'
      BY <2>1, PoolConfigAssumption DEF PoolWithinLimit
    <2>6. ReqUsable'
      <3>1. Alone
        BY <2>2 DEF Alone, SingleLoop
      <3> QED
        BY <2>1, <3>1 DEF LoopInv, ReqUsable
    <2> QED
      BY <1>1, <2>4, <2>5, <2>6 DEF LoopInv
  <1> QED
    BY <1>2, <1>3

LEMMA LoopNextInv == TypeOK /\ TypeOK' /\ LoopInv /\ [Next]_vars => LoopInv'
  <1> SUFFICES ASSUME TypeOK, TypeOK', LoopInv, [Next]_vars PROVE LoopInv'
    OBVIOUS
  <1>1. CASE ~Alone'
    <2>1. recycle' => recycle
      <3>1. ASSUME NEW p \in Producer, producer_loop(p) PROVE recycle' = recycle
        BY <3>1 DEF producer_loop, TimerFires, MarkTimedOut, DestroyTimedOut, CheckHealth,
              RemoveDestroyed, StartCreating, CreateGuest, CreateRaises, StartProbing,
              MarkAvailable, ScheduleNext, loopVars
      <3> QED
        BY <3>1 DEF Next, RestartPool, RequestVm, FreeVm, ReuseVm, Return, Vanish, ServeVm,
              RefuseVm, SetConfigs, TimePasses, Boot, Hang, ListenerCloses, vars, loopVars
    <2> QED
      BY <1>1, <2>1 DEF LoopInv
  <1>2. CASE Alone'
    <2>0. Alone
      BY <1>2, ResetForGood DEF Alone, SingleLoop
    <2>1. ASSUME NEW p \in Producer, producer_loop(p) PROVE LoopInv'
      BY <2>0, <2>1, EarlyInv, CreateInv, LateInv DEF producer_loop
    <2>2. CASE RestartPool
      BY <1>2, <2>2, RestartInv
    <2>3. ASSUME NEW c \in Conn, RequestVm(c) PROVE LoopInv'
      <3>1. UNCHANGED <<guests, pc, thread, to_create, recycle>>
        BY <2>3 DEF RequestVm, poolVars, loopVars
      <3>2. /\ req'.conn = c
            /\ req'.vm = NoVm \/ \E i \in Lookup(SrcIp[c]) : req'.vm = guests[i].vm
        BY <2>3 DEF RequestVm, NoReq
      <3>3. ReqUsable'
        BY <3>1, <3>2, LookupUsable, PoolConstantsAssumption DEF ReqUsable
      <3> QED
        BY <2>0, <3>1, <3>3, ReactorStep
    <2>4. ASSUME NEW c \in Conn, FreeVm(c) \/ ReuseVm(c) \/ Vanish(c) PROVE LoopInv'
      <3>1. /\ UNCHANGED <<pc, thread, to_create, recycle, req>> /\ req.conn = NoConn
            /\ DOMAIN guests' = DOMAIN guests
        BY <2>4 DEF FreeVm, ReuseVm, Vanish, Return, ReactorIdle, free_vm, reuse_vm, poolVars,
                    loopVars
      <3>2. ReqUsable'
        BY <2>0, <3>1 DEF LoopInv, ReqUsable
      <3> QED
        BY <2>0, <3>1, <3>2, ReactorStep
    <2>5. CASE ServeVm
      <3>1. /\ UNCHANGED <<pc, thread, to_create, recycle>>
            /\ DOMAIN guests' = DOMAIN guests /\ req' = NoReq
        BY <2>5 DEF ServeVm, loopVars
      <3> QED
        BY <2>0, <3>1, ReactorStep DEF ReqUsable, NoReq
    <2>6. CASE RefuseVm
      <3>1. /\ UNCHANGED <<guests, thread, to_create, recycle>> /\ req' = NoReq
            /\ pc' = pc \/ (~StopRaises /\ pc' = Cancelled)
        BY <2>6 DEF RefuseVm, stop_pool, poolVars
      <3>2. \A q \in Producer : pc'[q] = pc[q] \/ (pc'[q] = "off" /\ q \notin thread)
        <4>1. ~StopRaises => loop_next_call \notin thread
          BY <2>0, PoolConstantsAssumption
             DEF StopRaises, LoopInv, FirstIteration, InIteration, TypeOK
        <4> QED
          BY <3>1, <4>1 DEF Cancelled
      <3> QED
        BY <2>0, <3>1, <3>2, ReactorStep DEF ReqUsable, NoReq
    <2>7. CASE TimePasses
      <3>1. /\ UNCHANGED <<pc, thread, to_create, recycle, req>> /\ req.conn = NoConn
            /\ DOMAIN guests' = DOMAIN guests
        BY <2>7 DEF TimePasses, ReactorIdle, loopVars, connVars
      <3>2. ReqUsable'
        BY <2>0, <3>1 DEF LoopInv, ReqUsable
      <3> QED
        BY <2>0, <3>1, <3>2, ReactorStep
    <2>8. CASE (\E k \in Configs : SetConfigs(k)) \/ Boot \/ Hang \/ ListenerCloses \/ UNCHANGED vars
      <3>1. UNCHANGED <<guests, pc, thread, to_create, recycle, req>>
        BY <2>8 DEF SetConfigs, Boot, Hang, ListenerCloses, vars, poolVars, loopVars, connVars
      <3>2. ReqUsable'
        BY <2>0, <3>1 DEF LoopInv, ReqUsable
      <3> QED
        BY <2>0, <3>1, <3>2, ReactorStep
    <2> QED
      BY <2>1, <2>2, <2>3, <2>4, <2>5, <2>6, <2>7, <2>8 DEF Next
  <1> QED
    BY <1>1, <1>2

\* The producer loop and the requests it interleaves with.
THEOREM LoopCorrect == Spec => []LoopInv
  BY LoopInitInv, LoopNextInv, TypeCorrect, PTL DEF Spec

\* The producer never grows the pool past the largest limit a proxy configured,
\* whatever is destroyed, stopped or reconfigured between the count of
\* existing_pool_size and the creations, unless two loops are alive together.
THEOREM LimitKept ==
    ASSUME SingleLoop PROVE Spec => []PoolWithinLimit
  <1>1. LoopInv => PoolWithinLimit
    BY DEF LoopInv, Alone
  <1> QED
    BY <1>1, LoopCorrect, PTL

\* request_vm looks a guest up under the lock and marks it without the lock: it
\* is still one that can be served, unless two loops are alive together.
THEOREM GrantedWhileUsable ==
    ASSUME SingleLoop PROVE Spec => GrantsUsable
  <1>1. ASSUME LoopInv, [Next]_vars, lease' # lease, req.conn # NoConn
        PROVE  \E i \in DOMAIN guests : /\ guests[i].vm = req.vm
                                        /\ guests[i].state \in {"available", "using", "used"}
    <2>1. ASSUME NEW p \in Producer, producer_loop(p) PROVE lease' = lease
      BY <2>1 DEF producer_loop, TimerFires, MarkTimedOut, DestroyTimedOut, CheckHealth,
            RemoveDestroyed, StartCreating, CreateGuest, CreateRaises, StartProbing,
            MarkAvailable, ScheduleNext, connVars
    <2>2. ServeVm
      BY <1>1, <2>1 DEF Next, RestartPool, RequestVm, FreeVm, ReuseVm, Return, Vanish, RefuseVm,
            SetConfigs, TimePasses, Boot, Hang, ListenerCloses, ReactorIdle, vars, connVars
    <2> QED
      BY <1>1, <2>2 DEF ServeVm, LoopInv, Alone, ReqUsable, Usable
  <1>2. LoopInv /\ [Next]_vars =>
            [lease' # lease /\ req.conn # NoConn =>
                \E i \in DOMAIN guests :
                    /\ guests[i].vm = req.vm
                    /\ guests[i].state \in {"available", "using", "used"}]_vars
    BY <1>1
  <1> QED
    BY <1>2, LoopCorrect, PTL DEF Spec, GrantsUsable

-----------------------------------------------------------------------------
(* What the pool promises the connections that hold a VM: however many       *)
(* producer loops are alive, and however the pool is recycled, as long as no *)
(* guest id is issued twice.                                                 *)

\* What names a VM by a guest id: the list, the leases, a request that was
\* looked up, and the NAT table.
Named ==
    {[vm |-> guests[i].vm, id |-> guests[i].id] : i \in DOMAIN guests}
    \cup {lease[c] : c \in {d \in Conn : lease[d] # NoLease}}
    \cup {x \in {[vm |-> req.vm, id |-> req.id]} : req.vm # NoVm}
    \cup {[vm |-> bindings[g].vm, id |-> g] : g \in DOMAIN bindings}

\* The number of connections that hold a VM.
Clients(l, vm) == Cardinality({c \in Conn : l[c].vm = vm})

\* An id stands for one VM wherever it is kept, and the next id is new.
IdsIdentify ==
    /\ \A x \in Named : x.vm \in Vm /\ x.id \in 0 .. guest_id - 1
    /\ \A x, y \in Named : x.id = y.id <=> x.vm = y.vm

\* No address, and so no VM, is twice in the list.
VmsDistinct ==
    \A i, j \in DOMAIN guests :
        AddressOf[guests[i].vm] = AddressOf[guests[j].vm] => i = j

\* A connection that asks for a VM holds none.
AsksOnce ==
    /\ req.vm # NoVm => req.conn # NoConn
    /\ req.conn # NoConn => lease[req.conn] = NoLease

\* `connected' covers the connections that hold the VM.
Counted ==
    \A i \in DOMAIN guests : Clients(lease, guests[i].vm) <= guests[i].connected

\* While the backend is ready, so do the counts of the NAT table, for the guests
\* none of whose listeners was closed.
Bound ==
    UseNat /\ ready =>
        /\ \A c \in Conn : lease[c] # NoLease /\ lease[c].id \notin closed =>
                lease[c].id \in DOMAIN bindings
        /\ \A g \in DOMAIN bindings : g \notin closed =>
                /\ bindings[g].open
                /\ Clients(lease, bindings[g].vm) <= bindings[g].count

LeaseInv == ~idReset => IdsIdentify /\ VmsDistinct /\ AsksOnce /\ Counted /\ Bound

-----------------------------------------------------------------------------
(* Lemmas *)

\* The members of Named, one by one.
LEMMA NamedMembers ==
    /\ \A i \in DOMAIN guests : [vm |-> guests[i].vm, id |-> guests[i].id] \in Named
    /\ \A c \in Conn : lease[c] # NoLease => lease[c] \in Named
    /\ req.vm # NoVm => [vm |-> req.vm, id |-> req.id] \in Named
    /\ \A g \in DOMAIN bindings : [vm |-> bindings[g].vm, id |-> g] \in Named
  BY DEF Named

\* What they identify.
LEMMA Identify ==
    ASSUME IdsIdentify
    PROVE  /\ \A i \in DOMAIN guests : guests[i].vm \in Vm /\ guests[i].id \in 0 .. guest_id - 1
           /\ \A i, j \in DOMAIN guests :
                guests[i].id = guests[j].id <=> guests[i].vm = guests[j].vm
           /\ \A c \in Conn : lease[c] # NoLease =>
                /\ lease[c].vm \in Vm
                /\ \A i \in DOMAIN guests :
                    guests[i].id = lease[c].id <=> guests[i].vm = lease[c].vm
                /\ \A g \in DOMAIN bindings : g = lease[c].id <=> bindings[g].vm = lease[c].vm
           /\ req.vm # NoVm =>
                /\ req.vm \in Vm
                /\ \A c \in Conn : lease[c] # NoLease =>
                    (lease[c].id = req.id <=> lease[c].vm = req.vm)
                /\ \A g \in DOMAIN bindings : g = req.id <=> bindings[g].vm = req.vm
           /\ \A g \in DOMAIN bindings : bindings[g].vm \in Vm
  BY NamedMembers DEF IdsIdentify

\* Nothing new is named.
LEMMA NamedKept ==
    ASSUME IdsIdentify, Named' \subseteq Named, guest_id' = guest_id
    PROVE  IdsIdentify'
  BY DEF IdsIdentify

\* The connections that hold a VM are finitely many.
LEMMA HoldersFinite ==
    ASSUME NEW l, NEW vm
    PROVE  /\ IsFiniteSet({c \in Conn : l[c].vm = vm})
           /\ Clients(l, vm) \in Nat
  <1>1. IsFiniteSet(Conn) /\ {c \in Conn : l[c].vm = vm} \subseteq Conn
    BY PoolConstantsAssumption
  <1>2. IsFiniteSet({c \in Conn : l[c].vm = vm})
    BY <1>1, FS_Subset
  <1> QED
    BY <1>2, FS_CardinalityType DEF Clients

\* The number of a VM's clients is a number, stays when none comes or goes, and
\* is one more when one comes.
LEMMA ClientsKept ==
    ASSUME NEW l, NEW m, NEW vm, \A d \in Conn : m[d].vm = vm <=> l[d].vm = vm
    PROVE  Clients(m, vm) = Clients(l, vm)
  <1>1. {d \in Conn : m[d].vm = vm} = {d \in Conn : l[d].vm = vm}
    OBVIOUS
  <1> QED
    BY <1>1 DEF Clients

LEMMA ClientAdded ==
    ASSUME NEW l, NEW m, NEW vm, NEW c \in Conn, l[c].vm # vm, m[c].vm = vm,
           \A d \in Conn : d # c => m[d].vm = l[d].vm
    PROVE  Clients(m, vm) = Clients(l, vm) + 1
  <1> DEFINE H == {d \in Conn : l[d].vm = vm}
  <1>1. {d \in Conn : m[d].vm = vm} = H \cup {c}
    OBVIOUS
  <1>2. c \notin H
    OBVIOUS
  <1>3. IsFiniteSet(H)
    <2>1. IsFiniteSet(Conn) /\ H \subseteq Conn
      BY PoolConstantsAssumption
    <2> QED
      BY <2>1, FS_Subset
  <1> HIDE DEF H
  <1>4. Cardinality(H \cup {c}) = Cardinality(H) + 1
    BY <1>2, <1>3, FS_AddElement
  <1> QED
    BY <1>1, <1>4 DEF Clients, H

\* The list keeps its guests and their clients.
SameGuests ==
    /\ DOMAIN guests' = DOMAIN guests
    /\ \A i \in DOMAIN guests : /\ guests'[i].vm = guests[i].vm
                                /\ guests'[i].id = guests[i].id

SameClients == \A i \in DOMAIN guests : guests'[i].connected = guests[i].connected

\* Setting states does.
LEMMA WithStateSame ==
    ASSUME TypeOK, NEW vms, NEW st, guests' = WithState(vms, st)
    PROVE  SameGuests /\ SameClients
  <1>1. \A i \in DOMAIN guests : guests[i] \in Guest
    BY DEF TypeOK
  <1> QED
    BY <1>1 DEF WithState, SameGuests, SameClients, Guest

\* A step that touches neither the clients nor, except to forget them, the
\* request and the NAT table.
LEMMA QuietStep ==
    ASSUME TypeOK, LeaseInv, ~idReset, SameGuests, SameClients,
           guest_id' = guest_id, lease' = lease,
           req' = req \/ req' = NoReq,
           bindings' = bindings \/ (bindings' = NoBindings /\ ~ready'),
           ready' => ready, closed' = closed
    PROVE  LeaseInv'
  <1> USE DEF LeaseInv
  <1>1. Named' \subseteq Named
    BY DEF Named, SameGuests, NoReq, NoBindings
  <1>2. IdsIdentify'
    BY <1>1, NamedKept
  <1>3. VmsDistinct'
    BY DEF VmsDistinct, SameGuests
  <1>4. AsksOnce'
    BY DEF AsksOnce, NoReq
  <1>5. Counted'
    BY DEF Counted, SameGuests, SameClients
  <1>6. Bound'
    BY DEF Bound
  <1> QED
    BY <1>2, <1>3, <1>4, <1>5, <1>6

\* __producer_remove_destroyed: the guests that stay are the ones that were.
LEMMA RemovedLease ==
    ASSUME TypeOK, LeaseInv, ~idReset, NEW p \in Producer, RemoveDestroyed(p)
    PROVE  LeaseInv'
  <1> USE DEF LeaseInv
  <1>1. PICK k \in DOMAIN guests : guests' = Without(guests, k)
    BY DEF RemoveDestroyed, get_guest_states
  <1>2. /\ UNCHANGED <<guest_id, req, lease, bindings, ready, closed>>
    BY DEF RemoveDestroyed, connVars, qemuVars, histVars
  <1> DEFINE Old(i) == IF i < k THEN i ELSE i + 1
  <1>3. Len(guests) \in Nat /\ DOMAIN guests = 1 .. Len(guests) /\ k \in 1 .. Len(guests)
    BY DEF TypeOK
  <1>4. /\ DOMAIN guests' = 1 .. (Len(guests) - 1)
        /\ \A i \in DOMAIN guests' : Old(i) \in DOMAIN guests /\ guests'[i] = guests[Old(i)]
        /\ \A i, j \in DOMAIN guests' : Old(i) = Old(j) => i = j
    BY <1>1, <1>3 DEF Without
  <1> HIDE DEF Old
  <1>5. Named' \subseteq Named
    BY <1>2, <1>4 DEF Named
  <1>6. IdsIdentify'
    BY <1>2, <1>5, NamedKept
  <1>7. VmsDistinct'
    BY <1>4 DEF VmsDistinct
  <1>8. AsksOnce'
    BY <1>2 DEF AsksOnce
  <1>9. Counted'
    BY <1>2, <1>4 DEF Counted
  <1>10. Bound'
    BY <1>2 DEF Bound
  <1> QED
    BY <1>6, <1>7, <1>8, <1>9, <1>10

\* __producer_create_guests: a domain nothing refers to, under a new id.
LEMMA CreatedLease ==
    ASSUME TypeOK, LeaseInv, ~idReset, ~idReset', NEW p \in Producer, CreateGuest(p), ready
    PROVE  LeaseInv'
  <1> USE DEF LeaseInv
  <1>1. PICK vm \in Vm : /\ Fresh(vm)
                         /\ guests' = Append(guests, NewGuest(vm))
                         /\ guest_id' = NextId
                         /\ idReset' = (idReset \/ guest_id + 1 = IdWrap)
    BY DEF CreateGuest
  <1>2. UNCHANGED <<req, lease, bindings, ready, closed>>
    BY DEF CreateGuest, connVars
  <1>3. guest_id \in Nat /\ guest_id' = guest_id + 1
    <2>1. guest_id + 1 # IdWrap
      BY <1>1, Zenon
    <2> QED
      BY <1>1, <2>1, PoolConstantsAssumption DEF NextId, TypeOK
  <1>4. Len(guests) \in Nat /\ DOMAIN guests = 1 .. Len(guests)
    BY DEF TypeOK
  <1> DEFINE n == Len(guests) + 1
  <1>5. /\ DOMAIN guests' = 1 .. n
        /\ \A i \in DOMAIN guests : guests'[i] = guests[i]
        /\ guests'[n] = NewGuest(vm)
        /\ \A i \in DOMAIN guests' : i \in DOMAIN guests \/ i = n
    BY <1>1, <1>4 DEF TypeOK
  <1>6. NewGuest(vm).vm = vm /\ NewGuest(vm).id = guest_id /\ NewGuest(vm).connected = 0
    BY DEF NewGuest
  <1> HIDE DEF n
  <1> DEFINE new == [vm |-> vm, id |-> guest_id]
  <1>7. Named' \subseteq Named \cup {new}
    BY <1>2, <1>5, <1>6 DEF Named
  <1>8. \A x \in Named : x.vm # vm
    BY <1>1 DEF Named, Fresh
  <1>9. \A x \in Named : x.id # guest_id
    BY <1>3 DEF IdsIdentify
  <1>10. IdsIdentify'
    <2>1. ASSUME NEW x \in Named' PROVE x.vm \in Vm /\ x.id \in 0 .. guest_id' - 1
      <3>1. CASE x \in Named
        BY <1>3, <3>1 DEF IdsIdentify
      <3>2. CASE x = new
        BY <1>3, <3>2
      <3> QED
        BY <1>7, <2>1, <3>1, <3>2
    <2>2. ASSUME NEW x \in Named', NEW y \in Named' PROVE x.id = y.id <=> x.vm = y.vm
      <3>1. (x \in Named \/ x = new) /\ (y \in Named \/ y = new)
        BY <1>7
      <3> QED
        BY <1>8, <1>9, <3>1 DEF IdsIdentify
    <2> QED
      BY <2>1, <2>2 DEF IdsIdentify
  <1>11. VmsDistinct'
    <2>1. \A i \in DOMAIN guests : AddressOf[guests[i].vm] # AddressOf[vm]
      BY <1>1 DEF Fresh
    <2> QED
      BY <1>5, <1>6, <2>1 DEF VmsDistinct
  <1>12. AsksOnce'
    BY <1>2 DEF AsksOnce
  <1>13. Counted'
    <2>1. Clients(lease', vm) = 0
      <3>1. {c \in Conn : lease'[c].vm = vm} = {}
        BY <1>1, <1>2 DEF Fresh
      <3> QED
        BY <3>1, FS_EmptySet DEF Clients
    <2>2. Clients(lease', guests'[n].vm) <= guests'[n].connected
      BY <1>5, <1>6, <2>1
    <2> QED
      BY <1>2, <1>5, <2>2 DEF Counted
  <1>14. Bound'
    BY <1>2 DEF Bound
  <1> QED
    BY <1>10, <1>11, <1>12, <1>13, <1>14

\* request_vm, up to the guest it found.
LEMMA RequestedLease ==
    ASSUME TypeOK, LeaseInv, ~idReset, NEW c \in Conn, RequestVm(c)
    PROVE  LeaseInv'
  <1> USE DEF LeaseInv
  <1>1. UNCHANGED <<guests, guest_id, lease, bindings, ready, closed>>
    BY DEF RequestVm, poolVars, qemuVars, histVars
  <1>2. /\ lease[c] = NoLease /\ req'.conn = c
        /\ \/ req'.vm = NoVm
           \/ \E i \in DOMAIN guests : req'.vm = guests[i].vm /\ req'.id = guests[i].id
    BY LookupType DEF RequestVm, NoReq, TypeOK
  <1>3. Named' \subseteq Named
    BY <1>1, <1>2 DEF Named
  <1>4. IdsIdentify'
    BY <1>1, <1>3, NamedKept
  <1>5. VmsDistinct' /\ Counted' /\ Bound'
    BY <1>1 DEF VmsDistinct, Counted, Bound
  <1>6. AsksOnce'
    BY <1>1, <1>2, PoolConstantsAssumption DEF AsksOnce
  <1> QED
    BY <1>4, <1>5, <1>6

\* request_vm marks the guest and dataReceived binds its ports: one client more,
\* counted by the guest and by the NAT table.
LEMMA ServedLease ==
    ASSUME TypeOK, LeaseInv, ~idReset, ServeVm
    PROVE  LeaseInv'
  <1> USE DEF LeaseInv
  <1> DEFINE new == [vm |-> req.vm, id |-> req.id]
  <1>0. PICK c \in Conn : c = req.conn
    BY DEF ServeVm, TypeOK, ReqType
  <1>1. /\ c \in Conn /\ req.vm \in Vm /\ req.vm # NoVm /\ lease[c] = NoLease
        /\ lease \in [Conn -> LeaseType]
    BY <1>0, Identify DEF ServeVm, AsksOnce, TypeOK, ReqType
  <1>2. /\ lease' = [lease EXCEPT ![c] = new]
        /\ bindings' = IF UseNat THEN request_binding(req.id, req.vm) ELSE bindings
        /\ req' = NoReq
        /\ UNCHANGED <<guest_id, ready, closed>>
    BY <1>0 DEF ServeVm, qemuVars, histVars
  <1>3. /\ SameGuests
        /\ \A i \in DOMAIN guests : guests'[i].connected =
                IF guests[i].vm = req.vm THEN guests[i].connected + 1 ELSE guests[i].connected
    <2>1. \A i \in DOMAIN guests : guests[i] \in Guest
      BY DEF TypeOK
    <2> QED
      BY <2>1 DEF ServeVm, SameGuests, Granted, Guest
  <1>4. /\ \A g \in DOMAIN bindings' : g \in DOMAIN bindings \/ g = req.id
        /\ \A g \in DOMAIN bindings : g \in DOMAIN bindings' /\ bindings'[g].vm = bindings[g].vm
        /\ req.id \in DOMAIN bindings' =>
                bindings'[req.id].vm = IF req.id \in DOMAIN bindings
                                       THEN bindings[req.id].vm ELSE req.vm
    <2>1. \A g \in DOMAIN bindings : bindings[g] \in BindingType
      BY DEF TypeOK
    <2>2. req.id \in DOMAIN bindings => bindings[req.id].vm = req.vm
      BY <1>1, Identify
    <2> QED
      BY <1>2, <2>1, <2>2 DEF request_binding, BindingType
  <1>5. Named' \subseteq Named
    <2>1. new \in Named
      BY <1>1, NamedMembers
    <2>2. ASSUME NEW x \in Named' PROVE x \in Named
      <3>1. \/ \E i \in DOMAIN guests' : x = [vm |-> guests'[i].vm, id |-> guests'[i].id]
            \/ \E d \in Conn : lease'[d] # NoLease /\ x = lease'[d]
            \/ \E g \in DOMAIN bindings' : x = [vm |-> bindings'[g].vm, id |-> g]
        BY <1>2 DEF Named, NoReq
      <3>2. CASE \E i \in DOMAIN guests' : x = [vm |-> guests'[i].vm, id |-> guests'[i].id]
        BY <1>3, <3>2, NamedMembers DEF SameGuests
      <3>3. CASE \E d \in Conn : lease'[d] # NoLease /\ x = lease'[d]
        BY <1>1, <1>2, <2>1, <3>3, NamedMembers
      <3>4. CASE \E g \in DOMAIN bindings' : x = [vm |-> bindings'[g].vm, id |-> g]
        BY <1>4, <2>1, <3>4, NamedMembers
      <3> QED
        BY <3>1, <3>2, <3>3, <3>4
    <2> QED
      BY <2>2
  <1>6. IdsIdentify'
    BY <1>2, <1>5, NamedKept
  <1>7. VmsDistinct'
    BY <1>3 DEF VmsDistinct, SameGuests
  <1>8. AsksOnce'
    BY <1>2 DEF AsksOnce, NoReq
  <1>9. \A vm \in Vm :
            /\ vm = req.vm => Clients(lease', vm) = Clients(lease, vm) + 1
            /\ vm # req.vm => Clients(lease', vm) = Clients(lease, vm)
    <2> SUFFICES ASSUME NEW vm \in Vm
                 PROVE  /\ vm = req.vm => Clients(lease', vm) = Clients(lease, vm) + 1
                        /\ vm # req.vm => Clients(lease', vm) = Clients(lease, vm)
      OBVIOUS
    <2>1. /\ \A d \in Conn : d # c => lease'[d].vm = lease[d].vm
          /\ lease[c].vm # vm /\ lease'[c].vm = req.vm
      BY <1>1, <1>2, PoolConstantsAssumption DEF NoLease
    <2>2. ASSUME vm = req.vm PROVE Clients(lease', vm) = Clients(lease, vm) + 1
      <3>1. lease'[c].vm = vm /\ c \in Conn
        BY <1>1, <2>1, <2>2
      <3> QED
        BY <2>1, <3>1, ClientAdded
    <2>3. ASSUME vm # req.vm PROVE Clients(lease', vm) = Clients(lease, vm)
      BY <1>1, <2>1, <2>3, ClientsKept
    <2> QED
      BY <2>2, <2>3
  <1>10. \A vm \in Vm : Clients(lease, vm) \in Nat
    BY HoldersFinite
  <1>11. Counted'
    <2>1. ASSUME NEW i \in DOMAIN guests'
          PROVE  Clients(lease', guests'[i].vm) <= guests'[i].connected
      <3>1. /\ i \in DOMAIN guests /\ guests'[i].vm = guests[i].vm
            /\ guests[i].vm \in Vm /\ guests[i].connected \in Int
            /\ Clients(lease, guests[i].vm) <= guests[i].connected
        <4>1. i \in DOMAIN guests /\ guests[i] \in Guest
          BY <1>3 DEF SameGuests, TypeOK
        <4> QED
          BY <1>3, <4>1 DEF SameGuests, Guest, Counted
      <3> QED
        BY <1>3, <1>9, <1>10, <3>1
    <2> QED
      BY <2>1 DEF Counted
  <1>12. Bound'
    <2> SUFFICES ASSUME UseNat, ready
        PROVE  /\ \A d \in Conn : lease'[d] # NoLease /\ lease'[d].id \notin closed =>
                    lease'[d].id \in DOMAIN bindings'
               /\ \A g \in DOMAIN bindings' : g \notin closed =>
                    /\ bindings'[g].open
                    /\ Clients(lease', bindings'[g].vm) <= bindings'[g].count
      BY <1>2 DEF Bound
    <2>1. req.id \in DOMAIN bindings'
      BY <1>2 DEF request_binding
    <2>2. ASSUME NEW d \in Conn, lease'[d] # NoLease, lease'[d].id \notin closed
          PROVE  lease'[d].id \in DOMAIN bindings'
      <3>1. CASE d = c
        BY <1>1, <1>2, <2>1, <3>1
      <3>2. CASE d # c
        BY <1>1, <1>2, <1>4, <2>2, <3>2 DEF Bound
      <3> QED
        BY <3>1, <3>2
    <2>3. ASSUME NEW g \in DOMAIN bindings', g \notin closed
          PROVE  /\ bindings'[g].open
                 /\ Clients(lease', bindings'[g].vm) <= bindings'[g].count
      <3>1. CASE g \in DOMAIN bindings
        <4>1. /\ bindings[g] \in BindingType /\ bindings[g].vm \in Vm
              /\ bindings[g].open
              /\ Clients(lease, bindings[g].vm) <= bindings[g].count
              /\ bindings'[g].vm = bindings[g].vm
              /\ g = req.id <=> bindings[g].vm = req.vm
          BY <1>1, <1>4, <2>3, <3>1, Identify DEF TypeOK, Bound
        <4>2. /\ bindings'[g].count = IF g = req.id THEN bindings[g].count + 1
                                                    ELSE bindings[g].count
              /\ bindings'[g].open
          BY <1>2, <3>1, <4>1 DEF request_binding, BindingType
        <4>3. bindings[g].count \in Int
          BY <4>1 DEF BindingType
        <4> QED
          BY <1>9, <1>10, <4>1, <4>2, <4>3
      <3>2. CASE g \notin DOMAIN bindings
        <4>1. g = req.id /\ bindings'[g] = [count |-> 1, vm |-> req.vm, open |-> TRUE]
          BY <1>2, <1>4, <3>2 DEF request_binding
        <4>2. {d \in Conn : lease[d].vm = req.vm} = {}
          BY <1>1, <2>3, <3>2, <4>1, Identify, PoolConstantsAssumption DEF Bound, NoLease
        <4>3. Clients(lease, req.vm) = 0
          BY <4>2, FS_EmptySet DEF Clients
        <4> QED
          BY <1>1, <1>9, <4>1, <4>3
      <3> QED
        BY <3>1, <3>2
    <2> QED
      BY <2>2, <2>3
  <1> QED
    BY <1>6, <1>7, <1>8, <1>11, <1>12

\* dataReceived on "f" and "u", and a connection that ends: the client is
\* counted out of the guest that has the id, which is the one it held.
LEMMA ReturnedLease ==
    ASSUME TypeOK, LeaseInv, ~idReset, NEW c \in Conn,
           FreeVm(c) \/ ReuseVm(c) \/ Vanish(c)
    PROVE  LeaseInv'
  <1> USE DEF LeaseInv
  <1> DEFINE id == lease[c].id
             vm == lease[c].vm
  <1>1. /\ lease[c] # NoLease /\ lease' = [lease EXCEPT ![c] = NoLease]
        /\ req.conn = NoConn
        /\ UNCHANGED <<guest_id, ready, req, closed>>
    BY DEF FreeVm, ReuseVm, Vanish, Return, ReactorIdle, qemuVars, poolVars, histVars
  <1>2. \/ guests' = guests /\ bindings' = bindings
        \/ /\ ~FreeRaises(id)
           /\ guests' = free_vm(id) \/ guests' = reuse_vm(id)
           /\ bindings' = free_binding(id)
    BY DEF FreeVm, ReuseVm, Vanish, Return, poolVars
  <1>3. /\ SameGuests
        /\ \A i \in DOMAIN guests :
                \/ guests'[i].connected = guests[i].connected
                \/ /\ guests'[i].connected = guests[i].connected - 1
                   /\ guests[i].id = id
    <2>1. \A i \in DOMAIN guests : guests[i] \in Guest
      BY DEF TypeOK
    <2>2. ASSUME NEW g \in Guest
          PROVE  /\ Freed(g).vm = g.vm /\ Freed(g).id = g.id
                 /\ Freed(g).connected = g.connected - 1
                 /\ Reused(g).vm = g.vm /\ Reused(g).id = g.id
                 /\ Reused(g).connected = g.connected - 1
      BY DEF Freed, Reused, Guest
    <2>3. \A i \in WithId(id) : guests[i].id = id
      BY DEF WithId, First
    <2> QED
      BY <1>2, <2>1, <2>2, <2>3 DEF free_vm, reuse_vm, SameGuests
  <1>4. /\ DOMAIN bindings' \subseteq DOMAIN bindings
        /\ \A g \in DOMAIN bindings' : bindings'[g].vm = bindings[g].vm
    <2>1. \A g \in DOMAIN bindings : bindings[g] \in BindingType
      BY DEF TypeOK
    <2> QED
      BY <1>2, <2>1 DEF free_binding, FreeRaises, BindingType
  <1>5. /\ vm \in Vm
        /\ \A d \in Conn : d # c => lease'[d] = lease[d]
        /\ \A v \in Vm : lease'[c].vm # v
        /\ lease'[c] = NoLease
    BY <1>1, Identify, PoolConstantsAssumption DEF NoLease, TypeOK
  <1>6. /\ \A v \in Vm : Clients(lease, v) \in Nat /\ Clients(lease', v) \in Nat
        /\ Clients(lease', vm) = Clients(lease, vm) - 1
        /\ \A v \in Vm : v # vm => Clients(lease', v) = Clients(lease, v)
    <2>1. \A v \in Vm : Clients(lease, v) \in Nat /\ Clients(lease', v) \in Nat
      BY HoldersFinite
    <2>2. Clients(lease, vm) = Clients(lease', vm) + 1
      BY <1>5, ClientAdded
    <2>3. ASSUME NEW v \in Vm, v # vm PROVE Clients(lease', v) = Clients(lease, v)
      BY <1>5, <2>3, ClientsKept
    <2> QED
      BY <1>5, <2>1, <2>2, <2>3
  <1>7. IdsIdentify'
    <2>1. Named' \subseteq Named
      <3>1. ASSUME NEW x \in Named' PROVE x \in Named
        <4>1. \/ \E i \in DOMAIN guests' : x = [vm |-> guests'[i].vm, id |-> guests'[i].id]
              \/ \E d \in Conn : lease'[d] # NoLease /\ x = lease'[d]
              \/ req.vm # NoVm /\ x = [vm |-> req.vm, id |-> req.id]
              \/ \E g \in DOMAIN bindings' : x = [vm |-> bindings'[g].vm, id |-> g]
          BY <1>1 DEF Named
        <4>2. CASE \E i \in DOMAIN guests' : x = [vm |-> guests'[i].vm, id |-> guests'[i].id]
          BY <1>3, <4>2, NamedMembers DEF SameGuests
        <4>3. CASE \E d \in Conn : lease'[d] # NoLease /\ x = lease'[d]
          BY <1>5, <4>3, NamedMembers
        <4>4. CASE \E g \in DOMAIN bindings' : x = [vm |-> bindings'[g].vm, id |-> g]
          BY <1>4, <4>4, NamedMembers
        <4> QED
          BY <4>1, <4>2, <4>3, <4>4, NamedMembers
      <3> QED
        BY <3>1
    <2> QED
      BY <1>1, <2>1, NamedKept
  <1>8. VmsDistinct'
    BY <1>3 DEF VmsDistinct, SameGuests
  <1>9. AsksOnce'
    BY <1>1 DEF AsksOnce
  <1>10. Counted'
    <2>1. ASSUME NEW i \in DOMAIN guests'
          PROVE  Clients(lease', guests'[i].vm) <= guests'[i].connected
      <3>1. i \in DOMAIN guests /\ guests'[i].vm = guests[i].vm /\ guests[i] \in Guest
        BY <1>3 DEF SameGuests, TypeOK
      <3>2. /\ guests[i].vm \in Vm /\ guests[i].connected \in Int
            /\ Clients(lease, guests[i].vm) <= guests[i].connected
        BY <3>1 DEF Guest, Counted
      <3>3. guests[i].id = id => guests[i].vm = vm
        BY <1>1, <3>1, Identify
      <3> QED
        BY <1>3, <1>5, <1>6, <3>1, <3>2, <3>3
    <2> QED
      BY <2>1 DEF Counted
  <1>11. Bound'
    <2> SUFFICES ASSUME UseNat, ready
        PROVE  /\ \A d \in Conn : lease'[d] # NoLease /\ lease'[d].id \notin closed =>
                    lease'[d].id \in DOMAIN bindings'
               /\ \A g \in DOMAIN bindings' : g \notin closed =>
                    /\ bindings'[g].open
                    /\ Clients(lease', bindings'[g].vm) <= bindings'[g].count
      BY <1>1 DEF Bound
    <2>1. /\ \A d \in Conn : lease[d] # NoLease /\ lease[d].id \notin closed =>
                lease[d].id \in DOMAIN bindings
          /\ \A g \in DOMAIN bindings :
                /\ bindings[g].vm \in Vm /\ bindings[g].count \in Int
                /\ g \notin closed => /\ bindings[g].open
                                      /\ Clients(lease, bindings[g].vm) <= bindings[g].count
          /\ \A g \in DOMAIN bindings : g = id <=> bindings[g].vm = vm
      BY <1>1, Identify DEF Bound, TypeOK, BindingType
    <2>2. CASE bindings' = bindings
      <3>1. ASSUME NEW d \in Conn, lease'[d] # NoLease PROVE lease'[d] = lease[d]
        BY <1>5, <3>1
      <3>2. ASSUME NEW g \in DOMAIN bindings
            PROVE  Clients(lease', bindings[g].vm) <= Clients(lease, bindings[g].vm)
        BY <1>6, <2>1
      <3> QED
        BY <1>6, <2>1, <2>2, <3>1, <3>2
    <2>3. CASE bindings' = free_binding(id) /\ id \in DOMAIN bindings /\ bindings[id].count > 1
      <3>1. /\ DOMAIN bindings' = DOMAIN bindings
            /\ \A g \in DOMAIN bindings : bindings'[g].vm = bindings[g].vm
            /\ \A g \in DOMAIN bindings : bindings'[g].open = bindings[g].open
            /\ \A g \in DOMAIN bindings : g # id => bindings'[g].count = bindings[g].count
            /\ bindings'[id].count = bindings[id].count - 1
        <4>1. id \in DOMAIN bindings /\ bindings[id] \in BindingType
          BY <2>3 DEF TypeOK
        <4> QED
          BY <2>3, <4>1 DEF free_binding, BindingType
      <3>3. ASSUME NEW g \in DOMAIN bindings, g \notin closed
            PROVE  Clients(lease', bindings[g].vm) <= bindings'[g].count
        <4>1. CASE g = id
          BY <1>6, <2>1, <3>1, <3>3, <4>1
        <4>2. CASE g # id
          BY <1>6, <2>1, <3>1, <3>3, <4>2
        <4> QED
          BY <4>1, <4>2
      <3> QED
        BY <1>5, <2>1, <3>1, <3>3
    <2>4. CASE bindings' = free_binding(id) /\ id \in DOMAIN bindings
               /\ ~(bindings[id].count > 1)
      <3>1. /\ DOMAIN bindings' = DOMAIN bindings \ {id}
            /\ \A g \in DOMAIN bindings' : bindings'[g] = bindings[g]
        BY <2>4 DEF free_binding
      <3>3. ASSUME id \notin closed PROVE Clients(lease', vm) = 0
        <4>1. id \in DOMAIN bindings /\ bindings[id].count \in Int
          BY <2>1, <2>4
        <4>2. Clients(lease, vm) <= bindings[id].count
          BY <2>1, <3>3, <4>1
        <4> QED
          BY <1>5, <1>6, <2>4, <4>1, <4>2
      <3>4. ASSUME id \notin closed PROVE \A d \in Conn : lease'[d].vm # vm
        <4>1. {d \in Conn : lease'[d].vm = vm} = {}
          BY <3>3, <3>4, HoldersFinite, FS_EmptySet DEF Clients
        <4> QED
          BY <4>1
      <3>5. ASSUME NEW d \in Conn, lease'[d] # NoLease, lease'[d].id \notin closed
            PROVE  lease'[d].id \in DOMAIN bindings'
        <4>1. d # c /\ lease'[d] = lease[d] /\ lease[d].id \in DOMAIN bindings
          BY <1>5, <2>1, <3>5
        <4>2. lease[d].id # id
          <5>1. SUFFICES ASSUME lease[d].id = id PROVE FALSE
            OBVIOUS
          <5>2. id \notin closed /\ lease'[d].vm # vm
            BY <3>4, <3>5, <4>1, <5>1
          <5>3. bindings[id].vm = vm /\ bindings[id].vm = lease[d].vm
            BY <2>1, <2>4, <3>5, <4>1, <5>1, Identify
          <5> QED
            BY <4>1, <5>2, <5>3
        <4> QED
          BY <3>1, <4>1, <4>2
      <3> QED
        BY <1>5, <1>6, <2>1, <3>1, <3>5
    <2>5. bindings' = bindings \/ (bindings' = free_binding(id) /\ id \in DOMAIN bindings)
      BY <1>2 DEF FreeRaises
    <2> QED
      BY <2>2, <2>3, <2>4, <2>5
  <1> QED
    BY <1>7, <1>8, <1>9, <1>10, <1>11

\* A listener is closed: its guest's id is no longer counted on.
LEMMA ClosedLease ==
    ASSUME TypeOK, LeaseInv, ~idReset, ListenerCloses
    PROVE  LeaseInv'
  <1> USE DEF LeaseInv
  <1>1. UNCHANGED <<guests, guest_id, lease, req, ready>>
    BY DEF ListenerCloses, poolVars, qemuVars
  <1>2. PICK h \in DOMAIN bindings :
            /\ bindings' = [bindings EXCEPT ![h].open = FALSE]
            /\ closed' = closed \cup {h}
    BY DEF ListenerCloses
  <1>3. /\ DOMAIN bindings' = DOMAIN bindings
        /\ \A g \in DOMAIN bindings : bindings'[g].vm = bindings[g].vm
        /\ \A g \in DOMAIN bindings : g # h => bindings'[g] = bindings[g]
    <2>1. bindings[h] \in BindingType
      BY DEF TypeOK
    <2> QED
      BY <1>2, <2>1 DEF BindingType
  <1>4. Named' \subseteq Named
    BY <1>1, <1>3 DEF Named
  <1>5. IdsIdentify'
    BY <1>1, <1>4, NamedKept
  <1>6. VmsDistinct' /\ AsksOnce' /\ Counted'
    BY <1>1 DEF VmsDistinct, AsksOnce, Counted
  <1>7. Bound'
    BY <1>1, <1>2, <1>3 DEF Bound
  <1> QED
    BY <1>5, <1>6, <1>7

-----------------------------------------------------------------------------
(* Theorems *)

LEMMA LeaseInitInv == Init => LeaseInv
  <1> SUFFICES ASSUME Init PROVE LeaseInv
    OBVIOUS
  <1> USE DEF Init
  <1>1. Named = {}
    BY PoolConstantsAssumption DEF Named, NoReq, NoBindings
  <1>2. IdsIdentify /\ VmsDistinct /\ Counted
    BY <1>1 DEF IdsIdentify, VmsDistinct, Counted
  <1>3. AsksOnce /\ Bound
    BY DEF AsksOnce, NoReq, Bound, NoBindings
  <1> QED
    BY <1>2, <1>3 DEF LeaseInv

LEMMA LeaseNextInv == TypeOK /\ LeaseInv /\ [Next]_vars => LeaseInv'
  <1> SUFFICES ASSUME TypeOK, LeaseInv, [Next]_vars, ~idReset' PROVE LeaseInv'
    BY DEF LeaseInv
  <1>0. ~idReset
    BY ResetForGood
  <1>1. ASSUME NEW p \in Producer, producer_loop(p) PROVE LeaseInv'
    <2>1. CASE TimerFires(p) \/ StartCreating(p) \/ CreateRaises(p) \/ StartProbing(p)
               \/ ScheduleNext(p)
      <3>1. guests' = guests /\ UNCHANGED <<guest_id, connVars, qemuVars, closed>>
        BY <2>1 DEF TimerFires, StartCreating, CreateRaises, StartProbing, ScheduleNext, poolVars,
               histVars
      <3> QED
        BY <1>0, <3>1, QuietStep DEF SameGuests, SameClients, connVars, qemuVars
    <2>2. CASE MarkTimedOut(p) \/ DestroyTimedOut(p) \/ CheckHealth(p)
      <3>1. /\ \/ guests' = guests
               \/ \E vms, st : guests' = WithState(vms, st)
            /\ UNCHANGED <<guest_id, connVars, ready, closed>>
        BY <2>2 DEF MarkTimedOut, DestroyTimedOut, CheckHealth, qemuVars,
               histVars
      <3>2. SameGuests /\ SameClients
        BY <3>1, WithStateSame DEF SameGuests, SameClients
      <3> QED
        BY <1>0, <3>1, <3>2, QuietStep DEF connVars
    <2>3. CASE MarkAvailable(p)
      <3>1. /\ \/ guests' = guests
               \/ \E vms, st : guests' = WithState(vms, st)
            /\ UNCHANGED <<guest_id, connVars, qemuVars, closed>>
        BY <2>3 DEF MarkAvailable, histVars
      <3>2. SameGuests /\ SameClients
        BY <3>1, WithStateSame DEF SameGuests, SameClients
      <3> QED
        BY <1>0, <3>1, <3>2, QuietStep DEF connVars, qemuVars
    <2>4. CASE RemoveDestroyed(p)
      BY <1>0, <2>4, RemovedLease
    <2>5. CASE CreateGuest(p) /\ ready
      BY <1>0, <2>5, CreatedLease
    <2>6. CASE CreateGuest(p) /\ ~ready
      <3>1. guests' = guests /\ UNCHANGED <<guest_id, connVars, ready, closed>>
        BY <2>6 DEF CreateGuest
      <3> QED
        BY <1>0, <3>1, QuietStep DEF SameGuests, SameClients, connVars
    <2> QED
      BY <1>1, <2>1, <2>2, <2>3, <2>4, <2>5, <2>6 DEF producer_loop
  <1>2. CASE RestartPool
    <2>1. UNCHANGED <<guests, guest_id, connVars, ready, closed>>
      BY <1>2 DEF RestartPool, poolVars, qemuVars, histVars
    <2> QED
      BY <1>0, <2>1, QuietStep DEF SameGuests, SameClients, connVars
  <1>3. ASSUME NEW c \in Conn, RequestVm(c) \/ FreeVm(c) \/ ReuseVm(c) \/ Vanish(c)
        PROVE  LeaseInv'
    BY <1>0, <1>3, RequestedLease, ReturnedLease
  <1>4. CASE ServeVm
    BY <1>0, <1>4, ServedLease
  <1>5. CASE RefuseVm
    <2>1. /\ guests' = guests /\ guest_id' = guest_id /\ lease' = lease /\ req' = NoReq
          /\ closed' = closed
          /\ ready' => ready
          /\ bindings' = bindings \/ (bindings' = NoBindings /\ ~ready')
      BY <1>5 DEF RefuseVm, stop_pool, poolVars, qemuVars, histVars
    <2> QED
      BY <1>0, <2>1, QuietStep DEF SameGuests, SameClients
  <1>6. CASE TimePasses
    <2>1. UNCHANGED <<guest_id, connVars, qemuVars, closed>>
      BY <1>6 DEF TimePasses, histVars
    <2>2. SameGuests /\ SameClients
      <3>1. \A i \in DOMAIN guests : guests[i] \in Guest
        BY DEF TypeOK
      <3> QED
        BY <1>6, <3>1 DEF TimePasses, SameGuests, SameClients, Guest
    <2> QED
      BY <1>0, <2>1, <2>2, QuietStep DEF connVars, qemuVars
  <1>7. CASE (\E k \in Configs : SetConfigs(k)) \/ Boot \/ Hang \/ UNCHANGED vars
    <2>1. UNCHANGED <<guests, guest_id, connVars, ready, closed>>
      BY <1>7 DEF SetConfigs, Boot, Hang, vars, poolVars, qemuVars, histVars
    <2> QED
      BY <1>0, <2>1, QuietStep DEF SameGuests, SameClients, connVars
  <1>8. CASE ListenerCloses
    BY <1>0, <1>8, ClosedLease
  <1> QED
    BY <1>1, <1>2, <1>3, <1>4, <1>5, <1>6, <1>7, <1>8 DEF Next

\* The pool's leases, as long as no guest id was issued twice.
THEOREM LeaseCorrect == Spec => []LeaseInv
  BY LeaseInitInv, LeaseNextInv, TypeCorrect, PTL DEF Spec

\* request_vm, free_vm and reuse_vm keep `connected' from dropping below the
\* number of connections that hold the VM, for any number of connections,
\* domains, producers and recyclings, until a guest id is issued twice.
THEOREM LeasesStayCounted == Spec => []LeasesCounted
  <1>1. LeaseInv => LeasesCounted
    BY DEF LeaseInv, LeasesCounted, Counted, Clients, Holders
  <1> QED
    BY <1>1, LeaseCorrect, PTL

\* The ports request_binding gave a connection stay bound and forward to the
\* address of its VM, which is no other guest's while the pool lists the VM,
\* unless a listener of the guest was closed.
THEOREM NatStaysBound == Spec => []NatReachesLease
  <1>1. ASSUME LeaseInv PROVE NatReachesLease
    <2> SUFFICES ASSUME UseNat, ~idReset, ready, NEW c \in Conn, lease[c] # NoLease,
                        lease[c].id \notin closed
                 PROVE  /\ lease[c].id \in DOMAIN bindings
                        /\ bindings[lease[c].id].open
                        /\ bindings[lease[c].id].vm = lease[c].vm
                        /\ AddressKept(lease[c].vm)
      BY DEF NatReachesLease
    <2>1. lease[c].id \in DOMAIN bindings /\ bindings[lease[c].id].open
      BY <1>1 DEF LeaseInv, Bound
    <2>2. bindings[lease[c].id].vm = lease[c].vm
      BY <1>1, <2>1, Identify DEF LeaseInv
    <2>3. AddressKept(lease[c].vm)
      BY <1>1 DEF LeaseInv, VmsDistinct, AddressKept
    <2> QED
      BY <2>1, <2>2, <2>3
  <1> QED
    BY <1>1, LeaseCorrect, PTL

-----------------------------------------------------------------------------
(* Marks *)

\* A guest that was used has no client; a guest that is returned unused goes
\* back to a state in which it could be served.
MarkOK(g) ==
    /\ g.state = "used" => g.connected <= 0
    /\ g.prev_state # "unavailable"

Marks == ~idReset => \A i \in DOMAIN guests : MarkOK(guests[i])

\* What the operations make of one guest.
LEMMA MarkKept ==
    ASSUME NEW g \in Guest, MarkOK(g)
    PROVE  /\ \A st \in {"unavailable", "destroyed", "available"} :
                    MarkOK([g EXCEPT !.state = st])
           /\ MarkOK([g EXCEPT !.timed_out = TRUE])
           /\ MarkOK(Freed(g)) /\ MarkOK(Reused(g))
           /\ \A ip \in Ip : g.state \in Usable => MarkOK(Granted(g, ip))
  BY DEF MarkOK, Freed, Reused, Granted, Guest, Usable

\* Every step keeps the marks.
LEMMA MarksNextInv ==
    TypeOK /\ LeaseInv /\ LoopInv /\ Marks /\ [Next]_vars => Marks'
  <1> SUFFICES ASSUME TypeOK, LeaseInv, LoopInv, Marks, [Next]_vars, ~idReset',
                      NEW j \in DOMAIN guests'
               PROVE  MarkOK(guests'[j])
    BY DEF Marks
  <1>0. /\ ~idReset /\ VmsDistinct /\ ReqUsable
        /\ \A i \in DOMAIN guests : guests[i] \in Guest /\ MarkOK(guests[i])
    BY ResetForGood DEF LeaseInv, LoopInv, Alone, Marks, TypeOK
  <1>1. ASSUME NEW vms, NEW st \in {"unavailable", "destroyed", "available"},
               guests' = WithState(vms, st)
        PROVE  MarkOK(guests'[j])
    <2>1. /\ j \in DOMAIN guests
          /\ guests'[j] = guests[j] \/ guests'[j] = [guests[j] EXCEPT !.state = st]
      BY <1>1 DEF WithState
    <2> QED
      BY <1>0, <2>1, MarkKept
  <1>2. ASSUME guests' = guests PROVE MarkOK(guests'[j])
    BY <1>0, <1>2
  <1>3. ASSUME NEW p \in Producer, producer_loop(p) PROVE MarkOK(guests'[j])
    <2>1. CASE MarkTimedOut(p) \/ DestroyTimedOut(p) \/ CheckHealth(p) \/ MarkAvailable(p)
      <3>1. \/ guests' = guests
            \/ \E vms : \/ guests' = WithState(vms, "unavailable")
                        \/ guests' = WithState(vms, "destroyed")
                        \/ guests' = WithState(vms, "available")
        BY <2>1 DEF MarkTimedOut, DestroyTimedOut, CheckHealth, MarkAvailable
      <3> QED
        BY <1>1, <1>2, <3>1
    <2>2. CASE RemoveDestroyed(p)
      <3>1. PICK k \in DOMAIN guests : guests' = Without(guests, k)
        BY <2>2 DEF RemoveDestroyed, get_guest_states
      <3>2. Len(guests) \in Nat /\ DOMAIN guests = 1 .. Len(guests)
        BY DEF TypeOK
      <3>3. \E i \in DOMAIN guests : guests'[j] = guests[i]
        BY <3>1, <3>2 DEF Without
      <3> QED
        BY <1>0, <3>3
    <2>3. CASE CreateGuest(p)
      <3>1. guests' = guests \/ \E vm \in Vm : guests' = Append(guests, NewGuest(vm))
        BY <2>3 DEF CreateGuest
      <3>2. ASSUME NEW vm \in Vm, guests' = Append(guests, NewGuest(vm))
            PROVE  MarkOK(guests'[j])
        <4>1. MarkOK(NewGuest(vm))
          BY DEF MarkOK, NewGuest
        <4>2. guests'[j] = NewGuest(vm) \/ (j \in DOMAIN guests /\ guests'[j] = guests[j])
          BY <3>2 DEF TypeOK
        <4> QED
          BY <1>0, <4>1, <4>2
      <3> QED
        BY <1>2, <3>1, <3>2
    <2>4. CASE TimerFires(p) \/ StartCreating(p) \/ CreateRaises(p) \/ StartProbing(p)
               \/ ScheduleNext(p)
      BY <1>2, <2>4 DEF TimerFires, StartCreating, CreateRaises, StartProbing, ScheduleNext,
                        poolVars
    <2> QED
      BY <1>3, <2>1, <2>2, <2>3, <2>4 DEF producer_loop
  <1>4. ASSUME NEW c \in Conn, FreeVm(c) \/ ReuseVm(c) PROVE MarkOK(guests'[j])
    <2>1. \/ guests' = guests
          \/ /\ j \in DOMAIN guests
             /\ \/ guests'[j] = guests[j]
                \/ guests'[j] = Freed(guests[j])
                \/ guests'[j] = Reused(guests[j])
      BY <1>4 DEF FreeVm, ReuseVm, Return, free_vm, reuse_vm
    <2> QED
      BY <1>0, <1>2, <2>1, MarkKept
  <1>5. CASE ServeVm
    <2>1. /\ j \in DOMAIN guests
          /\ guests'[j] = guests[j] \/ (/\ guests[j].vm = req.vm
                                        /\ guests'[j] = Granted(guests[j], SrcIp[req.conn]))
          /\ req.vm # NoVm /\ req.conn \in Conn
      BY <1>5 DEF ServeVm, TypeOK, ReqType
    <2>2. guests[j].vm = req.vm => guests[j].state \in Usable
      BY <1>0, <2>1 DEF ReqUsable, VmsDistinct
    <2>3. SrcIp[req.conn] \in Ip
      BY <2>1, PoolConstantsAssumption
    <2> QED
      BY <1>0, <2>1, <2>2, <2>3, MarkKept
  <1>6. CASE TimePasses
    <2>1. /\ j \in DOMAIN guests
          /\ guests'[j] = guests[j] \/ guests'[j] = [guests[j] EXCEPT !.timed_out = TRUE]
      BY <1>6 DEF TimePasses
    <2> QED
      BY <1>0, <2>1, MarkKept
  <1>7. CASE RestartPool
    BY <1>2, <1>7 DEF RestartPool, poolVars
  <1>8. CASE \/ \E c \in Conn : RequestVm(c) \/ Vanish(c)
             \/ RefuseVm \/ \E k \in Configs : SetConfigs(k)
             \/ Boot \/ Hang \/ ListenerCloses \/ UNCHANGED vars
    BY <1>2, <1>8 DEF RequestVm, Vanish, RefuseVm, SetConfigs, Boot, Hang, ListenerCloses, vars, poolVars
  <1> QED
    BY <1>3, <1>4, <1>5, <1>6, <1>7, <1>8 DEF Next

LEMMA MarksCorrect == Spec => []Marks
  <1>1. Init => Marks
    BY DEF Init, Marks
  <1> QED
    BY <1>1, MarksNextInv, TypeCorrect, LeaseCorrect, LoopCorrect, PTL DEF Spec

\* The only steps that condemn a guest are __producer_mark_timed_out, of one that
\* has no client, and __producer_check_health, of one that does not answer.
LEMMA CondemnedIdleOrDead ==
    ASSUME TypeOK, LeaseInv, LoopInv, Marks, [Next]_vars, ~idReset,
           NEW i \in DOMAIN guests, i \in DOMAIN guests',
           guests[i].vm = guests'[i].vm,
           guests[i].state # "unavailable", guests'[i].state = "unavailable"
    PROVE  Holders(guests[i].vm) = {} \/ ~has_connectivity(guests[i].vm)
  <1>0. /\ VmsDistinct /\ ReqUsable /\ Counted
        /\ \A k \in DOMAIN guests : guests[k] \in Guest /\ MarkOK(guests[k])
        /\ guests[i] \in Guest
    BY DEF LeaseInv, LoopInv, Alone, Marks, TypeOK
  <1>1. ASSUME NEW vms, NEW st, guests' = WithState(vms, st)
        PROVE  st = "unavailable" /\ guests[i].vm \in vms
    BY <1>0, <1>1 DEF WithState, Guest
  <1>2. ASSUME guests'[i].state = guests[i].state PROVE FALSE
    BY <1>2
  <1>3. ASSUME NEW p \in Producer, producer_loop(p)
        PROVE  Holders(guests[i].vm) = {} \/ ~has_connectivity(guests[i].vm)
    <2>1. CASE MarkTimedOut(p)
      <3>1. guests[i].vm \in TimedOutVms
        BY <1>1, <1>2, <2>1 DEF MarkTimedOut
      <3>2. guests[i].state = "used"
        BY <1>0, <3>1 DEF TimedOutVms, get_guest_states, VmsDistinct
      <3>3. Clients(lease, guests[i].vm) <= guests[i].connected /\ guests[i].connected <= 0
        BY <1>0, <3>2 DEF Counted, MarkOK
      <3>4. guests[i].connected \in Int
        BY <1>0 DEF Guest
      <3>5. Cardinality(Holders(guests[i].vm)) = 0 /\ IsFiniteSet(Holders(guests[i].vm))
        <4>1. /\ Cardinality(Holders(guests[i].vm)) \in Nat
              /\ IsFiniteSet(Holders(guests[i].vm))
          BY HoldersFinite DEF Holders, Clients
        <4> QED
          BY <3>3, <3>4, <4>1 DEF Holders, Clients
      <3> QED
        BY <3>5, FS_EmptySet
    <2>2. CASE CheckHealth(p)
      <3>1. guests[i].vm \in {vm \in VmsIn({"available", "using", "used"}) :
                                    ~has_connectivity(vm)}
        BY <1>1, <2>2 DEF CheckHealth
      <3> QED
        BY <3>1
    <2>3. CASE DestroyTimedOut(p) \/ MarkAvailable(p)
      <3>1. \/ guests' = guests
            \/ \E vms : \/ guests' = WithState(vms, "destroyed")
                        \/ guests' = WithState(vms, "available")
        BY <2>3 DEF DestroyTimedOut, MarkAvailable
      <3> QED
        BY <1>1, <1>2, <3>1
    <2>4. CASE RemoveDestroyed(p)
      <3>1. PICK k \in DOMAIN guests : guests' = Without(guests, k)
        BY <2>4 DEF RemoveDestroyed, get_guest_states
      <3>2. Len(guests) \in Nat /\ DOMAIN guests = 1 .. Len(guests)
        BY DEF TypeOK
      <3>3. \E m \in DOMAIN guests : guests'[i] = guests[m]
        BY <3>1, <3>2 DEF Without
      <3>4. guests'[i] = guests[i]
        BY <1>0, <3>3 DEF VmsDistinct
      <3> QED
        BY <1>2, <3>4
    <2>5. CASE CreateGuest(p)
      <3>1. guests' = guests \/ \E vm \in Vm : guests' = Append(guests, NewGuest(vm))
        BY <2>5 DEF CreateGuest
      <3>2. ASSUME NEW vm \in Vm, guests' = Append(guests, NewGuest(vm))
            PROVE  guests'[i] = guests[i]
        BY <3>2 DEF TypeOK
      <3> QED
        BY <1>2, <3>1, <3>2
    <2>6. CASE TimerFires(p) \/ StartCreating(p) \/ CreateRaises(p) \/ StartProbing(p)
               \/ ScheduleNext(p)
      <3>1. guests' = guests
        BY <2>6 DEF TimerFires, StartCreating, CreateRaises, StartProbing, ScheduleNext, poolVars
      <3> QED
        BY <1>2, <3>1
    <2> QED
      BY <1>3, <2>1, <2>2, <2>3, <2>4, <2>5, <2>6 DEF producer_loop
  <1>4. ASSUME NEW c \in Conn, FreeVm(c) \/ ReuseVm(c) PROVE FALSE
    <2>1. \/ guests' = guests
          \/ guests'[i] = guests[i]
          \/ guests'[i] = Freed(guests[i])
          \/ guests'[i] = Reused(guests[i])
      BY <1>4 DEF FreeVm, ReuseVm, Return, free_vm, reuse_vm
    <2>2. /\ Freed(guests[i]).state \in {guests[i].state, "used"}
          /\ Reused(guests[i]).state \in {guests[i].state, guests[i].prev_state}
      BY <1>0 DEF Freed, Reused, Guest
    <2> QED
      BY <1>0, <1>2, <2>1, <2>2 DEF MarkOK
  <1>5. CASE ServeVm
    <2>1. guests'[i] = guests[i] \/ guests'[i] = Granted(guests[i], SrcIp[req.conn])
      BY <1>5 DEF ServeVm
    <2>2. Granted(guests[i], SrcIp[req.conn]).state = "using"
      BY <1>0 DEF Granted, Guest
    <2> QED
      BY <1>2, <2>1, <2>2
  <1>6. CASE TimePasses
    <2>1. guests'[i] = guests[i] \/ guests'[i] = [guests[i] EXCEPT !.timed_out = TRUE]
      BY <1>6 DEF TimePasses
    <2> QED
      BY <1>0, <1>2, <2>1 DEF Guest
  <1>7. CASE RestartPool
    <2>1. guests' = guests \/ guests' = <<>>
      BY <1>7 DEF RestartPool, poolVars
    <2> QED
      BY <1>2, <2>1
  <1>8. CASE \/ \E c \in Conn : RequestVm(c) \/ Vanish(c)
             \/ RefuseVm \/ \E k \in Configs : SetConfigs(k)
             \/ Boot \/ Hang \/ ListenerCloses \/ UNCHANGED vars
    <2>1. guests' = guests
      BY <1>8 DEF RequestVm, Vanish, RefuseVm, SetConfigs, Boot, Hang, ListenerCloses, vars, poolVars
    <2> QED
      BY <1>2, <2>1
  <1> QED
    BY <1>3, <1>4, <1>5, <1>6, <1>7, <1>8 DEF Next

\* "only mark VMs not in use": until a guest id is issued twice, the producer
\* condemns a VM that a connection holds only if the VM does not answer, however
\* requests, returns and the first, threaded, iteration interleave.
THEOREM OnlyIdleOrDeadCondemned == Spec => OnlyIdleOrDeadMarked
  <1>1. TypeOK /\ LeaseInv /\ LoopInv /\ Marks /\ [Next]_vars =>
            [\A i \in DOMAIN guests \cap DOMAIN guests' :
                (/\ guests[i].vm = guests'[i].vm
                 /\ guests[i].state # "unavailable"
                 /\ guests'[i].state = "unavailable")
                => \/ Holders(guests[i].vm) = {}
                   \/ ~has_connectivity(guests[i].vm)
                   \/ idReset]_vars
    BY CondemnedIdleOrDead
  <1> QED
    BY <1>1, TypeCorrect, LeaseCorrect, LoopCorrect, MarksCorrect, PTL
       DEF Spec, OnlyIdleOrDeadMarked
=============================================================================
