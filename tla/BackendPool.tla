---------------------------- MODULE BackendPool ----------------------------
(***************************************************************************)
(* The VM pool: PoolService (backend_pool/pool_service.py), the NAT table   *)
(* it drives (nat.py) and the requests PoolServer.dataReceived serves       *)
(* (pool_server.py).                                                        *)
(*                                                                          *)
(* Two threads of control touch the pool.  The reactor thread serves the    *)
(* proxies' requests, the recycle timer, and every producer iteration but   *)
(* the first; start_pool runs the first iteration of a producer in a        *)
(* thread of its own (threads.deferToThread), so only that iteration        *)
(* interleaves with the rest.  A producer iteration is a sequence of steps, *)
(* one per __producer_ method (one per guest in the two slow loops); while  *)
(* the reactor runs one, no other reactor event is served.                  *)
(*                                                                          *)
(* Abstractions: a QEMU domain with its snapshot is one member of Vm, named *)
(* by its uuid, and its address is AddressOf it; several domains, one after *)
(* the other or together, may get the same address.  A timestamp is the     *)
(* fact that the unused-timeout has elapsed since; nmap of a configured     *)
(* port succeeds when a domain in `up' has the address.                     *)
(***************************************************************************)
EXTENDS Integers, Sequences, FiniteSets

CONSTANTS
    Vm,             \* identities of QEMU domains
    Address,        \* the addresses of the network table
    AddressOf,      \* the address a domain gets
    Conn,           \* connections of proxies to the pool server
    Ip,             \* attackers' source addresses
    SrcIp,          \* the attacker a connection asks a VM for
    Producer,       \* slots for producer loops that may be alive together
    Configs,        \* the configurations proxies send: [max_vm, share_guests]
    IdWrap,         \* guest_id is reset when it reaches this value (252)
    SshPort,        \* guest_ssh_port is configured
    TelnetPort,     \* guest_telnet_port is configured
    UseNat,         \* the pool is remote and its guests are reached by NAT
    Recycle,        \* recycle_period > 0
    CreateMayRaise, \* libvirt may fail to create a domain
    DestroyMayFail, \* libvirt may fail to destroy a domain
    ListenersMayClose, \* the listeners of a binding may be closed
    MaxConnected,   \* bound: no client vanishes from a guest with more clients
    NoVm, NoConn, NoCall

ASSUME PoolConfigAssumption ==
    /\ Configs # {}
    /\ \A k \in Configs : /\ k.max_vm \in Nat
                          /\ k.share_guests \in BOOLEAN

ASSUME PoolConstantsAssumption ==
    /\ SrcIp \in [Conn -> Ip]
    /\ AddressOf \in [Vm -> Address]
    /\ IdWrap \in Nat \ {0}
    /\ MaxConnected \in Nat
    /\ NoVm \notin Vm
    /\ NoConn \notin Conn
    /\ NoCall \notin Producer
    /\ IsFiniteSet(Conn)
    /\ SshPort \in BOOLEAN /\ TelnetPort \in BOOLEAN
    /\ UseNat \in BOOLEAN /\ Recycle \in BOOLEAN
    /\ CreateMayRaise \in BOOLEAN /\ DestroyMayFail \in BOOLEAN
    /\ ListenersMayClose \in BOOLEAN

VARIABLES
    guests,         \* PoolService.guests, the list of Guest records
    guest_id,       \* the id the next guest gets
    any_vm_up,
    config,         \* max_vm and share_guests, as the last proxy set them
    pc,             \* where each producer loop is
    thread,         \* the producers whose iteration runs in a thread
    to_create,      \* loop counter of __producer_create_guests
    todo,           \* the created_guests still to be probed
    loop_next_call, \* the producer whose delayed call stop_pool would cancel
    recycle,        \* the restart_pool timer is pending
    ready,          \* LibvirtBackendService.ready
    running,        \* QEMU: the domains that exist
    up,             \* QEMU: the domains that answer on their ports
    req,            \* a request_vm between its lookup and its outcome
    lease,          \* what each connection was granted and has not returned
    bindings,       \* NATService.bindings: guest_id -> count, target, open
    idReset,        \* history: guest_id went back to 0
    closed          \* history: the guest ids one of whose listeners closed

poolVars == <<guests, guest_id, any_vm_up, config>>
loopVars == <<pc, thread, to_create, todo, loop_next_call, recycle>>
qemuVars == <<ready, running, up>>
connVars == <<req, lease, bindings>>
histVars == <<idReset, closed>>
vars == <<poolVars, loopVars, qemuVars, connVars, histVars>>

----------------------------------------------------------------------------
(* Guests *)

GuestState == {"created", "available", "using", "used", "unavailable",
               "destroyed"}

Guest == [vm : Vm, id : 0..(IdWrap - 1), state : GuestState \cup {"none"},
          prev_state : GuestState \cup {"none"}, connected : Int,
          client_ips : SUBSET Ip, timed_out : BOOLEAN]

NewGuest(vm) ==
    [vm |-> vm, id |-> guest_id, state |-> "created", prev_state |-> "none",
     connected |-> 0, client_ips |-> {}, timed_out |-> TRUE]

\* The indices of the guests in the given states, get_guest_states.
get_guest_states(states) ==
    {i \in DOMAIN guests : guests[i].state \in states}

existing_pool_size_Usable ==
    Cardinality(get_guest_states({"available", "using", "used"}))

existing_pool_size ==
    Cardinality({i \in DOMAIN guests : guests[i].state # "destroyed"})

\* The list with every guest of a set of VMs put into a state.
WithState(vms, state) ==
    [i \in DOMAIN guests |->
        IF guests[i].vm \in vms THEN [guests[i] EXCEPT !.state = state]
                                ELSE guests[i]]

VmsIn(states) == {guests[i].vm : i \in get_guest_states(states)}

\* A domain answers at the address of vm.
Answers(vm) == \E v \in up : AddressOf[v] = AddressOf[vm]

\* Without an SSH port and without a Telnet answer the guest is down; the
\* Telnet test that is skipped counts as passed.
has_connectivity(vm) ==
    LET has_ssh    == SshPort /\ Answers(vm)
        has_telnet == (TelnetPort /\ ~has_ssh) => Answers(vm)
    IN  has_ssh \/ has_telnet

----------------------------------------------------------------------------
(* Who may run *)

InIteration(p) == pc[p] \notin {"off", "timer", "dead"}

\* The reactor thread is between two events.
ReactorIdle ==
    /\ req.conn = NoConn
    /\ \A p \in Producer : InIteration(p) => p \in thread

\* Producer p may take a step: its thread runs, or the reactor runs it.
Runs(p) == InIteration(p) /\ (p \in thread \/ req.conn = NoConn)

\* guest_lock is held by a producer thread.
LockHeld == \E p \in thread : pc[p] \in {"begin", "health"}

----------------------------------------------------------------------------
(* Producer *)

Goto(p, l) == pc' = [pc EXCEPT ![p] = l]

\* reactor.callLater's delay is over: the reactor starts an iteration.
TimerFires(p) ==
    /\ pc[p] = "timer"
    /\ ReactorIdle
    /\ Goto(p, "begin")
    /\ UNCHANGED <<poolVars, thread, to_create, todo, loop_next_call, recycle,
                   qemuVars, connVars, histVars>>

MayShrink_KeepTwo == existing_pool_size > 2

\* "delete old VMs, but do not let pool size be 0"
MayShrink == existing_pool_size > 1

TimedOutVms_InUse ==
    {guests[i].vm : i \in {j \in get_guest_states({"using", "used"}) :
                                guests[j].timed_out}}

TimedOutVms ==
    {guests[i].vm : i \in {j \in get_guest_states({"used"}) :
                                guests[j].timed_out}}

\* __producer_mark_timed_out, skipped when the pool has one guest or none.
MarkTimedOut(p) ==
    /\ pc[p] = "begin"
    /\ Runs(p)
    /\ IF MayShrink
       THEN /\ guests' = WithState(TimedOutVms, "unavailable")
            /\ Goto(p, "destroy")
       ELSE Goto(p, "health") /\ UNCHANGED guests
    /\ UNCHANGED <<guest_id, any_vm_up, config, thread, to_create, todo,
                   loop_next_call, recycle, qemuVars, connVars, histVars>>

\* __producer_destroy_timed_out.  LibvirtBackendService.destroy_guest logs and
\* swallows every error, and does nothing while the backend is not ready, so
\* the guest becomes destroyed whatever happened to its domain.
DestroyTimedOut(p) ==
    /\ pc[p] = "destroy"
    /\ Runs(p)
    /\ guests' = WithState(VmsIn({"unavailable"}), "destroyed")
    /\ \E failed \in SUBSET VmsIn({"unavailable"}) :
        /\ failed # {} => DestroyMayFail
        /\ running' = IF ready THEN running \ (VmsIn({"unavailable"}) \ failed)
                               ELSE running
    /\ up' = up \cap running'
    /\ Goto(p, "health")
    /\ UNCHANGED <<guest_id, any_vm_up, config, thread, to_create, todo,
                   loop_next_call, recycle, ready, connVars, histVars>>

\* __producer_check_health
CheckHealth(p) ==
    /\ pc[p] = "health"
    /\ Runs(p)
    /\ guests' = WithState({vm \in VmsIn({"available", "using", "used"}) :
                                ~has_connectivity(vm)}, "unavailable")
    /\ Goto(p, "remove")
    /\ UNCHANGED <<guest_id, any_vm_up, config, thread, to_create, todo,
                   loop_next_call, recycle, qemuVars, connVars, histVars>>

\* The list without its i-th element.
Without(s, i) == [j \in 1..(Len(s) - 1) |-> IF j < i THEN s[j] ELSE s[j + 1]]

RemoveDestroyed_Keep(p) == FALSE

\* __producer_remove_destroyed, one list removal a step.
RemoveDestroyed(p) ==
    /\ pc[p] = "remove"
    /\ Runs(p)
    /\ \E i \in get_guest_states({"destroyed"}) :
        /\ \A j \in get_guest_states({"destroyed"}) : i <= j
        /\ guests' = Without(guests, i)
    /\ UNCHANGED <<guest_id, any_vm_up, config, loopVars, qemuVars, connVars,
                   histVars>>

\* The number of guests __producer_create_guests will try to create.
StartCreating(p) ==
    /\ pc[p] = "remove"
    /\ Runs(p)
    /\ get_guest_states({"destroyed"}) = {}
    /\ to_create' = [to_create EXCEPT ![p] =
                        IF config.max_vm > existing_pool_size
                        THEN config.max_vm - existing_pool_size ELSE 0]
    /\ Goto(p, "create")
    /\ UNCHANGED <<poolVars, thread, todo, loop_next_call, recycle, qemuVars,
                   connVars, histVars>>

\* A new domain: its uuid is one that nothing refers to any more, and its
\* address none that a guest in the list has.  is_ip_free asks nothing else, so
\* the address of a removed guest is free again, leased and bound though it be.
Fresh(vm) ==
    /\ \A i \in DOMAIN guests : AddressOf[guests[i].vm] # AddressOf[vm]
    /\ vm \notin running
    /\ \A c \in Conn : lease[c].vm # vm
    /\ req.vm # vm
    /\ \A g \in DOMAIN bindings : bindings[g].vm # vm
    /\ \A p \in Producer : vm \notin todo[p]

NextId == IF guest_id + 1 = IdWrap THEN 0 ELSE guest_id + 1

\* One turn of the loop of __producer_create_guests; create_guest returns None
\* when the backend is not ready.
CreateGuest(p) ==
    /\ pc[p] = "create"
    /\ Runs(p)
    /\ to_create[p] > 0
    /\ to_create' = [to_create EXCEPT ![p] = @ - 1]
    /\ IF ready
       THEN \E vm \in Vm :
            /\ Fresh(vm)
            /\ guests' = Append(guests, NewGuest(vm))
            /\ running' = running \cup {vm}
            /\ guest_id' = NextId
            /\ idReset' = (idReset \/ guest_id + 1 = IdWrap)
       ELSE UNCHANGED <<guests, guest_id, running, idReset>>
    /\ UNCHANGED <<any_vm_up, config, pc, thread, todo, loop_next_call,
                   recycle, ready, up, connVars, closed>>

\* get_mac_ip finds no free address in 500 tries, or guest_handler.create_guest
\* re-raises libvirt's error (and QemuGuestError);
\* nothing between it and the reactor catches it, so the iteration ends there
\* and schedules no further one.
CreateRaises(p) ==
    /\ CreateMayRaise
    /\ pc[p] = "create"
    /\ Runs(p)
    /\ to_create[p] > 0
    /\ ready
    /\ Goto(p, "dead")
    /\ thread' = thread \ {p}
    /\ UNCHANGED <<poolVars, to_create, todo, loop_next_call, recycle,
                   qemuVars, connVars, histVars>>

\* created_guests is read once, before the probes.
StartProbing(p) ==
    /\ pc[p] = "create"
    /\ Runs(p)
    /\ to_create[p] = 0
    /\ todo' = [todo EXCEPT ![p] = VmsIn({"created"})]
    /\ Goto(p, "available")
    /\ UNCHANGED <<poolVars, thread, to_create, loop_next_call, recycle,
                   qemuVars, connVars, histVars>>

\* One probe of __producer_mark_available.
MarkAvailable(p) ==
    /\ pc[p] = "available"
    /\ Runs(p)
    /\ \E vm \in todo[p] :
        /\ todo' = [todo EXCEPT ![p] = @ \ {vm}]
        /\ IF has_connectivity(vm)
           THEN /\ guests' = WithState({vm}, "available")
                /\ any_vm_up' = TRUE
           ELSE UNCHANGED <<guests, any_vm_up>>
    /\ UNCHANGED <<guest_id, config, pc, thread, to_create, loop_next_call,
                   recycle, qemuVars, connVars, histVars>>

ScheduleNext_Threaded(p) ==
    /\ pc[p] = "available"
    /\ Runs(p)
    /\ todo[p] = {}
    /\ Goto(p, "timer")
    /\ loop_next_call' = p
    /\ UNCHANGED <<poolVars, thread, to_create, todo, recycle, qemuVars,
                   connVars, histVars>>

\* The end of producer_loop: the next iteration is the reactor's.
ScheduleNext(p) ==
    /\ pc[p] = "available"
    /\ Runs(p)
    /\ todo[p] = {}
    /\ Goto(p, "timer")
    /\ thread' = thread \ {p}
    /\ loop_next_call' = p
    /\ UNCHANGED <<poolVars, to_create, todo, recycle, qemuVars, connVars,
                   histVars>>

producer_loop(p) ==
    \/ TimerFires(p)
    \/ MarkTimedOut(p)
    \/ DestroyTimedOut(p)
    \/ CheckHealth(p)
    \/ RemoveDestroyed(p)
    \/ StartCreating(p)
    \/ CreateGuest(p)
    \/ CreateRaises(p)
    \/ StartProbing(p)
    \/ MarkAvailable(p)
    \/ ScheduleNext(p)

----------------------------------------------------------------------------
(* Stopping and restarting *)

NoBindings == [g \in {} |-> [count |-> 0, vm |-> NoVm, open |-> FALSE]]

\* DelayedCall.cancel raises when the call was made or cancelled before.
StopRaises ==
    /\ loop_next_call # NoCall
    /\ pc[loop_next_call] # "timer"

\* pc after stop_pool cancelled the next iteration.
Cancelled ==
    [p \in Producer |-> IF p = loop_next_call THEN "off" ELSE pc[p]]

\* stop_pool: the guest list is kept, the domains are gone.
stop_pool ==
    /\ pc' = Cancelled
    /\ running' = {}
    /\ up' = {}
    /\ ready' = FALSE
    /\ bindings' = IF UseNat THEN NoBindings ELSE bindings

\* restart_pool, run by the recycle timer: stop_pool, then start_pool.  When
\* stop_pool raises, start_pool is not reached and no timer is set.
RestartPool ==
    /\ recycle
    /\ ReactorIdle
    /\ \/ /\ StopRaises
          /\ recycle' = FALSE
          /\ UNCHANGED <<poolVars, pc, thread, to_create, todo, loop_next_call,
                         qemuVars, connVars, histVars>>
       \/ /\ ~StopRaises
          /\ \E p \in Producer :
                /\ Cancelled[p] = "off"
                /\ pc' = [Cancelled EXCEPT ![p] = "begin"]
                /\ thread' = thread \cup {p}
          /\ running' = {}
          /\ up' = {}
          /\ ready' = TRUE
          /\ bindings' = IF UseNat THEN NoBindings ELSE bindings
          /\ guests' = <<>>
          /\ guest_id' = 0
          /\ any_vm_up' = FALSE
          /\ idReset' = TRUE
          /\ UNCHANGED <<config, to_create, todo, loop_next_call, recycle, req,
                         lease, closed>>

----------------------------------------------------------------------------
(* Consumers *)

\* The first index of a set of indices, as a set of at most one element.
First(S) == {i \in S : \A j \in S : i <= j}

FewestClients(S) ==
    {i \in S : \A j \in S :
        \/ guests[i].connected < guests[j].connected
        \/ guests[i].connected = guests[j].connected /\ i <= j}

__consumers_get_guest_ip(ip) ==
    First({i \in get_guest_states({"used", "using"}) :
                ip \in guests[i].client_ips})

__consumers_get_available_guest == First(get_guest_states({"available"}))

__consumers_get_any_guest == FewestClients(get_guest_states({"using", "used"}))

\* The guest request_vm finds: none or one index.
Lookup(ip) ==
    CASE __consumers_get_guest_ip(ip) # {} -> __consumers_get_guest_ip(ip)
      [] /\ __consumers_get_guest_ip(ip) = {}
         /\ __consumers_get_available_guest # {} ->
            __consumers_get_available_guest
      [] OTHER -> IF config.share_guests THEN __consumers_get_any_guest ELSE {}

NoReq == [conn |-> NoConn, vm |-> NoVm, id |-> 0]
NoLease == [vm |-> NoVm, id |-> 0]

\* request_vm up to the guest it found, which it looks up under the lock but
\* changes after the lock is released.
RequestVm(c) ==
    /\ ReactorIdle
    /\ ~LockHeld
    /\ lease[c] = NoLease
    /\ \/ /\ Lookup(SrcIp[c]) = {}
          /\ req' = [NoReq EXCEPT !.conn = c]
       \/ \E i \in Lookup(SrcIp[c]) :
            req' = [conn |-> c, vm |-> guests[i].vm, id |-> guests[i].id]
    /\ UNCHANGED <<poolVars, loopVars, qemuVars, lease, bindings, histVars>>

\* request_binding: the listeners of a known guest id are shared; if one of
\* them is closed both are made anew, and so is the count.
request_binding(id, vm) ==
    IF id \in DOMAIN bindings /\ bindings[id].open
    THEN [bindings EXCEPT ![id].count = @ + 1]
    ELSE [g \in DOMAIN bindings \cup {id} |->
            IF g = id THEN [count |-> 1, vm |-> vm, open |-> TRUE]
                      ELSE bindings[g]]

Granted_CountedOnce(g, ip) ==
    [g EXCEPT !.prev_state = g.state, !.state = "using",
              !.connected = IF g.state = "using" THEN @ ELSE @ + 1,
              !.client_ips = @ \cup {ip}]

Granted(g, ip) ==
    [g EXCEPT !.prev_state = g.state, !.state = "using",
              !.connected = @ + 1, !.client_ips = @ \cup {ip}]

\* request_vm marks the guest; dataReceived binds its ports and answers.
ServeVm ==
    /\ req.conn # NoConn
    /\ req.vm # NoVm
    /\ guests' = [i \in DOMAIN guests |->
            IF guests[i].vm = req.vm THEN Granted(guests[i], SrcIp[req.conn])
                                     ELSE guests[i]]
    /\ lease' = [lease EXCEPT ![req.conn] = [vm |-> req.vm, id |-> req.id]]
    /\ bindings' = IF UseNat THEN request_binding(req.id, req.vm) ELSE bindings
    /\ req' = NoReq
    /\ UNCHANGED <<guest_id, any_vm_up, config, loopVars, qemuVars, histVars>>

\* No guest was found: NoAvailableVMs, after stop_pool when some guest has
\* been up before.  If stop_pool raises, that error replaces NoAvailableVMs.
RefuseVm ==
    /\ req.conn # NoConn
    /\ req.vm = NoVm
    /\ req' = NoReq
    /\ \/ /\ ~any_vm_up \/ StopRaises
          /\ UNCHANGED <<pc, qemuVars, bindings>>
       \/ /\ any_vm_up /\ ~StopRaises
          /\ stop_pool
    /\ UNCHANGED <<poolVars, thread, to_create, todo, loop_next_call, recycle,
                   lease, histVars>>

\* free_binding raises KeyError for an unknown id, before the guest is freed.
FreeRaises(id) == UseNat /\ id \notin DOMAIN bindings

free_binding_Always(id) ==
    IF UseNat THEN [g \in DOMAIN bindings \ {id} |-> bindings[g]] ELSE bindings

free_binding(id) ==
    CASE ~UseNat -> bindings
      [] UseNat /\ bindings[id].count > 1 ->
            [bindings EXCEPT ![id].count = @ - 1]
      [] OTHER -> [g \in DOMAIN bindings \ {id} |-> bindings[g]]

\* The guest free_vm and reuse_vm act on: the first with the id.
WithId(id) == First({i \in DOMAIN guests : guests[i].id = id})

Freed(g) ==
    [g EXCEPT !.timed_out = FALSE,
              !.connected = @ - 1,
              !.state = IF g.connected = 1 THEN "used" ELSE g.state]

free_vm(id) ==
    [i \in DOMAIN guests |->
        IF i \in WithId(id) THEN Freed(guests[i]) ELSE guests[i]]

\* The guest goes back to the state it had before its last request.
Reused(g) ==
    [g EXCEPT !.connected = @ - 1,
              !.state = IF g.connected = 1 THEN g.prev_state ELSE g.state,
              !.prev_state = IF g.connected = 1 THEN "none" ELSE g.prev_state]

reuse_vm(id) ==
    [i \in DOMAIN guests |->
        IF i \in WithId(id) THEN Reused(guests[i]) ELSE guests[i]]

\* dataReceived on "f" (the VM was used) and "u" (it was not): the list of
\* guests becomes `returned', unless the NAT table raised.
Return(c, returned) ==
    /\ ReactorIdle
    /\ ~LockHeld
    /\ lease[c] # NoLease
    /\ IF FreeRaises(lease[c].id)
       THEN UNCHANGED <<guests, bindings>>
       ELSE /\ guests' = returned
            /\ bindings' = free_binding(lease[c].id)
    /\ lease' = [lease EXCEPT ![c] = NoLease]
    /\ UNCHANGED <<guest_id, any_vm_up, config, loopVars, qemuVars, req,
                   histVars>>

FreeVm(c) == Return(c, free_vm(lease[c].id))
ReuseVm(c) == Return(c, reuse_vm(lease[c].id))

\* The proxy's connection ends and no message returned the VM; PoolServer has
\* no connectionLost, so the pool does not notice.
Vanish(c) ==
    /\ ReactorIdle
    /\ lease[c] # NoLease
    /\ \A i \in DOMAIN guests : guests[i].connected <= MaxConnected
    /\ lease' = [lease EXCEPT ![c] = NoLease]
    /\ UNCHANGED <<poolVars, loopVars, qemuVars, req, bindings, histVars>>

\* dataReceived on "i".
SetConfigs(k) ==
    /\ ReactorIdle
    /\ config # k
    /\ config' = k
    /\ UNCHANGED <<guests, guest_id, any_vm_up, loopVars, qemuVars, connVars,
                   histVars>>

----------------------------------------------------------------------------
(* Environment.  A reactor-run iteration reads each guest's timeout and     *)
(* connectivity once, so time and hangs need not interleave with it.        *)

\* The unused-timeout elapses for a guest.
TimePasses ==
    /\ ReactorIdle
    /\ \E i \in DOMAIN guests :
        /\ ~guests[i].timed_out
        /\ guests' = [guests EXCEPT ![i].timed_out = TRUE]
    /\ UNCHANGED <<guest_id, any_vm_up, config, loopVars, qemuVars, connVars,
                   histVars>>

\* A domain boots, and may stop answering at any time.
Boot ==
    /\ \E vm \in running \ up : up' = up \cup {vm}
    /\ UNCHANGED <<poolVars, loopVars, ready, running, connVars, histVars>>

Hang ==
    /\ ReactorIdle
    /\ \E vm \in up : up' = up \ {vm}
    /\ UNCHANGED <<poolVars, loopVars, ready, running, connVars, histVars>>

\* "edge case: one of the port listeners were closed": _realPortNumber is None.
ListenerCloses ==
    /\ ListenersMayClose
    /\ ReactorIdle
    /\ \E g \in DOMAIN bindings :
        /\ bindings[g].open
        /\ bindings' = [bindings EXCEPT ![g].open = FALSE]
        /\ closed' = closed \cup {g}
    /\ UNCHANGED <<poolVars, loopVars, qemuVars, req, lease, idReset>>

----------------------------------------------------------------------------

\* startFactory has built the service and called start_pool.
Init ==
    /\ guests = <<>>
    /\ guest_id = 0
    /\ any_vm_up = FALSE
    /\ config \in Configs
    /\ \E p \in Producer :
        /\ pc = [q \in Producer |-> IF q = p THEN "begin" ELSE "off"]
        /\ thread = {p}
    /\ to_create = [p \in Producer |-> 0]
    /\ todo = [p \in Producer |-> {}]
    /\ loop_next_call = NoCall
    /\ recycle = Recycle
    /\ ready = TRUE
    /\ running = {}
    /\ up = {}
    /\ req = NoReq
    /\ lease = [c \in Conn |-> NoLease]
    /\ bindings = NoBindings
    /\ idReset = FALSE
    /\ closed = {}

Next ==
    \/ \E p \in Producer : producer_loop(p)
    \/ RestartPool
    \/ \E c \in Conn : RequestVm(c) \/ FreeVm(c) \/ ReuseVm(c) \/ Vanish(c)
    \/ ServeVm
    \/ RefuseVm
    \/ \E k \in Configs : SetConfigs(k)
    \/ TimePasses
    \/ Boot
    \/ Hang
    \/ ListenerCloses

Spec == Init /\ [][Next]_vars

\* Threads and the reactor keep running and a request that was looked up is
\* finished.  The reactor makes the delayed calls that are due between any two
\* rounds of events, so requests cannot postpone them for ever: strong fairness.
\* What clients and domains do is left to choice.
Fairness ==
    /\ \A p \in Producer : /\ WF_vars(producer_loop(p))
                           /\ SF_vars(TimerFires(p))
    /\ WF_vars(ServeVm \/ RefuseVm)
    /\ SF_vars(RestartPool)

FairSpec == Spec /\ Fairness

----------------------------------------------------------------------------
(* Properties *)

ProducerPc == {"off", "timer", "begin", "destroy", "health", "remove",
               "create", "available", "dead"}

ReqType == [conn : Conn \cup {NoConn}, vm : Vm \cup {NoVm},
            id : 0..(IdWrap - 1)]

LeaseType == [vm : Vm \cup {NoVm}, id : 0..(IdWrap - 1)]

BindingType == [count : Int, vm : Vm \cup {NoVm}, open : BOOLEAN]

\* Every variable of PoolService, NATService and the environment has its type.
TypeOK ==
    /\ guests \in Seq(Guest)
    /\ guest_id \in 0..(IdWrap - 1)
    /\ any_vm_up \in BOOLEAN
    /\ config \in Configs
    /\ pc \in [Producer -> ProducerPc]
    /\ thread \subseteq Producer
    /\ to_create \in [Producer -> Nat]
    /\ todo \in [Producer -> SUBSET Vm]
    /\ loop_next_call \in Producer \cup {NoCall}
    /\ recycle \in BOOLEAN
    /\ ready \in BOOLEAN
    /\ running \subseteq Vm
    /\ up \subseteq running
    /\ req \in ReqType
    /\ lease \in [Conn -> LeaseType]
    /\ DOMAIN bindings \subseteq 0..(IdWrap - 1)
    /\ bindings \in [DOMAIN bindings -> BindingType]
    /\ idReset \in BOOLEAN
    /\ closed \subseteq 0..(IdWrap - 1)

Holders(vm) == {c \in Conn : lease[c].vm = vm}

\* As long as no guest id was issued twice, request_vm, free_vm and reuse_vm
\* keep `connected' from dropping below the number of connections that hold
\* the VM: a VM somebody uses is never counted as unused.
LeasesCounted ==
    ~idReset => \A i \in DOMAIN guests :
        Cardinality(Holders(guests[i].vm)) <= guests[i].connected

\* The comment of __producer_mark_timed_out, "only mark VMs not in use": the
\* producer condemns a VM that a connection holds only if the VM does not
\* answer.  Ids issued twice break it: a late free then hits another guest.
OnlyIdleOrDeadMarked ==
    [][\A i \in DOMAIN guests \cap DOMAIN guests' :
        (/\ guests[i].vm = guests'[i].vm
         /\ guests[i].state # "unavailable"
         /\ guests'[i].state = "unavailable")
        => \/ Holders(guests[i].vm) = {}
           \/ ~has_connectivity(guests[i].vm)
           \/ idReset]_vars

\* request_vm looks a guest up under the lock and marks it later, without the
\* lock: the guest is still one that can be served when it is marked.
GrantsUsable ==
    [][lease' # lease /\ req.conn # NoConn =>
        \E i \in DOMAIN guests :
            /\ guests[i].vm = req.vm
            /\ guests[i].state \in {"available", "using", "used"}]_vars

\* No other guest in the list has the address of vm.
AddressKept(vm) ==
    \A i, j \in DOMAIN guests :
        guests[i].vm = vm /\ AddressOf[guests[j].vm] = AddressOf[vm] => i = j

\* The listeners a connection was given by request_binding stay bound while it
\* holds its VM and forward to the address of that VM, which is no other
\* guest's as long as the pool lists the VM.  Once the VM is removed, its
\* address may be a new guest's and the old listeners lead there.  When a
\* listener was closed, request_binding forgets how many held the old ones.
NatReachesLease ==
    (UseNat /\ ~idReset /\ ready) => \A c \in Conn :
        lease[c] # NoLease /\ lease[c].id \notin closed =>
            /\ lease[c].id \in DOMAIN bindings
            /\ bindings[lease[c].id].open
            /\ bindings[lease[c].id].vm = lease[c].vm
            /\ AddressKept(lease[c].vm)

\* Only the producer grows the pool, and never past the largest limit a proxy
\* configured: the module docstring's "creates VMs up to the configured limit".
PoolWithinLimit ==
    \E k \in Configs : Len(guests) <= k.max_vm

\* Every producer loop has ended, one of them because create_guest raised.
Starved ==
    /\ \A p \in Producer : pc[p] \in {"off", "dead"}
    /\ \E p \in Producer : pc[p] = "dead"

\* __producer_check_health marks a guest that does not answer and logs
\* "Destroying": a guest marked for destruction is destroyed and leaves the
\* list, or is freed by its last client, or the whole pool stops, or the
\* producer ends.  Only a pool of one guest keeps it for ever: "do not let
\* pool size be 0" is asked of all the guests, the condemned one included.
CondemnedLeave ==
    \A vm \in Vm : vm \in VmsIn({"unavailable"})
        ~> \/ vm \notin VmsIn({"unavailable"})
           \/ ~ready
           \/ Starved
           \/ config.max_vm < 2

\* The pool docs, "keeps a set of VMs running at all times": the producer
\* refills the pool to the configured size again and again while it is up,
\* until an error of create_guest ends it.
Refilled ==
    []<>(existing_pool_size >= config.max_vm \/ ~ready \/ Starved)

----------------------------------------------------------------------------
(* What the comments and docs of the code say, and the code does not do *)

\* BACKEND_POOL.rst on share_guests: if no pristine VM is left and the policy
\* is not to share, "we throw an exception".  Two attackers never hold the same
\* VM at once.
UnsharedExclusive ==
    ~config.share_guests => \A c, d \in Conn :
        lease[c] # NoLease /\ lease[c] = lease[d] => SrcIp[c] = SrcIp[d]

=============================================================================
