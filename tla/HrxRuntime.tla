----------------------------- MODULE HrxRuntime -----------------------------
(***************************************************************************)
(* Accelerator bring-up and teardown of libhrx                             *)
(* (crates/hrx-libhrx/src/runtime.rs and device.rs).                       *)
(*                                                                         *)
(* The CPU and the GPU accelerator are initialized and shut down           *)
(* independently and share one VM instance and one proactor pool, counted  *)
(* by init_count.  Every entry point holds the mutex G for its whole       *)
(* duration.  An initialization is modelled one HAL call at a time: each   *)
(* call may fail, and its failure branch releases exactly what the code    *)
(* releases there.  The ledger held counts, for every HAL object, the      *)
(* references libhrx owns, so a leak or a double release on any branch is  *)
(* visible.                                                                *)
(*                                                                         *)
(* Clients hold device pointers borrowed from hrx_*_device_get, references *)
(* on the Arc behind a device (their own, or those of child objects) and   *)
(* snapshots of the shared state that module.rs and pool.rs read under G   *)
(* and use after unlocking it.                                             *)
(***************************************************************************)
EXTENDS Integers, Sequences, FiniteSets

CONSTANTS
    Clients,          \* holders of device pointers, references and snapshots
    Devices,          \* addresses a hrx_device_s can have
    Objects,          \* addresses of VM instances and of proactor pools
    InfoLists,        \* what the GPU driver may report: TRUE is a physical device
    HRX_MAX_DEVICES,
    NoObject          \* the NULL pointer

ASSUME RuntimeConstants ==
    /\ HRX_MAX_DEVICES \in Nat \ {0}
    /\ InfoLists \subseteq Seq(BOOLEAN)
    /\ NoObject \notin Devices
    /\ NoObject \notin Objects
    /\ IsFiniteSet(Clients)

Accelerators == {"cpu", "gpu"}

VARIABLES
    shared,           \* G.shared
    accel,            \* G.cpu and G.gpu
    stage,            \* what the holder of G is about to do; "unlocked" if there is none
    work,             \* the locals of the initialization in progress
    POOL_FOR_DEVICE,  \* the static of that name
    dev,              \* the hrx_device_s objects
    strong,           \* strong count of the Arc behind each of them
    held,             \* references libhrx owns on each HAL object
    borrowed,         \* device pointer a client got from hrx_*_device_get
    owned,            \* devices a client, or a child object of it, has retained
    snap              \* a client's snapshot of a shared object

vars == <<shared, accel, stage, work, POOL_FOR_DEVICE, dev, strong, held, borrowed, owned, snap>>

clientVars == <<borrowed, owned, snap>>

\* HAL objects, by kind and by what they belong to.
Handles ==
    ({"executor", "loaders", "heap", "driver", "infos"} \X Accelerators)
    \cup ({"hal_device", "tracker", "group", "allocator"} \X Devices)
    \cup ({"instance", "pool"} \X Objects)

\* The ledger after taking the references gets and releasing the references puts.
Ledger(gets, puts) ==
    [h \in Handles |-> held[h] + (IF h \in gets THEN 1 ELSE 0) - (IF h \in puts THEN 1 ELSE 0)]

NoWork == [acc |-> "cpu", infos |-> <<>>, index |-> 1, made |-> <<>>, building |-> NoObject]

NoSnap == [obj |-> NoObject, kind |-> "instance", up |-> {}]

NoAccel == [initialized |-> FALSE, devices |-> <<>>, device_count |-> 0, infos |-> <<>>]

NoDev == [acc |-> "cpu", ordinal |-> 0, pool |-> NoObject, info |-> 0]

Init ==
    /\ shared = [initialized |-> FALSE, init_count |-> 0,
                 vm_instance |-> NoObject, proactor_pool |-> NoObject]
    /\ accel = [a \in Accelerators |-> NoAccel]
    /\ stage = "unlocked"
    /\ work = NoWork
    /\ POOL_FOR_DEVICE = NoObject
    /\ dev = [d \in Devices |-> NoDev]
    /\ strong = [d \in Devices |-> 0]
    /\ held = [h \in Handles |-> 0]
    /\ borrowed = [c \in Clients |-> NoObject]
    /\ owned = [c \in Clients |-> {}]
    /\ snap = [c \in Clients |-> NoSnap]

ElementsOf(seq) == {seq[i] : i \in DOMAIN seq}

(***************************************************************************)
(* Devices: the last reference drops the allocator, the group and the HAL  *)
(* device.                                                                 *)
(***************************************************************************)
DeviceHandles(D) == {"allocator", "group", "hal_device"} \X D

Dropped(D) == {d \in D : strong[d] = 1}

\* hrx_device_release of every device in D.
Released(D) == [d \in Devices |-> IF d \in D THEN strong[d] - 1 ELSE strong[d]]

\* The memory of the devices dropped with them is gone.
Freed(D) == [d \in Devices |-> IF d \in Dropped(D) THEN NoDev ELSE dev[d]]

\* Variant: the strong count is not incremented.
RetainForgotten(c) ==
    \E d \in owned[c] \cup {borrowed[c]} :
        /\ d \in Devices
        /\ d \notin owned[c]
        /\ owned' = [owned EXCEPT ![c] = @ \cup {d}]
        /\ UNCHANGED <<shared, accel, stage, work, POOL_FOR_DEVICE, dev, strong, held,
                       borrowed, snap>>

hrx_device_retain(c) ==
    \E d \in owned[c] \cup {borrowed[c]} :
        /\ d \in Devices
        /\ \E e \in Clients :
             /\ d \notin owned[e]
             /\ owned' = [owned EXCEPT ![e] = @ \cup {d}]
        /\ strong' = [strong EXCEPT ![d] = @ + 1]
        /\ UNCHANGED <<shared, accel, stage, work, POOL_FOR_DEVICE, dev, held, borrowed, snap>>

\* Variant: every release, not only the last one, releases the HAL device.
ReleaseEveryTime(c) ==
    \E d \in owned[c] :
        /\ owned' = [owned EXCEPT ![c] = @ \ {d}]
        /\ strong' = Released({d})
        /\ dev' = Freed({d})
        /\ held' = Ledger({}, {<<"hal_device", d>>})
        /\ UNCHANGED <<shared, accel, stage, work, POOL_FOR_DEVICE, borrowed, snap>>

hrx_device_release(c) ==
    \E d \in owned[c] :
        /\ owned' = [owned EXCEPT ![c] = @ \ {d}]
        /\ strong' = Released({d})
        /\ dev' = Freed({d})
        /\ held' = Ledger({}, DeviceHandles(Dropped({d})))
        /\ UNCHANGED <<shared, accel, stage, work, POOL_FOR_DEVICE, borrowed, snap>>

(***************************************************************************)
(* The shared state.                                                       *)
(***************************************************************************)
\* A shared object nobody refers to any more can be allocated at this address.
Unreferenced(o) ==
    /\ held[<<"instance", o>>] = 0
    /\ held[<<"pool", o>>] = 0
    /\ \A c \in Clients : snap[c].obj # o
    /\ \A d \in Devices : dev[d].pool # o

\* release_shared_state: the record it leaves and the objects it releases.
LastInit == shared.initialized /\ shared.init_count <= 1

SharedReleased ==
    IF ~shared.initialized THEN shared
    ELSE IF LastInit
         THEN [initialized |-> FALSE, init_count |-> shared.init_count - 1,
               vm_instance |-> NoObject, proactor_pool |-> NoObject]
         ELSE [shared EXCEPT !.init_count = @ - 1]

SharedPuts ==
    IF LastInit THEN {h \in Handles : \/ h = <<"pool", shared.proactor_pool>>
                                      \/ h = <<"instance", shared.vm_instance>>}
                ELSE {}

FirstStage(a) == IF a = "cpu" THEN "store_pool" ELSE "register"

\* Variant: a second user is not counted.
EnsureWithoutCounting(a) ==
    /\ work' = [NoWork EXCEPT !.acc = a]
    /\ stage' = IF shared.initialized THEN FirstStage(a) ELSE "instance"
    /\ UNCHANGED shared

\* ensure_shared_state, first part: count one more user, or start creating.
ensure_shared_state(a) ==
    /\ work' = [NoWork EXCEPT !.acc = a]
    /\ IF shared.initialized
       THEN /\ shared' = [shared EXCEPT !.init_count = @ + 1]
            /\ stage' = FirstStage(a)
       ELSE UNCHANGED shared /\ stage' = "instance"

hrx_cpu_initialize ==
    /\ stage = "unlocked"
    /\ ~accel["cpu"].initialized
    /\ ensure_shared_state("cpu")
    /\ UNCHANGED <<accel, POOL_FOR_DEVICE, dev, strong, held, clientVars>>

hrx_gpu_initialize ==
    /\ stage = "unlocked"
    /\ ~accel["gpu"].initialized
    /\ ensure_shared_state("gpu")
    /\ UNCHANGED <<accel, POOL_FOR_DEVICE, dev, strong, held, clientVars>>

\* A HAL call succeeds: gets are its results, puts what the code then releases.
Succeeds(next, gets, puts) ==
    /\ stage' = next
    /\ held' = Ledger(gets, puts)

\* A HAL call fails while the shared state is being created: the code releases
\* puts, clears the shared pointers and returns.
SharedFails(puts) ==
    /\ stage' = "unlocked"
    /\ work' = NoWork
    /\ held' = Ledger({}, puts)
    /\ shared' = [shared EXCEPT !.vm_instance = NoObject]
    /\ UNCHANGED <<accel, POOL_FOR_DEVICE, dev, strong, clientVars>>

\* iree_vm_instance_create; work.building keeps the local inst.
CreateInstance ==
    /\ stage = "instance"
    /\ \/ SharedFails({})
       \/ \E o \in {o \in Objects : Unreferenced(o)} :
            /\ Succeeds("types", {<<"instance", o>>}, {})
            /\ work' = [work EXCEPT !.building = o]
            /\ UNCHANGED <<shared, accel, POOL_FOR_DEVICE, dev, strong, clientVars>>

RegisterTypes ==
    /\ stage = "types"
    /\ \/ SharedFails({<<"instance", work.building>>})
       \/ /\ Succeeds("pool", {}, {})
          /\ shared' = [shared EXCEPT !.vm_instance = work.building]
          /\ UNCHANGED <<accel, work, POOL_FOR_DEVICE, dev, strong, clientVars>>

CreatePool ==
    /\ stage = "pool"
    /\ \/ SharedFails({<<"instance", work.building>>})
       \/ /\ Succeeds(FirstStage(work.acc), {<<"pool", work.building>>}, {})
          /\ shared' = [initialized |-> TRUE, init_count |-> 1,
                        vm_instance |-> work.building, proactor_pool |-> work.building]
          /\ work' = [work EXCEPT !.building = NoObject]
          /\ UNCHANGED <<accel, POOL_FOR_DEVICE, dev, strong, clientVars>>

(***************************************************************************)
(* Initialization proper.  Fails is every failure branch of it: release    *)
(* the devices made so far and the handles in puts, then the shared state. *)
(***************************************************************************)
Fails(puts) ==
    LET made == ElementsOf(work.made) IN
    /\ stage' = "unlocked"
    /\ work' = NoWork
    /\ strong' = Released(made)
    /\ dev' = Freed(made)
    /\ held' = Ledger({}, puts \cup DeviceHandles(Dropped(made)) \cup SharedPuts)
    /\ shared' = SharedReleased
    /\ UNCHANGED <<accel, POOL_FOR_DEVICE, clientVars>>

Quiet == UNCHANGED <<shared, accel, POOL_FOR_DEVICE, dev, strong, clientVars>>

Executor == <<"executor", "cpu">>
Loaders  == <<"loaders", "cpu">>
Heap     == <<"heap", "cpu">>
Driver   == <<"driver", work.acc>>

\* Variant: the static is filled only the first time.
StorePoolOnce ==
    /\ stage = "store_pool"
    /\ POOL_FOR_DEVICE' = IF POOL_FOR_DEVICE = NoObject THEN shared.proactor_pool
                                                       ELSE POOL_FOR_DEVICE
    /\ Succeeds("executor", {}, {})
    /\ UNCHANGED <<shared, accel, work, dev, strong, clientVars>>

\* hrx_cpu_initialize passes the pool to create_local_task_device in a static.
StorePool ==
    /\ stage = "store_pool"
    /\ POOL_FOR_DEVICE' = shared.proactor_pool
    /\ Succeeds("executor", {}, {})
    /\ UNCHANGED <<shared, accel, work, dev, strong, clientVars>>

\* create_local_task_device, one HAL call at a time.
CreateExecutor ==
    /\ stage = "executor"
    /\ \/ Fails({})
       \/ Succeeds("loaders", {Executor}, {}) /\ Quiet /\ UNCHANGED work

\* Variant: a failed call's result is released as well.
LoadersOverReleased ==
    /\ stage = "loaders"
    /\ \/ Fails({Executor, Loaders})
       \/ Succeeds("heap", {Loaders}, {}) /\ Quiet /\ UNCHANGED work

CreateLoaders ==
    /\ stage = "loaders"
    /\ \/ Fails({Executor})
       \/ Succeeds("heap", {Loaders}, {}) /\ Quiet /\ UNCHANGED work

CreateHeap ==
    /\ stage = "heap"
    /\ \/ Fails({Loaders, Executor})
       \/ Succeeds("task_driver", {Heap}, {}) /\ Quiet /\ UNCHANGED work

CreateTaskDriver ==
    /\ stage = "task_driver"
    /\ \/ Fails({Executor, Loaders, Heap})
       \/ Succeeds("device", {Driver}, {Executor, Loaders, Heap}) /\ Quiet /\ UNCHANGED work

\* The GPU driver: its registration (ALREADY_EXISTS counts as success), its
\* creation and the devices it reports.
RegisterDriver ==
    /\ stage = "register"
    /\ \/ Fails({})
       \/ Succeeds("create", {}, {}) /\ Quiet /\ UNCHANGED work

CreateDriver ==
    /\ stage = "create"
    /\ \/ Fails({})
       \/ Succeeds("query", {Driver}, {}) /\ Quiet /\ UNCHANGED work

Infos == <<"infos", "gpu">>

QueryDevices ==
    /\ stage = "query"
    /\ \/ Fails({Driver})
       \/ \E infos \in InfoLists :
            /\ Succeeds("count", {Infos}, {})
            /\ work' = [work EXCEPT !.infos = infos]
            /\ Quiet

\* Pseudo-devices (empty path) are not exposed.
Physical(infos) == Cardinality({i \in DOMAIN infos : infos[i]})

DeviceCount(infos) ==
    IF Physical(infos) < HRX_MAX_DEVICES THEN Physical(infos) ELSE HRX_MAX_DEVICES

CountDevices ==
    /\ stage = "count"
    /\ IF Physical(work.infos) = 0
       THEN Fails({Infos, Driver})
       ELSE Succeeds("scan", {}, {}) /\ Quiet /\ UNCHANGED work

\* Variant: one device too many.
OneDeviceMore ==
    work.index <= Len(work.infos) /\ Len(work.made) <= DeviceCount(work.infos)

\* The head of the device loop of hrx_gpu_initialize.
MoreDevices ==
    work.index <= Len(work.infos) /\ Len(work.made) < DeviceCount(work.infos)

\* Variant: the loop continues without advancing.
SkipForever ==
    /\ stage = "scan"
    /\ MoreDevices
    /\ ~work.infos[work.index]
    /\ Succeeds("scan", {}, {})
    /\ Quiet
    /\ UNCHANGED work

SkipPseudo ==
    /\ stage = "scan"
    /\ MoreDevices
    /\ ~work.infos[work.index]
    /\ work' = [work EXCEPT !.index = @ + 1]
    /\ Succeeds("scan", {}, {})
    /\ Quiet

TakePhysical ==
    /\ stage = "scan"
    /\ MoreDevices
    /\ work.infos[work.index]
    /\ Succeeds("device", {}, {})
    /\ Quiet
    /\ UNCHANGED work

\* What is released besides the devices made when creating a device fails.
Undo == IF work.acc = "cpu" THEN {Driver} ELSE {Infos, Driver}

Free(d) ==
    /\ strong[d] = 0
    /\ held[<<"hal_device", d>>] = 0
    /\ \A c \in Clients : borrowed[c] # d

CreateDevice ==
    /\ stage = "device"
    /\ \/ Fails(Undo)
       \/ \E d \in {d \in Devices : Free(d)} :
            /\ Succeeds("tracker", {<<"hal_device", d>>}, {})
            /\ work' = [work EXCEPT !.building = d]
            /\ Quiet

\* create_single_device_group: the tracker is released whatever the result.
CreateTracker ==
    /\ stage = "tracker"
    /\ \/ Fails(Undo \cup {<<"hal_device", work.building>>})
       \/ Succeeds("group", {<<"tracker", work.building>>}, {}) /\ Quiet /\ UNCHANGED work

\* Variant: the tracker is released only on success.
GroupLeaksTracker ==
    /\ stage = "group"
    /\ \/ Fails(Undo \cup {<<"hal_device", work.building>>})
       \/ /\ Succeeds("wrap", {<<"group", work.building>>}, {<<"tracker", work.building>>})
          /\ Quiet
          /\ UNCHANGED work

CreateGroup ==
    /\ stage = "group"
    /\ \/ Fails(Undo \cup {<<"tracker", work.building>>, <<"hal_device", work.building>>})
       \/ /\ Succeeds("wrap", {<<"group", work.building>>}, {<<"tracker", work.building>>})
          /\ Quiet
          /\ UNCHANGED work

PoolOfDevice == IF work.acc = "cpu" THEN POOL_FOR_DEVICE ELSE shared.proactor_pool

\* The hrx_device_s is built around the HAL objects and its allocator retained.
WrapDevice ==
    LET d == work.building IN
    /\ stage = "wrap"
    /\ Succeeds(IF work.acc = "cpu" THEN "publish" ELSE "scan", {<<"allocator", d>>}, {})
    /\ strong' = [strong EXCEPT ![d] = 1]
    /\ dev' = [dev EXCEPT ![d] = [acc |-> work.acc, ordinal |-> Len(work.made),
                                  pool |-> PoolOfDevice, info |-> work.index]]
    /\ work' = [work EXCEPT !.made = Append(@, d), !.index = @ + 1, !.building = NoObject]
    /\ UNCHANGED <<shared, accel, POOL_FOR_DEVICE, clientVars>>

Publish ==
    /\ \/ stage = "publish"
       \/ stage = "scan" /\ ~MoreDevices
    /\ Succeeds("unlocked", {}, IF work.acc = "gpu" THEN {Infos} ELSE {})
    /\ accel' = [accel EXCEPT ![work.acc] =
                    [initialized |-> TRUE, devices |-> work.made,
                     device_count |-> Len(work.made), infos |-> work.infos]]
    /\ work' = NoWork
    /\ UNCHANGED <<shared, POOL_FOR_DEVICE, dev, strong, clientVars>>

InitStep ==
    \/ CreateInstance \/ RegisterTypes \/ CreatePool
    \/ StorePool \/ CreateExecutor \/ CreateLoaders \/ CreateHeap \/ CreateTaskDriver
    \/ RegisterDriver \/ CreateDriver \/ QueryDevices \/ CountDevices
    \/ SkipPseudo \/ TakePhysical \/ CreateDevice \/ CreateTracker \/ CreateGroup
    \/ WrapDevice \/ Publish

(***************************************************************************)
(* Shutdown and the queries, each in one critical section of G.  A client  *)
(* must not use a borrowed pointer after the shutdown of its accelerator.  *)
(***************************************************************************)
Shutdown(a) ==
    LET gone == ElementsOf(accel[a].devices) IN
    /\ stage = "unlocked"
    /\ accel[a].initialized
    /\ strong' = Released(gone)
    /\ dev' = Freed(gone)
    /\ held' = Ledger({}, DeviceHandles(Dropped(gone)) \cup {<<"driver", a>>} \cup SharedPuts)
    /\ accel' = [accel EXCEPT ![a] = NoAccel]
    /\ shared' = SharedReleased
    /\ borrowed' = [c \in Clients |-> IF borrowed[c] \in gone THEN NoObject ELSE borrowed[c]]
    /\ snap' = [c \in Clients |-> [snap[c] EXCEPT !.up = @ \ {a}]]
    /\ UNCHANGED <<stage, work, POOL_FOR_DEVICE, owned>>

hrx_cpu_shutdown == Shutdown("cpu")

hrx_gpu_shutdown == Shutdown("gpu")

DeviceGet(c, a) ==
    /\ stage = "unlocked"
    /\ accel[a].initialized
    /\ \E index \in 0 .. accel[a].device_count - 1 :
         borrowed' = [borrowed EXCEPT ![c] = accel[a].devices[index + 1]]
    /\ UNCHANGED <<shared, accel, stage, work, POOL_FOR_DEVICE, dev, strong, held, owned, snap>>

hrx_cpu_device_get(c) == DeviceGet(c, "cpu")

hrx_gpu_device_get(c) == DeviceGet(c, "gpu")

Up == {a \in Accelerators : accel[a].initialized}

Snapshot(c, kind, obj) ==
    /\ stage = "unlocked"
    /\ snap[c] = NoSnap
    /\ obj # NoObject
    /\ snap' = [snap EXCEPT ![c] = [obj |-> obj, kind |-> kind, up |-> Up]]
    /\ UNCHANGED <<shared, accel, stage, work, POOL_FOR_DEVICE, dev, strong, held,
                   borrowed, owned>>

\* hrx_module_load_vmfb reads the instance, hrx_exact_pool_create the pool; a NULL
\* makes them return an error.
shared_vm_instance(c) ==
    shared.initialized /\ Snapshot(c, "instance", shared.vm_instance)

shared_proactor_and_host_allocator(c) == Snapshot(c, "pool", shared.proactor_pool)

\* The call that took the snapshot is over.
SnapshotDone(c) ==
    /\ snap[c] # NoSnap
    /\ snap' = [snap EXCEPT ![c] = NoSnap]
    /\ UNCHANGED <<shared, accel, stage, work, POOL_FOR_DEVICE, dev, strong, held,
                   borrowed, owned>>

ClientStep(c) ==
    \/ hrx_device_retain(c) \/ hrx_device_release(c)
    \/ hrx_cpu_device_get(c) \/ hrx_gpu_device_get(c)
    \/ shared_vm_instance(c) \/ shared_proactor_and_host_allocator(c) \/ SnapshotDone(c)

Next ==
    \/ hrx_cpu_initialize \/ hrx_gpu_initialize \/ InitStep
    \/ hrx_cpu_shutdown \/ hrx_gpu_shutdown
    \/ \E c \in Clients : ClientStep(c)

Spec == Init /\ [][Next]_vars

\* The thread that holds G keeps running: no HAL call of an initialization blocks.
FairSpec == Spec /\ WF_vars(InitStep)

(***************************************************************************)
(* Properties.                                                             *)
(***************************************************************************)
SharedStages == {"instance", "types", "pool"}

CpuStages == {"store_pool", "executor", "loaders", "heap", "task_driver", "publish"}

GpuStages == {"register", "create", "query", "count", "scan"}

DeviceStages == {"device", "tracker", "group", "wrap"}

Stages == {"unlocked"} \cup SharedStages \cup CpuStages \cup GpuStages \cup DeviceStages

Pointer(S) == S \cup {NoObject}

\* The fields of Globals and of hrx_device_s keep their types, and no reference
\* count and no init_count is decremented below zero.
TypeOK ==
    /\ shared \in [initialized : BOOLEAN, init_count : Nat,
                   vm_instance : Pointer(Objects), proactor_pool : Pointer(Objects)]
    /\ accel \in [Accelerators -> [initialized : BOOLEAN, devices : Seq(Devices),
                                   device_count : Nat, infos : Seq(BOOLEAN)]]
    /\ stage \in Stages
    /\ work \in [acc : Accelerators, infos : Seq(BOOLEAN), index : Nat \ {0},
                 made : Seq(Devices), building : Pointer(Devices \cup Objects)]
    /\ POOL_FOR_DEVICE \in Pointer(Objects)
    /\ dev \in [Devices -> [acc : Accelerators, ordinal : Nat,
                            pool : Pointer(Objects), info : Nat]]
    /\ strong \in [Devices -> Nat]
    /\ held \in [Handles -> Nat]
    /\ borrowed \in [Clients -> Pointer(Devices)]
    /\ owned \in [Clients -> SUBSET Devices]
    /\ snap \in [Clients -> [obj : Pointer(Objects), kind : {"instance", "pool"},
                             up : SUBSET Accelerators]]

One(b) == IF b THEN 1 ELSE 0

\* The initialization in progress has counted itself in init_count.
Counted == stage \notin {"unlocked"} \cup SharedStages

\* init_count is the number of accelerators that are up or past
\* ensure_shared_state, so that a failed initialization of one accelerator never
\* takes the shared state away from the other, and the last shutdown releases it.
InitCountExact ==
    /\ shared.init_count = One(accel["cpu"].initialized) + One(accel["gpu"].initialized)
                           + One(Counted)
    /\ shared.initialized <=> shared.init_count > 0

Live == {d \in Devices : strong[d] > 0}

\* The HAL objects libhrx can still reach when nobody holds G.
Reachable ==
    ({"driver"} \X Up) \cup DeviceHandles(Live)
    \cup (IF shared.initialized THEN {<<"instance", shared.vm_instance>>,
                                      <<"pool", shared.proactor_pool>>} ELSE {})

\* No failure branch of hrx_cpu_initialize, hrx_gpu_initialize or their helpers leaks
\* a HAL object or releases one twice, and neither does a shutdown or the last
\* hrx_device_release: between calls libhrx owns one reference on each HAL object
\* it can reach and none on any other.
NothingLeaked ==
    stage = "unlocked" => \A h \in Handles : held[h] = One(h \in Reachable)

InTable(d) == \E a \in Accelerators : d \in ElementsOf(accel[a].devices)

\* The Arc behind a device counts the device table, an initialization that has not
\* published it yet, and every client reference, and nothing else.
StrongCountExact ==
    \A d \in Devices :
        strong[d] = One(InTable(d)) + One(d \in ElementsOf(work.made))
                    + Cardinality({c \in Clients : d \in owned[c]})

\* A pointer from hrx_*_device_get is good until its accelerator is shut down, and a
\* retained one until it is released, whatever other clients release meanwhile.
DevicePointersLive ==
    \A c \in Clients : \A d \in owned[c] \cup ({borrowed[c]} \ {NoObject}) :
        strong[d] > 0 /\ held[<<"hal_device", d>>] = 1

\* Every device in a table runs on the proactor pool that is shared now: not on the
\* pool of an earlier life of the runtime, which POOL_FOR_DEVICE may still hold.
DevicesUseSharedPool ==
    \A a \in Accelerators : \A d \in ElementsOf(accel[a].devices) :
        /\ dev[d].acc = a
        /\ dev[d].pool = shared.proactor_pool
        /\ held[<<"pool", shared.proactor_pool>>] = 1

\* An initialized accelerator exposes the first physical devices its driver
\* reported, up to HRX_MAX_DEVICES, in order and with consecutive ordinals, so that
\* every index below device_count names a device of its own.
TablesComplete ==
    \A a \in Up :
        LET t == accel[a] IN
        /\ t.device_count = Len(t.devices)
        /\ t.device_count = IF a = "cpu" THEN 1 ELSE DeviceCount(t.infos)
        /\ \A i \in 1 .. t.device_count :
             /\ dev[t.devices[i]].ordinal = i - 1
             /\ a = "gpu" => /\ t.infos[dev[t.devices[i]].info]
                             /\ Physical(SubSeq(t.infos, 1, dev[t.devices[i]].info)) = i

\* The instance or pool a client read under G and uses after unlocking it stays
\* alive as long as one of the accelerators that were up then has stayed up, even
\* if the other one fails to initialize or is shut down meanwhile.
SnapshotLive ==
    \A c \in Clients :
        snap[c].up # {} => held[<<snap[c].kind, snap[c].obj>>] = 1

\* An initialization releases G: the device loop ends and every branch returns.
InitializationReturns == stage # "unlocked" ~> stage = "unlocked"
====
