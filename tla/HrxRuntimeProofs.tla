-------------------------- MODULE HrxRuntimeProofs --------------------------
(***************************************************************************)
(* The safety properties of HrxRuntime for every set of clients, devices   *)
(* and addresses, every report of the GPU driver and every HRX_MAX_DEVICES:*)
(* the inductive invariant, facts about the operators, that the steps of   *)
(* an initialization (the HAL calls that succeed, every failure branch, a  *)
(* completed device, publishing, the shared state), shutdown and the       *)
(* clients preserve it, and the properties that follow from it.            *)
(***************************************************************************)
EXTENDS HrxRuntime, FiniteSetTheorems, TLAPS

(***************************************************************************)
(* The inductive invariant.                                                *)
(***************************************************************************)

\* TypeOK without the claim that no count drops below zero, which needs the rest.
Typed ==
    /\ shared \in [initialized : BOOLEAN, init_count : Int,
                   vm_instance : Pointer(Objects), proactor_pool : Pointer(Objects)]
    /\ accel \in [Accelerators -> [initialized : BOOLEAN, devices : Seq(Devices),
                                   device_count : Nat, infos : Seq(BOOLEAN)]]
    /\ stage \in Stages
    /\ work \in [acc : Accelerators, infos : Seq(BOOLEAN), index : Nat \ {0},
                 made : Seq(Devices), building : Pointer(Devices \cup Objects)]
    /\ POOL_FOR_DEVICE \in Pointer(Objects)
    /\ dev \in [Devices -> [acc : Accelerators, ordinal : Nat,
                            pool : Pointer(Objects), info : Nat]]
    /\ strong \in [Devices -> Int]
    /\ held \in [Handles -> Int]
    /\ borrowed \in [Clients -> Pointer(Devices)]
    /\ owned \in [Clients -> SUBSET Devices]
    /\ snap \in [Clients -> [obj : Pointer(Objects), kind : {"instance", "pool"},
                             up : SUBSET Accelerators]]

\* What the code around each HAL call of an initialization relies on.
Shape ==
    /\ stage \in {"unlocked"} \cup SharedStages => work.made = <<>>
    /\ stage # "unlocked" => ~accel[work.acc].initialized
    /\ stage \in CpuStages => work.acc = "cpu"
    /\ stage \in GpuStages => work.acc = "gpu"
    /\ stage \in SharedStages => ~shared.initialized
    /\ stage \in {"types", "pool"} => work.building \in Objects
    /\ stage \in {"tracker", "group", "wrap"} =>
          work.building \in Devices /\ strong[work.building] = 0
    /\ IF shared.initialized
       THEN shared.vm_instance \in Objects /\ shared.proactor_pool \in Objects
       ELSE /\ shared.proactor_pool = NoObject
            /\ shared.vm_instance = IF stage = "pool" THEN work.building ELSE NoObject
    /\ \A a \in Accelerators :
          /\ accel[a].device_count = Len(accel[a].devices)
          /\ ~accel[a].initialized => accel[a].devices = <<>>

\* The references libhrx owns: those of initialized accelerators, of live devices
\* and of the shared state, and those the initialization in progress has in hand.
OwnsDriver(a) ==
    \/ accel[a].initialized
    \/ work.acc = a /\ stage \in {"query", "count", "scan", "publish"} \cup DeviceStages

OwnsInfos(a)    == a = "gpu" /\ work.acc = "gpu" /\ stage \in {"count", "scan"} \cup DeviceStages
OwnsExecutor(a) == a = "cpu" /\ stage \in {"loaders", "heap", "task_driver"}
OwnsLoaders(a)  == a = "cpu" /\ stage \in {"heap", "task_driver"}
OwnsHeap(a)     == a = "cpu" /\ stage = "task_driver"

OwnsAllocator(d) == strong[d] > 0
OwnsGroup(d)     == strong[d] > 0 \/ (work.building = d /\ stage = "wrap")
OwnsTracker(d)   == work.building = d /\ stage = "group"
OwnsHal(d)       == strong[d] > 0 \/ (work.building = d /\ stage \in {"tracker", "group", "wrap"})

OwnsInstance(o) == shared.vm_instance = o \/ (work.building = o /\ stage = "types")
OwnsPool(o)     == shared.proactor_pool = o

\* The ledger holds one reference where it should and none elsewhere.
Accounted ==
    /\ \A a \in Accelerators :
          /\ held[<<"driver", a>>] = One(OwnsDriver(a))
          /\ held[<<"infos", a>>] = One(OwnsInfos(a))
          /\ held[<<"executor", a>>] = One(OwnsExecutor(a))
          /\ held[<<"loaders", a>>] = One(OwnsLoaders(a))
          /\ held[<<"heap", a>>] = One(OwnsHeap(a))
    /\ \A d \in Devices :
          /\ held[<<"hal_device", d>>] = One(OwnsHal(d))
          /\ held[<<"tracker", d>>] = One(OwnsTracker(d))
          /\ held[<<"group", d>>] = One(OwnsGroup(d))
          /\ held[<<"allocator", d>>] = One(OwnsAllocator(d))
    /\ \A o \in Objects :
          /\ held[<<"instance", o>>] = One(OwnsInstance(o))
          /\ held[<<"pool", o>>] = One(OwnsPool(o))

\* A device is in one table or in the list being built, never in two of them.
Apart ==
    /\ ElementsOf(accel["cpu"].devices) \cap ElementsOf(accel["gpu"].devices) = {}
    /\ \A d \in ElementsOf(work.made) : ~InTable(d)

\* A borrowed pointer names a device in a table; a snapshot taken since an
\* accelerator is up is of the present shared object.
ClientsCurrent ==
    \A c \in Clients :
        /\ borrowed[c] # NoObject => InTable(borrowed[c])
        /\ snap[c].up \subseteq Up
        /\ snap[c].up # {} =>
              snap[c].obj = IF snap[c].kind = "instance" THEN shared.vm_instance
                                                         ELSE shared.proactor_pool

\* Devices in a table or being listed, and the static once it is stored, refer to
\* the present pool.
PoolsCurrent ==
    /\ \A a \in Accelerators : \A d \in ElementsOf(accel[a].devices) :
          dev[d].acc = a /\ dev[d].pool = shared.proactor_pool
    /\ \A d \in ElementsOf(work.made) :
          dev[d].acc = work.acc /\ dev[d].pool = shared.proactor_pool
    /\ (work.acc = "cpu" /\ stage \in {"executor", "loaders", "heap", "task_driver"} \cup DeviceStages)
          => POOL_FOR_DEVICE = shared.proactor_pool

IInv ==
    /\ Typed /\ Shape /\ InitCountExact /\ Accounted
    /\ StrongCountExact /\ Apart /\ ClientsCurrent /\ PoolsCurrent

(***************************************************************************)
(* Facts about the operators the model is built from.                      *)
(***************************************************************************)

\* ElementsOf, which reads a device table as a set.
LEMMA Elements ==
    ASSUME NEW S, NEW seq \in Seq(S), NEW x \in S
    PROVE  /\ ElementsOf(seq) \subseteq S
           /\ ElementsOf(Append(seq, x)) = ElementsOf(seq) \cup {x}
           /\ ElementsOf(<<>>) = {}
           /\ \A i \in 1 .. Len(seq) : seq[i] \in ElementsOf(seq)
<1>1. ElementsOf(seq) \subseteq S /\ (\A i \in 1 .. Len(seq) : seq[i] \in ElementsOf(seq))
  BY DEF ElementsOf
<1>2. ElementsOf(<<>>) = {}
  BY DEF ElementsOf
<1>3. ElementsOf(Append(seq, x)) \subseteq ElementsOf(seq) \cup {x}
  BY DEF ElementsOf
<1>4. ElementsOf(seq) \subseteq ElementsOf(Append(seq, x))
  <2>1. SUFFICES ASSUME NEW i \in 1 .. Len(seq)
                 PROVE  seq[i] \in ElementsOf(Append(seq, x))
    BY DEF ElementsOf
  <2>2. i \in DOMAIN Append(seq, x) /\ Append(seq, x)[i] = seq[i]
    OBVIOUS
  <2> QED BY <2>2, Zenon DEF ElementsOf
<1>5. x \in ElementsOf(Append(seq, x))
  <2>1. Len(seq) + 1 \in DOMAIN Append(seq, x) /\ Append(seq, x)[Len(seq) + 1] = x
    OBVIOUS
  <2> QED BY <2>1, Zenon DEF ElementsOf
<1> QED BY <1>1, <1>2, <1>3, <1>4, <1>5, Zenon

\* The clients that hold a device are finitely many.
LEMMA Holders ==
    ASSUME NEW d
    PROVE  /\ IsFiniteSet({c \in Clients : d \in owned[c]})
           /\ Cardinality({c \in Clients : d \in owned[c]}) \in Nat
           /\ \A c \in Clients : d \in owned[c] => Cardinality({e \in Clients : d \in owned[e]}) > 0
<1> DEFINE H == {c \in Clients : d \in owned[c]}
<1>1. IsFiniteSet(H)
  BY FS_Subset, RuntimeConstants, Zenon DEF RuntimeConstants
<1>2. Cardinality(H) \in Nat
  BY <1>1, FS_CardinalityType, Zenon
<1>3. \A c \in Clients : d \in owned[c] => Cardinality(H) # 0
  BY <1>1, FS_EmptySet, Zenon
<1> QED BY <1>1, <1>2, <1>3

\* What the strong count says about who refers to a device.
LEMMA StrongKnown ==
    ASSUME StrongCountExact, Apart, NEW d \in Devices
    PROVE  /\ strong[d] \in Nat
           /\ InTable(d) \/ d \in ElementsOf(work.made) => strong[d] > 0
           /\ \A c \in Clients : d \in owned[c] =>
                 /\ strong[d] > 0
                 /\ InTable(d) \/ d \in ElementsOf(work.made) => strong[d] > 1
           /\ strong[d] = 1 /\ (InTable(d) \/ d \in ElementsOf(work.made)) =>
                 \A c \in Clients : d \notin owned[c]
<1> DEFINE n == Cardinality({c \in Clients : d \in owned[c]})
<1>1. n \in Nat /\ \A c \in Clients : d \in owned[c] => n > 0
  BY Holders, Zenon
<1>2. strong[d] = One(InTable(d)) + One(d \in ElementsOf(work.made)) + n
  BY Zenon DEF StrongCountExact
<1> HIDE DEF n
<1> QED BY <1>1, <1>2 DEF One

\* Every HAL object the code names has an entry in the ledger.
LEMMA Kinds ==
    /\ \A a \in Accelerators :
          {<<"driver", a>>, <<"infos", a>>, <<"executor", a>>, <<"loaders", a>>, <<"heap", a>>}
             \subseteq Handles
    /\ \A d \in Devices :
          {<<"hal_device", d>>, <<"tracker", d>>, <<"group", d>>, <<"allocator", d>>}
             \subseteq Handles
    /\ \A o \in Objects : {<<"instance", o>>, <<"pool", o>>} \subseteq Handles
BY DEF Handles

\* A step takes the references gets and releases puts as the ownership of h changes.
Moves(h, gets, puts, old, new) ==
    /\ h \in gets <=> ~old /\ new
    /\ h \in puts <=> old /\ ~new

AccelMoves(gets, puts) ==
    \A a \in Accelerators :
        /\ Moves(<<"driver", a>>, gets, puts, OwnsDriver(a), OwnsDriver(a)')
        /\ Moves(<<"infos", a>>, gets, puts, OwnsInfos(a), OwnsInfos(a)')
        /\ Moves(<<"executor", a>>, gets, puts, OwnsExecutor(a), OwnsExecutor(a)')
        /\ Moves(<<"loaders", a>>, gets, puts, OwnsLoaders(a), OwnsLoaders(a)')
        /\ Moves(<<"heap", a>>, gets, puts, OwnsHeap(a), OwnsHeap(a)')

DeviceMoves(gets, puts) ==
    \A d \in Devices :
        /\ Moves(<<"hal_device", d>>, gets, puts, OwnsHal(d), OwnsHal(d)')
        /\ Moves(<<"tracker", d>>, gets, puts, OwnsTracker(d), OwnsTracker(d)')
        /\ Moves(<<"group", d>>, gets, puts, OwnsGroup(d), OwnsGroup(d)')
        /\ Moves(<<"allocator", d>>, gets, puts, OwnsAllocator(d), OwnsAllocator(d)')

ObjectMoves(gets, puts) ==
    \A o \in Objects :
        /\ Moves(<<"instance", o>>, gets, puts, OwnsInstance(o), OwnsInstance(o)')
        /\ Moves(<<"pool", o>>, gets, puts, OwnsPool(o), OwnsPool(o)')

\* What Ledger does to one entry.
LEMMA Entry ==
    ASSUME held \in [Handles -> Int], NEW G, NEW P, held' = Ledger(G, P), NEW h \in Handles
    PROVE  /\ held[h] \in Int
           /\ held'[h] = held[h] + One(h \in G) - One(h \in P)
BY Zenon DEF Ledger, One

\* A step whose references move with the ownership keeps the ledger exact.
LEMMA Accounts ==
    ASSUME held \in [Handles -> Int], Accounted, NEW G, NEW P, held' = Ledger(G, P),
           AccelMoves(G, P), DeviceMoves(G, P), ObjectMoves(G, P)
    PROVE  held' \in [Handles -> Int] /\ Accounted'
<1>1. held' \in [Handles -> Int]
  BY DEF Ledger
<1>2. ASSUME NEW a \in Accelerators
      PROVE  /\ held'[<<"driver", a>>] = One(OwnsDriver(a)')
             /\ held'[<<"infos", a>>] = One(OwnsInfos(a)')
             /\ held'[<<"executor", a>>] = One(OwnsExecutor(a)')
             /\ held'[<<"loaders", a>>] = One(OwnsLoaders(a)')
             /\ held'[<<"heap", a>>] = One(OwnsHeap(a)')
  <2>1. held'[<<"driver", a>>] = One(OwnsDriver(a)')
    <3>1. <<"driver", a>> \in Handles
      BY Kinds, Zenon
    <3>2. held[<<"driver", a>>] = One(OwnsDriver(a))
      BY Zenon DEF Accounted
    <3>3. Moves(<<"driver", a>>, G, P, OwnsDriver(a), OwnsDriver(a)')
      BY Zenon DEF AccelMoves
    <3> QED BY <3>1, <3>2, <3>3, Entry DEF One, Moves
  <2>2. held'[<<"infos", a>>] = One(OwnsInfos(a)')
    <3>1. <<"infos", a>> \in Handles
      BY Kinds, Zenon
    <3>2. held[<<"infos", a>>] = One(OwnsInfos(a))
      BY Zenon DEF Accounted
    <3>3. Moves(<<"infos", a>>, G, P, OwnsInfos(a), OwnsInfos(a)')
      BY Zenon DEF AccelMoves
    <3> QED BY <3>1, <3>2, <3>3, Entry DEF One, Moves
  <2>3. held'[<<"executor", a>>] = One(OwnsExecutor(a)')
    <3>1. <<"executor", a>> \in Handles
      BY Kinds, Zenon
    <3>2. held[<<"executor", a>>] = One(OwnsExecutor(a))
      BY Zenon DEF Accounted
    <3>3. Moves(<<"executor", a>>, G, P, OwnsExecutor(a), OwnsExecutor(a)')
      BY Zenon DEF AccelMoves
    <3> QED BY <3>1, <3>2, <3>3, Entry DEF One, Moves
  <2>4. held'[<<"loaders", a>>] = One(OwnsLoaders(a)')
    <3>1. <<"loaders", a>> \in Handles
      BY Kinds, Zenon
    <3>2. held[<<"loaders", a>>] = One(OwnsLoaders(a))
      BY Zenon DEF Accounted
    <3>3. Moves(<<"loaders", a>>, G, P, OwnsLoaders(a), OwnsLoaders(a)')
      BY Zenon DEF AccelMoves
    <3> QED BY <3>1, <3>2, <3>3, Entry DEF One, Moves
  <2>5. held'[<<"heap", a>>] = One(OwnsHeap(a)')
    <3>1. <<"heap", a>> \in Handles
      BY Kinds, Zenon
    <3>2. held[<<"heap", a>>] = One(OwnsHeap(a))
      BY Zenon DEF Accounted
    <3>3. Moves(<<"heap", a>>, G, P, OwnsHeap(a), OwnsHeap(a)')
      BY Zenon DEF AccelMoves
    <3> QED BY <3>1, <3>2, <3>3, Entry DEF One, Moves
  <2> QED BY <2>1, <2>2, <2>3, <2>4, <2>5, Zenon
<1>3. ASSUME NEW d \in Devices
      PROVE  /\ held'[<<"hal_device", d>>] = One(OwnsHal(d)')
             /\ held'[<<"tracker", d>>] = One(OwnsTracker(d)')
             /\ held'[<<"group", d>>] = One(OwnsGroup(d)')
             /\ held'[<<"allocator", d>>] = One(OwnsAllocator(d)')
  <2>1. held'[<<"hal_device", d>>] = One(OwnsHal(d)')
    <3>1. <<"hal_device", d>> \in Handles
      BY Kinds, Zenon
    <3>2. held[<<"hal_device", d>>] = One(OwnsHal(d))
      BY Zenon DEF Accounted
    <3>3. Moves(<<"hal_device", d>>, G, P, OwnsHal(d), OwnsHal(d)')
      BY Zenon DEF DeviceMoves
    <3> QED BY <3>1, <3>2, <3>3, Entry DEF One, Moves
  <2>2. held'[<<"tracker", d>>] = One(OwnsTracker(d)')
    <3>1. <<"tracker", d>> \in Handles
      BY Kinds, Zenon
    <3>2. held[<<"tracker", d>>] = One(OwnsTracker(d))
      BY Zenon DEF Accounted
    <3>3. Moves(<<"tracker", d>>, G, P, OwnsTracker(d), OwnsTracker(d)')
      BY Zenon DEF DeviceMoves
    <3> QED BY <3>1, <3>2, <3>3, Entry DEF One, Moves
  <2>3. held'[<<"group", d>>] = One(OwnsGroup(d)')
    <3>1. <<"group", d>> \in Handles
      BY Kinds, Zenon
    <3>2. held[<<"group", d>>] = One(OwnsGroup(d))
      BY Zenon DEF Accounted
    <3>3. Moves(<<"group", d>>, G, P, OwnsGroup(d), OwnsGroup(d)')
      BY Zenon DEF DeviceMoves
    <3> QED BY <3>1, <3>2, <3>3, Entry DEF One, Moves
  <2>4. held'[<<"allocator", d>>] = One(OwnsAllocator(d)')
    <3>1. <<"allocator", d>> \in Handles
      BY Kinds, Zenon
    <3>2. held[<<"allocator", d>>] = One(OwnsAllocator(d))
      BY Zenon DEF Accounted
    <3>3. Moves(<<"allocator", d>>, G, P, OwnsAllocator(d), OwnsAllocator(d)')
      BY Zenon DEF DeviceMoves
    <3> QED BY <3>1, <3>2, <3>3, Entry DEF One, Moves
  <2> QED BY <2>1, <2>2, <2>3, <2>4, Zenon
<1>4. ASSUME NEW o \in Objects
      PROVE  /\ held'[<<"instance", o>>] = One(OwnsInstance(o)')
             /\ held'[<<"pool", o>>] = One(OwnsPool(o)')
  <2>1. held'[<<"instance", o>>] = One(OwnsInstance(o)')
    <3>1. <<"instance", o>> \in Handles
      BY Kinds, Zenon
    <3>2. held[<<"instance", o>>] = One(OwnsInstance(o))
      BY Zenon DEF Accounted
    <3>3. Moves(<<"instance", o>>, G, P, OwnsInstance(o), OwnsInstance(o)')
      BY Zenon DEF ObjectMoves
    <3> QED BY <3>1, <3>2, <3>3, Entry DEF One, Moves
  <2>2. held'[<<"pool", o>>] = One(OwnsPool(o)')
    <3>1. <<"pool", o>> \in Handles
      BY Kinds, Zenon
    <3>2. held[<<"pool", o>>] = One(OwnsPool(o))
      BY Zenon DEF Accounted
    <3>3. Moves(<<"pool", o>>, G, P, OwnsPool(o), OwnsPool(o)')
      BY Zenon DEF ObjectMoves
    <3> QED BY <3>1, <3>2, <3>3, Entry DEF One, Moves
  <2> QED BY <2>1, <2>2, Zenon
<1> QED BY <1>1, <1>2, <1>3, <1>4, Zenon DEF Accounted

\* The initial state satisfies the inductive invariant.
LEMMA InitInductive == Init => IInv
<1> SUFFICES ASSUME Init PROVE IInv
  BY Zenon
<1> USE DEF Init
<1>0. ElementsOf(<<>>) = {}
  BY DEF ElementsOf
<1>1. Typed
  BY DEF Typed, NoAccel, NoWork, NoDev, NoSnap, Pointer, Accelerators, Stages
<1>2. Shape
  BY Zenon DEF Shape, NoAccel, NoWork, SharedStages, CpuStages, GpuStages, Accelerators
<1>3. InitCountExact
  BY DEF InitCountExact, NoAccel, Counted, One, Accelerators
<1>4. Accounted
  <2>1. \A a \in Accelerators : /\ ~OwnsDriver(a) /\ ~OwnsInfos(a) /\ ~OwnsExecutor(a)
                                /\ ~OwnsLoaders(a) /\ ~OwnsHeap(a)
    BY Zenon DEF NoAccel, OwnsDriver, OwnsInfos, OwnsExecutor, OwnsLoaders, OwnsHeap, DeviceStages
  <2>2. \A d \in Devices : ~OwnsHal(d) /\ ~OwnsTracker(d) /\ ~OwnsGroup(d) /\ ~OwnsAllocator(d)
    BY DEF OwnsHal, OwnsTracker, OwnsGroup, OwnsAllocator
  <2>3. \A o \in Objects : ~OwnsInstance(o) /\ ~OwnsPool(o)
    BY RuntimeConstants, Zenon DEF OwnsInstance, OwnsPool, RuntimeConstants
  <2>4. \A h \in Handles : held[h] = 0
    BY Zenon
  <2> HIDE DEF Init
  <2> QED BY <2>1, <2>2, <2>3, <2>4, Kinds, Zenon DEF Accounted, One
<1>7. \A d : ~InTable(d) /\ d \notin ElementsOf(work.made)
  BY <1>0, Zenon DEF InTable, NoAccel, NoWork
<1>8. StrongCountExact
  <2> SUFFICES ASSUME NEW d \in Devices
               PROVE  strong[d] = One(InTable(d)) + One(d \in ElementsOf(work.made))
                                  + Cardinality({c \in Clients : d \in owned[c]})
    BY Zenon DEF StrongCountExact
  <2>1. {c \in Clients : d \in owned[c]} = {}
    BY Zenon
  <2>2. strong[d] = 0 /\ Cardinality({c \in Clients : d \in owned[c]}) = 0
    BY <2>1, FS_EmptySet, Zenon
  <2> QED BY <1>7, <2>2 DEF One
<1>9. Apart
  BY <1>0, <1>7, Zenon DEF Apart, NoAccel, Accelerators
<1>10. ClientsCurrent
  BY Zenon DEF ClientsCurrent, NoSnap
<1>11. PoolsCurrent
  BY <1>0, <1>7, Zenon DEF PoolsCurrent, NoAccel, NoWork, DeviceStages, Accelerators
<1> QED BY <1>1, <1>2, <1>3, <1>4, <1>8, <1>9, <1>10, <1>11, Zenon DEF IInv

(***************************************************************************)
(* The successful HAL calls of an initialization, which move references    *)
(* and the locals and leave the tables alone.                              *)
(***************************************************************************)
StepStages == Stages \ ({"unlocked"} \cup SharedStages)

\* The parts of the invariant such a step leaves alone.
LEMMA QuietStep ==
    ASSUME IInv, UNCHANGED <<shared, accel, dev, strong, clientVars>>,
           work'.made = work.made, stage \in StepStages, stage' \in StepStages
    PROVE  InitCountExact' /\ StrongCountExact' /\ Apart' /\ ClientsCurrent'
<1>1. InitCountExact'
  BY Zenon DEF IInv, InitCountExact, Counted, StepStages
<1>2. StrongCountExact'
  BY Zenon DEF IInv, StrongCountExact, InTable, clientVars
<1>3. Apart'
  BY Zenon DEF IInv, Apart, InTable
<1>4. ClientsCurrent'
  BY Zenon DEF IInv, ClientsCurrent, InTable, clientVars, Up
<1> QED BY <1>1, <1>2, <1>3, <1>4, Zenon

AccelHandles == {"executor", "loaders", "heap", "driver", "infos"} \X Accelerators

\* References on drivers and their parts do not disturb the accounts of the rest.
LEMMA AccelEntries ==
    ASSUME NEW G \in SUBSET AccelHandles, NEW P \in SUBSET AccelHandles,
           UNCHANGED <<strong, shared>>,
           stage \notin {"types", "tracker", "group", "wrap"},
           stage' \notin {"types", "tracker", "group", "wrap"}
    PROVE  DeviceMoves(G, P) /\ ObjectMoves(G, P)
<1>1. ASSUME NEW d \in Devices
      PROVE  \A k \in {"hal_device", "tracker", "group", "allocator"} : <<k, d>> \notin AccelHandles
  BY Zenon DEF AccelHandles
<1>2. ASSUME NEW o \in Objects
      PROVE  \A k \in {"instance", "pool"} : <<k, o>> \notin AccelHandles
  BY Zenon DEF AccelHandles
<1>3. DeviceMoves(G, P)
  BY <1>1, Zenon DEF DeviceMoves, Moves, OwnsHal, OwnsTracker, OwnsGroup, OwnsAllocator
<1>4. ObjectMoves(G, P)
  BY <1>2, Zenon DEF ObjectMoves, Moves, OwnsInstance, OwnsPool
<1> QED BY <1>3, <1>4, Zenon

\* A successful call that moves references on drivers and their parts.
LEMMA AccelStep ==
    ASSUME IInv, UNCHANGED <<shared, accel, dev, strong, clientVars>>,
           NEW G \in SUBSET AccelHandles, NEW P \in SUBSET AccelHandles, held' = Ledger(G, P),
           AccelMoves(G, P),
           work' \in [acc : Accelerators, infos : Seq(BOOLEAN), index : Nat \ {0},
                      made : Seq(Devices), building : Pointer(Devices \cup Objects)],
           work'.made = work.made, work'.acc = work.acc,
           stage \in StepStages, stage' \in StepStages,
           {stage, stage'} \cap {"tracker", "group", "wrap"} = {},
           stage' \in CpuStages => work.acc = "cpu",
           stage' \in GpuStages => work.acc = "gpu",
           POOL_FOR_DEVICE' \in Pointer(Objects),
           work.acc = "cpu" /\ stage' # "store_pool" => POOL_FOR_DEVICE' = shared.proactor_pool
    PROVE  IInv'
<1>1. DeviceMoves(G, P) /\ ObjectMoves(G, P)
  BY AccelEntries, Zenon DEF StepStages, SharedStages
<1>2. held' \in [Handles -> Int] /\ Accounted'
  BY <1>1, Accounts, Zenon DEF IInv, Typed
<1>3. Typed'
  BY <1>2, Zenon DEF IInv, Typed, clientVars, StepStages
<1>4. Shape'
  <2>1. stage \notin {"unlocked", "instance", "types", "pool", "tracker", "group", "wrap"}
    BY Zenon DEF StepStages, SharedStages
  <2>2. stage' \notin {"unlocked", "instance", "types", "pool", "tracker", "group", "wrap"}
    BY Zenon DEF StepStages, SharedStages
  <2>3. Shape
    BY Zenon DEF IInv
  <2> QED BY <2>1, <2>2, <2>3, Zenon DEF Shape, SharedStages
<1>5. PoolsCurrent'
  BY DEF IInv, PoolsCurrent, DeviceStages
<1>6. InitCountExact' /\ StrongCountExact' /\ Apart' /\ ClientsCurrent'
  BY QuietStep, Zenon
<1> QED BY <1>2, <1>3, <1>4, <1>5, <1>6, Zenon DEF IInv

\* The steps of create_local_task_device.
LEMMA StorePoolStep == IInv /\ StorePool => IInv'
<1> SUFFICES ASSUME IInv, StorePool PROVE IInv'
  BY Zenon
<1>1. AccelMoves({}, {})
  BY Zenon DEF StorePool, Succeeds, AccelMoves, Moves, OwnsDriver, OwnsInfos, OwnsExecutor, OwnsLoaders,
         OwnsHeap, DeviceStages
<1>2. Typed /\ Shape
  BY Zenon DEF IInv
<1> QED BY <1>1, <1>2, AccelStep, Zenon DEF Typed, Shape, StorePool, Succeeds, StepStages, Stages, CpuStages,
           SharedStages, GpuStages, DeviceStages

\* Once the CPU initialization has stored the pool, the static is current.
LEMMA PoolStored ==
    ASSUME IInv, work.acc = "cpu",
           stage \in {"executor", "loaders", "heap", "task_driver"} \cup DeviceStages
    PROVE  POOL_FOR_DEVICE = shared.proactor_pool
BY Zenon DEF IInv, PoolsCurrent

\* The task executor is created.
LEMMA ExecutorStep ==
    ASSUME IInv, stage = "executor", Succeeds("loaders", {Executor}, {}), Quiet, UNCHANGED work
    PROVE  IInv'
<1>1. Typed /\ Shape
  BY Zenon DEF IInv
<1>2. AccelMoves({Executor}, {})
  BY <1>1, Zenon DEF Shape, Quiet, Succeeds, AccelMoves, Moves, OwnsDriver, OwnsInfos, OwnsExecutor,
              OwnsLoaders, OwnsHeap, CpuStages, GpuStages, DeviceStages, Accelerators, Executor
<1>3. {Executor} \subseteq AccelHandles /\ {} \subseteq AccelHandles
  BY <1>1 DEF Typed, AccelHandles, Accelerators, Executor
<1> QED BY Zenon, <1>1, <1>2, <1>3, AccelStep, PoolStored
       DEF Typed, Shape, Quiet, Succeeds, StepStages, Stages, CpuStages, SharedStages, GpuStages,
           DeviceStages

\* The executable loaders are created.
LEMMA LoadersStep ==
    ASSUME IInv, stage = "loaders", Succeeds("heap", {Loaders}, {}), Quiet, UNCHANGED work
    PROVE  IInv'
<1>1. Typed /\ Shape
  BY Zenon DEF IInv
<1>2. AccelMoves({Loaders}, {})
  BY <1>1, Zenon DEF Shape, Quiet, Succeeds, AccelMoves, Moves, OwnsDriver, OwnsInfos, OwnsExecutor,
              OwnsLoaders, OwnsHeap, CpuStages, GpuStages, DeviceStages, Accelerators, Loaders
<1>3. {Loaders} \subseteq AccelHandles /\ {} \subseteq AccelHandles
  BY <1>1 DEF Typed, AccelHandles, Accelerators, Loaders
<1> QED BY Zenon, <1>1, <1>2, <1>3, AccelStep, PoolStored
       DEF Typed, Shape, Quiet, Succeeds, StepStages, Stages, CpuStages, SharedStages, GpuStages,
           DeviceStages

\* The heap allocator is created.
LEMMA HeapStep ==
    ASSUME IInv, stage = "heap", Succeeds("task_driver", {Heap}, {}), Quiet, UNCHANGED work
    PROVE  IInv'
<1>1. Typed /\ Shape
  BY Zenon DEF IInv
<1>2. AccelMoves({Heap}, {})
  BY <1>1, Zenon DEF Shape, Quiet, Succeeds, AccelMoves, Moves, OwnsDriver, OwnsInfos, OwnsExecutor,
              OwnsLoaders, OwnsHeap, CpuStages, GpuStages, DeviceStages, Accelerators, Heap
<1>3. {Heap} \subseteq AccelHandles /\ {} \subseteq AccelHandles
  BY <1>1 DEF Typed, AccelHandles, Accelerators, Heap
<1> QED BY Zenon, <1>1, <1>2, <1>3, AccelStep, PoolStored
       DEF Typed, Shape, Quiet, Succeeds, StepStages, Stages, CpuStages, SharedStages, GpuStages,
           DeviceStages

\* The task driver is created and has its own references on its parts.
LEMMA TaskDriverStep ==
    ASSUME IInv, stage = "task_driver",
           Succeeds("device", {Driver}, {Executor, Loaders, Heap}), Quiet, UNCHANGED work
    PROVE  IInv'
<1>1. Typed /\ Shape
  BY Zenon DEF IInv
<1>2. AccelMoves({Driver}, {Executor, Loaders, Heap})
  BY <1>1 DEF Shape, Quiet, Succeeds, AccelMoves, Moves, OwnsDriver, OwnsInfos, OwnsExecutor,
              OwnsLoaders, OwnsHeap, CpuStages, GpuStages, DeviceStages, Accelerators, Driver, Executor, Loaders, Heap
<1>3. {Driver} \subseteq AccelHandles /\ {Executor, Loaders, Heap} \subseteq AccelHandles
  BY <1>1 DEF Typed, AccelHandles, Accelerators, Driver, Executor, Loaders, Heap
<1> QED BY Zenon, <1>1, <1>2, <1>3, AccelStep, PoolStored
       DEF Typed, Shape, Quiet, Succeeds, StepStages, Stages, CpuStages, SharedStages, GpuStages,
           DeviceStages

\* The GPU driver is registered.
LEMMA RegisterStep ==
    ASSUME IInv, stage = "register", Succeeds("create", {}, {}), Quiet, UNCHANGED work
    PROVE  IInv'
<1>1. Typed /\ Shape
  BY Zenon DEF IInv
<1>2. AccelMoves({}, {})
  BY <1>1, Zenon DEF Shape, Quiet, Succeeds, AccelMoves, Moves, OwnsDriver, OwnsInfos, OwnsExecutor,
              OwnsLoaders, OwnsHeap, CpuStages, GpuStages, DeviceStages, Accelerators
<1>3. {} \subseteq AccelHandles /\ {} \subseteq AccelHandles
  BY <1>1, Zenon DEF Typed, AccelHandles, Accelerators
<1> QED BY Zenon, <1>1, <1>2, <1>3, AccelStep, PoolStored
       DEF Typed, Shape, Quiet, Succeeds, StepStages, Stages, CpuStages, SharedStages, GpuStages,
           DeviceStages

\* The GPU driver is created.
LEMMA CreateDriverStep ==
    ASSUME IInv, stage = "create", Succeeds("query", {Driver}, {}), Quiet, UNCHANGED work
    PROVE  IInv'
<1>1. Typed /\ Shape
  BY Zenon DEF IInv
<1>2. AccelMoves({Driver}, {})
  BY <1>1, Zenon DEF Shape, Quiet, Succeeds, AccelMoves, Moves, OwnsDriver, OwnsInfos, OwnsExecutor,
              OwnsLoaders, OwnsHeap, CpuStages, GpuStages, DeviceStages, Accelerators, Driver
<1>3. {Driver} \subseteq AccelHandles /\ {} \subseteq AccelHandles
  BY <1>1 DEF Typed, AccelHandles, Accelerators, Driver
<1> QED BY <1>1, <1>2, <1>3, AccelStep, PoolStored, Zenon
       DEF Typed, Shape, Quiet, Succeeds, StepStages, Stages, CpuStages, SharedStages, GpuStages,
           DeviceStages

\* The driver reports a physical device.
LEMMA CountStep ==
    ASSUME IInv, stage = "count", Succeeds("scan", {}, {}), Quiet, UNCHANGED work
    PROVE  IInv'
<1>1. Typed /\ Shape
  BY Zenon DEF IInv
<1>2. AccelMoves({}, {})
  BY <1>1, Zenon DEF Shape, Quiet, Succeeds, AccelMoves, Moves, OwnsDriver, OwnsInfos, OwnsExecutor,
              OwnsLoaders, OwnsHeap, CpuStages, GpuStages, DeviceStages, Accelerators
<1>3. {} \subseteq AccelHandles /\ {} \subseteq AccelHandles
  BY <1>1, Zenon DEF Typed, AccelHandles, Accelerators
<1> QED BY Zenon, <1>1, <1>2, <1>3, AccelStep, PoolStored
       DEF Typed, Shape, Quiet, Succeeds, StepStages, Stages, CpuStages, SharedStages, GpuStages,
           DeviceStages

\* The device loop takes a physical device.
LEMMA TakeStep ==
    ASSUME IInv, stage = "scan", Succeeds("device", {}, {}), Quiet, UNCHANGED work
    PROVE  IInv'
<1>1. Typed /\ Shape
  BY Zenon DEF IInv
<1>2. AccelMoves({}, {})
  BY <1>1, Zenon DEF Shape, Quiet, Succeeds, AccelMoves, Moves, OwnsDriver, OwnsInfos, OwnsExecutor,
              OwnsLoaders, OwnsHeap, CpuStages, GpuStages, DeviceStages, Accelerators
<1>3. {} \subseteq AccelHandles /\ {} \subseteq AccelHandles
  BY <1>1, Zenon DEF Typed, AccelHandles, Accelerators
<1> QED BY Zenon, <1>1, <1>2, <1>3, AccelStep, PoolStored
       DEF Typed, Shape, Quiet, Succeeds, StepStages, Stages, CpuStages, SharedStages, GpuStages,
           DeviceStages

\* The driver's devices are queried.
LEMMA QueryStep ==
    ASSUME IInv, stage = "query", NEW infos \in InfoLists, Succeeds("count", {Infos}, {}), Quiet,
           work' = [work EXCEPT !.infos = infos]
    PROVE  IInv'
<1>1. Typed /\ Shape
  BY Zenon DEF IInv
<1>2. AccelMoves({Infos}, {})
  BY <1>1 DEF Shape, Quiet, Succeeds, AccelMoves, Moves, OwnsDriver, OwnsInfos, OwnsExecutor,
              OwnsLoaders, OwnsHeap, CpuStages, GpuStages, DeviceStages, Accelerators, Infos
<1>3. {Infos} \subseteq AccelHandles /\ {} \subseteq AccelHandles
  BY <1>1 DEF Typed, AccelHandles, Accelerators, Infos
<1>4. infos \in Seq(BOOLEAN)
  BY RuntimeConstants, Zenon DEF RuntimeConstants
<1> QED BY Zenon, <1>1, <1>2, <1>3, <1>4, AccelStep, PoolStored
       DEF Typed, Shape, Quiet, Succeeds, StepStages, Stages, CpuStages, SharedStages, GpuStages,
           DeviceStages

\* The device loop skips a pseudo-device.
LEMMA SkipStep ==
    ASSUME IInv, stage = "scan", Succeeds("scan", {}, {}), Quiet, work' = [work EXCEPT !.index = @ + 1]
    PROVE  IInv'
<1>1. Typed /\ Shape
  BY Zenon DEF IInv
<1>2. AccelMoves({}, {})
  BY <1>1 DEF Shape, Quiet, Succeeds, AccelMoves, Moves, OwnsDriver, OwnsInfos, OwnsExecutor,
              OwnsLoaders, OwnsHeap, CpuStages, GpuStages, DeviceStages, Accelerators
<1>3. {} \subseteq AccelHandles /\ {} \subseteq AccelHandles
  BY <1>1, Zenon DEF Typed, AccelHandles, Accelerators
<1>4. work' \in [acc : Accelerators, infos : Seq(BOOLEAN), index : Nat \ {0},
                  made : Seq(Devices), building : Pointer(Devices \cup Objects)]
  <2>1. work.index + 1 \in Nat \ {0}
    BY <1>1 DEF Typed
  <2> QED BY <1>1, <2>1, Zenon DEF Typed
<1>5. work'.made = work.made /\ work'.acc = work.acc
  BY <1>1, Zenon DEF Typed
<1> QED BY <1>1, <1>2, <1>3, <1>4, <1>5, AccelStep, PoolStored, Zenon
       DEF Typed, Shape, Quiet, Succeeds, StepStages, Stages, CpuStages, SharedStages, GpuStages,
           DeviceStages

(***************************************************************************)
(* The construction of one device.                                         *)
(***************************************************************************)
HalHandles == {"hal_device", "tracker", "group", "allocator"} \X Devices

\* A successful call that moves references on the parts of a device.
LEMMA DeviceStep ==
    ASSUME IInv, Quiet,
           NEW G \in SUBSET HalHandles, NEW P \in SUBSET HalHandles, held' = Ledger(G, P),
           DeviceMoves(G, P),
           NEW b \in Devices, strong[b] = 0, work' = [work EXCEPT !.building = b],
           stage \in DeviceStages, stage' \in {"tracker", "group", "wrap"}
    PROVE  IInv'
<1> USE DEF Quiet
<1>0. Typed /\ Shape
  BY Zenon DEF IInv
<1>1. work' \in [acc : Accelerators, infos : Seq(BOOLEAN), index : Nat \ {0},
                 made : Seq(Devices), building : Pointer(Devices \cup Objects)]
  BY <1>0, Zenon DEF Typed, Pointer
<1>2. work'.made = work.made /\ work'.acc = work.acc /\ work'.building = b
  BY <1>0, Zenon DEF Typed
<1>3. AccelMoves(G, P)
  <2>1. ASSUME NEW a \in Accelerators
        PROVE  \A k \in {"driver", "infos", "executor", "loaders", "heap"} : <<k, a>> \notin HalHandles
    BY Zenon DEF HalHandles
  <2> QED BY <1>2, <2>1, Zenon DEF AccelMoves, Moves, OwnsDriver, OwnsInfos, OwnsExecutor, OwnsLoaders,
                            OwnsHeap, DeviceStages
<1>4. ObjectMoves(G, P)
  <2>1. ASSUME NEW o \in Objects
        PROVE  \A k \in {"instance", "pool"} : <<k, o>> \notin HalHandles
    BY Zenon DEF HalHandles
  <2> QED BY <2>1, Zenon DEF ObjectMoves, Moves, OwnsInstance, OwnsPool, DeviceStages
<1>5. held' \in [Handles -> Int] /\ Accounted'
  BY <1>3, <1>4, Accounts, Zenon DEF IInv, Typed
<1>6. Typed'
  BY <1>0, <1>1, <1>5, Zenon DEF Typed, clientVars, Stages, DeviceStages
<1>7. Shape'
  BY <1>0, <1>2, Zenon DEF Shape, SharedStages, CpuStages, GpuStages, DeviceStages
<1>8. PoolsCurrent'
  BY <1>2 DEF IInv, PoolsCurrent, DeviceStages
<1>9. InitCountExact' /\ StrongCountExact' /\ Apart' /\ ClientsCurrent'
  BY <1>2, QuietStep, Zenon DEF StepStages, Stages, DeviceStages, SharedStages
<1> QED BY <1>5, <1>6, <1>7, <1>8, <1>9, Zenon DEF IInv

\* The HAL device is created at a free address.
LEMMA CreateDeviceStep ==
    ASSUME IInv, stage = "device", NEW d \in Devices, Free(d), Quiet,
           Succeeds("tracker", {<<"hal_device", d>>}, {}), work' = [work EXCEPT !.building = d]
    PROVE  IInv'
<1>1. {<<"hal_device", d>>} \subseteq HalHandles
  BY DEF HalHandles
<1>2. work'.building = d
  BY Zenon DEF IInv, Typed
<1>3. DeviceMoves({<<"hal_device", d>>}, {})
  BY <1>2 DEF DeviceMoves, Moves, OwnsHal, OwnsTracker, OwnsGroup, OwnsAllocator, Quiet, Succeeds, Free
<1>4. strong[d] = 0 /\ stage' = "tracker" /\ held' = Ledger({<<"hal_device", d>>}, {})
  BY Zenon DEF Free, Succeeds
<1> QED BY <1>1, <1>3, <1>4, DeviceStep DEF DeviceStages

\* The frontier tracker, then the device group are created.
LEMMA TrackerStep ==
    ASSUME IInv, stage = "tracker", Quiet, UNCHANGED work,
           Succeeds("group", {<<"tracker", work.building>>}, {})
    PROVE  IInv'
<1>1. work.building \in Devices /\ strong[work.building] = 0
  BY Zenon DEF IInv, Shape
<1>2. {<<"tracker", work.building>>} \subseteq HalHandles
  BY <1>1 DEF HalHandles
<1>3. work' = [work EXCEPT !.building = work.building]
  BY Zenon DEF IInv, Typed
<1>4. DeviceMoves({<<"tracker", work.building>>}, {})
  BY Zenon DEF DeviceMoves, Moves, OwnsHal, OwnsTracker, OwnsGroup, OwnsAllocator, Quiet, Succeeds
<1>5. held' = Ledger({<<"tracker", work.building>>}, {})
  BY Zenon DEF Succeeds
<1>6. stage \in DeviceStages /\ stage' \in {"tracker", "group", "wrap"} /\ {} \in SUBSET HalHandles
  BY Zenon DEF Succeeds, DeviceStages
<1> QED BY <1>1, <1>2, <1>3, <1>4, <1>5, <1>6, DeviceStep, Zenon

\* The group holds its own reference on the tracker, and the code releases its own.
LEMMA GroupStep ==
    ASSUME IInv, stage = "group", Quiet, UNCHANGED work,
           Succeeds("wrap", {<<"group", work.building>>}, {<<"tracker", work.building>>})
    PROVE  IInv'
<1>1. work.building \in Devices /\ strong[work.building] = 0
  BY Zenon DEF IInv, Shape
<1>2. {<<"tracker", work.building>>, <<"group", work.building>>} \subseteq HalHandles
  BY <1>1 DEF HalHandles
<1>3. work' = [work EXCEPT !.building = work.building]
  BY Zenon DEF IInv, Typed
<1>4. DeviceMoves({<<"group", work.building>>}, {<<"tracker", work.building>>})
  BY <1>1 DEF DeviceMoves, Moves, OwnsHal, OwnsTracker, OwnsGroup, OwnsAllocator, Quiet, Succeeds
<1> QED BY <1>1, <1>2, <1>3, <1>4, DeviceStep, Zenon DEF Succeeds, DeviceStages


(***************************************************************************)
(* The failure branches.                                                   *)
(***************************************************************************)

\* Who counts in init_count while an initialization is under way.
LEMMA CountKnown ==
    ASSUME Typed, InitCountExact
    PROVE  /\ Counted => shared.initialized /\ shared.init_count > 0
           /\ Counted /\ LastInit => \A a \in Accelerators : ~accel[a].initialized
           /\ Counted /\ ~LastInit => shared.init_count > 1
           /\ stage = "unlocked" /\ LastInit =>
                 \A a, b \in Accelerators : accel[a].initialized /\ accel[b].initialized => a = b
           /\ \A a \in Accelerators : accel[a].initialized =>
                 shared.initialized /\ shared.init_count > 0
<1>1. Counted => shared.initialized /\ shared.init_count > 0
  BY DEF Typed, InitCountExact, One, Accelerators, Counted
<1>2. Counted /\ LastInit => \A a \in Accelerators : ~accel[a].initialized
  BY DEF Typed, InitCountExact, One, LastInit, Accelerators, Counted
<1>3. Counted /\ ~LastInit => shared.init_count > 1
  BY DEF Typed, InitCountExact, One, LastInit, Accelerators, Counted
<1>4. stage = "unlocked" /\ LastInit =>
        \A a, b \in Accelerators : accel[a].initialized /\ accel[b].initialized => a = b
  BY DEF Typed, InitCountExact, One, LastInit, Accelerators, Counted
<1>5. \A a \in Accelerators : accel[a].initialized => shared.initialized /\ shared.init_count > 0
  BY DEF Typed, InitCountExact, One, Accelerators
<1>6. QED
  BY <1>1, <1>2, <1>3, <1>4, <1>5

\* A failure branch that releases exactly what the initialization has in hand
\* besides the devices it made and its count.
InHand(puts) ==
    /\ AccelMoves({}, puts)
    /\ \A d \in Devices :
          /\ <<"hal_device", d>> \in puts <=> work.building = d /\ stage \in {"tracker", "group"}
          /\ <<"tracker", d>> \in puts <=> work.building = d /\ stage = "group"
          /\ <<"group", d>> \notin puts
          /\ <<"allocator", d>> \notin puts
    /\ \A o \in Objects : <<"instance", o>> \notin puts /\ <<"pool", o>> \notin puts

\* The ledger is exact after such a failure.
LEMMA FailsAccounts ==
    ASSUME IInv, stage \in StepStages \ {"wrap"}, NEW puts, InHand(puts), Fails(puts)
    PROVE  held' \in [Handles -> Int] /\ Accounted'
<1> DEFINE M == ElementsOf(work.made)
           P == puts \cup DeviceHandles(Dropped(M)) \cup SharedPuts
<1>0. Typed /\ Shape /\ InitCountExact /\ StrongCountExact /\ Apart /\ Accounted
  BY Zenon DEF IInv
<1>1. held' = Ledger({}, P) /\ stage' = "unlocked" /\ work' = NoWork /\ accel' = accel
      /\ shared' = SharedReleased /\ strong' = Released(M)
  BY Zenon DEF Fails
<1>2. M \subseteq Devices
  BY <1>0, Elements DEF Typed, ElementsOf
<1>3. AccelMoves({}, P)
  <2>1. ASSUME NEW a \in Accelerators, NEW k \in {"driver", "infos", "executor", "loaders", "heap"}
        PROVE  <<k, a>> \in P <=> <<k, a>> \in puts
    BY Zenon DEF DeviceHandles, SharedPuts
  <2> HIDE DEF P
  <2> QED BY <2>1, Zenon DEF InHand, AccelMoves, Moves
<1>4. DeviceMoves({}, P)
  <2> SUFFICES ASSUME NEW d \in Devices
               PROVE  /\ Moves(<<"hal_device", d>>, {}, P, OwnsHal(d), OwnsHal(d)')
                      /\ Moves(<<"tracker", d>>, {}, P, OwnsTracker(d), OwnsTracker(d)')
                      /\ Moves(<<"group", d>>, {}, P, OwnsGroup(d), OwnsGroup(d)')
                      /\ Moves(<<"allocator", d>>, {}, P, OwnsAllocator(d), OwnsAllocator(d)')
    BY Zenon DEF DeviceMoves
  <2>1. strong[d] \in Nat /\ (d \in M => strong[d] > 0)
    BY <1>0, StrongKnown, Zenon
  <2>2. strong'[d] = IF d \in M THEN strong[d] - 1 ELSE strong[d]
    BY <1>1, Zenon DEF Released
  <2>3. d \in Dropped(M) <=> strong[d] > 0 /\ ~(strong'[d] > 0)
    BY <2>1, <2>2 DEF Dropped
  <2>4. /\ <<"hal_device", d>> \in P <=> <<"hal_device", d>> \in puts \/ d \in Dropped(M)
        /\ <<"group", d>> \in P <=> <<"group", d>> \in puts \/ d \in Dropped(M)
        /\ <<"allocator", d>> \in P <=> <<"allocator", d>> \in puts \/ d \in Dropped(M)
        /\ <<"tracker", d>> \in P <=> <<"tracker", d>> \in puts
    BY Zenon DEF DeviceHandles, SharedPuts
  <2>5. work.building = d /\ stage \in {"tracker", "group", "wrap"} => strong[d] = 0 /\ d \notin M
    BY <1>0, <2>1 DEF Shape
  <2>6. ~(strong[d] > 0) => ~(strong'[d] > 0)
    BY <2>1, <2>2, Zenon
  <2> HIDE DEF P, M
  <2> QED BY <1>1, <2>1, <2>3, <2>4, <2>5, <2>6
          DEF Moves, InHand, OwnsHal, OwnsTracker, OwnsGroup, OwnsAllocator
<1>5. ObjectMoves({}, P)
  <2> SUFFICES ASSUME NEW o \in Objects
               PROVE  /\ Moves(<<"instance", o>>, {}, P, OwnsInstance(o), OwnsInstance(o)')
                      /\ Moves(<<"pool", o>>, {}, P, OwnsPool(o), OwnsPool(o)')
    BY Zenon DEF ObjectMoves
  <2>1. shared.initialized
    BY <1>0, CountKnown, Zenon DEF Counted, StepStages
  <2>2. /\ <<"instance", o>> \in P <=> LastInit /\ shared.vm_instance = o
        /\ <<"pool", o>> \in P <=> LastInit /\ shared.proactor_pool = o
    BY Kinds, Zenon DEF DeviceHandles, SharedPuts, InHand
  <2>3. /\ shared'.vm_instance = IF LastInit THEN NoObject ELSE shared.vm_instance
        /\ shared'.proactor_pool = IF LastInit THEN NoObject ELSE shared.proactor_pool
    BY <1>0, <1>1, <2>1, Zenon DEF SharedReleased, Typed
  <2>4. o # NoObject
    BY RuntimeConstants, Zenon DEF RuntimeConstants
  <2>5. stage # "types" /\ stage' # "types"
    BY <1>1, Zenon DEF StepStages, SharedStages
  <2> HIDE DEF P
  <2> QED BY <2>2, <2>3, <2>4, <2>5, Zenon DEF Moves, OwnsInstance, OwnsPool
<1> HIDE DEF P, M
<1> QED BY <1>0, <1>1, <1>3, <1>4, <1>5, Accounts, Zenon DEF Typed

\* A failure branch preserves the inductive invariant.
LEMMA FailsStep ==
    ASSUME IInv, stage \in StepStages \ {"wrap"}, NEW puts, InHand(puts), Fails(puts)
    PROVE  IInv'
<1> DEFINE M == ElementsOf(work.made)
<1>0. /\ Typed /\ Shape /\ InitCountExact /\ StrongCountExact /\ Apart /\ ClientsCurrent
      /\ PoolsCurrent
  BY Zenon DEF IInv
<1>1. /\ stage' = "unlocked" /\ work' = NoWork /\ shared' = SharedReleased
      /\ strong' = Released(M) /\ dev' = Freed(M)
      /\ UNCHANGED <<accel, POOL_FOR_DEVICE, borrowed, owned, snap>>
  BY Zenon DEF Fails, clientVars
<1>2. held' \in [Handles -> Int] /\ Accounted'
  BY FailsAccounts, Zenon
<1>3. Counted /\ shared.initialized /\ shared.init_count > 0
  BY <1>0, CountKnown, Zenon DEF Counted, StepStages
<1>4. /\ LastInit => shared' = [initialized |-> FALSE, init_count |-> shared.init_count - 1,
                                vm_instance |-> NoObject, proactor_pool |-> NoObject]
      /\ ~LastInit => shared' = [shared EXCEPT !.init_count = shared.init_count - 1]
  BY <1>1, <1>3, Zenon DEF SharedReleased
<1>5. ElementsOf(work'.made) = {} /\ work'.made = <<>> /\ work'.acc = "cpu"
  BY <1>1 DEF NoWork, ElementsOf
<1>a. /\ shared'.init_count = shared.init_count - 1
      /\ shared'.initialized <=> ~LastInit
      /\ shared'.vm_instance = IF LastInit THEN NoObject ELSE shared.vm_instance
      /\ shared'.proactor_pool = IF LastInit THEN NoObject ELSE shared.proactor_pool
  <2>1. CASE LastInit
    BY <1>4, <2>1
  <2>2. CASE ~LastInit
    BY <1>0, <1>3, <1>4, <2>2, Zenon DEF Typed
  <2> QED BY <2>1, <2>2, Zenon
<1>6. Typed'
  <2>1. work' \in [acc : Accelerators, infos : Seq(BOOLEAN), index : Nat \ {0},
                   made : Seq(Devices), building : Pointer(Devices \cup Objects)]
    BY <1>1 DEF NoWork, Accelerators, Pointer
  <2>2. shared' \in [initialized : BOOLEAN, init_count : Int,
                     vm_instance : Pointer(Objects), proactor_pool : Pointer(Objects)]
    <3>1. shared.init_count - 1 \in Int
      BY <1>0 DEF Typed
    <3>2. CASE LastInit
      <4>1. NoObject \in Pointer(Objects)
        BY Zenon DEF Pointer
      <4>2. shared' = [initialized |-> FALSE, init_count |-> shared.init_count - 1,
                       vm_instance |-> NoObject, proactor_pool |-> NoObject]
        BY <1>4, <3>2, Zenon
      <4> HIDE DEF Pointer
      <4> QED BY <3>1, <4>1, <4>2, Zenon
    <3>3. CASE ~LastInit
      BY <1>0, <1>4, <3>1, <3>3, Zenon DEF Typed
    <3> QED BY <3>2, <3>3, Zenon
  <2>3. strong' \in [Devices -> Int]
    BY <1>0, <1>1 DEF Typed, Released
  <2>4. dev' \in [Devices -> [acc : Accelerators, ordinal : Nat, pool : Pointer(Objects), info : Nat]]
    <3>1. NoDev \in [acc : Accelerators, ordinal : Nat, pool : Pointer(Objects), info : Nat]
      BY Zenon DEF NoDev, Accelerators, Pointer
    <3> QED BY <1>0, <1>1, <3>1, Zenon DEF Typed, Freed
  <2> QED BY <1>0, <1>1, <1>2, <2>1, <2>2, <2>3, <2>4, Zenon DEF Typed, Stages
<1>7. Shape'
  BY <1>0, <1>1, <1>3, <1>a, <1>5, Zenon DEF Shape, SharedStages, CpuStages, GpuStages
<1>8. InitCountExact'
  <2>1. ~Counted' /\ (LastInit <=> shared.init_count <= 1)
    BY <1>1, <1>3, Zenon DEF Counted, LastInit
  <2>2. shared.init_count \in Int
    BY <1>0, Zenon DEF Typed
  <2>3. shared.init_count = One(accel["cpu"].initialized) + One(accel["gpu"].initialized) + 1
    BY <1>0, <1>3, Zenon DEF InitCountExact, One
  <2>4. /\ shared'.init_count = One(accel'["cpu"].initialized) + One(accel'["gpu"].initialized) + One(Counted')
        /\ shared'.initialized <=> shared'.init_count > 0
    BY <1>1, <1>a, <2>1, <2>2, <2>3 DEF One
  <2> QED BY <2>4, Zenon DEF InitCountExact
<1>9. StrongCountExact'
  <2> SUFFICES ASSUME NEW d \in Devices
               PROVE  strong'[d] = One(InTable(d)') + One(d \in ElementsOf(work'.made))
                                   + Cardinality({c \in Clients : d \in owned'[c]})
    BY Zenon DEF StrongCountExact
  <2> DEFINE n == Cardinality({c \in Clients : d \in owned[c]})
  <2>1. n \in Nat /\ Cardinality({c \in Clients : d \in owned'[c]}) = n
    BY <1>1, Holders, Zenon
  <2>2. strong[d] = One(InTable(d)) + One(d \in M) + n
    BY <1>0, Zenon DEF StrongCountExact
  <2>3. strong'[d] = IF d \in M THEN strong[d] - 1 ELSE strong[d]
    BY <1>1, Zenon DEF Released
  <2>4. InTable(d)' <=> InTable(d)
    BY <1>1, Zenon DEF InTable
  <2> HIDE DEF n, M
  <2> QED BY <1>5, <2>1, <2>2, <2>3, <2>4 DEF One
<1>10. Apart'
  BY <1>0, <1>1, <1>5, Zenon DEF Apart
<1>11. ClientsCurrent'
  <2>1. \A c \in Clients : snap[c].up # {} => ~LastInit
    BY <1>0, <1>3, CountKnown, Zenon DEF ClientsCurrent, Up
  <2>2. ~LastInit => shared'.vm_instance = shared.vm_instance /\ shared'.proactor_pool = shared.proactor_pool
    BY <1>0, <1>4, Zenon DEF Typed
  <2> QED BY <1>0, <1>1, <2>1, <2>2 DEF ClientsCurrent, InTable, Up
<1>12. PoolsCurrent'
  <2>1. ASSUME NEW a \in Accelerators, NEW d \in ElementsOf(accel[a].devices)
        PROVE  dev'[d].acc = a /\ dev'[d].pool = shared'.proactor_pool
    <3>1. d \in Devices /\ d \notin M
      <4>1. accel[a].devices \in Seq(Devices)
        BY <1>0, Zenon DEF Typed
      <4>2. d \in Devices
        BY <2>1, <4>1 DEF ElementsOf
      <4> QED BY <1>0, <4>2, Zenon DEF Apart, InTable
    <3>2. dev'[d] = dev[d]
      BY <1>1, <3>1, Zenon DEF Freed, Dropped
    <3>3. accel[a].initialized
      BY <1>0, <2>1 DEF Shape, ElementsOf
    <3>4. ~LastInit
      BY <1>0, <1>3, <3>3, CountKnown, Zenon
    <3> QED BY <1>0, <1>4, <2>1, <3>2, <3>4 DEF PoolsCurrent, Typed
  <2> QED BY <1>1, <1>5, <2>1, Zenon DEF PoolsCurrent, DeviceStages
<1> QED BY <1>2, <1>6, <1>7, <1>8, <1>9, <1>10, <1>11, <1>12 DEF IInv

(***************************************************************************)
(* A device is complete, and the list is published.                        *)
(***************************************************************************)

\* Wrapping the HAL objects makes the list of the initialization own the device.
LEMMA WrapStep == IInv /\ WrapDevice => IInv'
<1> SUFFICES ASSUME IInv, WrapDevice PROVE IInv'
  BY Zenon
<1> DEFINE b == work.building
           G == {<<"allocator", b>>}
<1>0. /\ Typed /\ Shape /\ InitCountExact /\ StrongCountExact /\ Apart /\ ClientsCurrent
      /\ PoolsCurrent /\ Accounted
  BY Zenon DEF IInv
<1>1. /\ stage = "wrap" /\ stage' = (IF work.acc = "cpu" THEN "publish" ELSE "scan")
      /\ held' = Ledger(G, {}) /\ strong' = [strong EXCEPT ![b] = 1]
      /\ dev' = [dev EXCEPT ![b] = [acc |-> work.acc, ordinal |-> Len(work.made),
                                    pool |-> PoolOfDevice, info |-> work.index]]
      /\ work' = [work EXCEPT !.made = Append(work.made, b), !.index = work.index + 1,
                              !.building = NoObject]
      /\ UNCHANGED <<shared, accel, POOL_FOR_DEVICE, borrowed, owned, snap>>
  BY <1>0, Zenon DEF WrapDevice, Succeeds, clientVars, Typed
<1>2. b \in Devices /\ strong[b] = 0 /\ b # NoObject
  BY <1>0, <1>1, RuntimeConstants, Zenon DEF Shape, RuntimeConstants
<1>3. ~InTable(b) /\ b \notin ElementsOf(work.made) /\ \A c \in Clients : b \notin owned[c]
  BY <1>0, <1>2, StrongKnown
<1>4. /\ work'.acc = work.acc /\ work'.building = NoObject
      /\ work'.made = Append(work.made, b)
      /\ ElementsOf(work'.made) = ElementsOf(work.made) \cup {b}
  BY <1>0, <1>1, <1>2, Elements DEF Typed
<1>5. AccelMoves(G, {})
  <2>1. ASSUME NEW a \in Accelerators, NEW k \in {"driver", "infos", "executor", "loaders", "heap"}
        PROVE  <<k, a>> \notin G
    BY Zenon
  <2> HIDE DEF G
  <2> QED BY <1>0, <1>1, <1>4, <2>1, Zenon
          DEF Typed, Accelerators, AccelMoves, Moves, OwnsDriver, OwnsInfos, OwnsExecutor,
              OwnsLoaders, OwnsHeap, DeviceStages
<1>6. DeviceMoves(G, {})
  <2> SUFFICES ASSUME NEW d \in Devices
               PROVE  /\ Moves(<<"hal_device", d>>, G, {}, OwnsHal(d), OwnsHal(d)')
                      /\ Moves(<<"tracker", d>>, G, {}, OwnsTracker(d), OwnsTracker(d)')
                      /\ Moves(<<"group", d>>, G, {}, OwnsGroup(d), OwnsGroup(d)')
                      /\ Moves(<<"allocator", d>>, G, {}, OwnsAllocator(d), OwnsAllocator(d)')
    BY Zenon DEF DeviceMoves
  <2>1. strong'[d] = IF d = b THEN 1 ELSE strong[d]
    BY <1>0, <1>1, <1>2, Zenon DEF Typed
  <2>2. /\ <<"hal_device", d>> \notin G /\ <<"tracker", d>> \notin G /\ <<"group", d>> \notin G
        /\ <<"allocator", d>> \in G <=> d = b
    BY Zenon
  <2>3. stage' \notin {"tracker", "group", "wrap"}
    BY <1>1, Zenon
  <2> HIDE DEF G
  <2> QED BY <1>1, <1>2, <2>1, <2>2, <2>3
          DEF Moves, OwnsHal, OwnsTracker, OwnsGroup, OwnsAllocator
<1>7. ObjectMoves(G, {})
  <2>1. ASSUME NEW o \in Objects PROVE <<"instance", o>> \notin G /\ <<"pool", o>> \notin G
    BY Zenon
  <2> HIDE DEF G
  <2> QED BY <1>1, <2>1, Zenon DEF ObjectMoves, Moves, OwnsInstance, OwnsPool
<1>8. held' \in [Handles -> Int] /\ Accounted'
  <2> HIDE DEF G
  <2> QED BY <1>0, <1>1, <1>5, <1>6, <1>7, Accounts, Zenon DEF Typed
<1>9. PoolOfDevice = shared.proactor_pool
  BY <1>0, <1>1, Zenon DEF PoolOfDevice, PoolsCurrent, DeviceStages
<1>10. Typed'
  <2>1. /\ work.index + 1 \in Nat \ {0} /\ work.index \in Nat /\ Append(work.made, b) \in Seq(Devices)
        /\ Len(work.made) \in Nat /\ work.acc \in Accelerators /\ PoolOfDevice \in Pointer(Objects)
    BY <1>0, <1>2, <1>9 DEF Typed
  <2>2. work' \in [acc : Accelerators, infos : Seq(BOOLEAN), index : Nat \ {0},
                   made : Seq(Devices), building : Pointer(Devices \cup Objects)]
    BY <1>0, <1>1, <2>1, Zenon DEF Typed, Pointer
  <2>3. dev' \in [Devices -> [acc : Accelerators, ordinal : Nat, pool : Pointer(Objects), info : Nat]]
    <3>1. [acc |-> work.acc, ordinal |-> Len(work.made), pool |-> PoolOfDevice, info |-> work.index]
             \in [acc : Accelerators, ordinal : Nat, pool : Pointer(Objects), info : Nat]
      BY <2>1, Zenon
    <3> QED BY <1>0, <1>1, <3>1, Zenon DEF Typed
  <2>4. strong' \in [Devices -> Int]
    <3>1. strong \in [Devices -> Int]
      BY <1>0, Zenon DEF Typed
    <3>2. strong' = [d \in Devices |-> IF d = b THEN 1 ELSE strong[d]]
      BY <1>1, <3>1, Zenon
    <3>3. \A d \in Devices : (IF d = b THEN 1 ELSE strong[d]) \in Int
      BY <3>1
    <3> QED BY <3>2, <3>3, Zenon
  <2> QED BY <1>0, <1>1, <1>8, <2>2, <2>3, <2>4, Zenon DEF Typed, Stages, CpuStages, GpuStages
<1>11. Shape'
  BY <1>0, <1>1, <1>4, Zenon DEF Shape, Typed, Accelerators, SharedStages, CpuStages, GpuStages
<1>12. InitCountExact'
  BY <1>0, <1>1, Zenon DEF InitCountExact, Counted, SharedStages
<1>13. StrongCountExact'
  <2> SUFFICES ASSUME NEW d \in Devices
               PROVE  strong'[d] = One(InTable(d)') + One(d \in ElementsOf(work'.made))
                                   + Cardinality({c \in Clients : d \in owned'[c]})
    BY Zenon DEF StrongCountExact
  <2>1. strong'[d] = IF d = b THEN 1 ELSE strong[d]
    BY <1>0, <1>1, <1>2, Zenon DEF Typed
  <2>2. InTable(d)' <=> InTable(d)
    BY <1>1, Zenon DEF InTable
  <2>3. Cardinality({c \in Clients : d \in owned'[c]}) = Cardinality({c \in Clients : d \in owned[c]})
    BY <1>1, Zenon
  <2>4. strong[d] = One(InTable(d)) + One(d \in ElementsOf(work.made))
                    + Cardinality({c \in Clients : d \in owned[c]})
    BY <1>0, Zenon DEF StrongCountExact
  <2>5. Cardinality({c \in Clients : d \in owned[c]}) \in Nat
    BY Holders, Zenon
  <2> QED BY <1>2, <1>3, <1>4, <2>1, <2>2, <2>3, <2>4, <2>5 DEF One
<1>14. Apart'
  BY <1>0, <1>1, <1>3, <1>4, Zenon DEF Apart, InTable
<1>15. ClientsCurrent'
  BY <1>0, <1>1, Zenon DEF ClientsCurrent, InTable, Up
<1>16. PoolsCurrent'
  <2>1. \A d \in Devices \ {b} : dev'[d] = dev[d]
    BY <1>0, <1>1, Zenon DEF Typed
  <2>2. dev'[b].acc = work.acc /\ dev'[b].pool = shared.proactor_pool
    BY <1>0, <1>1, <1>2, <1>9, Zenon DEF Typed
  <2>3. \A a \in Accelerators : ElementsOf(accel[a].devices) \subseteq Devices \ {b}
    <3>1. \A a \in Accelerators : accel[a].devices \in Seq(Devices)
      BY <1>0, Zenon DEF Typed
    <3> QED BY <1>3, <3>1 DEF InTable, ElementsOf
  <2>4. ElementsOf(work.made) \subseteq Devices \ {b}
    <3>1. work.made \in Seq(Devices)
      BY <1>0, Zenon DEF Typed
    <3> QED BY <1>3, <3>1 DEF ElementsOf
  <2>5. ASSUME NEW a \in Accelerators, NEW d \in ElementsOf(accel'[a].devices)
        PROVE  dev'[d].acc = a /\ dev'[d].pool = shared'.proactor_pool
    BY <1>0, <1>1, <2>1, <2>3, <2>5 DEF PoolsCurrent
  <2>6. ASSUME NEW d \in ElementsOf(work'.made)
        PROVE  dev'[d].acc = work'.acc /\ dev'[d].pool = shared'.proactor_pool
    BY <1>0, <1>1, <1>4, <2>1, <2>2, <2>4, <2>6 DEF PoolsCurrent
  <2>7. stage' \notin {"executor", "loaders", "heap", "task_driver"} \cup DeviceStages
    BY <1>1, Zenon DEF DeviceStages
  <2> QED BY <2>5, <2>6, <2>7, Zenon DEF PoolsCurrent
<1> QED BY <1>8, <1>10, <1>11, <1>12, <1>13, <1>14, <1>15, <1>16, Zenon DEF IInv

\* Publishing hands the list over to the device table of the accelerator.
LEMMA PublishStep == IInv /\ Publish => IInv'
<1> SUFFICES ASSUME IInv, Publish PROVE IInv'
  BY Zenon
<1> DEFINE a0 == work.acc
           P == IF a0 = "gpu" THEN {Infos} ELSE {}
<1>0. /\ Typed /\ Shape /\ InitCountExact /\ StrongCountExact /\ Apart /\ ClientsCurrent
      /\ PoolsCurrent /\ Accounted
  BY Zenon DEF IInv
<1>1. /\ stage \in {"publish", "scan"} /\ stage' = "unlocked"
      /\ held' = Ledger({}, P) /\ work' = NoWork
      /\ accel' = [accel EXCEPT ![a0] = [initialized |-> TRUE, devices |-> work.made,
                                         device_count |-> Len(work.made), infos |-> work.infos]]
      /\ UNCHANGED <<shared, POOL_FOR_DEVICE, dev, strong, borrowed, owned, snap>>
  BY Zenon DEF Publish, Succeeds, clientVars
<1>2. a0 \in Accelerators /\ ~accel[a0].initialized /\ accel[a0].devices = <<>>
      /\ (stage = "publish" => a0 = "cpu") /\ (stage = "scan" => a0 = "gpu")
  BY <1>0, <1>1, Zenon DEF Typed, Shape, CpuStages, GpuStages
<1>3. ElementsOf(work'.made) = {} /\ work'.made = <<>> /\ ElementsOf(accel[a0].devices) = {}
  BY <1>1, <1>2 DEF NoWork, ElementsOf
<1>4. /\ accel'[a0].initialized /\ accel'[a0].devices = work.made
      /\ accel'[a0].device_count = Len(work.made)
      /\ \A a \in Accelerators \ {a0} : accel'[a] = accel[a]
  BY <1>0, <1>1, <1>2, Zenon DEF Typed
<1>5. \A d : InTable(d)' <=> InTable(d) \/ d \in ElementsOf(work.made)
  BY <1>2, <1>3, <1>4, Zenon DEF InTable
<1>6. AccelMoves({}, P)
  <2>1. /\ stage' \notin {"loaders", "heap", "task_driver", "query", "count", "scan", "publish"} \cup DeviceStages
        /\ stage \notin {"loaders", "heap", "task_driver", "query", "count"} \cup DeviceStages
    BY <1>1, Zenon DEF DeviceStages
  <2>2. ASSUME NEW a \in Accelerators
        PROVE  /\ OwnsDriver(a)' <=> OwnsDriver(a)
               /\ OwnsInfos(a) <=> a = "gpu" /\ a0 = "gpu"
               /\ ~OwnsInfos(a)' /\ ~OwnsExecutor(a) /\ ~OwnsExecutor(a)' /\ ~OwnsLoaders(a)
               /\ ~OwnsLoaders(a)' /\ ~OwnsHeap(a) /\ ~OwnsHeap(a)'
    <3>1. OwnsDriver(a)' <=> OwnsDriver(a)
      BY <1>1, <1>2, <1>4, <2>1, Zenon DEF OwnsDriver
    <3> QED BY <1>1, <1>2, <2>1, <3>1, Zenon DEF OwnsInfos, OwnsExecutor, OwnsLoaders, OwnsHeap
  <2>3. ASSUME NEW a \in Accelerators
        PROVE  /\ <<"driver", a>> \notin P /\ <<"executor", a>> \notin P /\ <<"loaders", a>> \notin P
               /\ <<"heap", a>> \notin P /\ (<<"infos", a>> \in P <=> a = "gpu" /\ a0 = "gpu")
    BY Zenon DEF Infos
  <2> HIDE DEF P, a0
  <2> QED BY <2>2, <2>3, Zenon DEF AccelMoves, Moves
<1>7. DeviceMoves({}, P)
  <2>1. ASSUME NEW d \in Devices, NEW k \in {"hal_device", "tracker", "group", "allocator"}
        PROVE  <<k, d>> \notin P
    BY Zenon DEF Infos
  <2> HIDE DEF P, a0
  <2> QED BY <1>1, <2>1, Zenon DEF DeviceMoves, Moves, OwnsHal, OwnsTracker, OwnsGroup, OwnsAllocator
<1>8. ObjectMoves({}, P)
  <2>1. ASSUME NEW o \in Objects PROVE <<"instance", o>> \notin P /\ <<"pool", o>> \notin P
    BY Zenon DEF Infos
  <2> HIDE DEF P, a0
  <2> QED BY <1>1, <2>1, Zenon DEF ObjectMoves, Moves, OwnsInstance, OwnsPool
<1>9. held' \in [Handles -> Int] /\ Accounted'
  <2> HIDE DEF P, a0
  <2> QED BY <1>0, <1>1, <1>6, <1>7, <1>8, Accounts DEF Typed
<1>10. Typed'
  <2>1. NoWork \in [acc : Accelerators, infos : Seq(BOOLEAN), index : Nat \ {0},
                    made : Seq(Devices), building : Pointer(Devices \cup Objects)]
    BY DEF NoWork, Accelerators, Pointer
  <2>2. [initialized |-> TRUE, devices |-> work.made, device_count |-> Len(work.made),
         infos |-> work.infos]
           \in [initialized : BOOLEAN, devices : Seq(Devices), device_count : Nat, infos : Seq(BOOLEAN)]
    BY <1>0 DEF Typed
  <2>3. accel' \in [Accelerators -> [initialized : BOOLEAN, devices : Seq(Devices),
                                     device_count : Nat, infos : Seq(BOOLEAN)]]
    BY <1>0, <1>1, <1>2, <2>2, Zenon DEF Typed
  <2> QED BY <1>0, <1>1, <1>9, <2>1, <2>3, Zenon DEF Typed, Stages
<1>11. Shape'
  <2>1. \A a \in Accelerators : /\ accel'[a].device_count = Len(accel'[a].devices)
                                /\ ~accel'[a].initialized => accel'[a].devices = <<>>
    BY <1>0, <1>4 DEF Shape
  <2> QED BY <1>0, <1>1, <1>3, <2>1, Zenon DEF Shape, SharedStages, CpuStages, GpuStages
<1>12. InitCountExact'
  BY <1>0, <1>1, <1>2, <1>4 DEF InitCountExact, Counted, SharedStages, One, Accelerators
<1>13. StrongCountExact'
  <2> SUFFICES ASSUME NEW d \in Devices
               PROVE  strong'[d] = One(InTable(d)') + One(d \in ElementsOf(work'.made))
                                   + Cardinality({c \in Clients : d \in owned'[c]})
    BY Zenon DEF StrongCountExact
  <2>1. strong[d] = One(InTable(d)) + One(d \in ElementsOf(work.made))
                    + Cardinality({c \in Clients : d \in owned[c]})
    BY <1>0, Zenon DEF StrongCountExact
  <2>2. Cardinality({c \in Clients : d \in owned[c]}) \in Nat
    BY Holders, Zenon
  <2>3. ~(InTable(d) /\ d \in ElementsOf(work.made))
    BY <1>0, Zenon DEF Apart
  <2> QED BY <1>1, <1>3, <1>5, <2>1, <2>2, <2>3 DEF One
<1>14. Apart'
  BY <1>0, <1>2, <1>3, <1>4, Zenon DEF Apart, InTable, Accelerators
<1>15. ClientsCurrent'
  BY <1>0, <1>1, <1>4, <1>5 DEF ClientsCurrent, Up
<1>16. PoolsCurrent'
  <2>1. stage' \notin {"executor", "loaders", "heap", "task_driver"} \cup DeviceStages
    BY <1>1, Zenon DEF DeviceStages
  <2> QED BY <1>0, <1>1, <1>3, <1>4, <2>1 DEF PoolsCurrent
<1> QED BY <1>9, <1>10, <1>11, <1>12, <1>13, <1>14, <1>15, <1>16, Zenon DEF IInv

(***************************************************************************)
(* The shared state comes and goes with its first and last user.           *)
(***************************************************************************)
SharedHandles == {"instance", "pool"} \X Objects

\* Before there is a shared state, no accelerator is up and no device is listed.
LEMMA NobodyUp ==
    ASSUME IInv, ~shared.initialized, stage \in {"unlocked"} \cup SharedStages
    PROVE  /\ \A a \in Accelerators : ~accel[a].initialized /\ ElementsOf(accel[a].devices) = {}
           /\ ElementsOf(work.made) = {}
           /\ \A c \in Clients : snap[c].up = {}
           /\ shared.init_count = 0
<1>1. Typed /\ Shape /\ InitCountExact /\ ClientsCurrent
  BY Zenon DEF IInv
<1>2. \A a \in Accelerators : ~accel[a].initialized
  BY <1>1, CountKnown, Zenon
<1>3. ElementsOf(<<>>) = {}
  BY DEF ElementsOf
<1>4. shared.init_count = 0
  <2>1. ~Counted
    BY Zenon DEF Counted
  <2> QED BY <1>1, <1>2, <2>1 DEF InitCountExact, One, Accelerators
<1> QED BY <1>1, <1>2, <1>3, <1>4, Zenon DEF Shape, ClientsCurrent, Up

\* A step of ensure_shared_state, or the initialization's first step.
LEMMA SharedStep ==
    ASSUME IInv, ~shared.initialized, stage \in {"unlocked"} \cup SharedStages,
           UNCHANGED <<accel, POOL_FOR_DEVICE, dev, strong, clientVars>>,
           NEW G \in SUBSET SharedHandles, NEW P \in SUBSET SharedHandles, held' = Ledger(G, P),
           ObjectMoves(G, P), stage' \in {"unlocked", "store_pool", "register"} \cup SharedStages,
           shared' \in [initialized : BOOLEAN, init_count : Int,
                        vm_instance : Pointer(Objects), proactor_pool : Pointer(Objects)],
           work' \in [acc : Accelerators, infos : Seq(BOOLEAN), index : Nat \ {0},
                      made : Seq(Devices), building : Pointer(Devices \cup Objects)],
           work'.made = <<>>, Shape', InitCountExact'
    PROVE  IInv'
<1>0. Typed /\ Shape /\ StrongCountExact /\ Apart /\ ClientsCurrent /\ Accounted
  BY Zenon DEF IInv
<1>1. /\ \A a \in Accelerators : ~accel[a].initialized /\ ElementsOf(accel[a].devices) = {}
      /\ ElementsOf(work.made) = {}
      /\ \A c \in Clients : snap[c].up = {}
  BY NobodyUp, Zenon
<1>2. ElementsOf(work'.made) = {}
  BY DEF ElementsOf
<1>3. /\ stage \notin {"loaders", "heap", "task_driver", "query", "count", "scan", "publish"} \cup DeviceStages
      /\ stage' \notin {"loaders", "heap", "task_driver", "query", "count", "scan", "publish"} \cup DeviceStages
  BY Zenon DEF SharedStages, DeviceStages
<1>4. AccelMoves(G, P)
  <2>1. ASSUME NEW a \in Accelerators
        PROVE  \A k \in {"driver", "infos", "executor", "loaders", "heap"} : <<k, a>> \notin SharedHandles
    BY Zenon DEF SharedHandles
  <2> QED BY <1>3, <2>1, Zenon DEF AccelMoves, Moves, OwnsDriver, OwnsInfos, OwnsExecutor, OwnsLoaders,
                            OwnsHeap
<1>5. DeviceMoves(G, P)
  <2>1. ASSUME NEW d \in Devices
        PROVE  \A k \in {"hal_device", "tracker", "group", "allocator"} : <<k, d>> \notin SharedHandles
    BY Zenon DEF SharedHandles
  <2> QED BY <1>3, <2>1, Zenon DEF DeviceMoves, Moves, OwnsHal, OwnsTracker, OwnsGroup, OwnsAllocator,
                            DeviceStages
<1>6. held' \in [Handles -> Int] /\ Accounted'
  BY <1>0, <1>4, <1>5, Accounts, Zenon DEF Typed
<1>7. Typed'
  BY <1>0, <1>6, Zenon DEF Typed, clientVars, Stages, CpuStages, GpuStages
<1>8. StrongCountExact'
  BY <1>0, <1>1, <1>2, Zenon DEF StrongCountExact, InTable, clientVars
<1>9. Apart'
  BY <1>0, <1>2, Zenon DEF Apart
<1>10. ClientsCurrent'
  BY <1>0, <1>1, Zenon DEF ClientsCurrent, InTable, Up, clientVars
<1>11. PoolsCurrent'
  <2>1. stage' \notin {"executor", "loaders", "heap", "task_driver"} \cup DeviceStages
    BY <1>3, Zenon DEF SharedStages
  <2> QED BY <1>1, <1>2, <2>1, Zenon DEF PoolsCurrent
<1> QED BY <1>6, <1>7, <1>8, <1>9, <1>10, <1>11, Zenon DEF IInv

\* Taking and releasing nothing leaves the ledger as it is.
LEMMA SameLedger ==
    ASSUME held \in [Handles -> Int]
    PROVE  held = Ledger({}, {})
BY DEF Ledger

\* The failure branches of ensure_shared_state.
LEMMA SharedFailsStep ==
    ASSUME IInv, stage \in SharedStages, SharedFails(IF stage = "instance" THEN {}
                                                     ELSE {<<"instance", work.building>>})
    PROVE  IInv'
<1> DEFINE P == IF stage = "instance" THEN {} ELSE {<<"instance", work.building>>}
<1>0. Typed /\ Shape /\ InitCountExact /\ ~shared.initialized
  BY Zenon DEF IInv, Shape
<1>1. /\ stage' = "unlocked" /\ work' = NoWork /\ held' = Ledger({}, P)
      /\ shared' = [shared EXCEPT !.vm_instance = NoObject]
      /\ UNCHANGED <<accel, POOL_FOR_DEVICE, dev, strong, clientVars>>
  BY Zenon DEF SharedFails
<1>2. stage # "instance" => work.building \in Objects
  BY <1>0, Zenon DEF Shape, SharedStages
<1>3. P \in SUBSET SharedHandles
  BY <1>2 DEF SharedHandles
<1>4. /\ shared'.initialized = shared.initialized /\ shared'.init_count = shared.init_count
      /\ shared'.vm_instance = NoObject /\ shared'.proactor_pool = NoObject
      /\ shared.proactor_pool = NoObject
      /\ shared.vm_instance = IF stage = "pool" THEN work.building ELSE NoObject
  BY <1>0, <1>1, Zenon DEF Typed, Shape
<1>5. ObjectMoves({}, P)
  <2> SUFFICES ASSUME NEW o \in Objects
               PROVE  /\ Moves(<<"instance", o>>, {}, P, OwnsInstance(o), OwnsInstance(o)')
                      /\ Moves(<<"pool", o>>, {}, P, OwnsPool(o), OwnsPool(o)')
    BY Zenon DEF ObjectMoves
  <2>1. /\ <<"pool", o>> \notin P
        /\ <<"instance", o>> \in P <=> stage # "instance" /\ work.building = o
    BY Zenon
  <2>2. o # NoObject /\ stage \in {"instance", "types", "pool"}
    BY RuntimeConstants, Zenon DEF RuntimeConstants, SharedStages
  <2> HIDE DEF P
  <2> QED BY <1>1, <1>4, <2>1, <2>2, Zenon DEF Moves, OwnsInstance, OwnsPool
<1>6. shared' \in [initialized : BOOLEAN, init_count : Int,
                   vm_instance : Pointer(Objects), proactor_pool : Pointer(Objects)]
  BY <1>0, <1>1, Zenon DEF Typed, Pointer
<1>7. work' \in [acc : Accelerators, infos : Seq(BOOLEAN), index : Nat \ {0},
                 made : Seq(Devices), building : Pointer(Devices \cup Objects)] /\ work'.made = <<>>
  BY <1>1 DEF NoWork, Pointer, Accelerators
<1>8. Shape'
  BY <1>0, <1>1, <1>4, <1>7, Zenon DEF Shape, SharedStages, CpuStages, GpuStages
<1>9. InitCountExact'
  BY <1>0, <1>1, <1>4, Zenon DEF InitCountExact, Counted, SharedStages
<1> HIDE DEF P
<1> QED BY <1>0, <1>1, <1>3, <1>5, <1>6, <1>7, <1>8, <1>9, SharedStep, Zenon

\* The instance is created at an address nobody refers to.
LEMMA InstanceStep ==
    ASSUME IInv, stage = "instance", NEW o \in Objects,
           Succeeds("types", {<<"instance", o>>}, {}), work' = [work EXCEPT !.building = o],
           UNCHANGED <<shared, accel, POOL_FOR_DEVICE, dev, strong, clientVars>>
    PROVE  IInv'
<1>0. Typed /\ Shape /\ InitCountExact /\ ~shared.initialized
  BY Zenon DEF IInv, Shape, SharedStages
<1>1. stage' = "types" /\ held' = Ledger({<<"instance", o>>}, {})
  BY Zenon DEF Succeeds
<1>2. /\ work' \in [acc : Accelerators, infos : Seq(BOOLEAN), index : Nat \ {0},
                    made : Seq(Devices), building : Pointer(Devices \cup Objects)]
      /\ work'.building = o /\ work'.acc = work.acc /\ work'.made = <<>>
  BY <1>0, Zenon DEF Typed, Shape, Pointer, SharedStages
<1>3. shared.vm_instance = NoObject /\ shared.proactor_pool = NoObject
  BY <1>0, Zenon DEF Shape
<1>4. ObjectMoves({<<"instance", o>>}, {})
  <2> SUFFICES ASSUME NEW x \in Objects
               PROVE  /\ Moves(<<"instance", x>>, {<<"instance", o>>}, {}, OwnsInstance(x), OwnsInstance(x)')
                      /\ Moves(<<"pool", x>>, {<<"instance", o>>}, {}, OwnsPool(x), OwnsPool(x)')
    BY Zenon DEF ObjectMoves
  <2>1. x # NoObject
    BY RuntimeConstants, Zenon DEF RuntimeConstants
  <2> QED BY <1>1, <1>2, <1>3, <2>1, Zenon DEF Moves, OwnsInstance, OwnsPool
<1>5. Shape'
  BY <1>0, <1>1, <1>2, <1>3 DEF Shape, SharedStages, CpuStages, GpuStages
<1>6. InitCountExact'
  BY <1>0, <1>1, Zenon DEF InitCountExact, Counted, SharedStages
<1>7. {<<"instance", o>>} \in SUBSET SharedHandles /\ {} \in SUBSET SharedHandles
  BY DEF SharedHandles
<1>8. /\ stage \in {"unlocked"} \cup SharedStages
      /\ stage' \in {"unlocked", "store_pool", "register"} \cup SharedStages
      /\ shared' \in [initialized : BOOLEAN, init_count : Int,
                      vm_instance : Pointer(Objects), proactor_pool : Pointer(Objects)]
  BY <1>0, <1>1, Zenon DEF Typed, SharedStages
<1> QED BY <1>0, <1>1, <1>2, <1>4, <1>5, <1>6, <1>7, <1>8, SharedStep, Zenon

\* The HAL types are registered: the shared state takes the instance over.
LEMMA TypesStep ==
    ASSUME IInv, stage = "types", Succeeds("pool", {}, {}),
           shared' = [shared EXCEPT !.vm_instance = work.building],
           UNCHANGED <<accel, work, POOL_FOR_DEVICE, dev, strong, clientVars>>
    PROVE  IInv'
<1>0. Typed /\ Shape /\ InitCountExact /\ ~shared.initialized
  BY Zenon DEF IInv, Shape, SharedStages
<1>1. stage' = "pool" /\ held' = Ledger({}, {})
  BY Zenon DEF Succeeds
<1>2. work.building \in Objects /\ work.made = <<>>
  BY <1>0, Zenon DEF Shape, SharedStages
<1>3. /\ shared.vm_instance = NoObject /\ shared.proactor_pool = NoObject
      /\ shared'.vm_instance = work.building /\ shared'.proactor_pool = NoObject
      /\ shared'.initialized = shared.initialized /\ shared'.init_count = shared.init_count
  BY <1>0, Zenon DEF Shape, Typed
<1>4. ObjectMoves({}, {})
  <2> SUFFICES ASSUME NEW x \in Objects
               PROVE  /\ Moves(<<"instance", x>>, {}, {}, OwnsInstance(x), OwnsInstance(x)')
                      /\ Moves(<<"pool", x>>, {}, {}, OwnsPool(x), OwnsPool(x)')
    BY Zenon DEF ObjectMoves
  <2>1. x # NoObject
    BY RuntimeConstants, Zenon DEF RuntimeConstants
  <2> QED BY <1>1, <1>3, <2>1, Zenon DEF Moves, OwnsInstance, OwnsPool
<1>5. Shape'
  BY <1>0, <1>1, <1>2, <1>3, Zenon DEF Shape, SharedStages, CpuStages, GpuStages
<1>6. InitCountExact'
  BY <1>0, <1>1, <1>3, Zenon DEF InitCountExact, Counted, SharedStages
<1>8. /\ stage \in {"unlocked"} \cup SharedStages
      /\ stage' \in {"unlocked", "store_pool", "register"} \cup SharedStages
      /\ {} \in SUBSET SharedHandles
  BY <1>1, Zenon DEF SharedStages
<1>9. shared' \in [initialized : BOOLEAN, init_count : Int,
                   vm_instance : Pointer(Objects), proactor_pool : Pointer(Objects)]
  BY <1>0, <1>2, Zenon DEF Typed, Pointer
<1>10. work' \in [acc : Accelerators, infos : Seq(BOOLEAN), index : Nat \ {0},
                  made : Seq(Devices), building : Pointer(Devices \cup Objects)] /\ work'.made = <<>>
  BY <1>0, <1>2, Zenon DEF Typed
<1> QED BY <1>0, <1>1, <1>4, <1>5, <1>6, <1>8, <1>9, <1>10, SharedStep, Zenon

\* The pool is created: the shared state is initialized, with one user.
LEMMA PoolStep ==
    ASSUME IInv, stage = "pool", Succeeds(FirstStage(work.acc), {<<"pool", work.building>>}, {}),
           shared' = [initialized |-> TRUE, init_count |-> 1,
                      vm_instance |-> work.building, proactor_pool |-> work.building],
           work' = [work EXCEPT !.building = NoObject],
           UNCHANGED <<accel, POOL_FOR_DEVICE, dev, strong, clientVars>>
    PROVE  IInv'
<1> DEFINE b == work.building
<1>0. Typed /\ Shape /\ InitCountExact /\ ~shared.initialized
  BY Zenon DEF IInv, Shape, SharedStages
<1>1. /\ stage' = (IF work.acc = "cpu" THEN "store_pool" ELSE "register")
      /\ held' = Ledger({<<"pool", b>>}, {})
  BY Zenon DEF Succeeds, FirstStage
<1>2. b \in Objects /\ work.made = <<>>
  BY <1>0, Zenon DEF Shape, SharedStages
<1>3. shared.vm_instance = b /\ shared.proactor_pool = NoObject
  BY <1>0, Zenon DEF Shape
<1>4. /\ work' \in [acc : Accelerators, infos : Seq(BOOLEAN), index : Nat \ {0},
                    made : Seq(Devices), building : Pointer(Devices \cup Objects)]
      /\ work'.acc = work.acc /\ work'.made = <<>>
  BY <1>0, <1>2, Zenon DEF Typed, Pointer
<1>5. ObjectMoves({<<"pool", b>>}, {})
  <2> SUFFICES ASSUME NEW x \in Objects
               PROVE  /\ Moves(<<"instance", x>>, {<<"pool", b>>}, {}, OwnsInstance(x), OwnsInstance(x)')
                      /\ Moves(<<"pool", x>>, {<<"pool", b>>}, {}, OwnsPool(x), OwnsPool(x)')
    BY Zenon DEF ObjectMoves
  <2>1. x # NoObject
    BY RuntimeConstants, Zenon DEF RuntimeConstants
  <2>2. stage' # "types"
    BY <1>1, Zenon
  <2>3. shared'.vm_instance = b /\ shared'.proactor_pool = b
    BY Zenon
  <2> HIDE DEF b
  <2> QED BY <1>3, <2>1, <2>2, <2>3 DEF Moves, OwnsInstance, OwnsPool
<1>6. \A a \in Accelerators : ~accel[a].initialized
  BY <1>0, NobodyUp, Zenon DEF SharedStages
<1>7. Shape'
  BY <1>0, <1>1, <1>2, <1>4, <1>6 DEF Shape, Typed, Accelerators, SharedStages, CpuStages, GpuStages
<1>8. InitCountExact'
  BY <1>1, <1>6 DEF InitCountExact, Counted, SharedStages, One, Accelerators
<1>9. {<<"pool", b>>} \in SUBSET SharedHandles /\ {} \in SUBSET SharedHandles
  BY <1>2 DEF SharedHandles
<1>10. /\ stage \in {"unlocked"} \cup SharedStages
       /\ stage' \in {"unlocked", "store_pool", "register"} \cup SharedStages
  BY <1>1, Zenon DEF SharedStages
<1>11. shared' \in [initialized : BOOLEAN, init_count : Int,
                    vm_instance : Pointer(Objects), proactor_pool : Pointer(Objects)]
  BY <1>2 DEF Pointer
<1> HIDE DEF b
<1> QED BY <1>0, <1>1, <1>4, <1>5, <1>7, <1>8, <1>9, <1>10, <1>11, SharedStep, Zenon

\* An initialization starts: it counts itself or creates the shared state.
LEMMA InitializeStep ==
    ASSUME IInv, NEW a \in Accelerators, stage = "unlocked", ~accel[a].initialized,
           ensure_shared_state(a),
           UNCHANGED <<accel, POOL_FOR_DEVICE, dev, strong, held, clientVars>>
    PROVE  IInv'
<1>0. /\ Typed /\ Shape /\ InitCountExact /\ StrongCountExact /\ Apart /\ ClientsCurrent
      /\ PoolsCurrent /\ Accounted
  BY Zenon DEF IInv
<1>1. work' = [acc |-> a, infos |-> <<>>, index |-> 1, made |-> <<>>, building |-> NoObject]
  BY Zenon DEF ensure_shared_state, NoWork
<1>2. /\ work' \in [acc : Accelerators, infos : Seq(BOOLEAN), index : Nat \ {0},
                    made : Seq(Devices), building : Pointer(Devices \cup Objects)]
      /\ work'.acc = a /\ work'.made = <<>> /\ work'.building = NoObject
      /\ ElementsOf(work'.made) = {}
  BY <1>1 DEF Pointer, ElementsOf
<1>3. held' = Ledger({}, {})
  BY <1>0, SameLedger, Zenon DEF Typed
<1>4. CASE ~shared.initialized
  <2>1. shared' = shared /\ stage' = "instance"
    BY <1>4, Zenon DEF ensure_shared_state
  <2>2. ObjectMoves({}, {})
    BY <2>1, Zenon DEF ObjectMoves, Moves, OwnsInstance, OwnsPool
  <2>3. Shape'
    BY <1>0, <1>2, <1>4, <2>1, Zenon DEF Shape, SharedStages, CpuStages, GpuStages
  <2>4. InitCountExact'
    BY <1>0, <2>1, Zenon DEF InitCountExact, Counted, SharedStages
  <2>5. /\ stage \in {"unlocked"} \cup SharedStages /\ {} \in SUBSET SharedHandles
        /\ stage' \in {"unlocked", "store_pool", "register"} \cup SharedStages
        /\ shared' \in [initialized : BOOLEAN, init_count : Int,
                        vm_instance : Pointer(Objects), proactor_pool : Pointer(Objects)]
    BY <1>0, <2>1, Zenon DEF Typed, SharedStages
  <2> QED BY <1>2, <1>3, <1>4, <2>2, <2>3, <2>4, <2>5, SharedStep, Zenon
<1>5. CASE shared.initialized
  <2>1. /\ shared' = [shared EXCEPT !.init_count = shared.init_count + 1]
        /\ stage' = IF a = "cpu" THEN "store_pool" ELSE "register"
    BY <1>5, Zenon DEF ensure_shared_state, FirstStage
  <2>2. /\ shared'.initialized = shared.initialized /\ shared'.init_count = shared.init_count + 1
        /\ shared'.vm_instance = shared.vm_instance /\ shared'.proactor_pool = shared.proactor_pool
        /\ shared' \in [initialized : BOOLEAN, init_count : Int,
                        vm_instance : Pointer(Objects), proactor_pool : Pointer(Objects)]
    <3>1. shared.init_count + 1 \in Int
      BY <1>0 DEF Typed
    <3> QED BY <1>0, <2>1, <3>1, Zenon DEF Typed
  <2>3. AccelMoves({}, {})
    BY <2>1, Zenon DEF AccelMoves, Moves, OwnsDriver, OwnsInfos, OwnsExecutor, OwnsLoaders, OwnsHeap,
                DeviceStages
  <2>4. DeviceMoves({}, {})
    BY <2>1, Zenon DEF DeviceMoves, Moves, OwnsHal, OwnsTracker, OwnsGroup, OwnsAllocator
  <2>5. ObjectMoves({}, {})
    BY <2>1, <2>2, Zenon DEF ObjectMoves, Moves, OwnsInstance, OwnsPool
  <2>6. held' \in [Handles -> Int] /\ Accounted'
    BY <1>0, <1>3, <2>3, <2>4, <2>5, Accounts, Zenon DEF Typed
  <2>7. Typed'
    BY <1>0, <1>2, <2>1, <2>2, <2>6, Zenon DEF Typed, clientVars, Stages, CpuStages, GpuStages
  <2>8. Shape'
    BY <1>0, <1>2, <1>5, <2>1, <2>2 DEF Shape, Accelerators, SharedStages, CpuStages, GpuStages
  <2>9. InitCountExact'
    <3>1. Counted' /\ ~Counted
      BY <2>1, Zenon DEF Counted, SharedStages
    <3>2. shared.init_count \in Int
      BY <1>0, Zenon DEF Typed
    <3> QED BY <1>0, <1>5, <2>2, <3>1, <3>2 DEF InitCountExact, One
  <2>10. StrongCountExact' /\ Apart'
    <3>1. ElementsOf(work.made) = {}
      BY <1>0 DEF Shape, ElementsOf
    <3>2. StrongCountExact'
      BY <1>0, <1>2, <3>1, Zenon DEF StrongCountExact, InTable, clientVars
    <3> QED BY <1>0, <1>2, <3>2, Zenon DEF Apart
  <2>11. ClientsCurrent'
    BY <1>0, <2>2, Zenon DEF ClientsCurrent, InTable, Up, clientVars
  <2>12. PoolsCurrent'
    <3>1. stage' \notin {"executor", "loaders", "heap", "task_driver"} \cup DeviceStages
      BY <2>1, Zenon DEF DeviceStages
    <3> QED BY <1>0, <1>2, <2>2, <3>1 DEF PoolsCurrent
  <2> QED BY <2>6, <2>7, <2>8, <2>9, <2>10, <2>11, <2>12, Zenon DEF IInv
<1> QED BY <1>4, <1>5, Zenon

(***************************************************************************)
(* Shutdown.                                                               *)
(***************************************************************************)

\* A shutdown empties a table and leaves the other accelerator its shared state.
LEMMA ShutdownStep ==
    ASSUME IInv, NEW a \in Accelerators, Shutdown(a)
    PROVE  IInv'
<1> DEFINE M == ElementsOf(accel[a].devices)
           P == DeviceHandles(Dropped(M)) \cup {<<"driver", a>>} \cup SharedPuts
<1>0. /\ Typed /\ Shape /\ InitCountExact /\ StrongCountExact /\ Apart /\ ClientsCurrent
      /\ PoolsCurrent /\ Accounted
  BY Zenon DEF IInv
<1>1. /\ stage = "unlocked" /\ accel[a].initialized /\ shared' = SharedReleased
      /\ strong' = Released(M) /\ dev' = Freed(M) /\ held' = Ledger({}, P)
      /\ accel' = [accel EXCEPT ![a] = NoAccel]
      /\ borrowed' = [c \in Clients |-> IF borrowed[c] \in M THEN NoObject ELSE borrowed[c]]
      /\ snap' = [c \in Clients |-> [snap[c] EXCEPT !.up = snap[c].up \ {a}]]
      /\ UNCHANGED <<stage, work, POOL_FOR_DEVICE, owned>>
  BY Zenon DEF Shutdown
<1>2. shared.initialized /\ shared.init_count > 0 /\ shared.init_count \in Int
  BY <1>0, <1>1, CountKnown, Zenon DEF Typed
<1>3. /\ LastInit => shared' = [initialized |-> FALSE, init_count |-> shared.init_count - 1,
                                vm_instance |-> NoObject, proactor_pool |-> NoObject]
      /\ ~LastInit => shared' = [shared EXCEPT !.init_count = shared.init_count - 1]
  BY <1>1, <1>2, Zenon DEF SharedReleased
<1>4. /\ shared'.init_count = shared.init_count - 1
      /\ shared'.initialized <=> ~LastInit
      /\ shared'.vm_instance = IF LastInit THEN NoObject ELSE shared.vm_instance
      /\ shared'.proactor_pool = IF LastInit THEN NoObject ELSE shared.proactor_pool
  <2>1. CASE LastInit
    BY <1>3, <2>1
  <2>2. CASE ~LastInit
    BY <1>0, <1>2, <1>3, <2>2 DEF Typed
  <2> QED BY <2>1, <2>2, Zenon
<1>5. /\ M \subseteq Devices /\ ElementsOf(work.made) = {}
      /\ \A b \in Accelerators : ElementsOf(accel[b].devices) \subseteq Devices
  <2>1. \A b \in Accelerators : accel[b].devices \in Seq(Devices)
    BY <1>0, Zenon DEF Typed
  <2> QED BY <1>0, <1>1, <2>1 DEF ElementsOf, Shape
<1>6. /\ accel'[a] = NoAccel /\ ~accel'[a].initialized /\ accel'[a].devices = <<>>
      /\ accel'[a].device_count = 0 /\ ElementsOf(accel'[a].devices) = {}
      /\ \A b \in Accelerators \ {a} : accel'[b] = accel[b]
  BY <1>0, <1>1 DEF Typed, NoAccel, ElementsOf
<1>7. \A b \in Accelerators \ {a} : ElementsOf(accel[b].devices) \cap M = {}
  BY <1>0 DEF Apart, Accelerators
<1>8. /\ \A d \in M : InTable(d) /\ ~InTable(d)'
      /\ \A d : d \notin M => (InTable(d)' <=> InTable(d))
  BY <1>6, <1>7, Zenon DEF InTable
<1>9. LastInit => \A b \in Accelerators : ~accel'[b].initialized /\ ElementsOf(accel'[b].devices) = {}
  <2>1. ASSUME LastInit, NEW b \in Accelerators \ {a} PROVE ~accel[b].initialized
    BY <1>0, <1>1, <2>1, CountKnown, Zenon
  <2>2. ElementsOf(<<>>) = {}
    BY DEF ElementsOf
  <2> QED BY <1>0, <1>6, <2>1, <2>2, Zenon DEF Shape
<1>10. AccelMoves({}, P)
  <2>1. ASSUME NEW b \in Accelerators, NEW k \in {"driver", "infos", "executor", "loaders", "heap"}
        PROVE  <<k, b>> \in P <=> k = "driver" /\ b = a
    BY Zenon DEF DeviceHandles, SharedPuts
  <2> HIDE DEF P, M
  <2> QED BY <1>1, <1>6, <2>1, Zenon DEF AccelMoves, Moves, OwnsDriver, OwnsInfos, OwnsExecutor,
                                  OwnsLoaders, OwnsHeap, DeviceStages
<1>11. DeviceMoves({}, P)
  <2> SUFFICES ASSUME NEW d \in Devices
               PROVE  /\ Moves(<<"hal_device", d>>, {}, P, OwnsHal(d), OwnsHal(d)')
                      /\ Moves(<<"tracker", d>>, {}, P, OwnsTracker(d), OwnsTracker(d)')
                      /\ Moves(<<"group", d>>, {}, P, OwnsGroup(d), OwnsGroup(d)')
                      /\ Moves(<<"allocator", d>>, {}, P, OwnsAllocator(d), OwnsAllocator(d)')
    BY Zenon DEF DeviceMoves
  <2>1. strong[d] \in Nat /\ (d \in M => strong[d] > 0)
    BY <1>0, <1>8, StrongKnown, Zenon
  <2>2. strong'[d] = IF d \in M THEN strong[d] - 1 ELSE strong[d]
    BY <1>1, Zenon DEF Released
  <2>3. d \in Dropped(M) <=> strong[d] > 0 /\ ~(strong'[d] > 0)
    BY <2>1, <2>2 DEF Dropped
  <2>4. /\ <<"hal_device", d>> \in P <=> d \in Dropped(M)
        /\ <<"group", d>> \in P <=> d \in Dropped(M)
        /\ <<"allocator", d>> \in P <=> d \in Dropped(M)
        /\ <<"tracker", d>> \notin P
    BY Zenon DEF DeviceHandles, SharedPuts
  <2>5. ~(strong[d] > 0) => ~(strong'[d] > 0)
    BY <2>1, <2>2, Zenon
  <2> HIDE DEF P, M
  <2> QED BY Zenon, <1>1, <2>3, <2>4, <2>5
          DEF Moves, OwnsHal, OwnsTracker, OwnsGroup, OwnsAllocator
<1>12. ObjectMoves({}, P)
  <2> SUFFICES ASSUME NEW o \in Objects
               PROVE  /\ Moves(<<"instance", o>>, {}, P, OwnsInstance(o), OwnsInstance(o)')
                      /\ Moves(<<"pool", o>>, {}, P, OwnsPool(o), OwnsPool(o)')
    BY Zenon DEF ObjectMoves
  <2>1. /\ <<"instance", o>> \in P <=> LastInit /\ shared.vm_instance = o
        /\ <<"pool", o>> \in P <=> LastInit /\ shared.proactor_pool = o
    BY Kinds, Zenon DEF DeviceHandles, SharedPuts
  <2>2. o # NoObject
    BY RuntimeConstants, Zenon DEF RuntimeConstants
  <2> HIDE DEF P
  <2> QED BY <1>1, <1>4, <2>1, <2>2, Zenon DEF Moves, OwnsInstance, OwnsPool
<1>13. held' \in [Handles -> Int] /\ Accounted'
  <2> HIDE DEF P, M
  <2> QED BY <1>0, <1>1, <1>10, <1>11, <1>12, Accounts DEF Typed
<1>14. Typed'
  <2>1. shared' \in [initialized : BOOLEAN, init_count : Int,
                     vm_instance : Pointer(Objects), proactor_pool : Pointer(Objects)]
    <3>1. shared.init_count - 1 \in Int /\ NoObject \in Pointer(Objects)
      BY <1>2 DEF Pointer
    <3>2. CASE LastInit
      <4>1. shared' = [initialized |-> FALSE, init_count |-> shared.init_count - 1,
                       vm_instance |-> NoObject, proactor_pool |-> NoObject]
        BY <1>3, <3>2, Zenon
      <4> QED BY <3>1, <4>1, Zenon
    <3>3. CASE ~LastInit
      BY <1>0, <1>3, <3>1, <3>3 DEF Typed
    <3> QED BY <3>2, <3>3, Zenon
  <2>2. accel' \in [Accelerators -> [initialized : BOOLEAN, devices : Seq(Devices),
                                     device_count : Nat, infos : Seq(BOOLEAN)]]
    <3>1. NoAccel \in [initialized : BOOLEAN, devices : Seq(Devices), device_count : Nat,
                       infos : Seq(BOOLEAN)]
      BY DEF NoAccel
    <3> QED BY <1>0, <1>1, <3>1 DEF Typed
  <2>3. strong' \in [Devices -> Int]
    BY <1>0, <1>1 DEF Typed, Released
  <2>4. dev' \in [Devices -> [acc : Accelerators, ordinal : Nat, pool : Pointer(Objects), info : Nat]]
    <3>1. NoDev \in [acc : Accelerators, ordinal : Nat, pool : Pointer(Objects), info : Nat]
      BY Zenon DEF NoDev, Accelerators, Pointer
    <3> QED BY <1>0, <1>1, <3>1, Zenon DEF Typed, Freed
  <2>5. borrowed' \in [Clients -> Pointer(Devices)]
    BY <1>0, <1>1, Zenon DEF Typed, Pointer
  <2>6. snap' \in [Clients -> [obj : Pointer(Objects), kind : {"instance", "pool"},
                               up : SUBSET Accelerators]]
    <3>1. ASSUME NEW c \in Clients
          PROVE  [snap[c] EXCEPT !.up = snap[c].up \ {a}]
                    \in [obj : Pointer(Objects), kind : {"instance", "pool"}, up : SUBSET Accelerators]
      BY <1>0 DEF Typed
    <3> QED BY <1>1, <3>1, Zenon
  <2> QED BY <1>0, <1>1, <1>13, <2>1, <2>2, <2>3, <2>4, <2>5, <2>6 DEF Typed
<1>15. Shape'
  <2>1. \A b \in Accelerators : /\ accel'[b].device_count = Len(accel'[b].devices)
                                /\ ~accel'[b].initialized => accel'[b].devices = <<>>
    BY <1>0, <1>6 DEF Shape
  <2> QED BY <1>0, <1>1, <1>2, <1>4, <2>1, Zenon DEF Shape, SharedStages, CpuStages, GpuStages
<1>16. InitCountExact'
  <2>1. ~Counted /\ ~Counted'
    BY <1>1, Zenon DEF Counted
  <2>2. LastInit <=> shared.init_count <= 1
    BY <1>2, Zenon DEF LastInit
  <2> QED BY <1>0, <1>1, <1>2, <1>4, <1>6, <2>1, <2>2 DEF InitCountExact, One, Accelerators
<1>17. StrongCountExact'
  <2> SUFFICES ASSUME NEW d \in Devices
               PROVE  strong'[d] = One(InTable(d)') + One(d \in ElementsOf(work'.made))
                                   + Cardinality({c \in Clients : d \in owned'[c]})
    BY Zenon DEF StrongCountExact
  <2> DEFINE n == Cardinality({c \in Clients : d \in owned[c]})
  <2>1. n \in Nat /\ Cardinality({c \in Clients : d \in owned'[c]}) = n
    BY <1>1, Holders, Zenon
  <2>2. strong[d] = One(InTable(d)) + One(d \in ElementsOf(work.made)) + n
    BY <1>0, Zenon DEF StrongCountExact
  <2>3. strong'[d] = IF d \in M THEN strong[d] - 1 ELSE strong[d]
    BY <1>1, Zenon DEF Released
  <2>4. work' = work
    BY <1>1, Zenon
  <2> HIDE DEF n, M
  <2> QED BY <1>5, <1>8, <2>1, <2>2, <2>3, <2>4 DEF One
<1>18. Apart'
  BY <1>1, <1>5, <1>6 DEF Apart, Accelerators
<1>19. ClientsCurrent'
  <2> SUFFICES ASSUME NEW c \in Clients
               PROVE  /\ borrowed'[c] # NoObject => InTable(borrowed[c])'
                      /\ snap'[c].up \subseteq Up'
                      /\ snap'[c].up # {} =>
                           snap'[c].obj = IF snap'[c].kind = "instance" THEN shared'.vm_instance
                                                                      ELSE shared'.proactor_pool
    BY Zenon DEF ClientsCurrent
  <2>1. borrowed'[c] # NoObject => InTable(borrowed[c])'
    <3>1. borrowed'[c] # NoObject => borrowed'[c] = borrowed[c] /\ borrowed[c] \notin M
      BY <1>1, Zenon
    <3>2. borrowed[c] # NoObject => InTable(borrowed[c])
      BY <1>0, Zenon DEF ClientsCurrent
    <3> QED BY <1>8, <3>1, <3>2 DEF InTable
  <2>2. /\ snap'[c].up = snap[c].up \ {a} /\ snap'[c].obj = snap[c].obj
        /\ snap'[c].kind = snap[c].kind
    BY <1>0, <1>1 DEF Typed
  <2>3. snap'[c].up \subseteq Up'
    BY <1>0, <1>6, <2>2, Zenon DEF ClientsCurrent, Up
  <2>4. snap'[c].up # {} => ~LastInit
    BY <1>9, <2>3, Zenon DEF Up
  <2> QED BY <1>0, <1>4, <2>1, <2>2, <2>3, <2>4 DEF ClientsCurrent
<1>20. PoolsCurrent'
  <2>1. ASSUME NEW b \in Accelerators, NEW d \in ElementsOf(accel'[b].devices)
        PROVE  dev'[d].acc = b /\ dev'[d].pool = shared'.proactor_pool
    <3>1. b # a /\ d \in ElementsOf(accel[b].devices) /\ ~LastInit
      BY <1>6, <1>9, <2>1, Zenon
    <3>2. d \in Devices /\ d \notin M
      BY <1>5, <1>7, <3>1, Zenon
    <3>3. dev'[d] = dev[d]
      BY <1>1, <3>2, Zenon DEF Freed, Dropped
    <3> QED BY <1>0, <1>4, <3>1, <3>3 DEF PoolsCurrent
  <2>2. stage' \notin {"executor", "loaders", "heap", "task_driver"} \cup DeviceStages
    BY <1>1, Zenon DEF DeviceStages
  <2>3. ElementsOf(work'.made) = {}
    BY <1>1, <1>5, Zenon
  <2> QED BY <2>1, <2>2, <2>3, Zenon DEF PoolsCurrent
<1> QED BY <1>13, <1>14, <1>15, <1>16, <1>17, <1>18, <1>19, <1>20 DEF IInv

(***************************************************************************)
(* The clients.                                                            *)
(***************************************************************************)

\* A device a client can name has not been dropped.
LEMMA Nameable ==
    ASSUME IInv, NEW c \in Clients, NEW d \in Devices, d \in owned[c] \cup {borrowed[c]}
    PROVE  strong[d] \in Nat /\ strong[d] > 0
<1>1. StrongCountExact /\ Apart /\ ClientsCurrent
  BY Zenon DEF IInv
<1>2. d # NoObject
  BY RuntimeConstants, Zenon DEF RuntimeConstants
<1>3. d \in owned[c] \/ InTable(d)
  BY <1>1, <1>2, Zenon DEF ClientsCurrent
<1> QED BY <1>1, <1>3, StrongKnown, Zenon

\* Retaining a device that is not dropped.
LEMMA RetainStep ==
    ASSUME IInv, NEW c \in Clients, hrx_device_retain(c)
    PROVE  IInv'
<1>0. /\ Typed /\ Shape /\ InitCountExact /\ StrongCountExact /\ Apart /\ ClientsCurrent
      /\ PoolsCurrent /\ Accounted
  BY Zenon DEF IInv
<1>1. PICK d \in owned[c] \cup {borrowed[c]}, e \in Clients :
         /\ d \in Devices /\ d \notin owned[e]
         /\ owned' = [owned EXCEPT ![e] = owned[e] \cup {d}]
         /\ strong' = [strong EXCEPT ![d] = strong[d] + 1]
         /\ UNCHANGED <<shared, accel, stage, work, POOL_FOR_DEVICE, dev, held, borrowed, snap>>
  BY Zenon DEF hrx_device_retain
<1>2. strong[d] \in Nat /\ strong[d] > 0 /\ d \in Devices
  BY <1>1, Nameable, Zenon
<1>3. \A x \in Devices : strong'[x] = IF x = d THEN strong[d] + 1 ELSE strong[x]
  BY <1>0, <1>1, Zenon DEF Typed
<1>4. \A x \in Devices : (strong'[x] > 0) <=> (strong[x] > 0)
  BY <1>2, <1>3
<1>5. Accounted'
  <2>1. held' = Ledger({}, {})
    BY <1>0, <1>1, SameLedger, Zenon DEF Typed
  <2>2. AccelMoves({}, {})
    BY <1>1, Zenon DEF AccelMoves, Moves, OwnsDriver, OwnsInfos, OwnsExecutor, OwnsLoaders, OwnsHeap
  <2>3. DeviceMoves({}, {})
    BY <1>1, <1>4, Zenon DEF DeviceMoves, Moves, OwnsHal, OwnsTracker, OwnsGroup, OwnsAllocator
  <2>4. ObjectMoves({}, {})
    BY <1>1, Zenon DEF ObjectMoves, Moves, OwnsInstance, OwnsPool
  <2> QED BY <1>0, <2>1, <2>2, <2>3, <2>4, Accounts, Zenon DEF Typed
<1>6. Typed'
  <2>1. strong' \in [Devices -> Int]
    <3>1. strong' = [x \in Devices |-> IF x = d THEN strong[d] + 1 ELSE strong[x]]
      BY <1>0, <1>1, Zenon DEF Typed
    <3>2. \A x \in Devices : (IF x = d THEN strong[d] + 1 ELSE strong[x]) \in Int
      BY <1>0, <1>2 DEF Typed
    <3> QED BY <3>1, <3>2, Zenon
  <2>2. owned' \in [Clients -> SUBSET Devices]
    BY <1>0, <1>1, Zenon DEF Typed
  <2> QED BY <1>0, <1>1, <2>1, <2>2, Zenon DEF Typed
<1>7. Shape'
  BY <1>0, <1>1, <1>2, <1>3 DEF Shape
<1>8. InitCountExact' /\ Apart'
  BY <1>0, <1>1, Zenon DEF InitCountExact, Counted, Apart, InTable
<1>9. StrongCountExact'
  <2> SUFFICES ASSUME NEW x \in Devices
               PROVE  strong'[x] = One(InTable(x)') + One(x \in ElementsOf(work'.made))
                                   + Cardinality({f \in Clients : x \in owned'[f]})
    BY Zenon DEF StrongCountExact
  <2> DEFINE H == {f \in Clients : x \in owned[f]}
  <2>1. strong[x] = One(InTable(x)) + One(x \in ElementsOf(work.made)) + Cardinality(H)
    BY <1>0, Zenon DEF StrongCountExact
  <2>2. IsFiniteSet(H) /\ Cardinality(H) \in Nat
    BY Holders, Zenon
  <2>3. {f \in Clients : x \in owned'[f]} = IF x = d THEN H \cup {e} ELSE H
    <3>1. \A f \in Clients : owned'[f] = IF f = e THEN owned[e] \cup {d} ELSE owned[f]
      BY <1>0, <1>1, Zenon DEF Typed
    <3> QED BY <3>1, Zenon
  <2>4. x = d => e \notin H
    BY <1>1, Zenon
  <2>5. Cardinality(H \cup {e}) = IF e \in H THEN Cardinality(H) ELSE Cardinality(H) + 1
    BY <2>2, FS_AddElement, Zenon
  <2>6. (InTable(x)' <=> InTable(x)) /\ work' = work
    BY <1>1, Zenon DEF InTable
  <2> HIDE DEF H
  <2>7. CASE x = d
    <3>1. Cardinality({f \in Clients : x \in owned'[f]}) = Cardinality(H) + 1
      BY <2>3, <2>4, <2>5, <2>7, Zenon
    <3>2. strong'[x] = strong[x] + 1
      BY <1>3, <2>7, Zenon
    <3> QED BY <2>1, <2>2, <2>6, <3>1, <3>2 DEF One
  <2>8. CASE x # d
    <3>1. Cardinality({f \in Clients : x \in owned'[f]}) = Cardinality(H) /\ strong'[x] = strong[x]
      BY <1>3, <2>3, <2>8, Zenon
    <3> QED BY <2>1, <2>6, <3>1, Zenon DEF One
  <2> QED BY <2>7, <2>8, Zenon
<1>10. ClientsCurrent' /\ PoolsCurrent'
  BY <1>0, <1>1 DEF ClientsCurrent, PoolsCurrent, InTable, Up
<1> QED BY <1>5, <1>6, <1>7, <1>8, <1>9, <1>10, Zenon DEF IInv

\* Releasing a retained device; the last release drops its HAL objects.
LEMMA ReleaseStep ==
    ASSUME IInv, NEW c \in Clients, hrx_device_release(c)
    PROVE  IInv'
<1>0. /\ Typed /\ Shape /\ InitCountExact /\ StrongCountExact /\ Apart /\ ClientsCurrent
      /\ PoolsCurrent /\ Accounted
  BY Zenon DEF IInv
<1>1. PICK d \in owned[c] :
         /\ owned' = [owned EXCEPT ![c] = owned[c] \ {d}]
         /\ strong' = Released({d}) /\ dev' = Freed({d})
         /\ held' = Ledger({}, DeviceHandles(Dropped({d})))
         /\ UNCHANGED <<shared, accel, stage, work, POOL_FOR_DEVICE, borrowed, snap>>
  BY Zenon DEF hrx_device_release
<1> DEFINE P == DeviceHandles(Dropped({d}))
<1>2. d \in Devices
  BY <1>0, <1>1, Zenon DEF Typed
<1>3. /\ strong[d] \in Nat /\ strong[d] > 0
      /\ InTable(d) \/ d \in ElementsOf(work.made) => strong[d] > 1
  BY <1>0, <1>1, <1>2, StrongKnown, Zenon
<1>4. \A x \in Devices : strong'[x] = IF x = d THEN strong[d] - 1 ELSE strong[x]
  BY <1>1, Zenon DEF Released
<1>5. \A x \in Devices : x \in Dropped({d}) <=> x = d /\ strong[d] = 1
  BY Zenon DEF Dropped
<1>6. AccelMoves({}, P)
  <2>1. ASSUME NEW a \in Accelerators, NEW k \in {"driver", "infos", "executor", "loaders", "heap"}
        PROVE  <<k, a>> \notin P
    BY Zenon DEF DeviceHandles
  <2> HIDE DEF P
  <2> QED BY <1>1, <2>1, Zenon DEF AccelMoves, Moves, OwnsDriver, OwnsInfos, OwnsExecutor, OwnsLoaders, OwnsHeap
<1>7. DeviceMoves({}, P)
  <2> SUFFICES ASSUME NEW x \in Devices
               PROVE  /\ Moves(<<"hal_device", x>>, {}, P, OwnsHal(x), OwnsHal(x)')
                      /\ Moves(<<"tracker", x>>, {}, P, OwnsTracker(x), OwnsTracker(x)')
                      /\ Moves(<<"group", x>>, {}, P, OwnsGroup(x), OwnsGroup(x)')
                      /\ Moves(<<"allocator", x>>, {}, P, OwnsAllocator(x), OwnsAllocator(x)')
    BY Zenon DEF DeviceMoves
  <2>1. x \in Dropped({d}) <=> strong[x] > 0 /\ ~(strong'[x] > 0)
    <3>1. CASE x = d
      <4>1. strong'[x] = strong[x] - 1 /\ strong[x] \in Nat
        BY <1>3, <1>4, <3>1, Zenon
      <4>2. strong[x] = 1 <=> strong[x] > 0 /\ ~(strong'[x] > 0)
        BY <4>1
      <4> QED BY <1>5, <3>1, <4>2, Zenon
    <3>2. CASE x # d
      <4>1. strong'[x] = strong[x] /\ x \notin Dropped({d})
        BY <1>4, <1>5, <3>2, Zenon
      <4> QED BY <4>1, Zenon
    <3> QED BY <3>1, <3>2, Zenon
  <2>2. ~(strong[x] > 0) => ~(strong'[x] > 0)
    BY <1>3, <1>4, Zenon
  <2>3. /\ <<"hal_device", x>> \in P <=> x \in Dropped({d})
        /\ <<"group", x>> \in P <=> x \in Dropped({d})
        /\ <<"allocator", x>> \in P <=> x \in Dropped({d})
        /\ <<"tracker", x>> \notin P
    BY Zenon DEF DeviceHandles
  <2>4. work.building = x /\ stage \in {"tracker", "group", "wrap"} => ~(strong[x] > 0)
    BY <1>0 DEF Shape
  <2> HIDE DEF P
  <2> QED BY <1>1, <2>1, <2>2, <2>3, <2>4
          DEF Moves, OwnsHal, OwnsTracker, OwnsGroup, OwnsAllocator
<1>8. ObjectMoves({}, P)
  <2>1. ASSUME NEW o \in Objects PROVE <<"instance", o>> \notin P /\ <<"pool", o>> \notin P
    BY Zenon DEF DeviceHandles
  <2> HIDE DEF P
  <2> QED BY <1>1, <2>1, Zenon DEF ObjectMoves, Moves, OwnsInstance, OwnsPool
<1>9. held' \in [Handles -> Int] /\ Accounted'
  <2> HIDE DEF P
  <2> QED BY <1>0, <1>1, <1>6, <1>7, <1>8, Accounts DEF Typed, P
<1>10. Typed'
  <2>1. strong' \in [Devices -> Int]
    BY <1>0, <1>1 DEF Typed, Released
  <2>2. dev' \in [Devices -> [acc : Accelerators, ordinal : Nat, pool : Pointer(Objects), info : Nat]]
    <3>1. NoDev \in [acc : Accelerators, ordinal : Nat, pool : Pointer(Objects), info : Nat]
      BY Zenon DEF NoDev, Accelerators, Pointer
    <3> QED BY <1>0, <1>1, <3>1, Zenon DEF Typed, Freed
  <2>3. owned' \in [Clients -> SUBSET Devices]
    BY <1>0, <1>1, Zenon DEF Typed
  <2> QED BY <1>0, <1>1, <1>9, <2>1, <2>2, <2>3 DEF Typed
<1>11. Shape'
  <2>1. ASSUME stage \in {"tracker", "group", "wrap"}
        PROVE  work.building \in Devices /\ strong'[work.building] = 0
    <3>1. work.building \in Devices /\ strong[work.building] = 0
      BY <1>0, <2>1, Zenon DEF Shape
    <3> QED BY <1>3, <1>4, <3>1
  <2> QED BY <1>0, <1>1, <2>1, Zenon DEF Shape
<1>12. InitCountExact' /\ Apart'
  BY <1>0, <1>1, Zenon DEF InitCountExact, Counted, Apart, InTable
<1>13. StrongCountExact'
  <2> SUFFICES ASSUME NEW x \in Devices
               PROVE  strong'[x] = One(InTable(x)') + One(x \in ElementsOf(work'.made))
                                   + Cardinality({f \in Clients : x \in owned'[f]})
    BY Zenon DEF StrongCountExact
  <2> DEFINE H == {f \in Clients : x \in owned[f]}
  <2>1. strong[x] = One(InTable(x)) + One(x \in ElementsOf(work.made)) + Cardinality(H)
    BY <1>0, Zenon DEF StrongCountExact
  <2>2. IsFiniteSet(H) /\ Cardinality(H) \in Nat
    BY Holders, Zenon
  <2>3. {f \in Clients : x \in owned'[f]} = IF x = d THEN H \ {c} ELSE H
    BY <1>0, <1>1, Zenon DEF Typed
  <2>4. x = d => c \in H
    BY <1>1, Zenon
  <2>5. Cardinality(H \ {c}) = IF c \in H THEN Cardinality(H) - 1 ELSE Cardinality(H)
    BY <2>2, FS_RemoveElement, Zenon
  <2>6. (InTable(x)' <=> InTable(x)) /\ work' = work
    BY <1>1, Zenon DEF InTable
  <2> HIDE DEF H
  <2>7. CASE x = d
    <3>1. Cardinality({f \in Clients : x \in owned'[f]}) = Cardinality(H) - 1
      BY <2>3, <2>4, <2>5, <2>7
    <3>2. strong'[x] = strong[x] - 1
      BY <1>4, <2>7, Zenon
    <3> QED BY <2>1, <2>2, <2>6, <3>1, <3>2 DEF One
  <2>8. CASE x # d
    <3>1. Cardinality({f \in Clients : x \in owned'[f]}) = Cardinality(H) /\ strong'[x] = strong[x]
      BY <1>4, <2>3, <2>8
    <3> QED BY <2>1, <2>6, <3>1 DEF One
  <2> QED BY <2>7, <2>8, Zenon
<1>14. ClientsCurrent'
  BY <1>0, <1>1, Zenon DEF ClientsCurrent, InTable, Up
<1>15. PoolsCurrent'
  <2>1. \A x \in Devices : InTable(x) \/ x \in ElementsOf(work.made) => dev'[x] = dev[x]
    BY <1>1, <1>3 DEF Freed, Dropped
  <2>2. /\ \A a \in Accelerators : \A x \in ElementsOf(accel[a].devices) : x \in Devices /\ InTable(x)
        /\ ElementsOf(work.made) \subseteq Devices
    <3>1. work.made \in Seq(Devices) /\ \A a \in Accelerators : accel[a].devices \in Seq(Devices)
      BY <1>0, Zenon DEF Typed
    <3> QED BY <3>1 DEF ElementsOf, InTable
  <2>3. ASSUME NEW a \in Accelerators, NEW x \in ElementsOf(accel'[a].devices)
        PROVE  dev'[x].acc = a /\ dev'[x].pool = shared'.proactor_pool
    BY <1>0, <1>1, <2>1, <2>2, <2>3 DEF PoolsCurrent
  <2>4. ASSUME NEW x \in ElementsOf(work'.made)
        PROVE  dev'[x].acc = work'.acc /\ dev'[x].pool = shared'.proactor_pool
    BY <1>0, <1>1, <2>1, <2>2, <2>4, Zenon DEF PoolsCurrent
  <2>5. (work'.acc = "cpu" /\ stage' \in {"executor", "loaders", "heap", "task_driver"} \cup DeviceStages)
           => POOL_FOR_DEVICE' = shared'.proactor_pool
    BY <1>0, <1>1, Zenon DEF PoolsCurrent
  <2> QED BY <2>3, <2>4, <2>5, Zenon DEF PoolsCurrent
<1> QED BY <1>9, <1>10, <1>11, <1>12, <1>13, <1>14, <1>15, Zenon DEF IInv

\* A step that changes only borrowed pointers and snapshots, in the way the invariant
\* asks for.
LEMMA PointerStep ==
    ASSUME IInv, borrowed' \in [Clients -> Pointer(Devices)],
           snap' \in [Clients -> [obj : Pointer(Objects), kind : {"instance", "pool"},
                                  up : SUBSET Accelerators]],
           ClientsCurrent',
           UNCHANGED <<shared, accel, stage, work, POOL_FOR_DEVICE, dev, strong, held, owned>>
    PROVE  IInv'
<1>1. Typed'
  BY Zenon DEF IInv, Typed
<1>2. Shape' /\ InitCountExact'
  BY Zenon DEF IInv, Shape, InitCountExact, Counted
<1>3. Accounted'
  BY DEF IInv, Accounted, OwnsDriver, OwnsInfos, OwnsExecutor, OwnsLoaders, OwnsHeap, OwnsHal,
         OwnsTracker, OwnsGroup, OwnsAllocator, OwnsInstance, OwnsPool
<1>4. StrongCountExact'
  BY Zenon DEF IInv, StrongCountExact, InTable
<1>5. Apart' /\ PoolsCurrent'
  BY DEF IInv, Apart, PoolsCurrent, InTable
<1> QED BY <1>1, <1>2, <1>3, <1>4, <1>5 DEF IInv

\* hrx_cpu_device_get and hrx_gpu_device_get hand out a device of the table.
LEMMA GetStep ==
    ASSUME IInv, NEW c \in Clients, NEW a \in Accelerators, DeviceGet(c, a)
    PROVE  IInv'
<1>0. Typed /\ Shape /\ ClientsCurrent
  BY Zenon DEF IInv
<1>1. PICK i \in 0 .. accel[a].device_count - 1 :
         borrowed' = [borrowed EXCEPT ![c] = accel[a].devices[i + 1]]
  BY Zenon DEF DeviceGet
<1> DEFINE d == accel[a].devices[i + 1]
<1>2. UNCHANGED <<shared, accel, stage, work, POOL_FOR_DEVICE, dev, strong, held, owned, snap>>
  BY Zenon DEF DeviceGet
<1>3. d \in Devices /\ InTable(d)
  <2>1. accel[a].devices \in Seq(Devices) /\ accel[a].device_count = Len(accel[a].devices)
    BY <1>0, Zenon DEF Typed, Shape
  <2>2. i + 1 \in DOMAIN accel[a].devices
    BY <1>1, <2>1
  <2> QED BY <2>1, <2>2 DEF InTable, ElementsOf
<1> HIDE DEF d
<1>4. borrowed' \in [Clients -> Pointer(Devices)]
  BY <1>0, <1>1, <1>3 DEF Typed, Pointer, d
<1>5. \A e \in Clients : borrowed'[e] = IF e = c THEN d ELSE borrowed[e]
  BY <1>0, <1>1, Zenon DEF Typed, d
<1>6. ClientsCurrent'
  BY <1>0, <1>2, <1>3, <1>5 DEF ClientsCurrent, InTable, Up
<1> QED BY <1>0, <1>2, <1>4, <1>6, PointerStep DEF Typed

\* shared_vm_instance and shared_proactor_and_host_allocator take a snapshot.
LEMMA SnapshotStep ==
    ASSUME IInv, NEW c \in Clients, NEW kind \in {"instance", "pool"},
           Snapshot(c, kind, IF kind = "instance" THEN shared.vm_instance ELSE shared.proactor_pool)
    PROVE  IInv'
<1> DEFINE r == [obj |-> IF kind = "instance" THEN shared.vm_instance ELSE shared.proactor_pool,
                 kind |-> kind, up |-> Up]
<1>0. Typed /\ ClientsCurrent
  BY Zenon DEF IInv
<1>1. /\ snap' = [snap EXCEPT ![c] = r]
      /\ UNCHANGED <<shared, accel, stage, work, POOL_FOR_DEVICE, dev, strong, held, borrowed, owned>>
  BY Zenon DEF Snapshot
<1>2. r \in [obj : Pointer(Objects), kind : {"instance", "pool"}, up : SUBSET Accelerators]
  BY <1>0, Zenon DEF Typed, Up
<1>3. snap' \in [Clients -> [obj : Pointer(Objects), kind : {"instance", "pool"},
                             up : SUBSET Accelerators]]
  <2> HIDE DEF r
  <2> QED BY <1>0, <1>1, <1>2 DEF Typed
<1>4. \A e \in Clients : snap'[e] = IF e = c THEN r ELSE snap[e]
  BY <1>0, <1>1, Zenon DEF Typed
<1>5. ClientsCurrent'
  <2> SUFFICES ASSUME NEW e \in Clients
               PROVE  /\ borrowed'[e] # NoObject => InTable(borrowed[e])'
                      /\ snap'[e].up \subseteq Up'
                      /\ snap'[e].up # {} =>
                           snap'[e].obj = IF snap'[e].kind = "instance" THEN shared'.vm_instance
                                                                      ELSE shared'.proactor_pool
    BY Zenon DEF ClientsCurrent
  <2>1. borrowed'[e] # NoObject => InTable(borrowed[e])'
    BY <1>0, <1>1, Zenon DEF ClientsCurrent, InTable
  <2>2. CASE e = c
    <3>1. /\ snap'[e].up = Up /\ snap'[e].kind = kind
          /\ snap'[e].obj = IF kind = "instance" THEN shared.vm_instance ELSE shared.proactor_pool
      BY <1>4, <2>2
    <3>2. Up' = Up /\ shared' = shared
      BY <1>1, Zenon DEF Up
    <3> QED BY <2>1, <3>1, <3>2
  <2>3. CASE e # c
    BY <1>0, <1>1, <1>4, <2>1, <2>3 DEF ClientsCurrent, Up
  <2> QED BY <2>2, <2>3, Zenon
<1> HIDE DEF r
<1> QED BY <1>0, <1>1, <1>3, <1>5, PointerStep, Zenon DEF Typed

\* The call that took a snapshot returns.
LEMMA SnapshotDoneStep ==
    ASSUME IInv, NEW c \in Clients, SnapshotDone(c)
    PROVE  IInv'
<1>0. Typed /\ ClientsCurrent
  BY Zenon DEF IInv
<1>1. /\ snap' = [snap EXCEPT ![c] = NoSnap]
      /\ UNCHANGED <<shared, accel, stage, work, POOL_FOR_DEVICE, dev, strong, held, borrowed, owned>>
  BY Zenon DEF SnapshotDone
<1>2. NoSnap \in [obj : Pointer(Objects), kind : {"instance", "pool"}, up : SUBSET Accelerators]
      /\ NoSnap.up = {}
  BY Zenon DEF NoSnap, Pointer
<1>3. snap' \in [Clients -> [obj : Pointer(Objects), kind : {"instance", "pool"},
                             up : SUBSET Accelerators]]
  BY <1>0, <1>1, <1>2, Zenon DEF Typed
<1>4. \A e \in Clients : snap'[e] = IF e = c THEN NoSnap ELSE snap[e]
  BY <1>0, <1>1, Zenon DEF Typed
<1>5. ClientsCurrent'
  BY <1>0, <1>1, <1>2, <1>4 DEF ClientsCurrent, InTable, Up
<1> QED BY <1>0, <1>1, <1>3, <1>5, PointerStep, Zenon DEF Typed

(***************************************************************************)
(* The inductive invariant and what follows from it.                       *)
(***************************************************************************)

\* What each failure branch releases is what the initialization has in hand.
LEMMA Hands ==
    ASSUME IInv, stage' = "unlocked", accel' = accel
    PROVE  /\ stage = "executor" => InHand({})
           /\ stage = "register" => InHand({})
           /\ stage = "create" => InHand({})
           /\ stage = "loaders" => InHand({Executor})
           /\ stage = "heap" => InHand({Loaders, Executor})
           /\ stage = "task_driver" => InHand({Executor, Loaders, Heap})
           /\ stage = "query" => InHand({Driver})
           /\ stage = "count" => InHand({Infos, Driver})
           /\ stage = "device" => InHand(Undo)
           /\ stage = "tracker" => InHand(Undo \cup {<<"hal_device", work.building>>})
           /\ stage = "group" =>
                 InHand(Undo \cup {<<"tracker", work.building>>, <<"hal_device", work.building>>})
<1>1. work.acc \in {"cpu", "gpu"} /\ Accelerators = {"cpu", "gpu"}
  BY Zenon DEF IInv, Typed, Accelerators
<1>2. /\ stage # "unlocked" => ~accel[work.acc].initialized
      /\ stage \in CpuStages => work.acc = "cpu"
      /\ stage \in GpuStages => work.acc = "gpu"
  BY Zenon DEF IInv, Shape
<1>3. stage' = "unlocked" /\ accel' = accel
  BY Zenon
<1>4. stage = "executor" => InHand({})
  BY <1>1, <1>2, <1>3, Zenon DEF InHand, AccelMoves, Moves, OwnsDriver, OwnsInfos, OwnsExecutor, OwnsLoaders,
                     OwnsHeap, CpuStages, GpuStages, DeviceStages
<1>5. stage = "register" => InHand({})
  BY <1>1, <1>2, <1>3, Zenon DEF InHand, AccelMoves, Moves, OwnsDriver, OwnsInfos, OwnsExecutor, OwnsLoaders,
                     OwnsHeap, CpuStages, GpuStages, DeviceStages
<1>6. stage = "create" => InHand({})
  BY <1>1, <1>2, <1>3, Zenon DEF InHand, AccelMoves, Moves, OwnsDriver, OwnsInfos, OwnsExecutor, OwnsLoaders,
                     OwnsHeap, CpuStages, GpuStages, DeviceStages
<1>7. stage = "loaders" => InHand({Executor})
  BY <1>1, <1>2, <1>3 DEF InHand, AccelMoves, Moves, OwnsDriver, OwnsInfos, OwnsExecutor, OwnsLoaders,
                     OwnsHeap, CpuStages, GpuStages, DeviceStages, Executor
<1>8. stage = "heap" => InHand({Loaders, Executor})
  BY <1>1, <1>2, <1>3 DEF InHand, AccelMoves, Moves, OwnsDriver, OwnsInfos, OwnsExecutor, OwnsLoaders,
                     OwnsHeap, CpuStages, GpuStages, DeviceStages, Executor, Loaders
<1>9. stage = "task_driver" => InHand({Executor, Loaders, Heap})
  BY <1>1, <1>2, <1>3 DEF InHand, AccelMoves, Moves, OwnsDriver, OwnsInfos, OwnsExecutor, OwnsLoaders,
                     OwnsHeap, CpuStages, GpuStages, DeviceStages, Executor, Loaders, Heap
<1>10. stage = "query" => InHand({Driver})
  BY <1>1, <1>2, <1>3 DEF InHand, AccelMoves, Moves, OwnsDriver, OwnsInfos, OwnsExecutor, OwnsLoaders,
                     OwnsHeap, CpuStages, GpuStages, DeviceStages, Driver
<1>11. stage = "count" => InHand({Infos, Driver})
  BY <1>1, <1>2, <1>3 DEF InHand, AccelMoves, Moves, OwnsDriver, OwnsInfos, OwnsExecutor, OwnsLoaders,
                     OwnsHeap, CpuStages, GpuStages, DeviceStages, Infos, Driver
<1>12. stage = "device" => InHand(Undo)
  BY <1>1, <1>2, <1>3 DEF InHand, AccelMoves, Moves, OwnsDriver, OwnsInfos, OwnsExecutor, OwnsLoaders,
                     OwnsHeap, CpuStages, GpuStages, DeviceStages, Undo, Infos, Driver
<1>13. stage = "tracker" => InHand(Undo \cup {<<"hal_device", work.building>>})
  BY <1>1, <1>2, <1>3 DEF InHand, AccelMoves, Moves, OwnsDriver, OwnsInfos, OwnsExecutor, OwnsLoaders,
                     OwnsHeap, CpuStages, GpuStages, DeviceStages, Undo, Infos, Driver
<1>14. stage = "group" => InHand(Undo \cup {<<"tracker", work.building>>, <<"hal_device", work.building>>})
  BY <1>1, <1>2, <1>3 DEF InHand, AccelMoves, Moves, OwnsDriver, OwnsInfos, OwnsExecutor, OwnsLoaders,
                     OwnsHeap, CpuStages, GpuStages, DeviceStages,
                     Undo, Infos, Driver
<1> QED BY <1>4, <1>5, <1>6, <1>7, <1>8, <1>9, <1>10, <1>11, <1>12, <1>13, <1>14, Zenon

\* Every step preserves the inductive invariant.
LEMMA NextInductive == IInv /\ [Next]_vars => IInv'
<1> SUFFICES ASSUME IInv, [Next]_vars PROVE IInv'
  BY Zenon
<1>1. CASE UNCHANGED vars
  <2>1. ClientsCurrent' /\ Typed
    BY <1>1, Zenon DEF IInv, vars, ClientsCurrent, InTable, Up
  <2> QED BY <1>1, <2>1, PointerStep DEF vars, Typed
<1>2. CASE hrx_cpu_initialize
  BY <1>2, InitializeStep, Zenon DEF hrx_cpu_initialize, Accelerators
<1>3. CASE hrx_gpu_initialize
  BY <1>3, InitializeStep, Zenon DEF hrx_gpu_initialize, Accelerators
<1>4. ASSUME NEW puts, stage \in StepStages \ {"wrap"}, Fails(puts), InHand(puts) PROVE IInv'
  BY <1>4, FailsStep, Zenon
<1>5. ASSUME NEW puts, Fails(puts) PROVE stage' = "unlocked" /\ accel' = accel
  BY <1>5, Zenon DEF Fails
<1>6. {"executor", "loaders", "heap", "task_driver", "register", "create", "query", "count",
       "device", "tracker", "group"} \subseteq StepStages \ {"wrap"}
  BY DEF StepStages, Stages, SharedStages, CpuStages, GpuStages, DeviceStages
<1>7. CASE CreateInstance
  BY <1>7, SharedFailsStep, InstanceStep, Zenon DEF CreateInstance, SharedStages
<1>8. CASE RegisterTypes
  BY <1>8, SharedFailsStep, TypesStep DEF RegisterTypes, SharedStages
<1>9. CASE CreatePool
  BY <1>9, SharedFailsStep, PoolStep DEF CreatePool, SharedStages
<1>10. CASE StorePool
  BY <1>10, StorePoolStep
<1>11. CASE CreateExecutor
  BY <1>4, <1>5, <1>6, <1>11, Hands, ExecutorStep DEF CreateExecutor
<1>12. CASE CreateLoaders
  BY <1>4, <1>5, <1>6, <1>12, Hands, LoadersStep DEF CreateLoaders
<1>13. CASE CreateHeap
  BY <1>4, <1>5, <1>6, <1>13, Hands, HeapStep DEF CreateHeap
<1>14. CASE CreateTaskDriver
  BY <1>4, <1>5, <1>6, <1>14, Hands, TaskDriverStep DEF CreateTaskDriver
<1>15. CASE RegisterDriver
  BY <1>4, <1>5, <1>6, <1>15, Hands, RegisterStep DEF RegisterDriver
<1>16. CASE CreateDriver
  BY <1>4, <1>5, <1>6, <1>16, Hands, CreateDriverStep DEF CreateDriver
<1>17. CASE QueryDevices
  BY <1>4, <1>5, <1>6, <1>17, Hands, QueryStep DEF QueryDevices
<1>18. CASE CountDevices
  BY <1>4, <1>5, <1>6, <1>18, Hands, CountStep DEF CountDevices
<1>19. CASE SkipPseudo
  BY <1>19, SkipStep, Zenon DEF SkipPseudo
<1>20. CASE TakePhysical
  BY <1>20, TakeStep, Zenon DEF TakePhysical
<1>21. CASE CreateDevice
  BY <1>4, <1>5, <1>6, <1>21, Hands, CreateDeviceStep DEF CreateDevice
<1>22. CASE CreateTracker
  BY <1>4, <1>5, <1>6, <1>22, Hands, TrackerStep DEF CreateTracker
<1>23. CASE CreateGroup
  BY <1>4, <1>5, <1>6, <1>23, Hands, GroupStep DEF CreateGroup
<1>24. CASE WrapDevice \/ Publish
  BY <1>24, WrapStep, PublishStep
<1>25. CASE hrx_cpu_shutdown \/ hrx_gpu_shutdown
  BY <1>25, ShutdownStep, Zenon DEF hrx_cpu_shutdown, hrx_gpu_shutdown, Accelerators
<1>26. ASSUME NEW c \in Clients, ClientStep(c) PROVE IInv'
  <2>1. CASE hrx_device_retain(c) \/ hrx_device_release(c) \/ SnapshotDone(c)
    BY <2>1, RetainStep, ReleaseStep, SnapshotDoneStep
  <2>2. CASE hrx_cpu_device_get(c) \/ hrx_gpu_device_get(c)
    BY <2>2, GetStep DEF hrx_cpu_device_get, hrx_gpu_device_get, Accelerators
  <2>3. CASE shared_vm_instance(c)
    BY <2>3, SnapshotStep DEF shared_vm_instance
  <2>4. CASE shared_proactor_and_host_allocator(c)
    BY <2>4, SnapshotStep DEF shared_proactor_and_host_allocator
  <2> QED BY <1>26, <2>1, <2>2, <2>3, <2>4 DEF ClientStep
<1> QED BY Zenon, <1>1, <1>2, <1>3, <1>7, <1>8, <1>9, <1>10, <1>11, <1>12, <1>13, <1>14, <1>15, <1>16,
           <1>17, <1>18, <1>19, <1>20, <1>21, <1>22, <1>23, <1>24, <1>25, <1>26 DEF Next, InitStep

\* The inductive invariant holds in every reachable state.
LEMMA AlwaysInductive == Spec => []IInv
BY InitInductive, NextInductive, PTL DEF Spec

\* Every entry of the ledger is for a HAL object of one of these kinds.
LEMMA KindCases ==
    ASSUME NEW h \in Handles
    PROVE  \/ \E a \in Accelerators : h \in {<<"driver", a>>, <<"infos", a>>, <<"executor", a>>,
                                             <<"loaders", a>>, <<"heap", a>>}
           \/ \E d \in Devices : h \in {<<"hal_device", d>>, <<"tracker", d>>, <<"group", d>>,
                                        <<"allocator", d>>}
           \/ \E o \in Objects : h \in {<<"instance", o>>, <<"pool", o>>}
BY DEF Handles

\* Type correctness of the runtime: fields keep their types and neither init_count
\* nor any strong count or HAL reference is ever decremented below zero, so
\* no branch releases what it does not own.
THEOREM TypeCorrect == Spec => []TypeOK
<1>1. IInv => TypeOK
  <2> SUFFICES ASSUME IInv PROVE TypeOK
    BY Zenon
  <2>0. Typed /\ InitCountExact /\ StrongCountExact /\ Apart /\ Accounted
    BY Zenon DEF IInv
  <2>1. shared.init_count \in Nat
    BY <2>0 DEF Typed, InitCountExact, One
  <2>2. strong \in [Devices -> Nat]
    BY <2>0, StrongKnown, Zenon DEF Typed
  <2>3. \A b : One(b) \in Nat
    BY Zenon DEF One
  <2>4. \A h \in Handles : held[h] \in Nat
    BY <2>0, <2>3, KindCases DEF Accounted
  <2>5. held \in [Handles -> Nat]
    BY <2>0, <2>4, Zenon DEF Typed
  <2>6. shared \in [initialized : BOOLEAN, init_count : Nat,
                    vm_instance : Pointer(Objects), proactor_pool : Pointer(Objects)]
    BY <2>0, <2>1, Zenon DEF Typed
  <2> QED BY <2>0, <2>2, <2>5, <2>6, Zenon DEF Typed, TypeOK
<1> QED BY <1>1, AlwaysInductive, PTL

\* init_count is exact: ensure_shared_state and release_shared_state are balanced over
\* every interleaving of successful and failed initializations and shutdowns.
THEOREM InitCountsExact == Spec => []InitCountExact
<1>1. IInv => InitCountExact
  BY Zenon DEF IInv
<1> QED BY <1>1, AlwaysInductive, PTL

\* The strong count of every device is exact, for any number of clients.
THEOREM StrongCountsExact == Spec => []StrongCountExact
<1>1. IInv => StrongCountExact
  BY Zenon DEF IInv
<1> QED BY <1>1, AlwaysInductive, PTL

\* No branch of the bring-up or teardown leaks a HAL object or releases one twice,
\* whatever the driver reports and whichever HAL calls fail.
THEOREM NoLeaks == Spec => []NothingLeaked
<1>1. IInv => NothingLeaked
  <2> SUFFICES ASSUME IInv, stage = "unlocked", NEW h \in Handles
               PROVE  held[h] = One(h \in Reachable)
    BY Zenon DEF NothingLeaked
  <2>0. Typed /\ Shape /\ Accounted
    BY Zenon DEF IInv
  <2>1. ASSUME NEW a \in Accelerators
        PROVE  /\ OwnsDriver(a) <=> <<"driver", a>> \in Reachable
               /\ ~OwnsInfos(a) /\ <<"infos", a>> \notin Reachable
               /\ ~OwnsExecutor(a) /\ <<"executor", a>> \notin Reachable
               /\ ~OwnsLoaders(a) /\ <<"loaders", a>> \notin Reachable
               /\ ~OwnsHeap(a) /\ <<"heap", a>> \notin Reachable
    BY Zenon DEF OwnsDriver, OwnsInfos, OwnsExecutor, OwnsLoaders, OwnsHeap, DeviceStages, Reachable,
           Up, DeviceHandles
  <2>2. ASSUME NEW d \in Devices
        PROVE  /\ OwnsHal(d) <=> <<"hal_device", d>> \in Reachable
               /\ OwnsGroup(d) <=> <<"group", d>> \in Reachable
               /\ OwnsAllocator(d) <=> <<"allocator", d>> \in Reachable
               /\ ~OwnsTracker(d) /\ <<"tracker", d>> \notin Reachable
    BY Zenon DEF OwnsHal, OwnsGroup, OwnsAllocator, OwnsTracker, Reachable, DeviceHandles, Live
  <2>3. ASSUME NEW o \in Objects
        PROVE  /\ OwnsInstance(o) <=> <<"instance", o>> \in Reachable
               /\ OwnsPool(o) <=> <<"pool", o>> \in Reachable
    <3>1. o # NoObject
      BY RuntimeConstants, Zenon DEF RuntimeConstants
    <3>2. ~shared.initialized => shared.vm_instance = NoObject /\ shared.proactor_pool = NoObject
      BY <2>0 DEF Shape
    <3> QED BY <3>1, <3>2 DEF OwnsInstance, OwnsPool, Reachable, DeviceHandles
  <2>4. CASE \E a \in Accelerators : h \in {<<"driver", a>>, <<"infos", a>>, <<"executor", a>>,
                                           <<"loaders", a>>, <<"heap", a>>}
    BY <2>0, <2>1, <2>4 DEF Accounted, One
  <2>5. CASE \E d \in Devices : h \in {<<"hal_device", d>>, <<"tracker", d>>, <<"group", d>>,
                                      <<"allocator", d>>}
    BY <2>0, <2>2, <2>5 DEF Accounted, One
  <2>6. CASE \E o \in Objects : h \in {<<"instance", o>>, <<"pool", o>>}
    BY <2>0, <2>3, <2>6 DEF Accounted, One
  <2> QED BY <2>4, <2>5, <2>6, KindCases
<1> QED BY <1>1, AlwaysInductive, PTL

\* Borrowed and retained device pointers are good, for any number of clients.
THEOREM PointersLive == Spec => []DevicePointersLive
<1>1. IInv => DevicePointersLive
  <2> SUFFICES ASSUME IInv, NEW c \in Clients, NEW d \in owned[c] \cup ({borrowed[c]} \ {NoObject})
               PROVE  strong[d] > 0 /\ held[<<"hal_device", d>>] = 1
    BY Zenon DEF DevicePointersLive
  <2>1. d \in Devices
    BY DEF IInv, Typed, Pointer
  <2>2. strong[d] > 0
    BY <2>1, Nameable, Zenon
  <2>3. held[<<"hal_device", d>>] = One(OwnsHal(d)) /\ OwnsHal(d)
    BY <2>1, <2>2, Zenon DEF IInv, Accounted, OwnsHal
  <2> QED BY <2>2, <2>3 DEF One
<1> QED BY <1>1, AlwaysInductive, PTL

\* No device in a table runs on a pool of an earlier life of the runtime.
THEOREM PoolsShared == Spec => []DevicesUseSharedPool
<1>1. IInv => DevicesUseSharedPool
  <2> SUFFICES ASSUME IInv, NEW a \in Accelerators, NEW d \in ElementsOf(accel[a].devices)
               PROVE  /\ dev[d].acc = a
                      /\ dev[d].pool = shared.proactor_pool
                      /\ held[<<"pool", shared.proactor_pool>>] = 1
    BY Zenon DEF DevicesUseSharedPool
  <2>1. dev[d].acc = a /\ dev[d].pool = shared.proactor_pool
    BY Zenon DEF IInv, PoolsCurrent
  <2>2. accel[a].initialized
    BY DEF IInv, Shape, ElementsOf
  <2>3. shared.initialized
    BY <2>2, CountKnown, Zenon DEF IInv
  <2>4. shared.proactor_pool \in Objects
    BY <2>3, Zenon DEF IInv, Shape
  <2>5. held[<<"pool", shared.proactor_pool>>] = 1
    BY <2>4, Zenon DEF IInv, Accounted, OwnsPool, One
  <2> QED BY <2>1, <2>5, Zenon
<1> QED BY <1>1, AlwaysInductive, PTL

\* A snapshot stays alive while an accelerator that was up when it was taken is.
THEOREM SnapshotsLive == Spec => []SnapshotLive
<1>1. IInv => SnapshotLive
  <2> SUFFICES ASSUME IInv, NEW c \in Clients, snap[c].up # {}
               PROVE  held[<<snap[c].kind, snap[c].obj>>] = 1
    BY Zenon DEF SnapshotLive
  <2>0. Typed /\ Shape /\ InitCountExact /\ ClientsCurrent /\ Accounted
    BY Zenon DEF IInv
  <2>1. /\ snap[c].kind \in {"instance", "pool"}
        /\ snap[c].obj = IF snap[c].kind = "instance" THEN shared.vm_instance ELSE shared.proactor_pool
    BY <2>0, Zenon DEF Typed, ClientsCurrent
  <2>2. \E a \in Accelerators : accel[a].initialized
    BY <2>0, Zenon DEF ClientsCurrent, Up
  <2>3. shared.vm_instance \in Objects /\ shared.proactor_pool \in Objects
    BY <2>0, <2>2, CountKnown DEF Shape
  <2>4. /\ held[<<"instance", shared.vm_instance>>] = 1
        /\ held[<<"pool", shared.proactor_pool>>] = 1
    BY <2>0, <2>3, Zenon DEF Accounted, OwnsInstance, OwnsPool, One
  <2> QED BY <2>1, <2>4, Zenon
<1> QED BY <1>1, AlwaysInductive, PTL
====
