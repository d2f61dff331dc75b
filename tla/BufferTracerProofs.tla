------------------------- MODULE BufferTracerProofs -------------------------
(***************************************************************************)
(* Proofs about BufferTracer, for any number of threads, addresses, slots  *)
(* and calls: the lines are in the order of the calls, the dumps are       *)
(* paired, and the buffer table lists the live buffers.                    *)
(*                                                                         *)
(* The inductive invariant says who is inside a wrapper (LockInv), what    *)
(* the locals of a wrapper are at each place (LocalsInv), how far the line *)
(* and the dumps of the wrapper that runs have got (TraceInv, DumpInv),    *)
(* whose buffer each address is while it is in a wrapper's hands           *)
(* (HandsInv), and how the table relates to the heap meanwhile (TableInv). *)
(***************************************************************************)
EXTENDS BufferTracer, FiniteSetTheorems, WellFoundedInduction, TLAPS

Places == {"idle", "lock", "real", "trace", "quiesce", "dump"}

Thread == [at : Places, op : Operations, arg : Pointers \cup HostFuns \cup {NoPointer},
           slot : 0 .. MAX_TRACKED_BUFFERS + 1, do_trace : BOOLEAN,
           phase : {"before", "after"}, calls : 0 .. MaxCalls]

\* A thread is inside a wrapper exactly while it holds STATE.
LockInv == \A t \in Threads : guard = t <=> thread[t].at \notin {"idle", "lock"}

Allocates == {"hipMalloc", "hipHostMalloc"}

\* The locals of a wrapper.
Locals(t) ==
    /\ thread[t].at \in {"quiesce", "dump"} =>
         thread[t].op = "launch" /\ thread[t].do_trace /\ options.sync
    /\ thread[t].at = "trace" => thread[t].op \notin {"register", "launch"}
    /\ thread[t].at \in {"idle", "lock"} => ~thread[t].do_trace
    /\ thread[t].at \in {"idle", "lock", "real"} => thread[t].phase = "before"
    /\ thread[t].do_trace =>
         /\ thread[t].op = "launch"
         /\ options.limit > 0 => kernel_count < options.limit
    /\ thread[t].at = "idle" => thread[t].arg = NoPointer
    /\ thread[t].op \in Allocates /\ thread[t].at # "trace" => thread[t].arg = NoPointer
    /\ thread[t].op = "hipFree" /\ thread[t].at \in {"lock", "real"} => thread[t].arg \in Pointers
    /\ thread[t].op = "hipFree" /\ thread[t].at = "trace" => thread[t].arg = NoPointer
    /\ thread[t].op \in {"call", "synchronize"} => thread[t].arg = NoPointer
    /\ thread[t].op = "register" => thread[t].arg \in HostFuns \cup {NoPointer}

LocalsInv == \A t \in Threads : Locals(t)

\* The line of the wrapper that runs.
Lines(t) ==
    /\ thread[t].at = "real" =>
         trace = IF thread[t].op \in {"register", "launch"} THEN Append(calls, t) ELSE calls
    /\ thread[t].at = "trace" => calls = Append(trace, t)
    /\ thread[t].at \in {"quiesce", "dump"} => trace = calls

TraceInv ==
    /\ guard = NoThread => trace = calls
    /\ \A t \in Threads : Lines(t)

\* The dumps that a launch has made so far.
Dumped(t) ==
    IF ~thread[t].do_trace THEN 0
    ELSE IF thread[t].at = "dump" THEN (IF thread[t].phase = "before" THEN 1 ELSE 2)
    ELSE IF thread[t].at = "quiesce" THEN (IF thread[t].phase = "before" THEN 0 ELSE 1)
    ELSE 1

DumpInv ==
    /\ DumpsPaired
    /\ ~(options.sync /\ options.dump) => dumps = <<>>
    /\ options.sync /\ options.dump =>
         /\ guard = NoThread => Len(dumps) = 2 * kernel_count
         /\ \A t \in Threads : guard = t => Len(dumps) = 2 * kernel_count + Dumped(t)

\* The address a wrapper has in hand is not free, and nobody else's.
Holds(t, p) == thread[t].op \in Allocates \cup {"hipFree"} /\ thread[t].arg = p

HandsInv ==
    /\ \A t, u \in Threads, p \in Pointers : Holds(t, p) /\ Holds(u, p) => t = u
    /\ \A t \in Threads, p \in Pointers :
          Holds(t, p) => /\ heap[p] # "free"
                         /\ thread[t].at = "trace" => heap[p] = KindOf(thread[t].op)

\* The buffer table against the heap.
TableInv ==
    /\ count = Cardinality(InUse)
    /\ \A i \in InUse : buffers[i].ptr \in Pointers
    /\ EntriesLive
    /\ \A t \in Threads, p \in Pointers \ bypassed :
          Holds(t, p) /\ thread[t].at \in {"real", "trace"} => \A i \in InUse : buffers[i].ptr # p
    /\ \A p \in Pointers \ untracked :
          heap[p] \in Kinds => (\E t \in Threads : Holds(t, p)) \/ (\E i \in InUse : buffers[i].ptr = p)

IInv == TypeOK /\ LockInv /\ LocalsInv /\ TraceInv /\ DumpInv /\ HandsInv /\ TableInv

\* A set of slots that is not empty has a first one.
LEMMA MinInSet ==
    ASSUME NEW S \in SUBSET Slots, S # {}
    PROVE  Min(S) \in S
<1>1. S \subseteq Nat
  BY TracerConstants DEF Slots
<1>2. \E x \in S : \A y \in S : ~(<<y, x>> \in OpToRel(<, Nat))
  BY <1>1, NatLessThanWellFounded, WFMin, Zenon
<1>3. \A x, y \in Nat : y < x => <<y, x>> \in OpToRel(<, Nat)
  BY Zenon DEF OpToRel
<1>4. \E x \in S : \A y \in S : ~(y < x)
  BY <1>1, <1>2, <1>3, Zenon
<1>5. \E x \in S : \A y \in S : x <= y
  BY <1>1, <1>4
<1>6. QED
  BY <1>5, Zenon DEF Min

-----------------------------------------------------------------------------
(* Facts about steps. *)

\* A step of thread t leaves the locals of the others alone.
Others(t) == \A u \in Threads : u # t => thread'[u] = thread[u]

\* The type of the threads, as a name for what TypeOK says of them.
LEMMA ThreadType == TypeOK => thread \in [Threads -> Thread]
BY Zenon DEF TypeOK, Thread, Places

\* The other fields of a thread that moves stay as they are.
LEMMA MovesFacts ==
    ASSUME thread \in [Threads -> Thread], NEW t \in Threads, NEW place \in Places, Moves(t, place)
    PROVE  /\ thread' \in [Threads -> Thread]
           /\ Others(t)
           /\ thread'[t].at = place
           /\ thread'[t].op = thread[t].op
           /\ thread'[t].arg = thread[t].arg
           /\ thread'[t].do_trace = thread[t].do_trace
           /\ thread'[t].phase = thread[t].phase
BY DEF Moves, Thread, Others

\* The locals of a thread that is not in a wrapper.
LEMMA IdleFacts ==
    /\ Idle.at = "idle" /\ Idle.op = "call" /\ Idle.arg = NoPointer
    /\ Idle.do_trace = FALSE /\ Idle.phase = "before"
    /\ \A n \in 0 .. MaxCalls : [Idle EXCEPT !.calls = n] \in Thread
<1>1. 0 \in 0 .. MAX_TRACKED_BUFFERS + 1
  BY TracerConstants
<1>2. QED
  BY <1>1, Zenon DEF Idle, Thread, Places, Operations

\* A wrapper that returns leaves nothing but the count of its calls.
LEMMA ReturnsFacts ==
    ASSUME thread \in [Threads -> Thread], NEW t \in Threads, Returns(t)
    PROVE  /\ thread' \in [Threads -> Thread]
           /\ Others(t)
           /\ thread'[t].at = "idle" /\ thread'[t].op = "call" /\ thread'[t].arg = NoPointer
           /\ thread'[t].do_trace = FALSE /\ thread'[t].phase = "before"
           /\ guard' = NoThread
<1> DEFINE r == [Idle EXCEPT !.calls = thread[t].calls]
<1>1. thread[t].calls \in 0 .. MaxCalls
  BY Zenon DEF Thread
<1>2. r \in Thread
  BY <1>1, IdleFacts, Zenon
<1>3. r.at = "idle" /\ r.op = "call" /\ r.arg = NoPointer /\ r.do_trace = FALSE /\ r.phase = "before"
  BY Zenon DEF Idle
<1>4. thread' = [thread EXCEPT ![t] = r]
  BY Zenon DEF Returns
<1>5. guard' = NoThread
  BY Zenon DEF Returns
<1> HIDE DEF r
<1>6. QED
  BY <1>2, <1>3, <1>4, <1>5, Zenon DEF Others

\* While a thread is inside a wrapper, or nobody holds STATE, the others are outside.
LEMMA OthersOutside ==
    ASSUME LockInv, NEW t \in Threads, guard = t \/ guard = NoThread, NEW u \in Threads, u # t
    PROVE  thread[u].at \in {"idle", "lock"}
BY TracerConstants, Zenon DEF LockInv

\* A step that neither touches the heap or the table nor moves a thread with an
\* address in hand.
LEMMA HeapUnchanged ==
    ASSUME HandsInv, TableInv, NEW t \in Threads, Others(t),
           UNCHANGED <<tables, heap, bypassed, untracked>>,
           \A p \in Pointers : ~Holds(t, p) /\ ~Holds(t, p)'
    PROVE  HandsInv' /\ TableInv'
<1>1. \A u \in Threads, p \in Pointers : Holds(u, p)' => u # t /\ Holds(u, p) /\ thread'[u] = thread[u]
  BY Zenon DEF Others, Holds
<1>2. \A u \in Threads, p \in Pointers : Holds(u, p) => Holds(u, p)'
  BY Zenon DEF Others, Holds
<1>3. HandsInv'
  <2>1. ASSUME NEW u \in Threads, NEW v \in Threads, NEW p \in Pointers, Holds(u, p)', Holds(v, p)'
        PROVE  u = v
    BY <1>1, <2>1, Zenon DEF HandsInv
  <2>2. ASSUME NEW u \in Threads, NEW p \in Pointers, Holds(u, p)'
        PROVE  /\ heap'[p] # "free"
               /\ thread'[u].at = "trace" => heap'[p] = KindOf(thread'[u].op)
    BY <1>1, <2>2 DEF HandsInv
  <2>3. QED
    BY <2>1, <2>2, Zenon DEF HandsInv
<1>4. InUse' = InUse /\ buffers' = buffers
  BY Zenon DEF InUse, tables
<1>5. (count = Cardinality(InUse))' /\ (\A i \in InUse : buffers[i].ptr \in Pointers)' /\ EntriesLive'
  BY <1>4 DEF TableInv, EntriesLive, tables
<1>6. ASSUME NEW u \in Threads, NEW p \in Pointers \ bypassed, Holds(u, p)',
             thread'[u].at \in {"real", "trace"}
      PROVE  \A i \in InUse : buffers[i].ptr # p
  BY <1>1, <1>6, Zenon DEF TableInv
<1>7. ASSUME NEW p \in Pointers \ untracked, heap[p] \in Kinds
      PROVE  (\E u \in Threads : Holds(u, p)') \/ (\E i \in InUse : buffers[i].ptr = p)
  BY <1>2, <1>7, Zenon DEF TableInv
<1>8. TableInv'
  BY <1>4, <1>5, <1>6, <1>7, Zenon DEF TableInv
<1>9. QED
  BY <1>3, <1>8, Zenon

\* A thread that is outside of the wrappers, and stays there.
LEMMA OutsideStep ==
    ASSUME LockInv, TraceInv, DumpInv, NEW t \in Threads, Others(t),
           thread[t].at \in {"idle", "lock"}, thread'[t].at \in {"idle", "lock"},
           UNCHANGED <<options, guard, kernel_count, calls, trace, dumps>>
    PROVE  LockInv' /\ TraceInv' /\ DumpInv'
<1>1. guard # t
  BY Zenon DEF LockInv
<1>2. LockInv'
  BY Zenon DEF LockInv, Others
<1>3. TraceInv'
  BY Zenon DEF TraceInv, Lines, Others
<1>4. DumpInv'
  <2>1. \A u \in Threads : guard = u => Dumped(u)' = Dumped(u)
    BY <1>1, Zenon DEF Dumped, Others
  <2>2. QED
    BY <2>1, Zenon DEF DumpInv, DumpsPaired
<1>5. QED
  BY <1>2, <1>3, <1>4, Zenon

\* A free slot takes a buffer.
LEMMA TableAdd ==
    ASSUME TypeOK, TableInv, NEW p \in Pointers, NEW kind \in Kinds, InUse # Slots,
           buffers' = [buffers EXCEPT ![Min(Slots \ InUse)] = [ptr |-> p, btype |-> kind]],
           count' = count + 1
    PROVE  /\ buffers' \in [Slots -> [ptr : Pointers \cup {NoPointer}, btype : Kinds]]
           /\ count' \in 0 .. MAX_TRACKED_BUFFERS
           /\ count' = Cardinality(InUse')
           /\ \E i \in Slots \ InUse :
                 /\ InUse' = InUse \cup {i}
                 /\ buffers'[i] = [ptr |-> p, btype |-> kind]
                 /\ \A j \in InUse : buffers'[j] = buffers[j]
<1> DEFINE i == Min(Slots \ InUse)
<1>1. i \in Slots /\ i \notin InUse
  BY MinInSet DEF InUse
<1> HIDE DEF i
<1>2. [ptr |-> p, btype |-> kind] # Unused
  BY TracerConstants, Zenon DEF Unused
<1>3. buffers \in [Slots -> [ptr : Pointers \cup {NoPointer}, btype : Kinds]]
  BY Zenon DEF TypeOK
<1>4. buffers' = [buffers EXCEPT ![i] = [ptr |-> p, btype |-> kind]]
  BY Zenon DEF i
<1>5. buffers'[i] = [ptr |-> p, btype |-> kind] /\ \A j \in Slots : j # i => buffers'[j] = buffers[j]
  BY <1>1, <1>3, <1>4, Zenon
<1>6. InUse' = InUse \cup {i}
  BY <1>1, <1>2, <1>5, Zenon DEF InUse
<1>7. IsFiniteSet(Slots) /\ Cardinality(Slots) = MAX_TRACKED_BUFFERS
  BY FS_Interval, TracerConstants DEF Slots
<1>8. IsFiniteSet(InUse) /\ IsFiniteSet(InUse') /\ Cardinality(InUse') <= MAX_TRACKED_BUFFERS
  BY <1>7, FS_Subset, Zenon DEF InUse
<1>9. Cardinality(InUse') = Cardinality(InUse) + 1
  BY <1>1, <1>6, <1>8, FS_AddElement, Zenon
<1>10. count' = Cardinality(InUse') /\ Cardinality(InUse) \in Nat
  BY <1>8, <1>9, FS_CardinalityType, Zenon DEF TableInv
<1>11. buffers' \in [Slots -> [ptr : Pointers \cup {NoPointer}, btype : Kinds]]
  <2>1. [ptr |-> p, btype |-> kind] \in [ptr : Pointers \cup {NoPointer}, btype : Kinds]
    BY Zenon
  <2>2. QED
    BY <1>1, <1>3, <1>4, <2>1, Zenon
<1>12. QED
  BY <1>1, <1>5, <1>6, <1>8, <1>9, <1>10, <1>11, TracerConstants DEF InUse

\* The first entry of a pointer is given up.
LEMMA TableRemove ==
    ASSUME TypeOK, TableInv, NEW p \in Pointers, buffer_table_remove(p)
    PROVE  /\ buffers' \in [Slots -> [ptr : Pointers \cup {NoPointer}, btype : Kinds]]
           /\ count' \in 0 .. MAX_TRACKED_BUFFERS
           /\ count' = Cardinality(InUse')
           /\ InUse' \subseteq InUse
           /\ \A i \in InUse' : buffers'[i] = buffers[i]
           /\ \A i \in InUse \ InUse' : buffers[i].ptr = p
           /\ (\A i, j \in InUse : buffers[i].ptr = p /\ buffers[j].ptr = p => i = j) =>
                 \A i \in InUse' : buffers[i].ptr # p
<1> DEFINE entries == {i \in InUse : buffers[i].ptr = p}
           i == Min(entries)
<1>1. buffers \in [Slots -> [ptr : Pointers \cup {NoPointer}, btype : Kinds]]
      /\ count \in 0 .. MAX_TRACKED_BUFFERS /\ count = Cardinality(InUse)
  BY Zenon DEF TypeOK, TableInv
<1>2. CASE entries = {}
  <2>1. buffers' = buffers /\ count' = count
    BY <1>2, Zenon DEF buffer_table_remove, tables
  <2>2. InUse' = InUse
    BY <2>1, Zenon DEF InUse
  <2>3. QED
    BY <1>1, <1>2, <2>1, <2>2, Zenon
<1>3. CASE entries # {}
  <2>1. entries \in SUBSET Slots
    BY Zenon DEF InUse
  <2>2. i \in entries
    BY <1>3, <2>1, MinInSet, Zenon
  <2>3. i \in Slots /\ i \in InUse /\ buffers[i].ptr = p
    BY <2>2, Zenon DEF InUse
  <2>4. buffers' = [buffers EXCEPT ![i] = Unused] /\ count' = count - 1
    BY <1>3, Zenon DEF buffer_table_remove
  <2> HIDE DEF i, entries
  <2>5. buffers'[i] = Unused /\ \A j \in Slots : j # i => buffers'[j] = buffers[j]
    BY <1>1, <2>3, <2>4, Zenon
  <2>6. InUse' = InUse \ {i}
    BY <2>3, <2>5, Zenon DEF InUse
  <2>7. IsFiniteSet(InUse)
    <3>1. IsFiniteSet(Slots)
      BY FS_Interval, TracerConstants DEF Slots
    <3>2. QED
      BY <3>1, FS_Subset, Zenon DEF InUse
  <2>8. Cardinality(InUse') = Cardinality(InUse) - 1 /\ Cardinality(InUse') \in Nat
    BY <2>3, <2>6, <2>7, FS_RemoveElement, FS_CardinalityType
  <2>9. Unused \in [ptr : Pointers \cup {NoPointer}, btype : Kinds]
    BY Zenon DEF Unused, Kinds
  <2>10. buffers' \in [Slots -> [ptr : Pointers \cup {NoPointer}, btype : Kinds]]
    BY <1>1, <2>4, <2>9, Zenon
  <2>11. count' \in 0 .. MAX_TRACKED_BUFFERS /\ count' = Cardinality(InUse')
    BY <1>1, <2>4, <2>8, TracerConstants
  <2>12. \A j \in InUse' : buffers'[j] = buffers[j]
    BY <2>5, <2>6, Zenon DEF InUse
  <2>13. QED
    BY <2>3, <2>6, <2>10, <2>11, <2>12, Zenon
<1>4. QED
  BY <1>2, <1>3, Zenon

-----------------------------------------------------------------------------
(* The actions. *)

\* The invariant holds when the tracer is loaded.
LEMMA InitIInv == Init => IInv
<1> SUFFICES ASSUME Init PROVE IInv
  BY Zenon
<1>1. \A t \in Threads : thread[t] = Idle
  BY Zenon DEF Init
<1>2. InUse = {}
  BY Zenon DEF Init, InUse
<1>3. TypeOK
  <2>1. Idle \in Thread
    <3>1. 0 \in 0 .. MAX_TRACKED_BUFFERS + 1 /\ 0 \in 0 .. MaxCalls
      BY TracerConstants
    <3>2. QED
      BY <3>1, Zenon DEF Idle, Thread, Places, Operations
  <2>2. thread \in [Threads -> Thread]
    BY <2>1, Zenon DEF Init
  <2>3. buffers \in [Slots -> [ptr : Pointers \cup {NoPointer}, btype : Kinds]]
    BY Zenon DEF Init, Unused, Kinds
  <2>4. 0 \in 0 .. MAX_TRACKED_BUFFERS
    BY TracerConstants
  <2>5. QED
    BY <2>2, <2>3, <2>4 DEF Init, TypeOK, Thread, Places
<1>4. LockInv /\ LocalsInv /\ TraceInv
  BY <1>1, IdleFacts, TracerConstants, Zenon DEF Init, LockInv, LocalsInv, Locals, TraceInv, Lines, Allocates
<1>5. options.limit \in Nat
  BY TracerConstants, Zenon DEF Init, AllSettings
<1>6. DumpInv
  BY <1>5, TracerConstants DEF Init, DumpInv, DumpsPaired
<1>7. HandsInv
  BY <1>1, IdleFacts, Zenon DEF HandsInv, Holds, Allocates
<1>8. TableInv
  BY <1>1, <1>2, IdleFacts, FS_EmptySet, Zenon DEF Init, TableInv, EntriesLive, Holds, Allocates, Kinds
<1>9. QED
  BY <1>3, <1>4, <1>6, <1>7, <1>8, Zenon DEF IInv

\* A thread spends a call without entering a wrapper.
LEMMA SpendsFacts ==
    ASSUME thread \in [Threads -> Thread], NEW t \in Threads, Spends(t)
    PROVE  /\ thread' \in [Threads -> Thread]
           /\ Others(t)
           /\ thread[t].at = "idle"
           /\ thread'[t].at = thread[t].at /\ thread'[t].op = thread[t].op
           /\ thread'[t].arg = thread[t].arg
           /\ thread'[t].do_trace = thread[t].do_trace /\ thread'[t].phase = thread[t].phase
<1>1. thread[t].calls + 1 \in 0 .. MaxCalls
  BY TracerConstants DEF Spends, Thread
<1>2. QED
  BY <1>1 DEF Spends, Thread, Others, At

\* Direct exports, and a thread that lets the device go on.
LEMMA DirectSteps ==
    ASSUME IInv, NEW t \in Threads,
           \/ \E p \in options.memory : direct_malloc(t, p) \/ direct_free(t, p)
           \/ \E u \in Threads : direct_host_function(t, u)
           \/ ReleaseDevice(t)
    PROVE  IInv'
<1> USE DEF IInv, external, history
<1>0. thread \in [Threads -> Thread] /\ options.memory \subseteq Pointers
  BY ThreadType, TracerConstants, Zenon DEF TypeOK, AllSettings
<1>1. /\ thread' \in [Threads -> Thread]
      /\ Others(t)
      /\ thread[t].at = "idle"
      /\ thread'[t].at = thread[t].at /\ thread'[t].op = thread[t].op /\ thread'[t].arg = thread[t].arg
      /\ thread'[t].do_trace = thread[t].do_trace /\ thread'[t].phase = thread[t].phase
  <2>1. CASE Spends(t)
    BY <1>0, <2>1, SpendsFacts, Zenon
  <2>2. CASE ReleaseDevice(t)
    BY <1>0, <2>2, Zenon DEF ReleaseDevice, Others, At
  <2>3. QED
    BY <2>1, <2>2, Zenon DEF direct_malloc, direct_free, direct_host_function
<1>2. UNCHANGED <<options, guard, buffers, count, kernels, kernel_count, calls, trace, dumps>>
  BY Zenon DEF direct_malloc, direct_free, direct_host_function, ReleaseDevice, tables
<1>3. LockInv' /\ TraceInv' /\ DumpInv'
  BY <1>1, <1>2, OutsideStep, Zenon
<1>4. LocalsInv'
  BY <1>1, <1>2 DEF LocalsInv, Locals, Others
<1>5. thread[t].arg = NoPointer /\ \A p \in Pointers : ~Holds(t, p) /\ ~Holds(t, p)'
  BY <1>1, TracerConstants DEF LocalsInv, Locals, Holds
<1>6. InUse' = InUse
  BY <1>2, Zenon DEF InUse
<1>7. \A u \in Threads, p \in Pointers :
         /\ Holds(u, p)' <=> Holds(u, p)
         /\ Holds(u, p) => thread'[u] = thread[u]
  BY <1>1, <1>5 DEF Holds, Others
<1>8. ASSUME NEW p \in options.memory, direct_malloc(t, p)
      PROVE  IInv'
  <2>1. /\ heap' = [heap EXCEPT ![p] = "foreign"] /\ heap[p] = "free"
        /\ UNCHANGED <<busy, bypassed, untracked, hosted>>
    BY <1>8, Zenon DEF direct_malloc
  <2>2. heap \in [Pointers -> Kinds \cup {"free", "foreign"}] /\ p \in Pointers
    BY <1>0, Zenon DEF TypeOK
  <2>3. /\ heap'[p] = "foreign" /\ \A q \in Pointers : q # p => heap'[q] = heap[q]
        /\ heap' \in [Pointers -> Kinds \cup {"free", "foreign"}]
    BY <2>1, <2>2, Zenon
  <2>4. TypeOK'
    BY <1>1, <1>2, <2>1, <2>3, Zenon DEF TypeOK, Thread, Places
  <2>5. HandsInv'
    BY <1>7, <2>1, <2>3 DEF HandsInv
  <2>6. \A i \in InUse : buffers[i].ptr \in Pointers /\ buffers[i].btype \in Kinds
    BY Zenon DEF TypeOK, TableInv, InUse
  <2>7. \A i \in InUse : buffers[i].ptr = p => p \in bypassed
    BY <2>1, <2>6 DEF TableInv, EntriesLive, Kinds
  <2>8. EntriesLive'
    BY <1>2, <1>6, <2>1, <2>3, <2>6, <2>7 DEF TableInv, EntriesLive
  <2>9. TableInv'
    BY <1>2, <1>6, <1>7, <2>1, <2>3, <2>8 DEF TableInv, Kinds
  <2>10. QED
    BY <1>3, <1>4, <2>4, <2>5, <2>9, Zenon
<1>9. ASSUME NEW p \in options.memory, direct_free(t, p)
      PROVE  IInv'
  <2>1. /\ heap' = [heap EXCEPT ![p] = "free"] /\ ~InHand(p)
        /\ untracked' = untracked \ {p}
        /\ bypassed' = IF \E i \in InUse : buffers[i].ptr = p THEN bypassed \cup {p} ELSE bypassed
        /\ UNCHANGED <<busy, hosted>>
    BY <1>9, Zenon DEF direct_free
  <2>2. heap \in [Pointers -> Kinds \cup {"free", "foreign"}] /\ p \in Pointers
    BY <1>0, Zenon DEF TypeOK
  <2>3. /\ heap'[p] = "free" /\ \A q \in Pointers : q # p => heap'[q] = heap[q]
        /\ heap' \in [Pointers -> Kinds \cup {"free", "foreign"}]
    BY <2>1, <2>2, Zenon
  <2>4. bypassed' \subseteq Pointers /\ untracked' \subseteq Pointers
    BY <2>1, <2>2, Zenon DEF TypeOK
  <2>5. TypeOK'
    BY <1>1, <1>2, <2>1, <2>3, <2>4, Zenon DEF TypeOK, Thread, Places
  <2>6. \A u \in Threads : ~Holds(u, p)
    BY <2>1, Zenon DEF InHand, Holds
  <2>7. HandsInv'
    BY <1>7, <2>1, <2>3, <2>6 DEF HandsInv
  <2>8. bypassed \subseteq bypassed' /\ \A i \in InUse : buffers[i].ptr = p => p \in bypassed'
    BY <2>1, Zenon
  <2>9. EntriesLive'
    BY <1>2, <1>6, <2>3, <2>8 DEF TableInv, EntriesLive
  <2>10. TableInv'
    BY <1>2, <1>6, <1>7, <2>1, <2>3, <2>8, <2>9 DEF TableInv, Kinds
  <2>11. QED
    BY <1>3, <1>4, <2>5, <2>7, <2>10, Zenon
<1>10. ASSUME (\E u \in Threads : direct_host_function(t, u)) \/ ReleaseDevice(t)
       PROVE  IInv'
  <2>1. UNCHANGED <<tables, heap, bypassed, untracked>> /\ busy' \subseteq Threads /\ hosted' \in Nat
    BY <1>10 DEF direct_host_function, ReleaseDevice, TypeOK
  <2>2. TypeOK'
    BY <1>1, <1>2, <2>1, Zenon DEF TypeOK, Thread, Places
  <2>3. HandsInv' /\ TableInv'
    BY <1>1, <1>5, <2>1, HeapUnchanged, Zenon
  <2>4. QED
    BY <1>3, <1>4, <2>2, <2>3, Zenon
<1>11. QED
  BY <1>8, <1>9, <1>10, Zenon

\* A call enters its wrapper, and waits for STATE.
LEMMA EnterStep ==
    ASSUME IInv, NEW t \in Threads, NEW op \in options.uses,
           NEW arg \in Pointers \cup HostFuns \cup {NoPointer}, Enter(t, op, arg)
    PROVE  IInv'
<1> USE DEF IInv, external, history
<1> DEFINE r == [Idle EXCEPT !.at = "lock", !.op = op, !.arg = arg, !.calls = thread[t].calls + 1]
<1>1. thread \in [Threads -> Thread] /\ op \in Operations
  BY ThreadType, TracerConstants, Zenon DEF TypeOK, AllSettings
<1>2. thread[t].calls + 1 \in 0 .. MaxCalls
  BY <1>1, TracerConstants DEF Enter, Thread
<1>3. r \in Thread
  <2>1. 0 \in 0 .. MAX_TRACKED_BUFFERS + 1
    BY TracerConstants
  <2>2. QED
    BY <1>1, <1>2, <2>1, Zenon DEF Idle, Thread, Places
<1>4. r.at = "lock" /\ r.op = op /\ r.arg = arg /\ r.do_trace = FALSE /\ r.phase = "before"
  BY Zenon DEF Idle
<1>5. /\ thread' = [thread EXCEPT ![t] = r] /\ thread[t].at = "idle" /\ Legal(t, op, arg)
      /\ UNCHANGED <<options, guard, tables, kernels, kernel_count, external, calls, trace, dumps, history>>
  BY Zenon DEF Enter, At
<1> HIDE DEF r
<1>6. thread' \in [Threads -> Thread] /\ thread'[t] = r /\ Others(t)
  BY <1>1, <1>3, <1>5, Zenon DEF Others
<1>7. TypeOK'
  BY <1>5, <1>6, Zenon DEF TypeOK, Thread, Places, tables
<1>8. LockInv' /\ TraceInv' /\ DumpInv'
  BY <1>4, <1>5, <1>6, OutsideStep, Zenon
<1>9. /\ op \in Allocates \cup {"call", "synchronize"} => arg = NoPointer
      /\ op = "hipFree" => arg \in Pointers /\ heap[arg] # "free" /\ ~InHand(arg)
      /\ op = "register" => arg \in HostFuns \cup {NoPointer}
  BY <1>1, <1>5, Zenon DEF Legal, Allocates, Operations
<1>10. LocalsInv'
  BY <1>4, <1>5, <1>6, <1>9 DEF LocalsInv, Locals, Others, Allocates
<1>11. thread[t].arg = NoPointer /\ \A p \in Pointers : ~Holds(t, p)
  BY <1>5, TracerConstants DEF LocalsInv, Locals, Holds
<1>12. CASE op # "hipFree"
  <2>1. \A p \in Pointers : ~Holds(t, p)'
    BY <1>4, <1>6, <1>9, <1>12, TracerConstants DEF Holds
  <2>2. HandsInv' /\ TableInv'
    BY <1>5, <1>6, <1>11, <2>1, HeapUnchanged
  <2>3. QED
    BY <1>7, <1>8, <1>10, <2>2, Zenon
<1>13. CASE op = "hipFree"
  <2>1. \A u \in Threads, p \in Pointers :
           Holds(u, p)' => \/ u = t /\ p = arg
                           \/ u # t /\ Holds(u, p) /\ thread'[u] = thread[u]
    BY <1>4, <1>6, Zenon DEF Holds, Others
  <2>2. \A u \in Threads, p \in Pointers : Holds(u, p) => Holds(u, p)' /\ p # arg
    BY <1>6, <1>9, <1>11, <1>13, Zenon DEF Holds, Others, InHand
  <2>3. UNCHANGED <<heap, buffers, count, bypassed, untracked>> /\ InUse' = InUse
    BY <1>5, Zenon DEF tables, InUse
  <2>4. HandsInv'
    <3>1. ASSUME NEW u \in Threads, NEW v \in Threads, NEW p \in Pointers, Holds(u, p)', Holds(v, p)'
          PROVE  u = v
      BY <2>1, <2>2, <3>1, Zenon DEF HandsInv
    <3>2. ASSUME NEW u \in Threads, NEW p \in Pointers, Holds(u, p)'
          PROVE  /\ heap'[p] # "free"
                 /\ thread'[u].at = "trace" => heap'[p] = KindOf(thread'[u].op)
      BY <1>4, <1>6, <1>9, <1>13, <2>1, <2>3, <3>2 DEF HandsInv
    <3>3. QED
      BY <3>1, <3>2, Zenon DEF HandsInv
  <2>5. TableInv'
    <3>1. EntriesLive'
      BY <2>3 DEF TableInv, EntriesLive
    <3>2. ASSUME NEW u \in Threads, NEW p \in Pointers \ bypassed, Holds(u, p)',
                 thread'[u].at \in {"real", "trace"}
          PROVE  \A i \in InUse : buffers[i].ptr # p
      BY <1>4, <1>6, <2>1, <3>2, Zenon DEF TableInv
    <3>3. ASSUME NEW p \in Pointers \ untracked, heap[p] \in Kinds
          PROVE  (\E u \in Threads : Holds(u, p)') \/ (\E i \in InUse : buffers[i].ptr = p)
      BY <2>2, <3>3, Zenon DEF TableInv
    <3>4. QED
      BY <2>3, <3>1, <3>2, <3>3, Zenon DEF TableInv
  <2>6. QED
    BY <1>7, <1>8, <1>10, <2>4, <2>5
<1>14. QED
  BY <1>12, <1>13, Zenon

\* A step of the wrapper that runs: the others are outside, so that its own locals
\* and its own line are all there is to show.
LEMMA InsideStep ==
    ASSUME LockInv, LocalsInv, NEW t \in Threads, Others(t), guard = t \/ guard = NoThread,
           \/ guard' = t /\ thread'[t].at \notin {"idle", "lock"}
           \/ guard' = NoThread /\ thread'[t].at = "idle",
           UNCHANGED options, Locals(t)', Lines(t)', guard' = NoThread => trace' = calls'
    PROVE  LockInv' /\ LocalsInv' /\ TraceInv'
<1>1. \A u \in Threads : u # t => thread'[u] = thread[u] /\ thread[u].at \in {"idle", "lock"}
  BY OthersOutside, Zenon DEF Others
<1>2. LockInv'
  BY <1>1, TracerConstants, Zenon DEF LockInv
<1>3. LocalsInv'
  <2>1. ASSUME NEW u \in Threads, u # t
        PROVE  Locals(u)'
    BY <1>1, <2>1 DEF LocalsInv, Locals
  <2>2. QED
    BY <2>1, Zenon DEF LocalsInv
<1>4. TraceInv'
  BY <1>1, Zenon DEF TraceInv, Lines
<1>5. QED
  BY <1>2, <1>3, <1>4, Zenon

\* The dumps the wrapper that runs has made.
Progress(t) == IF guard = t THEN Dumped(t) ELSE 0

\* The number of dumps, by the progress of the one wrapper that may run.
LEMMA DumpsByProgress ==
    ASSUME TypeOK, DumpInv, NEW t \in Threads, guard = t \/ guard = NoThread,
           options.sync, options.dump
    PROVE  Len(dumps) = 2 * kernel_count + Progress(t)
BY TracerConstants DEF TypeOK, DumpInv, Progress

\* A step of the wrapper that runs keeps that number right.
LEMMA DumpStep ==
    ASSUME NEW t \in Threads, guard' = t \/ guard' = NoThread, kernel_count' \in Nat,
           DumpsPaired', ~(options'.sync /\ options'.dump) => dumps' = <<>>,
           options'.sync /\ options'.dump => Len(dumps') = 2 * kernel_count' + Progress(t)'
    PROVE  DumpInv'
<1>1. NoThread \notin Threads
  BY TracerConstants, Zenon
<1>2. CASE guard' = t
  BY <1>1, <1>2, Zenon DEF DumpInv, Progress
<1>3. CASE guard' = NoThread
  <2>1. Progress(t)' = 0
    BY <1>1, <1>3, Zenon DEF Progress
  <2>2. 2 * kernel_count' + Progress(t)' = 2 * kernel_count'
    BY <2>1
  <2>3. \A u \in Threads : guard' # u
    BY <1>1, <1>3, Zenon
  <2>4. QED
    BY <2>2, <2>3, Zenon DEF DumpInv
<1>4. QED
  BY <1>2, <1>3, Zenon

\* A step that makes no dump and counts no launch.
LEMMA DumpsSame ==
    ASSUME TypeOK, DumpInv, NEW t \in Threads, guard = t \/ guard = NoThread,
           guard' = t \/ guard' = NoThread, UNCHANGED <<options, kernel_count, dumps>>,
           options.sync => Progress(t)' = Progress(t)
    PROVE  DumpInv'
<1>1. kernel_count \in Nat /\ DumpsPaired' /\ (~(options.sync /\ options.dump) => dumps = <<>>)
  BY Zenon DEF TypeOK, DumpInv, DumpsPaired
<1>2. ASSUME options.sync, options.dump
      PROVE  Len(dumps') = 2 * kernel_count' + Progress(t)'
  BY <1>2, DumpsByProgress, Zenon
<1>3. QED
  BY <1>1, <1>2, DumpStep, Zenon

\* The wrappers take STATE.
LEMMA LockSteps ==
    ASSUME IInv, NEW t \in Threads, wrap_call(t) \/ wrap_register(t) \/ wrap_launch(t)
    PROVE  IInv'
<1> USE DEF IInv, external, history
<1>0. thread \in [Threads -> Thread]
  BY ThreadType, Zenon
<1>1. /\ thread[t].at = "lock" /\ guard = NoThread /\ guard' = t
      /\ thread[t].op \in Allocates \cup {"call", "synchronize", "register", "launch"}
      /\ UNCHANGED <<options, tables, kernel_count, external, calls, dumps, history>>
  BY Zenon DEF wrap_call, wrap_register, wrap_launch, Locks, At, Allocates
<1>2. thread[t].do_trace = FALSE /\ thread[t].phase = "before"
  BY <1>0, <1>1, Zenon DEF LocalsInv, Locals, Thread
<1>3. /\ thread' \in [Threads -> Thread]
      /\ Others(t)
      /\ thread'[t].at \in {"real", "quiesce"}
      /\ thread'[t].op = thread[t].op /\ thread'[t].arg = thread[t].arg
      /\ thread'[t].phase = "before"
      /\ thread'[t].do_trace => thread[t].op = "launch" /\ should_trace_kernel(thread[t].arg)
      /\ thread'[t].at = "quiesce" => thread'[t].do_trace /\ options.sync /\ trace' = trace
      /\ thread'[t].at = "real" =>
           trace' = IF thread[t].op \in {"register", "launch"} THEN Append(trace, t) ELSE trace
      /\ thread'[t].at = "real" /\ thread'[t].do_trace => ~options.sync
  <2>1. CASE wrap_call(t)
    <3>1. thread[t].op \in Allocates \cup {"call", "synchronize"} /\ Moves(t, "real") /\ trace' = trace
      BY <2>1, Zenon DEF wrap_call, Locks, Allocates
    <3>2. QED
      BY <1>0, <1>2, <3>1, MovesFacts DEF Places, Allocates
  <2>2. CASE wrap_register(t)
    <3>1. thread[t].op = "register" /\ Moves(t, "real") /\ trace' = Append(trace, t)
      BY <2>2, Zenon DEF wrap_register, Locks, Line
    <3>2. QED
      BY <1>0, <1>2, <3>1, MovesFacts DEF Places
  <2>3. CASE wrap_launch(t)
    <3> DEFINE do == should_trace_kernel(thread[t].arg)
    <3>1. thread[t].op = "launch" /\ do \in BOOLEAN
      BY <2>3, Zenon DEF wrap_launch, Locks, should_trace_kernel
    <3> HIDE DEF do
    <3>2. CASE do /\ options.sync
      <4> DEFINE r == [thread[t] EXCEPT !.at = "quiesce", !.do_trace = TRUE]
      <4>1. thread' = [thread EXCEPT ![t] = r] /\ trace' = trace
        BY <2>3, <3>2, Zenon DEF wrap_launch, do
      <4>2. r \in Thread
        BY <1>0, Zenon DEF Thread, Places
      <4>3. /\ r.at = "quiesce" /\ r.do_trace = TRUE /\ r.op = thread[t].op
            /\ r.arg = thread[t].arg /\ r.phase = thread[t].phase
        BY <1>0 DEF Thread
      <4> HIDE DEF r
      <4>4. thread' \in [Threads -> Thread] /\ thread'[t] = r /\ Others(t)
        BY <1>0, <4>1, <4>2, Zenon DEF Others
      <4>5. QED
        BY <1>2, <3>1, <3>2, <4>1, <4>3, <4>4 DEF do
    <3>3. CASE ~(do /\ options.sync)
      <4> DEFINE r == [thread[t] EXCEPT !.at = "real", !.do_trace = do]
      <4>1. thread' = [thread EXCEPT ![t] = r] /\ trace' = Append(trace, t)
        BY <2>3, <3>3, Zenon DEF wrap_launch, do, Line
      <4>2. r \in Thread
        BY <1>0, <3>1, Zenon DEF Thread, Places
      <4>3. /\ r.at = "real" /\ r.do_trace = do /\ r.op = thread[t].op
            /\ r.arg = thread[t].arg /\ r.phase = thread[t].phase
        BY <1>0 DEF Thread
      <4> HIDE DEF r
      <4>4. thread' \in [Threads -> Thread] /\ thread'[t] = r /\ Others(t)
        BY <1>0, <4>1, <4>2, Zenon DEF Others
      <4>5. QED
        BY <1>2, <3>1, <3>3, <4>1, <4>3, <4>4 DEF do
    <3>4. QED
      BY <3>2, <3>3, Zenon
  <2>4. QED
    BY <2>1, <2>2, <2>3, Zenon
<1>4. TypeOK'
  <2>1. kernels' \subseteq HostFuns
    <3>1. CASE wrap_register(t)
      BY <3>1 DEF wrap_register, Locks, LocalsInv, Locals, TypeOK
    <3>2. CASE wrap_call(t) \/ wrap_launch(t)
      BY <3>2, Zenon DEF wrap_call, wrap_launch, TypeOK
    <3>3. QED
      BY <3>1, <3>2, Zenon
  <2>2. trace' \in Seq(Threads)
    <3>1. trace \in Seq(Threads) /\ Append(trace, t) \in Seq(Threads)
      BY DEF TypeOK
    <3>2. trace' = trace \/ trace' = Append(trace, t)
      BY <1>3, Zenon
    <3>3. QED
      BY <3>1, <3>2, Zenon
  <2>3. QED
    BY <1>1, <1>3, <2>1, <2>2, Zenon DEF TypeOK, Thread, Places, tables
<1>5. trace = calls
  BY <1>1, Zenon DEF TraceInv
<1>6. Locals(t)'
  BY <1>1, <1>3, Zenon DEF LocalsInv, Locals, should_trace_kernel, Allocates
<1>7. Lines(t)'
  BY <1>1, <1>3, <1>5, Zenon DEF Lines
<1>8. LockInv' /\ LocalsInv' /\ TraceInv'
  BY <1>1, <1>3, <1>6, <1>7, InsideStep, TracerConstants, Zenon
<1>9. DumpInv'
  <2>1. Progress(t) = 0
    BY <1>1, TracerConstants, Zenon DEF Progress
  <2>2. ASSUME options.sync
        PROVE  Progress(t)' = 0
    BY <1>1, <1>3, <2>2, Zenon DEF Progress, Dumped
  <2>3. QED
    BY <1>1, <2>1, <2>2, DumpsSame, Zenon
<1>10. \A p \in Pointers : ~Holds(t, p) /\ ~Holds(t, p)'
  BY <1>1, <1>3, TracerConstants DEF LocalsInv, Locals, Holds, Allocates
<1>11. HandsInv' /\ TableInv'
  BY <1>1, <1>3, <1>10, HeapUnchanged, Zenon
<1>12. QED
  BY <1>4, <1>8, <1>9, <1>11, Zenon

\* A traced launch in sync mode waits for the device, and dumps.
LEMMA DumpSteps ==
    ASSUME IInv, NEW t \in Threads, quiesce(t) \/ dump_slot(t) \/ dump_over(t)
    PROVE  IInv'
<1> USE DEF IInv, external, history
<1>0. thread \in [Threads -> Thread] /\ kernel_count \in Nat /\ options.limit \in Nat
      /\ options.dump \in BOOLEAN /\ options.sync \in BOOLEAN
  BY ThreadType, TracerConstants, Zenon DEF TypeOK, AllSettings
<1>1. /\ thread[t].at \in {"quiesce", "dump"} /\ guard = t
      /\ UNCHANGED <<options, tables, kernels, external, calls, history>>
  BY Zenon DEF quiesce, dump_slot, dump_over, At, LockInv
<1>2. /\ thread[t].op = "launch" /\ thread[t].do_trace = TRUE /\ options.sync = TRUE
      /\ (options.limit > 0 => kernel_count < options.limit)
      /\ trace = calls /\ thread[t].phase \in {"before", "after"}
  BY <1>0, <1>1, Zenon DEF LocalsInv, Locals, TraceInv, Lines, Thread
<1>3. options.dump => Len(dumps) = 2 * kernel_count + Dumped(t)
  BY <1>1, <1>2, DumpsByProgress, Zenon DEF Progress
<1>4. CASE quiesce(t)
  <2> DEFINE r == [thread[t] EXCEPT !.at = "dump", !.slot = 1]
  <2>1. /\ thread[t].at = "quiesce" /\ thread' = [thread EXCEPT ![t] = r]
        /\ dumps' = IF options.dump THEN Append(dumps, <<thread[t].phase, kernel_count>>) ELSE dumps
        /\ UNCHANGED <<guard, kernel_count, trace>>
    BY <1>4, Zenon DEF quiesce, At
  <2>2. r \in Thread
    <3>1. 1 \in 0 .. MAX_TRACKED_BUFFERS + 1
      BY TracerConstants
    <3>2. QED
      BY <1>0, <3>1, Zenon DEF Thread, Places
  <2>3. /\ r.at = "dump" /\ r.do_trace = thread[t].do_trace /\ r.op = thread[t].op
        /\ r.arg = thread[t].arg /\ r.phase = thread[t].phase
    BY <1>0 DEF Thread
  <2> HIDE DEF r
  <2>4. thread' \in [Threads -> Thread] /\ thread'[t] = r /\ Others(t)
    BY <1>0, <2>1, <2>2, Zenon DEF Others
  <2>5. TypeOK'
    <3>1. <<thread[t].phase, kernel_count>> \in {"before", "after"} \X Nat
      BY <1>0, <1>2, Zenon
    <3>2. dumps' \in Seq({"before", "after"} \X Nat)
      BY <2>1, <3>1 DEF TypeOK
    <3>3. QED
      BY <1>1, <2>1, <2>4, <3>2 DEF TypeOK, Thread, Places, tables
  <2>6. LockInv' /\ LocalsInv' /\ TraceInv'
    <3>1. Locals(t)'
      BY <1>1, <1>2, <2>1, <2>3, <2>4, Zenon DEF Locals, Allocates
    <3>2. Lines(t)'
      BY <1>1, <1>2, <2>1, <2>3, <2>4, Zenon DEF Lines
    <3>3. QED
      BY <1>1, <2>1, <2>3, <2>4, <3>1, <3>2, InsideStep, TracerConstants, Zenon
  <2>7. DumpInv'
    <3>1. DumpsPaired /\ kernel_count' \in Nat /\ (~options.dump => dumps = <<>>)
      BY <1>0, <2>1, Zenon DEF DumpInv
    <3>2. CASE options.dump
      <4> DEFINE d == <<thread[t].phase, kernel_count>>
      <4>1. dumps \in Seq({"before", "after"} \X Nat) /\ dumps' = Append(dumps, d)
        BY <2>1, <3>2, Zenon DEF TypeOK
      <4>2. /\ Len(dumps') = Len(dumps) + 1
            /\ DOMAIN dumps' = 1 .. Len(dumps) + 1 /\ DOMAIN dumps = 1 .. Len(dumps)
            /\ \A i \in 1 .. Len(dumps) : dumps'[i] = dumps[i]
            /\ dumps'[Len(dumps) + 1] = d
        BY <4>1
      <4>3. /\ thread[t].phase = "before" => Len(dumps) = 2 * kernel_count
            /\ thread[t].phase = "after" => Len(dumps) = 2 * kernel_count + 1
        BY <1>0, <1>2, <1>3, <2>1, <3>2 DEF Dumped
      <4>4. d = <<IF (Len(dumps) + 1) % 2 = 1 THEN "before" ELSE "after",
                  (Len(dumps) + 1 - 1) \div 2>>
        <5>1. CASE thread[t].phase = "before"
          <6>1. (Len(dumps) + 1) % 2 = 1 /\ (Len(dumps) + 1 - 1) \div 2 = kernel_count
            BY <1>0, <4>3, <5>1
          <6>2. QED
            BY <5>1, <6>1, Zenon
        <5>2. CASE thread[t].phase = "after"
          <6>1. (Len(dumps) + 1) % 2 = 0 /\ (Len(dumps) + 1 - 1) \div 2 = kernel_count
            BY <1>0, <4>3, <5>2
          <6>2. QED
            BY <5>2, <6>1
        <5>3. QED
          BY <1>2, <5>1, <5>2, Zenon
      <4> HIDE DEF d
      <4>5. ASSUME NEW i \in DOMAIN dumps'
            PROVE  dumps'[i] = <<IF i % 2 = 1 THEN "before" ELSE "after", (i - 1) \div 2>>
        <5>1. CASE i \in DOMAIN dumps
          BY <3>1, <4>2, <5>1, Zenon DEF DumpsPaired
        <5>2. CASE i \notin DOMAIN dumps
          <6>1. Len(dumps) \in Nat
            BY <4>1
          <6>2. i = Len(dumps) + 1
            BY <4>2, <4>5, <5>2, <6>1
          <6>3. QED
            BY <4>2, <4>4, <6>2
        <5>3. QED
          BY <5>1, <5>2, Zenon
      <4>6. DumpsPaired'
        BY <1>1, <2>1, <3>1, <4>5 DEF DumpsPaired
      <4>7. Len(dumps') = 2 * kernel_count' + Progress(t)'
        <5>1. Progress(t)' = IF thread[t].phase = "before" THEN 1 ELSE 2
          BY <1>1, <1>2, <2>1, <2>3, <2>4 DEF Progress, Dumped
        <5>2. CASE thread[t].phase = "before"
          BY <1>0, <2>1, <4>2, <4>3, <5>1, <5>2, Zenon
        <5>3. CASE thread[t].phase = "after"
          BY <1>0, <2>1, <4>2, <4>3, <5>1, <5>3
        <5>4. QED
          BY <1>2, <5>2, <5>3, Zenon
      <4>8. QED
        BY <1>1, <2>1, <3>1, <3>2, <1>2, <4>6, <4>7, DumpStep, Zenon
    <3>3. CASE ~options.dump
      <4>1. dumps' = dumps /\ DumpsPaired'
        BY <1>1, <2>1, <3>1, <3>3, Zenon DEF DumpsPaired
      <4>2. QED
        BY <1>1, <2>1, <3>1, <3>3, <4>1, DumpStep, Zenon
    <3>4. QED
      BY <3>2, <3>3, Zenon
  <2>8. HandsInv' /\ TableInv'
    <3>1. \A p \in Pointers : ~Holds(t, p) /\ ~Holds(t, p)'
      BY <1>2, <2>3, <2>4, Zenon DEF Holds, Allocates
    <3>2. QED
      BY <1>1, <2>4, <3>1, HeapUnchanged, Zenon
  <2>9. QED
    BY <2>5, <2>6, <2>7, <2>8, Zenon
<1>5. CASE dump_slot(t)
  <2>1. /\ thread[t].at = "dump" /\ thread[t].slot \in Slots
        /\ thread' = [thread EXCEPT ![t].slot = thread[t].slot + 1]
        /\ UNCHANGED <<guard, kernel_count, trace, dumps>>
    BY <1>5, Zenon DEF dump_slot, At
  <2>2. thread[t].slot + 1 \in 0 .. MAX_TRACKED_BUFFERS + 1
    BY <2>1, TracerConstants DEF Slots
  <2>3. /\ thread' \in [Threads -> Thread] /\ Others(t)
        /\ thread'[t].at = "dump" /\ thread'[t].do_trace = thread[t].do_trace
        /\ thread'[t].op = thread[t].op /\ thread'[t].arg = thread[t].arg
        /\ thread'[t].phase = thread[t].phase
    BY <1>0, <2>1, <2>2 DEF Thread, Others
  <2>4. TypeOK'
    BY <1>1, <2>1, <2>3, Zenon DEF TypeOK, Thread, Places, tables
  <2>5. LockInv' /\ LocalsInv' /\ TraceInv'
    <3>1. Locals(t)'
      BY <1>1, <1>2, <2>1, <2>3 DEF Locals, Allocates
    <3>2. Lines(t)'
      BY <1>1, <1>2, <2>1, <2>3 DEF Lines
    <3>3. QED
      BY <1>1, <2>1, <2>3, <3>1, <3>2, InsideStep, TracerConstants
  <2>6. DumpInv'
    <3>1. Progress(t)' = Progress(t)
      BY <1>1, <2>1, <2>3, Zenon DEF Progress, Dumped
    <3>2. QED
      BY <1>1, <2>1, <3>1, DumpsSame
  <2>7. HandsInv' /\ TableInv'
    <3>1. \A p \in Pointers : ~Holds(t, p) /\ ~Holds(t, p)'
      BY <1>2, <2>3, Zenon DEF Holds, Allocates
    <3>2. QED
      BY <1>1, <2>3, <3>1, HeapUnchanged
  <2>8. QED
    BY <2>4, <2>5, <2>6, <2>7, Zenon
<1>6. CASE dump_over(t) /\ thread[t].phase = "before"
  <2>1. /\ thread[t].at = "dump" /\ Moves(t, "real") /\ trace' = Append(trace, t)
        /\ UNCHANGED <<guard, kernel_count, dumps>>
    BY <1>6, Zenon DEF dump_over, At, Line
  <2>2. /\ thread' \in [Threads -> Thread] /\ Others(t)
        /\ thread'[t].at = "real" /\ thread'[t].do_trace = TRUE
        /\ thread'[t].op = "launch" /\ thread'[t].arg = thread[t].arg
        /\ thread'[t].phase = "before"
    BY <1>0, <1>2, <1>6, <2>1, MovesFacts DEF Places
  <2>3. TypeOK'
    <3>1. trace' \in Seq(Threads)
      BY <2>1 DEF TypeOK
    <3>2. QED
      BY <1>1, <2>1, <2>2, <3>1 DEF TypeOK, Thread, Places, tables
  <2>4. LockInv' /\ LocalsInv' /\ TraceInv'
    <3>1. Locals(t)'
      BY <1>1, <1>2, <2>1, <2>2, Zenon DEF Locals, Allocates
    <3>2. Lines(t)'
      BY <1>1, <1>2, <2>1, <2>2, Zenon DEF Lines
    <3>3. QED
      BY <1>1, <2>1, <2>2, <3>1, <3>2, InsideStep, TracerConstants, Zenon
  <2>5. DumpInv'
    <3>1. Progress(t)' = Progress(t)
      BY <1>1, <1>2, <1>6, <2>1, <2>2, Zenon DEF Progress, Dumped
    <3>2. QED
      BY <1>1, <2>1, <3>1, DumpsSame, Zenon
  <2>6. HandsInv' /\ TableInv'
    <3>1. \A p \in Pointers : ~Holds(t, p) /\ ~Holds(t, p)'
      BY <1>2, <2>2, Zenon DEF Holds, Allocates
    <3>2. QED
      BY <1>1, <2>2, <3>1, HeapUnchanged, Zenon
  <2>7. QED
    BY <2>3, <2>4, <2>5, <2>6
<1>7. CASE dump_over(t) /\ thread[t].phase = "after"
  <2>1. /\ thread[t].at = "dump" /\ Returns(t) /\ kernel_count' = kernel_count + 1
        /\ UNCHANGED <<trace, dumps>>
    BY <1>7, Zenon DEF dump_over, At
  <2>2. /\ thread' \in [Threads -> Thread] /\ Others(t) /\ guard' = NoThread
        /\ thread'[t].at = "idle" /\ thread'[t].op = "call" /\ thread'[t].arg = NoPointer
        /\ thread'[t].do_trace = FALSE /\ thread'[t].phase = "before"
    BY <1>0, <2>1, ReturnsFacts, Zenon
  <2>3. TypeOK'
    BY <1>0, <1>1, <2>1, <2>2 DEF TypeOK, Thread, Places, tables
  <2>4. LockInv' /\ LocalsInv' /\ TraceInv'
    <3>1. Locals(t)' /\ Lines(t)'
      BY <2>2, Zenon DEF Locals, Lines, Allocates
    <3>2. QED
      BY <1>1, <1>2, <2>1, <2>2, <3>1, InsideStep, Zenon
  <2>5. DumpInv'
    <3>1. DumpsPaired' /\ kernel_count' \in Nat /\ (~options.dump => dumps' = <<>>)
      BY <1>0, <1>1, <1>2, <2>1 DEF DumpInv, DumpsPaired
    <3>2. Progress(t)' = 0 /\ Dumped(t) = 2
      BY <1>2, <1>7, <2>1, <2>2, TracerConstants, Zenon DEF Progress, Dumped
    <3>3. 2 * kernel_count' + Progress(t)' = 2 * kernel_count + Dumped(t)
      BY <1>0, <2>1, <3>2
    <3>4. QED
      BY <1>1, <1>2, <1>3, <2>1, <2>2, <3>1, <3>3, DumpStep, Zenon
  <2>6. HandsInv' /\ TableInv'
    <3>1. \A p \in Pointers : ~Holds(t, p) /\ ~Holds(t, p)'
      BY <1>2, <2>2, Zenon DEF Holds, Allocates
    <3>2. QED
      BY <1>1, <2>2, <3>1, HeapUnchanged, Zenon
  <2>7. QED
    BY <2>3, <2>4, <2>5, <2>6, Zenon
<1>8. QED
  BY <1>2, <1>4, <1>5, <1>6, <1>7, Zenon

\* Real calls that hand out or take back no memory, and the wrappers that end after
\* them without a buffer to track.
LEMMA QuietRealSteps ==
    ASSUME IInv, NEW t \in Threads,
           \/ real_call(t) \/ real_register(t) \/ real_launch(t)
           \/ wrap_trace(t) /\ thread[t].arg = NoPointer
    PROVE  IInv'
<1> USE DEF IInv, external, history
<1>0. /\ thread \in [Threads -> Thread] /\ kernel_count \in Nat /\ options.limit \in Nat
      /\ calls \in Seq(Threads) /\ trace \in Seq(Threads)
      /\ Append(calls, t) \in Seq(Threads) /\ Append(trace, t) \in Seq(Threads)
  BY ThreadType, TracerConstants DEF TypeOK, AllSettings
<1>1. NoPointer \notin Pointers
  BY TracerConstants, Zenon
<1>2. /\ thread[t].at \in {"real", "trace"} /\ guard = t
      /\ UNCHANGED <<options, tables, kernels, external, dumps, history>>
  <2>1. CASE real_call(t) \/ real_register(t) \/ real_launch(t)
    BY <2>1, Zenon DEF real_call, real_register, real_launch, Real, At, LockInv
  <2>2. CASE wrap_trace(t) /\ thread[t].arg = NoPointer
    BY <1>1, <2>2, Zenon DEF wrap_trace, At, LockInv
  <2>3. QED
    BY <2>1, <2>2, Zenon
<1>3. \A p \in Pointers : ~Holds(t, p)
  <2>1. CASE real_call(t) \/ real_register(t) \/ real_launch(t)
    BY <1>1, <2>1, Zenon DEF real_call, real_register, real_launch, Real, Holds, Allocates
  <2>2. CASE wrap_trace(t) /\ thread[t].arg = NoPointer
    BY <1>1, <2>2, Zenon DEF Holds
  <2>3. QED
    BY <2>1, <2>2, Zenon
<1>4. CASE real_call(t)
  <2>1. /\ thread[t].at = "real" /\ thread[t].op \in {"call", "synchronize"} /\ Moves(t, "trace")
        /\ calls' = Append(calls, t) /\ UNCHANGED <<guard, trace, kernel_count>>
    BY <1>4, Zenon DEF real_call, Real, At
  <2>2. trace = calls /\ thread[t].do_trace = FALSE /\ thread[t].arg = NoPointer
    BY <1>0, <2>1, Zenon DEF TraceInv, Lines, LocalsInv, Locals, Thread
  <2>3. /\ thread' \in [Threads -> Thread] /\ Others(t)
        /\ thread'[t].at = "trace" /\ thread'[t].op = thread[t].op /\ thread'[t].arg = NoPointer
        /\ thread'[t].do_trace = FALSE
    BY <1>0, <2>1, <2>2, MovesFacts, Zenon DEF Places
  <2>4. TypeOK'
    BY <1>0, <1>2, <2>1, <2>3, Zenon DEF TypeOK, Thread, Places, tables
  <2>5. Locals(t)'
    BY <2>1, <2>3, Zenon DEF Locals, Allocates
  <2>6. Lines(t)'
    BY <2>1, <2>2, <2>3, Zenon DEF Lines
  <2>7. LockInv' /\ LocalsInv' /\ TraceInv'
    BY <1>2, <2>1, <2>3, <2>5, <2>6, InsideStep, TracerConstants, Zenon
  <2>8. DumpInv'
    <3>1. Progress(t)' = Progress(t)
      BY <1>2, <2>1, <2>2, <2>3 DEF Progress, Dumped
    <3>2. QED
      BY <1>2, <2>1, <3>1, DumpsSame
  <2>9. HandsInv' /\ TableInv'
    <3>1. \A p \in Pointers : ~Holds(t, p)'
      BY <1>1, <2>3, Zenon DEF Holds
    <3>2. QED
      BY <1>2, <1>3, <2>3, <3>1, HeapUnchanged
  <2>10. QED
    BY <2>4, <2>7, <2>8, <2>9, Zenon
<1>5. CASE real_launch(t) /\ thread[t].do_trace /\ options.sync
  <2> DEFINE r == [thread[t] EXCEPT !.at = "quiesce", !.phase = "after"]
  <2>1. /\ thread[t].at = "real" /\ thread[t].op = "launch" /\ calls' = Append(calls, t)
        /\ thread' = [thread EXCEPT ![t] = r] /\ UNCHANGED <<guard, trace, kernel_count>>
    BY <1>5, Zenon DEF real_launch, Real, At
  <2>2. r \in Thread
    BY <1>0, Zenon DEF Thread, Places
  <2>3. /\ r.at = "quiesce" /\ r.phase = "after" /\ r.op = thread[t].op
        /\ r.arg = thread[t].arg /\ r.do_trace = thread[t].do_trace
    BY <1>0 DEF Thread
  <2> HIDE DEF r
  <2>4. thread' \in [Threads -> Thread] /\ thread'[t] = r /\ Others(t)
    BY <1>0, <2>1, <2>2 DEF Others
  <2>5. trace = Append(calls, t) /\ (options.limit > 0 => kernel_count < options.limit)
    BY <1>5, <2>1 DEF TraceInv, Lines, LocalsInv, Locals
  <2>6. TypeOK'
    BY <1>0, <1>2, <2>1, <2>4 DEF TypeOK, Thread, Places, tables
  <2>7. Locals(t)'
    BY <1>2, <1>5, <2>1, <2>3, <2>4, <2>5, Zenon DEF Locals, Allocates
  <2>8. Lines(t)'
    BY <2>1, <2>3, <2>4, <2>5 DEF Lines
  <2>9. LockInv' /\ LocalsInv' /\ TraceInv'
    BY <1>2, <2>1, <2>3, <2>4, <2>7, <2>8, InsideStep, TracerConstants
  <2>10. DumpInv'
    <3>1. Progress(t)' = Progress(t)
      BY <1>2, <1>5, <2>1, <2>3, <2>4, Zenon DEF Progress, Dumped
    <3>2. QED
      BY <1>2, <2>1, <3>1, DumpsSame
  <2>11. HandsInv' /\ TableInv'
    <3>1. \A p \in Pointers : ~Holds(t, p)'
      BY <2>1, <2>3, <2>4, Zenon DEF Holds, Allocates
    <3>2. QED
      BY <1>2, <1>3, <2>4, <3>1, HeapUnchanged
  <2>12. QED
    BY <2>6, <2>9, <2>10, <2>11
<1>6. ASSUME Returns(t), calls' \in Seq(Threads), trace' = calls',
             kernel_count' = IF thread[t].do_trace THEN kernel_count + 1 ELSE kernel_count,
             thread[t].do_trace => ~options.sync
      PROVE  IInv'
  <2>1. /\ thread' \in [Threads -> Thread] /\ Others(t) /\ guard' = NoThread
        /\ thread'[t].at = "idle" /\ thread'[t].op = "call" /\ thread'[t].arg = NoPointer
        /\ thread'[t].do_trace = FALSE /\ thread'[t].phase = "before"
    BY <1>0, <1>6, ReturnsFacts, Zenon
  <2>2. kernel_count' \in Nat
    BY <1>0, <1>6
  <2>3. TypeOK'
    BY <1>2, <1>6, <2>1, <2>2, ZenonT(30) DEF TypeOK, Thread, Places, tables
  <2>4. LockInv' /\ LocalsInv' /\ TraceInv'
    <3>1. Locals(t)' /\ Lines(t)'
      BY <2>1, Zenon DEF Locals, Lines, Allocates
    <3>2. QED
      BY <1>2, <1>6, <2>1, <3>1, InsideStep
  <2>5. DumpInv'
    <3>1. options.limit > 0 => kernel_count' <= options.limit
      <4>1. CASE thread[t].do_trace
        BY <1>0, <1>6, <4>1 DEF LocalsInv, Locals
      <4>2. CASE ~thread[t].do_trace
        BY <1>6, <4>2, Zenon DEF DumpInv, DumpsPaired
      <4>3. QED
        BY <4>1, <4>2, Zenon
    <3>2. DumpsPaired' /\ (~(options.sync /\ options.dump) => dumps' = <<>>)
      BY <1>2, <3>1, Zenon DEF DumpInv, DumpsPaired
    <3>3. Progress(t)' = 0
      BY <2>1, TracerConstants, Zenon DEF Progress
    <3>4. ASSUME options.sync, options.dump
          PROVE  Len(dumps) = 2 * kernel_count' + 0
      <4>1. ~thread[t].do_trace /\ kernel_count' = kernel_count
        BY <1>6, <3>4, Zenon
      <4>2. Progress(t) = 0
        BY <4>1, Zenon DEF Progress, Dumped
      <4>3. Len(dumps) = 2 * kernel_count + Progress(t)
        BY <1>2, <3>4, DumpsByProgress, Zenon
      <4>4. QED
        BY <4>1, <4>2, <4>3, Zenon
    <3>5. QED
      BY <1>2, <2>1, <2>2, <3>2, <3>3, <3>4, DumpStep, Zenon
  <2>6. HandsInv' /\ TableInv'
    <3>1. \A p \in Pointers : ~Holds(t, p)'
      BY <1>1, <2>1, Zenon DEF Holds
    <3>2. QED
      BY <1>2, <1>3, <2>1, <3>1, HeapUnchanged, Zenon
  <2>7. QED
    BY <2>3, <2>4, <2>5, <2>6
<1>7. CASE real_launch(t) /\ ~(thread[t].do_trace /\ options.sync)
  <2>1. /\ thread[t].at = "real" /\ thread[t].op = "launch" /\ calls' = Append(calls, t)
        /\ Returns(t) /\ trace' = trace
        /\ kernel_count' = IF thread[t].do_trace THEN kernel_count + 1 ELSE kernel_count
    BY <1>7, Zenon DEF real_launch, Real, At
  <2>2. trace = Append(calls, t)
    BY <2>1, Zenon DEF TraceInv, Lines
  <2>3. QED
    BY <1>0, <1>6, <1>7, <2>1, <2>2, Zenon
<1>8. CASE real_register(t)
  <2>1. /\ thread[t].at = "real" /\ thread[t].op = "register" /\ calls' = Append(calls, t)
        /\ Returns(t) /\ UNCHANGED <<trace, kernel_count>>
    BY <1>8, Zenon DEF real_register, Real, At
  <2>2. trace = Append(calls, t) /\ ~thread[t].do_trace
    BY <2>1, Zenon DEF TraceInv, Lines, LocalsInv, Locals
  <2>3. QED
    BY <1>0, <1>6, <2>1, <2>2, Zenon
<1>9. CASE wrap_trace(t) /\ thread[t].arg = NoPointer
  <2>1. thread[t].at = "trace" /\ trace' = Append(trace, t) /\ Returns(t) /\ UNCHANGED <<calls, kernel_count>>
    BY <1>9, Zenon DEF wrap_trace, At, Line
  <2>2. calls = Append(trace, t) /\ ~thread[t].do_trace
    BY <2>1, Zenon DEF TraceInv, Lines, LocalsInv, Locals
  <2>3. QED
    BY <1>0, <1>6, <2>1, <2>2, Zenon
<1>10. QED
  BY <1>4, <1>5, <1>7, <1>8, <1>9, Zenon

\* What the threads other than t hold after a step of t, and that they are outside.
LEMMA OthersHold ==
    ASSUME LockInv, NEW t \in Threads, Others(t), guard = t \/ guard = NoThread
    PROVE  \A u \in Threads : u # t =>
              /\ \A p \in Pointers : Holds(u, p)' <=> Holds(u, p)
              /\ thread'[u] = thread[u] /\ thread'[u].at \in {"idle", "lock"}
BY OthersOutside, Zenon DEF Others, Holds

\* wrap_hipFree takes STATE and forgets the buffer.
LEMMA FreeStep ==
    ASSUME IInv, NEW t \in Threads, wrap_free(t)
    PROVE  IInv'
<1> USE DEF IInv, external, history
<1> DEFINE p == thread[t].arg
<1>0. thread \in [Threads -> Thread]
  BY ThreadType, Zenon
<1>1. /\ thread[t].at = "lock" /\ thread[t].op = "hipFree" /\ guard = NoThread /\ guard' = t
      /\ buffer_table_remove(p) /\ Moves(t, "real")
      /\ UNCHANGED <<options, kernels, kernel_count, external, calls, trace, dumps, history>>
  BY Zenon DEF wrap_free, Locks, At
<1>2. /\ thread' \in [Threads -> Thread] /\ Others(t)
      /\ thread'[t].at = "real" /\ thread'[t].op = "hipFree" /\ thread'[t].arg = p
      /\ thread'[t].do_trace = thread[t].do_trace /\ thread'[t].phase = thread[t].phase
  BY <1>0, <1>1, MovesFacts DEF Places
<1>3. p \in Pointers /\ ~thread[t].do_trace /\ thread[t].phase = "before"
  BY <1>1, Zenon DEF LocalsInv, Locals
<1> HIDE DEF p
<1>4. /\ buffers' \in [Slots -> [ptr : Pointers \cup {NoPointer}, btype : Kinds]]
      /\ count' \in 0 .. MAX_TRACKED_BUFFERS /\ count' = Cardinality(InUse')
      /\ InUse' \subseteq InUse
      /\ \A i \in InUse' : buffers'[i] = buffers[i]
      /\ \A i \in InUse \ InUse' : buffers[i].ptr = p
      /\ (\A i, j \in InUse : buffers[i].ptr = p /\ buffers[j].ptr = p => i = j) =>
            \A i \in InUse' : buffers[i].ptr # p
  BY <1>1, <1>3, TableRemove
<1>5. TypeOK'
  BY <1>1, <1>2, <1>4 DEF TypeOK, Thread, Places
<1>6. LockInv' /\ LocalsInv' /\ TraceInv'
  <2>1. trace = calls
    BY <1>1, Zenon DEF TraceInv
  <2>2. Locals(t)'
    BY <1>2, <1>3, Zenon DEF Locals, Allocates
  <2>3. Lines(t)'
    BY <1>1, <1>2, <2>1, Zenon DEF Lines
  <2>4. QED
    BY <1>1, <1>2, <2>2, <2>3, InsideStep, TracerConstants, Zenon
<1>7. DumpInv'
  <2>1. Progress(t) = 0 /\ Progress(t)' = 0
    BY <1>1, <1>2, <1>3, TracerConstants DEF Progress, Dumped
  <2>2. QED
    BY <1>1, <2>1, DumpsSame
<1>8. /\ \A u \in Threads, q \in Pointers : Holds(u, q)' <=> Holds(u, q)
      /\ \A u \in Threads : u # t => thread'[u] = thread[u] /\ thread'[u].at \in {"idle", "lock"}
      /\ \A q \in Pointers : Holds(t, q) <=> q = p
  <2>1. \A q \in Pointers : (Holds(t, q) <=> q = p) /\ (Holds(t, q)' <=> q = p)
    BY <1>1, <1>2, Zenon DEF Holds, p
  <2>2. QED
    BY <1>1, <1>2, <2>1, OthersHold
<1>9. HandsInv'
  <2>1. ASSUME NEW u \in Threads, NEW q \in Pointers, Holds(u, q)'
        PROVE  heap'[q] # "free" /\ thread'[u].at # "trace"
    BY <1>1, <1>2, <1>8, <2>1, Zenon DEF HandsInv
  <2>2. ASSUME NEW u \in Threads, NEW v \in Threads, NEW q \in Pointers, Holds(u, q)', Holds(v, q)'
        PROVE  u = v
    BY <1>8, <2>2, Zenon DEF HandsInv
  <2>3. QED
    BY <2>1, <2>2, Zenon DEF HandsInv
<1>10. TableInv'
  <2>1. (\A i \in InUse : buffers[i].ptr \in Pointers)' /\ EntriesLive'
    <3>1. heap' = heap /\ bypassed' = bypassed
      BY <1>1, Zenon
    <3>2. \A i \in InUse' : i \in InUse /\ buffers'[i] = buffers[i]
      BY <1>4, Zenon
    <3>3. /\ \A i \in InUse : buffers[i].ptr \in Pointers
          /\ EntriesLive
      BY Zenon DEF TableInv
    <3>4. EntriesLive'
      BY <3>1, <3>2, <3>3, ZenonT(30) DEF EntriesLive
    <3>5. QED
      BY <3>2, <3>3, <3>4, Zenon
  <2>2. ASSUME NEW u \in Threads, NEW q \in Pointers \ bypassed, Holds(u, q)',
               thread'[u].at \in {"real", "trace"}
        PROVE  \A i \in InUse' : buffers'[i].ptr # q
    <3>1. u = t /\ q = p
      BY <1>8, <2>2, Zenon
    <3>2. \A i, j \in InUse : buffers[i].ptr = p /\ buffers[j].ptr = p => i = j
      BY <2>2, <3>1 DEF TableInv, EntriesLive
    <3>3. QED
      BY <1>4, <3>1, <3>2, Zenon
  <2>3. ASSUME NEW q \in Pointers \ untracked, heap[q] \in Kinds
        PROVE  (\E u \in Threads : Holds(u, q)') \/ (\E i \in InUse' : buffers'[i].ptr = q)
    <3>1. CASE q = p
      BY <1>8, <2>3, <3>1
    <3>2. CASE q # p /\ \E u \in Threads : Holds(u, q)
      BY <1>8, <2>3, <3>2
    <3>3. CASE q # p /\ \E i \in InUse : buffers[i].ptr = q
      BY <1>4, <3>3, Zenon
    <3>4. QED
      BY <2>3, <3>1, <3>2, <3>3, Zenon DEF TableInv
  <2>4. QED
    BY <1>1, <1>4, <2>1, <2>2, <2>3, Zenon DEF TableInv
<1>11. QED
  BY <1>5, <1>6, <1>7, <1>9, <1>10

\* The real allocation: what the locals, the lock and the histories are after it.
LEMMA MallocStep ==
    ASSUME IInv, NEW t \in Threads, real_malloc(t)
    PROVE  IInv'
<1> USE DEF IInv, external, history
<1>0. /\ thread \in [Threads -> Thread] /\ options.memory \subseteq Pointers
      /\ calls \in Seq(Threads) /\ Append(calls, t) \in Seq(Threads)
      /\ heap \in [Pointers -> Kinds \cup {"free", "foreign"}]
  <2>1. /\ thread \in [Threads -> Thread] /\ options \in Settings /\ calls \in Seq(Threads)
        /\ heap \in [Pointers -> Kinds \cup {"free", "foreign"}]
    BY ThreadType, Zenon DEF TypeOK
  <2>2. options.memory \subseteq Pointers
    BY <2>1, TracerConstants DEF AllSettings
  <2>3. Append(calls, t) \in Seq(Threads)
    BY <2>1
  <2>4. QED
    BY <2>1, <2>2, <2>3, Zenon
<1>1. /\ thread[t].at = "real" /\ thread[t].op \in Allocates /\ guard = t
      /\ calls' = Append(calls, t)
      /\ UNCHANGED <<options, guard, tables, kernels, kernel_count, busy, trace, dumps, history>>
  BY Zenon DEF real_malloc, Real, At, LockInv, Allocates
<1>2. thread[t].arg = NoPointer /\ ~thread[t].do_trace /\ trace = calls
  BY <1>1, Zenon DEF LocalsInv, Locals, TraceInv, Lines, Allocates
<1>3. \A q \in Pointers : ~Holds(t, q)
  BY <1>2, TracerConstants, Zenon DEF Holds
<1>4. ASSUME NEW r \in Thread, thread' = [thread EXCEPT ![t] = r], r.at = "trace",
             r.op = thread[t].op, r.arg \in Pointers \cup {NoPointer}, r.do_trace = thread[t].do_trace,
             heap' \in [Pointers -> Kinds \cup {"free", "foreign"}]
      PROVE  /\ TypeOK' /\ LockInv' /\ LocalsInv' /\ TraceInv' /\ DumpInv'
             /\ Others(t) /\ thread'[t] = r
  <2>1. thread' \in [Threads -> Thread] /\ thread'[t] = r /\ Others(t)
    BY <1>0, <1>4, Zenon DEF Others
  <2>2. TypeOK'
    BY <1>0, <1>1, <1>4, <2>1, Zenon DEF TypeOK, Thread, Places, tables
  <2>3. Locals(t)'
    BY <1>1, <1>2, <1>4, <2>1, Zenon DEF Locals, Allocates
  <2>4. Lines(t)'
    BY <1>1, <1>2, <1>4, <2>1, Zenon DEF Lines
  <2>5. LockInv' /\ LocalsInv' /\ TraceInv'
    BY <1>1, <1>4, <2>1, <2>3, <2>4, InsideStep, TracerConstants, Zenon
  <2>6. DumpInv'
    <3>1. Progress(t) = 0 /\ Progress(t)' = 0
      BY <1>1, <1>2, <1>4, <2>1, Zenon DEF Progress, Dumped
    <3>2. QED
      BY <1>1, <3>1, DumpsSame, Zenon
  <2>7. QED
    BY <2>1, <2>2, <2>5, <2>6, Zenon
<1>5. CASE Moves(t, "trace") /\ UNCHANGED heap
  <2> DEFINE r == [thread[t] EXCEPT !.at = "trace"]
  <2>1. /\ r \in Thread /\ r.at = "trace" /\ r.op = thread[t].op
        /\ r.arg = NoPointer /\ r.do_trace = thread[t].do_trace
    BY <1>0, <1>2, ZenonT(30) DEF Thread, Places
  <2>2. thread' = [thread EXCEPT ![t] = r]
    BY <1>5, Zenon DEF Moves
  <2> HIDE DEF r
  <2>3. /\ TypeOK' /\ LockInv' /\ LocalsInv' /\ TraceInv' /\ DumpInv'
        /\ Others(t) /\ thread'[t] = r
    BY <1>0, <1>4, <1>5, <2>1, <2>2, Zenon
  <2>4. \A q \in Pointers : ~Holds(t, q)'
    BY <2>1, <2>3, TracerConstants, Zenon DEF Holds
  <2>5. HandsInv' /\ TableInv'
    BY <1>1, <1>3, <1>5, <2>3, <2>4, HeapUnchanged, Zenon
  <2>6. QED
    BY <2>3, <2>5, Zenon
<1>6. ASSUME NEW p \in options.memory, heap[p] = "free",
             heap' = [heap EXCEPT ![p] = KindOf(thread[t].op)],
             thread' = [thread EXCEPT ![t] = [@ EXCEPT !.at = "trace", !.arg = p]]
      PROVE  IInv'
  <2> DEFINE r == [thread[t] EXCEPT !.at = "trace", !.arg = p]
  <2>0. p \in Pointers
    BY <1>0, Zenon
  <2>1. /\ r \in Thread /\ r.at = "trace" /\ r.op = thread[t].op
        /\ r.arg = p /\ r.do_trace = thread[t].do_trace
    BY <1>0, <2>0, Zenon DEF Thread, Places
  <2>2. thread' = [thread EXCEPT ![t] = r]
    BY <1>6, Zenon
  <2> HIDE DEF r
  <2>3. /\ heap'[p] = KindOf(thread[t].op) /\ heap'[p] \in Kinds
        /\ \A q \in Pointers : q # p => heap'[q] = heap[q]
        /\ heap' \in [Pointers -> Kinds \cup {"free", "foreign"}]
    BY <1>0, <1>6, <2>0 DEF KindOf, Kinds
  <2>4. /\ TypeOK' /\ LockInv' /\ LocalsInv' /\ TraceInv' /\ DumpInv'
        /\ Others(t) /\ thread'[t] = r
    BY <1>4, <2>0, <2>1, <2>2, <2>3, Zenon
  <2>5. \A q \in Pointers : Holds(t, q)' <=> q = p
    BY <1>1, <2>1, <2>4, Zenon DEF Holds
  <2>6. \A u \in Threads : u # t =>
           /\ \A q \in Pointers : Holds(u, q)' <=> Holds(u, q)
           /\ thread'[u] = thread[u] /\ thread'[u].at \in {"idle", "lock"}
    BY <1>1, <2>4, OthersHold
  <2>7. \A u \in Threads : ~Holds(u, p)
    BY <1>6, <2>0, Zenon DEF HandsInv
  <2>8. HandsInv'
    <3>1. ASSUME NEW u \in Threads, NEW q \in Pointers, Holds(u, q)'
          PROVE  /\ heap'[q] # "free"
                 /\ thread'[u].at = "trace" => heap'[q] = KindOf(thread'[u].op)
      <4>1. CASE u = t
        BY <2>1, <2>3, <2>4, <2>5, <3>1, <4>1 DEF Kinds
      <4>2. CASE u # t
        BY <2>3, <2>6, <2>7, <3>1, <4>2 DEF HandsInv
      <4>3. QED
        BY <4>1, <4>2, Zenon
    <3>2. ASSUME NEW u \in Threads, NEW v \in Threads, NEW q \in Pointers, Holds(u, q)', Holds(v, q)'
          PROVE  u = v
      BY <2>5, <2>6, <2>7, <3>2 DEF HandsInv
    <3>3. QED
      BY <3>1, <3>2, Zenon DEF HandsInv
  <2>9. InUse' = InUse /\ UNCHANGED <<buffers, count, bypassed, untracked>>
    BY <1>1, Zenon DEF InUse, tables
  <2>10. \A i \in InUse : buffers[i].ptr \in Pointers /\ buffers[i].btype \in Kinds
    BY Zenon DEF TypeOK, TableInv, InUse
  <2>11. \A i \in InUse : buffers[i].ptr = p => p \in bypassed
    BY <1>6, <2>10 DEF TableInv, EntriesLive, Kinds
  <2>12. TableInv'
    <3>1. EntriesLive'
      BY <2>3, <2>9, <2>10, <2>11 DEF TableInv, EntriesLive
    <3>2. ASSUME NEW u \in Threads, NEW q \in Pointers \ bypassed, Holds(u, q)',
                 thread'[u].at \in {"real", "trace"}
          PROVE  \A i \in InUse : buffers[i].ptr # q
      BY <2>5, <2>6, <2>11, <3>2, Zenon
    <3>3. ASSUME NEW q \in Pointers \ untracked, heap'[q] \in Kinds
          PROVE  (\E u \in Threads : Holds(u, q)') \/ (\E i \in InUse : buffers[i].ptr = q)
      <4>1. CASE q = p
        BY <2>5, <3>3, <4>1, Zenon
      <4>2. CASE q # p
        <5>1. (\E u \in Threads : Holds(u, q)) \/ (\E i \in InUse : buffers[i].ptr = q)
          BY <2>3, <3>3, <4>2, Zenon DEF TableInv
        <5>2. QED
          BY <1>3, <2>6, <3>3, <5>1
      <4>3. QED
        BY <4>1, <4>2, Zenon
    <3>4. QED
      BY <2>9, <2>10, <3>1, <3>2, <3>3, Zenon DEF TableInv
  <2>13. QED
    BY <2>4, <2>8, <2>12, Zenon
<1>7. QED
  BY <1>5, <1>6, Zenon DEF real_malloc, Real

\* The real free gives the address back, or fails and leaves the buffer untracked.
LEMMA RealFreeStep ==
    ASSUME IInv, NEW t \in Threads, real_free(t)
    PROVE  IInv'
<1> USE DEF IInv, external, history
<1> DEFINE p == thread[t].arg
           r == [thread[t] EXCEPT !.at = "trace", !.arg = NoPointer]
<1>0. /\ thread \in [Threads -> Thread]
      /\ calls \in Seq(Threads) /\ Append(calls, t) \in Seq(Threads)
      /\ heap \in [Pointers -> Kinds \cup {"free", "foreign"}]
  BY ThreadType DEF TypeOK
<1>1. /\ thread[t].at = "real" /\ thread[t].op = "hipFree" /\ guard = t
      /\ calls' = Append(calls, t) /\ thread' = [thread EXCEPT ![t] = r]
      /\ UNCHANGED <<options, guard, tables, kernels, kernel_count, busy, trace, dumps, bypassed, hosted>>
  BY Zenon DEF real_free, Real, At, LockInv
<1>2. \/ heap' = [heap EXCEPT ![p] = "free"] /\ untracked' = untracked \ {p}
      \/ heap' = heap /\ untracked' = untracked \cup {p}
  BY Zenon DEF real_free
<1>3. p \in Pointers /\ ~thread[t].do_trace /\ trace = calls
  BY <1>1, Zenon DEF LocalsInv, Locals, TraceInv, Lines
<1>4. \A q \in Pointers : Holds(t, q) <=> q = p
  BY <1>1, Zenon DEF Holds
<1> HIDE DEF p
<1>5. /\ r \in Thread /\ r.at = "trace" /\ r.op = "hipFree" /\ r.arg = NoPointer
      /\ r.do_trace = thread[t].do_trace
  BY <1>0, <1>1, Zenon DEF Thread, Places
<1> HIDE DEF r
<1>6. thread' \in [Threads -> Thread] /\ thread'[t] = r /\ Others(t)
  BY <1>0, <1>1, <1>5, Zenon DEF Others
<1>7. /\ heap' \in [Pointers -> Kinds \cup {"free", "foreign"}] /\ untracked' \subseteq Pointers
      /\ \A q \in Pointers : q # p => heap'[q] = heap[q] /\ (q \in untracked' <=> q \in untracked)
      /\ heap'[p] = "free" \/ p \in untracked'
  <2>1. untracked \subseteq Pointers
    BY Zenon DEF TypeOK
  <2>2. QED
    BY <1>0, <1>2, <1>3, <2>1, Zenon
<1>8. TypeOK'
  BY <1>0, <1>1, <1>6, <1>7, Zenon DEF TypeOK, Thread, Places, tables
<1>9. LockInv' /\ LocalsInv' /\ TraceInv'
  <2>1. Locals(t)'
    BY <1>3, <1>5, <1>6, Zenon DEF Locals, Allocates
  <2>2. Lines(t)'
    BY <1>1, <1>3, <1>5, <1>6, Zenon DEF Lines
  <2>3. QED
    BY <1>1, <1>5, <1>6, <2>1, <2>2, InsideStep, TracerConstants, Zenon
<1>10. DumpInv'
  <2>1. Progress(t) = 0 /\ Progress(t)' = 0
    BY <1>1, <1>3, <1>5, <1>6 DEF Progress, Dumped
  <2>2. QED
    BY <1>1, <2>1, DumpsSame, Zenon
<1>11. \A u \in Threads, q \in Pointers :
          Holds(u, q)' <=> u # t /\ q # p /\ Holds(u, q)
  <2>1. \A q \in Pointers : ~Holds(t, q)'
    BY <1>5, <1>6, TracerConstants, Zenon DEF Holds
  <2>2. \A u \in Threads : u # t => ~Holds(u, p)
    BY <1>3, <1>4, Zenon DEF HandsInv
  <2>3. QED
    BY <1>1, <1>6, <2>1, <2>2, OthersHold
<1>12. \A u \in Threads : u # t => thread'[u].at \in {"idle", "lock"}
  BY <1>1, <1>6, OthersHold, Zenon
<1>13. HandsInv'
  <2>1. ASSUME NEW u \in Threads, NEW q \in Pointers, Holds(u, q)'
        PROVE  heap'[q] # "free" /\ thread'[u].at # "trace"
    BY <1>7, <1>11, <1>12, <2>1 DEF HandsInv
  <2>2. ASSUME NEW u \in Threads, NEW v \in Threads, NEW q \in Pointers, Holds(u, q)', Holds(v, q)'
        PROVE  u = v
    BY <1>11, <2>2, Zenon DEF HandsInv
  <2>3. QED
    BY <2>1, <2>2 DEF HandsInv
<1>14. InUse' = InUse /\ UNCHANGED <<buffers, count, bypassed>>
  BY <1>1, Zenon DEF InUse, tables
<1>15. \A i \in InUse : buffers[i].ptr \in Pointers /\ (buffers[i].ptr = p => p \in bypassed)
  BY <1>1, <1>3, <1>4, ZenonT(30) DEF TableInv
<1>16. TableInv'
  <2>1. EntriesLive'
    BY <1>7, <1>14, <1>15 DEF TableInv, EntriesLive
  <2>2. ASSUME NEW u \in Threads, NEW q \in Pointers, Holds(u, q)'
        PROVE  thread'[u].at \notin {"real", "trace"}
    BY <1>11, <1>12, <2>2, Zenon
  <2>3. ASSUME NEW q \in Pointers \ untracked', heap'[q] \in Kinds
        PROVE  (\E u \in Threads : Holds(u, q)') \/ (\E i \in InUse : buffers[i].ptr = q)
    <3>1. q # p /\ heap[q] \in Kinds /\ q \notin untracked
      BY <1>7, <2>3, Zenon DEF Kinds
    <3>2. (\E u \in Threads : Holds(u, q)) \/ (\E i \in InUse : buffers[i].ptr = q)
      BY <2>3, <3>1, Zenon DEF TableInv
    <3>3. QED
      BY <1>4, <1>11, <2>3, <3>1, <3>2, Zenon
  <2>4. QED
    BY <1>14, <1>15, <2>1, <2>2, <2>3, ZenonT(30) DEF TableInv
<1>17. QED
  BY <1>8, <1>9, <1>10, <1>13, <1>16

\* The wrapper of an allocation tracks the buffer, writes its line and returns.
LEMMA TrackStep ==
    ASSUME IInv, NEW t \in Threads, wrap_trace(t), thread[t].arg \in Pointers
    PROVE  IInv'
<1> USE DEF IInv, external, history
<1> DEFINE p == thread[t].arg
           kind == KindOf(thread[t].op)
<1>0. /\ thread \in [Threads -> Thread]
      /\ trace \in Seq(Threads) /\ Append(trace, t) \in Seq(Threads)
  BY ThreadType DEF TypeOK
<1>1. /\ thread[t].at = "trace" /\ guard = t /\ Returns(t) /\ trace' = Append(trace, t)
      /\ buffer_table_add(p, kind)
      /\ UNCHANGED <<options, kernels, kernel_count, external, calls, dumps, bypassed, hosted>>
  BY TracerConstants, Zenon DEF wrap_trace, At, Line, LockInv
<1>2. p # NoPointer
  BY TracerConstants, Zenon
<1>3. thread[t].op \in Allocates /\ ~thread[t].do_trace /\ calls = Append(trace, t)
  <2>1. thread[t].op \in Operations
    BY <1>0, Zenon DEF Thread
  <2>2. QED
    BY <1>1, <1>2, <2>1, Zenon DEF Operations, Allocates, LocalsInv, Locals, TraceInv, Lines
<1>4. /\ \A q \in Pointers : Holds(t, q) <=> q = p
      /\ p \in Pointers /\ kind \in Kinds
  BY <1>3, Zenon DEF Holds, KindOf, Kinds
<1>5. heap[p] = kind /\ (p \notin bypassed => \A i \in InUse : buffers[i].ptr # p)
  BY <1>1, <1>4, Zenon DEF HandsInv, TableInv
<1> HIDE DEF p, kind
<1>6. /\ thread' \in [Threads -> Thread] /\ Others(t) /\ guard' = NoThread
      /\ thread'[t].at = "idle" /\ thread'[t].op = "call" /\ thread'[t].arg = NoPointer
      /\ thread'[t].do_trace = FALSE /\ thread'[t].phase = "before"
  BY <1>0, <1>1, ReturnsFacts, Zenon
<1>7. LockInv' /\ LocalsInv' /\ TraceInv'
  <2>1. Locals(t)' /\ Lines(t)'
    BY <1>6, Zenon DEF Locals, Lines, Allocates
  <2>2. QED
    BY <1>1, <1>3, <1>6, <2>1, InsideStep, Zenon
<1>8. DumpInv'
  <2>1. Progress(t) = 0 /\ Progress(t)' = 0
    BY <1>3, <1>6, TracerConstants, Zenon DEF Progress, Dumped
  <2>2. QED
    BY <1>1, <1>6, <2>1, DumpsSame, Zenon
<1>9. \A u \in Threads, q \in Pointers :
         Holds(u, q)' <=> u # t /\ q # p /\ Holds(u, q)
  <2>1. \A q \in Pointers : ~Holds(t, q)'
    BY <1>6, TracerConstants, Zenon DEF Holds
  <2>2. \A u \in Threads : u # t => ~Holds(u, p)
    BY <1>4, Zenon DEF HandsInv
  <2>3. QED
    BY <1>1, <1>6, <2>1, <2>2, OthersHold
<1>10. \A u \in Threads : u # t => thread'[u].at \in {"idle", "lock"}
  BY <1>1, <1>6, OthersHold, Zenon
<1>11. HandsInv'
  <2>1. ASSUME NEW u \in Threads, NEW q \in Pointers, Holds(u, q)'
        PROVE  heap'[q] # "free" /\ thread'[u].at # "trace"
    BY <1>1, <1>9, <1>10, <2>1 DEF HandsInv
  <2>2. ASSUME NEW u \in Threads, NEW v \in Threads, NEW q \in Pointers, Holds(u, q)', Holds(v, q)'
        PROVE  u = v
    BY <1>9, <2>2, Zenon DEF HandsInv
  <2>3. QED
    BY <2>1, <2>2, Zenon DEF HandsInv
<1>12. ASSUME NEW u \in Threads, NEW q \in Pointers, Holds(u, q)'
       PROVE  thread'[u].at \notin {"real", "trace"}
  BY <1>9, <1>10, <1>12, Zenon
<1>13. ASSUME NEW q \in Pointers \ untracked, q # p, heap[q] \in Kinds
       PROVE  (\E u \in Threads : Holds(u, q)') \/ (\E i \in InUse : buffers[i].ptr = q)
  <2>1. (\E u \in Threads : Holds(u, q)) \/ (\E i \in InUse : buffers[i].ptr = q)
    BY <1>13, Zenon DEF TableInv
  <2>2. QED
    BY <1>4, <1>9, <1>13, <2>1
<1>14. CASE InUse = Slots
  <2>1. untracked' = untracked \cup {p} /\ UNCHANGED <<buffers, count>>
    BY <1>1, <1>14, Zenon DEF buffer_table_add, tables
  <2>2. InUse' = InUse
    BY <2>1, Zenon DEF InUse
  <2>3. TypeOK'
    BY <1>0, <1>1, <1>4, <1>6, <2>1 DEF TypeOK, Thread, Places
  <2>4. (\A i \in InUse : buffers[i].ptr \in Pointers)' /\ EntriesLive' /\ (count = Cardinality(InUse))'
    BY <1>1, <2>1, <2>2, Zenon DEF TableInv, EntriesLive
  <2>5. TableInv'
    BY <1>1, <1>12, <1>13, <2>1, <2>2, <2>4, Zenon DEF TableInv
  <2>6. QED
    BY <1>7, <1>8, <1>11, <2>3, <2>5
<1>15. CASE InUse # Slots
  <2>1. /\ buffers' = [buffers EXCEPT ![Min(Slots \ InUse)] = [ptr |-> p, btype |-> kind]]
        /\ count' = count + 1 /\ untracked' = untracked
    BY <1>1, <1>15, Zenon DEF buffer_table_add
  <2>2. /\ buffers' \in [Slots -> [ptr : Pointers \cup {NoPointer}, btype : Kinds]]
        /\ count' \in 0 .. MAX_TRACKED_BUFFERS /\ count' = Cardinality(InUse')
        /\ \E i \in Slots \ InUse :
              /\ InUse' = InUse \cup {i}
              /\ buffers'[i] = [ptr |-> p, btype |-> kind]
              /\ \A j \in InUse : buffers'[j] = buffers[j]
    BY <1>4, <1>15, <2>1, TableAdd, Zenon
  <2>3. PICK i \in Slots \ InUse : /\ InUse' = InUse \cup {i}
                                   /\ buffers'[i] = [ptr |-> p, btype |-> kind]
                                   /\ \A j \in InUse : buffers'[j] = buffers[j]
    BY <2>2, Zenon
  <2>4. TypeOK'
    BY <1>0, <1>1, <1>6, <2>1, <2>2, Zenon DEF TypeOK, Thread, Places
  <2>5. \A j \in InUse : buffers[j].ptr \in Pointers
    BY Zenon DEF TableInv
  <2>6. buffers'[i].ptr = p /\ buffers'[i].btype = kind
    <3>1. [ptr |-> p, btype |-> kind].ptr = p /\ [ptr |-> p, btype |-> kind].btype = kind
      OBVIOUS
    <3>2. QED
      BY <2>3, <3>1, Zenon
  <2>7. EntriesLive'
    <3>1. heap' = heap /\ bypassed' = bypassed /\ EntriesLive
      BY <1>1, Zenon DEF TableInv
    <3>2. ASSUME NEW j \in InUse', buffers'[j].ptr \notin bypassed'
          PROVE  /\ heap'[buffers'[j].ptr] = buffers'[j].btype
                 /\ \A k \in InUse' : buffers'[k].ptr = buffers'[j].ptr => k = j
      <4>1. CASE j = i
        BY <1>5, <2>3, <2>6, <3>1, <3>2, <4>1, Zenon
      <4>2. CASE j # i
        <5>1. j \in InUse /\ buffers'[j] = buffers[j]
          BY <2>3, <4>2, Zenon
        <5>2. buffers[j].ptr # p
          BY <1>5, <3>1, <3>2, <5>1, Zenon
        <5>3. heap[buffers[j].ptr] = buffers[j].btype
              /\ \A k \in InUse : buffers[k].ptr = buffers[j].ptr => k = j
          BY <3>1, <3>2, <5>1, Zenon DEF EntriesLive
        <5>4. ASSUME NEW k \in InUse', buffers'[k].ptr = buffers'[j].ptr
              PROVE  k = j
          <6>1. k # i
            BY <2>6, <5>1, <5>2, <5>4, Zenon
          <6>2. k \in InUse /\ buffers'[k] = buffers[k]
            BY <2>3, <6>1, Zenon
          <6>3. QED
            BY <5>1, <5>3, <5>4, <6>2, Zenon
        <5>5. QED
          BY <3>1, <5>1, <5>3, <5>4, Zenon
      <4>3. QED
        BY <4>1, <4>2, Zenon
    <3>3. QED
      BY <3>2, Zenon DEF EntriesLive
  <2>8. \A j \in InUse' : buffers'[j].ptr \in Pointers
    BY <1>4, <2>3, <2>5, <2>6, Zenon
  <2>9. ASSUME NEW q \in Pointers \ untracked, heap[q] \in Kinds
        PROVE  (\E u \in Threads : Holds(u, q)') \/ (\E j \in InUse' : buffers'[j].ptr = q)
    BY <1>13, <2>3, <2>6, <2>9, Zenon
  <2>10. TableInv'
    BY <1>1, <1>12, <2>1, <2>2, <2>7, <2>8, <2>9, Zenon DEF TableInv
  <2>11. QED
    BY <1>7, <1>8, <1>11, <2>4, <2>10, Zenon
<1>16. QED
  BY <1>14, <1>15

\* Every step keeps the invariant.
LEMMA NextIInv == IInv /\ [Next]_vars => IInv'
<1> SUFFICES ASSUME IInv, [Next]_vars PROVE IInv'
  BY Zenon
<1>1. CASE UNCHANGED vars
  <2>1. UNCHANGED <<options, guard, buffers, count, kernels, kernel_count, thread, heap, busy, calls,
                    trace, dumps, bypassed, untracked, hosted>>
    BY <1>1, Zenon DEF vars, tables, external, history
  <2>2. TypeOK' /\ LockInv' /\ LocalsInv' /\ TraceInv'
    BY <2>1 DEF IInv, TypeOK, LockInv, LocalsInv, Locals, TraceInv, Lines
  <2>3. DumpInv'
    BY <2>1, Zenon DEF IInv, DumpInv, DumpsPaired, Dumped
  <2>4. HandsInv' /\ TableInv'
    BY <2>1, Zenon DEF IInv, HandsInv, TableInv, Holds, InUse, EntriesLive
  <2>5. QED
    BY <2>2, <2>3, <2>4, Zenon DEF IInv
<1>2. ASSUME NEW t \in Threads,
             \/ \E op \in options.uses, arg \in Pointers \cup HostFuns \cup {NoPointer} : Enter(t, op, arg)
             \/ \E p \in options.memory : direct_malloc(t, p) \/ direct_free(t, p)
             \/ \E u \in Threads : direct_host_function(t, u)
             \/ ReleaseDevice(t)
      PROVE  IInv'
  BY <1>2, EnterStep, DirectSteps, Zenon
<1>3. ASSUME NEW t \in Threads, Step(t)
      PROVE  IInv'
  <2>1. CASE wrap_trace(t)
    <3>1. thread[t].arg \in Pointers \/ thread[t].arg = NoPointer
      BY <2>1, Zenon DEF wrap_trace
    <3>2. QED
      BY <2>1, <3>1, TrackStep, QuietRealSteps, Zenon
  <2>2. QED
    BY <1>3, <2>1, LockSteps, FreeStep, DumpSteps, MallocStep, RealFreeStep, QuietRealSteps, Zenon DEF Step
<1>4. QED
  BY <1>1, <1>2, <1>3, Zenon DEF Next

-----------------------------------------------------------------------------
(* The theorems. *)

\* IInv is an invariant of the tracer.
THEOREM Invariance == Spec => []IInv
<1>1. QED
  BY InitIInv, NextIInv, PTL DEF Spec

\* The fields of State and the locals of the wrappers keep their types; in particular
\* count never passes MAX_TRACKED_BUFFERS and no slot index leaves the table.
THEOREM TypeCorrect == Spec => []TypeOK
<1>1. IInv => TypeOK
  BY Zenon DEF IInv
<1>2. QED
  BY <1>1, Invariance, PTL

\* A dump reads live memory only: an entry of the table names a live buffer of its
\* type, and no buffer has two, whatever the wrappers of other threads are doing.
THEOREM DumpReadsLiveMemory == Spec => []EntriesLive
<1>1. IInv => EntriesLive
  BY Zenon DEF IInv, TableInv
<1>2. QED
  BY <1>1, Invariance, PTL

\* The table forgets no buffer, and count is the number of its entries.
THEOREM TableComplete == Spec => []NoneForgotten
<1>1. IInv => NoneForgotten
  <2>1. \A p \in Pointers : ~InHand(p) => \A t \in Threads : ~Holds(t, p)
    BY Zenon DEF InHand, Holds
  <2>2. QED
    BY <2>1, Zenon DEF IInv, TableInv, NoneForgotten
<1>2. QED
  BY <1>1, Invariance, PTL

\* The lines are in the order of the real calls, for any number of threads and calls.
THEOREM LinesInCallOrder == Spec => []TraceInCallOrder
<1>1. IInv => TraceInCallOrder
  BY Zenon DEF IInv, TraceInv, TraceInCallOrder
<1>2. QED
  BY <1>1, Invariance, PTL

\* The dumps of a traced launch carry its number and nobody's come between them; no
\* more launches are traced than kernel_count_limit says.
THEOREM DumpsAreThePairs == Spec => []DumpsPaired
<1>1. IInv => DumpsPaired
  BY Zenon DEF IInv, DumpInv
<1>2. QED
  BY <1>1, Invariance, PTL

=============================================================================
