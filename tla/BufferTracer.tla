---------------------------- MODULE BufferTracer ----------------------------
(***************************************************************************)
(* The interceptor of crates/hip-buffer-tracer, called by the threads of   *)
(* the traced program through the table it returned to the shim.           *)
(*                                                                         *)
(* Every wrapper holds the mutex STATE from its first line to its last,    *)
(* across the real call.  The exports of the shim that are not in the      *)
(* table (hipFreeHost, hipFreeAsync, hipMallocAsync, hipLaunchHostFunc)    *)
(* reach the backend without it, so they interleave with a wrapper.        *)
(*                                                                         *)
(* The backend is external: a heap of addresses, and a device that is busy *)
(* while a host function enqueued on it waits for a thread of the program. *)
(* Its synchronizations, its frees and its copies from the device to the   *)
(* host return when the device has run dry.                                *)
(***************************************************************************)
EXTENDS Naturals, Sequences, FiniteSets, FiniteSetsExt

CONSTANTS
    Threads,
    Pointers,               \* the addresses the backend hands out
    HostFuns,               \* host addresses of kernels that may be registered
    Filtered,               \* those whose name contains HIP_TRACE_KERNEL_FILTER
    MAX_TRACKED_BUFFERS,
    Settings,               \* the environment variables the tracer may be started with,
                            \* and what the program uses: wrapped operations and memory
    MaxCalls,               \* bound: wrapped and direct calls of each thread
    MaxHostFunctions,       \* bound: hipLaunchHostFunc calls
    NoPointer, NoThread

Operations  == {"hipMalloc", "hipHostMalloc", "hipFree", "call", "synchronize", "launch", "register"}
AllSettings == [sync : BOOLEAN, dump : BOOLEAN, filter : BOOLEAN, limit : Nat,
                uses : SUBSET Operations, memory : SUBSET Pointers]

ASSUME TracerConstants ==
    /\ Settings \subseteq AllSettings
    /\ Filtered \subseteq HostFuns
    /\ MAX_TRACKED_BUFFERS \in Nat \ {0}
    /\ MaxCalls \in Nat /\ MaxHostFunctions \in Nat
    /\ NoPointer \notin Pointers /\ NoThread \notin Threads

VARIABLES
    options,        \* trace_sync, trace_dump # 0, kernel_filter set, kernel_count_limit;
                    \* the operations and the memory of the program
    guard,          \* the thread that holds STATE
    buffers, count, \* the buffer table; a slot not in use holds Unused
    kernels,        \* the host addresses in the kernel table
    kernel_count,
    thread,         \* where each thread is, and the locals of its wrapper
    heap,           \* external: what each address holds
    busy,           \* external: the threads the device waits for
    calls,          \* history: the threads in the order of their real calls
    trace,          \* history: the threads in the order of their trace lines
    dumps,          \* history: the labels of the dumps
    bypassed,       \* history: tracked addresses freed by a direct export
    untracked,      \* history: addresses the table has dropped for a reason
    hosted          \* history: hipLaunchHostFunc calls so far

tables   == <<buffers, count>>
external == <<heap, busy>>
history  == <<bypassed, untracked, hosted>>
vars == <<options, guard, tables, kernels, kernel_count, thread, external, calls, trace, dumps, history>>

Kinds  == {"device", "host"}
Slots  == 1 .. MAX_TRACKED_BUFFERS
Unused == [ptr |-> NoPointer, btype |-> "device"]
InUse  == {i \in Slots : buffers[i] # Unused}

KindOf(op) == IF op = "hipMalloc" THEN "device" ELSE "host"

Idle == [at |-> "idle", op |-> "call", arg |-> NoPointer, slot |-> 0,
         do_trace |-> FALSE, phase |-> "before", calls |-> 0]

Init ==
    /\ options \in Settings
    /\ guard = NoThread
    /\ buffers = [i \in Slots |-> Unused] /\ count = 0
    /\ kernels = {} /\ kernel_count = 0
    /\ thread = [t \in Threads |-> Idle]
    /\ heap = [p \in Pointers |-> "free"] /\ busy = {}
    /\ calls = <<>> /\ trace = <<>> /\ dumps = <<>>
    /\ bypassed = {} /\ untracked = {} /\ hosted = 0

At(t, place) == thread[t].at = place
Moves(t, place) == thread' = [thread EXCEPT ![t].at = place]
Line(t) == trace' = Append(trace, t)

\* Variant: the guard outlives the wrapper.
ReturnsLocked(t) ==
    /\ guard' = guard
    /\ thread' = [thread EXCEPT ![t] = [Idle EXCEPT !.calls = thread[t].calls]]

\* The wrapper returns: its guard is dropped.
Returns(t) ==
    /\ guard' = NoThread
    /\ thread' = [thread EXCEPT ![t] = [Idle EXCEPT !.calls = thread[t].calls]]

-----------------------------------------------------------------------------
(* The tables. *)

\* Variant: a full table gives up its first slot.
EvictWhenFull(p, kind) ==
    LET i == IF InUse = Slots THEN 1 ELSE Min(Slots \ InUse) IN
    /\ buffers' = [buffers EXCEPT ![i] = [ptr |-> p, btype |-> kind]]
    /\ count' = IF InUse = Slots THEN count ELSE count + 1
    /\ UNCHANGED untracked

\* The first slot that is not in use gets the buffer; a full table drops it.
buffer_table_add(p, kind) ==
    IF InUse = Slots
    THEN /\ untracked' = untracked \cup {p}
         /\ UNCHANGED tables
    ELSE /\ buffers' = [buffers EXCEPT ![Min(Slots \ InUse)] = [ptr |-> p, btype |-> kind]]
         /\ count' = count + 1
         /\ UNCHANGED untracked

\* Variant: count is decremented whether or not the pointer was tracked.
RemoveAlwaysCounts(p) ==
    /\ buffers' = [i \in Slots |-> IF buffers[i].ptr = p THEN Unused ELSE buffers[i]]
    /\ count' = count - 1

\* The first entry of the pointer, if any, is given up.
buffer_table_remove(p) ==
    LET entries == {i \in InUse : buffers[i].ptr = p} IN
    IF entries = {}
    THEN UNCHANGED tables
    ELSE /\ buffers' = [buffers EXCEPT ![Min(entries)] = Unused]
         /\ count' = count - 1

\* A kernel launched by its host address is named if it was registered; a launch
\* by a module function never is.
should_trace_kernel(f) ==
    /\ options.limit > 0 => kernel_count < options.limit
    /\ options.filter => f \in kernels \cap Filtered

-----------------------------------------------------------------------------
(* Wrapped calls.  A call enters a wrapper, takes STATE, and runs to its end   *)
(* with the lock held.                                                         *)

InHand(p) == \E t \in Threads : thread[t].arg = p

\* What a program may ask for: it frees a buffer once and only one it was given, and
\* a thread the device waits for does not wait for the device.
Legal(t, op, arg) ==
    CASE op = "hipFree"     -> arg \in Pointers /\ heap[arg] # "free" /\ ~InHand(arg) /\ t \notin busy
      [] op = "launch"      -> arg \in HostFuns \cup {NoPointer}
      [] op = "register"    -> arg \in HostFuns \cup {NoPointer}
      [] op = "synchronize" -> arg = NoPointer /\ t \notin busy
      [] OTHER              -> arg = NoPointer

Enter(t, op, arg) ==
    /\ At(t, "idle") /\ thread[t].calls < MaxCalls
    /\ Legal(t, op, arg)
    /\ thread' = [thread EXCEPT ![t] = [Idle EXCEPT !.at = "lock", !.op = op, !.arg = arg,
                                                    !.calls = thread[t].calls + 1]]
    /\ UNCHANGED <<options, guard, tables, kernels, kernel_count, external, calls, trace, dumps, history>>

Locks(t, op) == At(t, "lock") /\ thread[t].op = op /\ guard = NoThread /\ guard' = t

\* Wrappers that call the backend first.
wrap_call(t) ==
    /\ \E op \in {"hipMalloc", "hipHostMalloc", "call", "synchronize"} : Locks(t, op)
    /\ Moves(t, "real")
    /\ UNCHANGED <<options, tables, kernels, kernel_count, external, calls, trace, dumps, history>>

\* Variant: the buffer is freed and stays in the table.
FreeKeepsEntry(t) ==
    /\ Locks(t, "hipFree")
    /\ Moves(t, "real")
    /\ UNCHANGED <<options, tables, kernels, kernel_count, external, calls, trace, dumps, history>>

\* wrap_hipFree and wrap_hipHostFree forget the buffer before the real call.
wrap_free(t) ==
    /\ Locks(t, "hipFree")
    /\ buffer_table_remove(thread[t].arg)
    /\ Moves(t, "real")
    /\ UNCHANGED <<options, kernels, kernel_count, external, calls, trace, dumps, history>>

\* wrap___hipRegisterFunction, whose kernel_table_add keeps the first registration;
\* with NoPointer, the wrappers of __hipRegisterVar and __hipUnregisterFatBinary, which
\* also write their line before the real call.
wrap_register(t) ==
    /\ Locks(t, "register")
    /\ kernels' = kernels \cup ({thread[t].arg} \ {NoPointer})
    /\ Line(t)
    /\ Moves(t, "real")
    /\ UNCHANGED <<options, tables, kernel_count, external, calls, dumps, history>>

\* The launch wrappers decide whether to trace; a traced launch in sync mode first
\* waits for the device and dumps.
wrap_launch(t) ==
    /\ Locks(t, "launch")
    /\ LET do_trace == should_trace_kernel(thread[t].arg) IN
       \/ /\ do_trace /\ options.sync
          /\ thread' = [thread EXCEPT ![t] = [@ EXCEPT !.at = "quiesce", !.do_trace = TRUE]]
          /\ UNCHANGED trace
       \/ /\ ~(do_trace /\ options.sync)
          /\ thread' = [thread EXCEPT ![t] = [@ EXCEPT !.at = "real", !.do_trace = do_trace]]
          /\ Line(t)
    /\ UNCHANGED <<options, tables, kernels, kernel_count, external, calls, dumps, history>>

\* hipDeviceSynchronize returns, and the dump starts with its label.
quiesce(t) ==
    /\ At(t, "quiesce") /\ busy = {}
    /\ thread' = [thread EXCEPT ![t] = [@ EXCEPT !.at = "dump", !.slot = 1]]
    /\ dumps' = IF options.dump THEN Append(dumps, <<thread[t].phase, kernel_count>>) ELSE dumps
    /\ UNCHANGED <<options, guard, tables, kernels, kernel_count, external, calls, trace, history>>

\* The next slot of the dump holds a device buffer, staged with hipMemcpy.
Staging(t) ==
    /\ At(t, "dump") /\ options.dump
    /\ thread[t].slot \in InUse /\ buffers[thread[t].slot].btype = "device"

\* dump_all_buffers_ex reads the buffer in one slot, if the slot is in use.
dump_slot(t) ==
    /\ At(t, "dump") /\ options.dump /\ thread[t].slot \in Slots
    /\ Staging(t) => busy = {}
    /\ thread' = [thread EXCEPT ![t].slot = @ + 1]
    /\ UNCHANGED <<options, guard, tables, kernels, kernel_count, external, calls, trace, dumps, history>>

\* The dump is over: the kernel is launched, or its launch is counted.
dump_over(t) ==
    /\ At(t, "dump") /\ (options.dump => thread[t].slot \notin Slots)
    /\ \/ /\ thread[t].phase = "before"
          /\ Line(t)
          /\ Moves(t, "real")
          /\ UNCHANGED <<guard, kernel_count>>
       \/ /\ thread[t].phase = "after"
          /\ kernel_count' = kernel_count + 1
          /\ Returns(t)
          /\ UNCHANGED trace
    /\ UNCHANGED <<options, tables, kernels, external, calls, dumps, history>>

-----------------------------------------------------------------------------
(* Real calls and what follows them. *)

Real(t, op) == At(t, "real") /\ thread[t].op = op /\ calls' = Append(calls, t)

\* The backend allocates an address, or fails; then the buffer is tracked.
real_malloc(t) ==
    /\ \E op \in {"hipMalloc", "hipHostMalloc"} :
          /\ Real(t, op)
          /\ \/ \E p \in options.memory :
                   /\ heap[p] = "free"
                   /\ heap' = [heap EXCEPT ![p] = KindOf(op)]
                   /\ thread' = [thread EXCEPT ![t] = [@ EXCEPT !.at = "trace", !.arg = p]]
             \/ Moves(t, "trace") /\ UNCHANGED heap
    /\ UNCHANGED <<options, guard, tables, kernels, kernel_count, busy, trace, dumps, history>>

\* A free that fails leaves the buffer allocated and no longer tracked.
real_free(t) ==
    /\ Real(t, "hipFree") /\ busy = {}
    /\ LET p == thread[t].arg IN
       \/ /\ heap' = [heap EXCEPT ![p] = "free"]
          /\ untracked' = untracked \ {p}
       \/ /\ untracked' = untracked \cup {p}
          /\ UNCHANGED heap
    /\ thread' = [thread EXCEPT ![t] = [@ EXCEPT !.at = "trace", !.arg = NoPointer]]
    /\ UNCHANGED <<options, guard, tables, kernels, kernel_count, busy, trace, dumps, bypassed, hosted>>

\* Variant: the lock is given up for the real call and not taken again.
UnlockedForCall(t) ==
    /\ \/ Real(t, "call")
       \/ Real(t, "synchronize") /\ busy = {}
    /\ guard' = NoThread
    /\ Moves(t, "trace")
    /\ UNCHANGED <<options, tables, kernels, kernel_count, external, trace, dumps, history>>

\* Calls whose effect on the backend is not modelled; those that synchronize block.
real_call(t) ==
    /\ \/ Real(t, "call")
       \/ Real(t, "synchronize") /\ busy = {}
    /\ Moves(t, "trace")
    /\ UNCHANGED <<options, guard, tables, kernels, kernel_count, external, trace, dumps, history>>

real_register(t) ==
    /\ Real(t, "register")
    /\ Returns(t)
    /\ UNCHANGED <<options, tables, kernels, kernel_count, external, trace, dumps, history>>

\* Variant: the launch is counted before the second dump.
CountedBeforeDump(t) ==
    /\ Real(t, "launch")
    /\ kernel_count' = IF thread[t].do_trace THEN kernel_count + 1 ELSE kernel_count
    /\ \/ /\ thread[t].do_trace /\ options.sync
          /\ thread' = [thread EXCEPT ![t] = [@ EXCEPT !.at = "quiesce", !.phase = "after"]]
          /\ UNCHANGED guard
       \/ /\ ~(thread[t].do_trace /\ options.sync)
          /\ Returns(t)
    /\ UNCHANGED <<options, tables, kernels, external, trace, dumps, history>>

\* After the launch a traced one in sync mode waits and dumps again; it is counted
\* at the end.
real_launch(t) ==
    /\ Real(t, "launch")
    /\ \/ /\ thread[t].do_trace /\ options.sync
          /\ thread' = [thread EXCEPT ![t] = [@ EXCEPT !.at = "quiesce", !.phase = "after"]]
          /\ UNCHANGED <<guard, kernel_count>>
       \/ /\ ~(thread[t].do_trace /\ options.sync)
          /\ kernel_count' = IF thread[t].do_trace THEN kernel_count + 1 ELSE kernel_count
          /\ Returns(t)
    /\ UNCHANGED <<options, tables, kernels, external, trace, dumps, history>>

\* The rest of a wrapper: a new buffer is added to the table, and the line written.
wrap_trace(t) ==
    /\ At(t, "trace")
    /\ \/ /\ thread[t].arg \in Pointers
          /\ buffer_table_add(thread[t].arg, KindOf(thread[t].op))
       \/ /\ thread[t].arg = NoPointer
          /\ UNCHANGED <<tables, untracked>>
    /\ Line(t)
    /\ Returns(t)
    /\ UNCHANGED <<options, kernels, kernel_count, external, calls, dumps, bypassed, hosted>>

-----------------------------------------------------------------------------
(* Direct exports, and the program itself. *)

Spends(t) ==
    /\ At(t, "idle") /\ thread[t].calls < MaxCalls
    /\ thread' = [thread EXCEPT ![t].calls = @ + 1]

\* hipMallocAsync, hipMallocHost, hipMallocManaged.
direct_malloc(t, p) ==
    /\ Spends(t)
    /\ heap[p] = "free"
    /\ heap' = [heap EXCEPT ![p] = "foreign"]
    /\ UNCHANGED <<options, guard, tables, kernels, kernel_count, busy, calls, trace, dumps, history>>

\* hipFreeAsync, hipFreeHost.
direct_free(t, p) ==
    /\ Spends(t)
    /\ heap[p] # "free" /\ ~InHand(p)
    /\ heap' = [heap EXCEPT ![p] = "free"]
    /\ untracked' = untracked \ {p}
    /\ bypassed' = IF \E i \in InUse : buffers[i].ptr = p THEN bypassed \cup {p} ELSE bypassed
    /\ UNCHANGED <<options, guard, tables, kernels, kernel_count, busy, calls, trace, dumps, hosted>>

\* hipLaunchHostFunc: the device runs a function that waits for thread u, which is
\* going to release it when it is done with what it is doing.
direct_host_function(t, u) ==
    /\ Spends(t)
    /\ hosted < MaxHostFunctions /\ u # t
    /\ busy' = busy \cup {u} /\ hosted' = hosted + 1
    /\ UNCHANGED <<options, guard, tables, kernels, kernel_count, heap, calls, trace, dumps, bypassed, untracked>>

ReleaseDevice(u) ==
    /\ At(u, "idle") /\ u \in busy
    /\ busy' = busy \ {u}
    /\ UNCHANGED <<options, guard, tables, kernels, kernel_count, thread, heap, calls, trace, dumps, history>>

-----------------------------------------------------------------------------

Step(t) ==
    \/ wrap_call(t) \/ wrap_free(t) \/ wrap_register(t) \/ wrap_launch(t)
    \/ quiesce(t) \/ dump_slot(t) \/ dump_over(t)
    \/ real_malloc(t) \/ real_free(t) \/ real_call(t) \/ real_register(t) \/ real_launch(t)
    \/ wrap_trace(t)

Next ==
    \E t \in Threads :
        \/ \E op \in options.uses, arg \in Pointers \cup HostFuns \cup {NoPointer} : Enter(t, op, arg)
        \/ \E p \in options.memory : direct_malloc(t, p) \/ direct_free(t, p)
        \/ \E u \in Threads : direct_host_function(t, u)
        \/ ReleaseDevice(t)
        \/ Step(t)

Spec == Init /\ [][Next]_vars

\* Threads inside a wrapper keep running, the backend's calls return, and a thread
\* the device waits for does release it.
FairSpec == Spec /\ \A t \in Threads : WF_vars(Step(t)) /\ WF_vars(ReleaseDevice(t))

-----------------------------------------------------------------------------
(* Properties. *)

\* The variables have the types of the fields of State and of the wrappers' locals.
TypeOK ==
    /\ options \in Settings
    /\ guard \in Threads \cup {NoThread}
    /\ buffers \in [Slots -> [ptr : Pointers \cup {NoPointer}, btype : Kinds]]
    /\ count \in 0 .. MAX_TRACKED_BUFFERS
    /\ kernels \subseteq HostFuns /\ kernel_count \in Nat
    /\ thread \in [Threads -> [at : {"idle", "lock", "real", "trace", "quiesce", "dump"},
                               op : Operations, arg : Pointers \cup HostFuns \cup {NoPointer},
                               slot : 0 .. MAX_TRACKED_BUFFERS + 1, do_trace : BOOLEAN,
                               phase : {"before", "after"}, calls : 0 .. MaxCalls]]
    /\ heap \in [Pointers -> Kinds \cup {"free", "foreign"}] /\ busy \subseteq Threads
    /\ calls \in Seq(Threads) /\ trace \in Seq(Threads)
    /\ dumps \in Seq({"before", "after"} \X Nat)
    /\ bypassed \subseteq Pointers /\ untracked \subseteq Pointers /\ hosted \in Nat

\* The table never lists a buffer that is gone: an entry names a live buffer of its
\* type and no buffer has two, at every step of every wrapper, so that a dump reads
\* live memory only.  Buffers freed by an export the tracer does not wrap are the
\* exception.
EntriesLive ==
    \A i \in InUse : buffers[i].ptr \notin bypassed =>
        /\ heap[buffers[i].ptr] = buffers[i].btype
        /\ \A j \in InUse : buffers[j].ptr = buffers[i].ptr => j = i

\* The table forgets no buffer: each one a wrapper allocated is listed, unless the
\* table was full or a free of it failed; and count is the number of entries.
NoneForgotten ==
    /\ count = Cardinality(InUse)
    /\ \A p \in Pointers \ untracked :
          heap[p] \in Kinds /\ ~InHand(p) => \E i \in InUse : buffers[i].ptr = p

\* "A single lock ... preserves observable ordering of trace lines": when no wrapper
\* is running, the lines are in the order of the real calls.
TraceInCallOrder == guard = NoThread => trace = calls

\* Each traced launch has a number of its own: the dumps around it carry the same
\* number, no other launch's dump comes between them, and at most kernel_count_limit
\* launches are traced.
DumpsPaired ==
    /\ \A i \in DOMAIN dumps :
          dumps[i] = <<IF i % 2 = 1 THEN "before" ELSE "after", (i - 1) \div 2>>
    /\ options.limit > 0 => kernel_count <= options.limit

\* A thread that holds the lock waits for the device to run dry.
HolderWaits(t) ==
    /\ guard = t
    /\ \/ At(t, "quiesce") \/ Staging(t)
       \/ At(t, "real") /\ thread[t].op \in {"synchronize", "hipFree"}

\* Every wrapped call returns and gives the lock back, unless a host function that the
\* holder waits for waits for the holder itself or for a thread queued on the lock.
CallsReturn ==
    \A t \in Threads :
        ~At(t, "idle") ~> \/ At(t, "idle")
                          \/ \E h \in Threads, u \in busy :
                                HolderWaits(h) /\ (u = h \/ At(u, "lock"))

\* The comment on with_state! says that holding the lock across the real call is
\* safe: a call that holds it never waits for a thread that waits for it.
HoldingIsSafe == \A t \in Threads, u \in busy : ~(HolderWaits(t) /\ At(u, "lock"))
=============================================================================
