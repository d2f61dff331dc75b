----------------------------- MODULE HrxObjects -----------------------------
(***************************************************************************)
(* Ownership of the objects behind the handles of libhrx: devices,         *)
(* semaphores, fences, buffers with their mappings, pools and virtual      *)
(* memory, buffer views, value lists, modules, functions and executables   *)
(* (crates/hrx-libhrx/src, crates/iree-hal/src).                           *)
(*                                                                         *)
(* A handle is the data pointer of an Arc; its fields own one reference    *)
(* each on IREE objects, which are counted too, and on parent handles.     *)
(* Both kinds live in heap, one cell per object, never reused: what it is, *)
(* its count, the references it owns in the order their drops run, the     *)
(* objects it points to without owning a reference, and how many of its    *)
(* references nobody has any more.  Dropping an object pushes what it owns *)
(* on the todo list of the thread, which releases it one reference at a    *)
(* time, so threads interleave inside a teardown.                          *)
(*                                                                         *)
(* What IREE objects retain themselves is external: a view its buffer, a   *)
(* list its elements, a fence its semaphores, a HAL module its device      *)
(* group, a context its modules.                                           *)
(***************************************************************************)
EXTENDS Integers, Sequences, FiniteSets, Functions

CONSTANTS
    Clients,    \* threads that call libhrx
    Plans,      \* each the creations of one behaviour, in the order of the calls
    MaxCells,   \* bound on the objects
    MaxRefs     \* bound on the references a client holds on a handle, a list on elements

ASSUME ObjectBounds ==
    /\ IsFiniteSet(Clients)
    /\ MaxCells \in Nat /\ MaxCells >= 4
    /\ MaxRefs \in Nat

VARIABLES
    heap,       \* the objects
    refs,       \* references each client holds on each handle
    call,       \* the constructor a client is inside of
    todo,       \* references a client's call has still to release, in order
    up,         \* the accelerator is initialized: the runtime owns the device
    crashed,    \* a panic crossed the C ABI: the process is gone
    plan        \* creations still to come, each by any client

vars == <<heap, refs, call, todo, up, crashed, plan>>

\* The accelerator's device and the HAL objects it owns.
Device == 1
HalAllocator == 2
HalDeviceGroup == 3
HalDevice == 4

Cells == 1 .. MaxCells

Cell(kind, own, needs) ==
    [kind |-> kind, count |-> 1, own |-> own, needs |-> needs, lent |-> FALSE,
     lost |-> 0, ends |-> 0]

NoCall == [op |-> "none", at |-> 0, locals |-> <<>>]

\* HrxDeviceS: allocator, group and device drop in this order.
HrxDeviceS == <<HalAllocator, HalDeviceGroup, HalDevice>>

Init ==
    /\ heap = << [Cell("device", HrxDeviceS, {}) EXCEPT !.count = 1 + Cardinality(Clients)],
                 Cell("hal_allocator", <<>>, {HalDevice}),
                 Cell("hal_device_group", <<>>, {HalDevice}),
                 Cell("hal_device", <<>>, {}) >>
    /\ refs = [c \in Clients |-> [o \in Cells |-> IF o = Device THEN 1 ELSE 0]]
    /\ call = [c \in Clients |-> NoCall]
    /\ todo = [c \in Clients |-> <<>>]
    /\ up = TRUE
    /\ crashed = FALSE
    /\ plan \in Plans

Live(o) == o \in DOMAIN heap /\ heap[o].count > 0

Occurrences(s, o) == Cardinality({i \in DOMAIN s : s[i] = o})

\* The heap after one more reference on every element of s.
Retained(s) ==
    [o \in DOMAIN heap |-> [heap[o] EXCEPT !.count = @ + Occurrences(s, o)]]

\* The same, for references an IREE object takes that knows nothing of the
\* device: s, and what it owns, may from then on outlive its handle.
Lent(s) ==
    LET reach == Range(s) \cup UNION {Range(heap[o].own) : o \in Range(s)}
    IN  [o \in DOMAIN heap |->
            [heap[o] EXCEPT !.count = @ + Occurrences(s, o), !.lent = @ \/ o \in reach]]

Idle(c) == ~crashed /\ call[c] = NoCall /\ todo[c] = <<>>

\* The handles of a kind client c may pass to a call.
Holds(c, kind) == {o \in DOMAIN heap : refs[c][o] > 0 /\ heap[o].kind = kind}

Ready(c, op) == Idle(c) /\ plan # <<>> /\ Head(plan) = op

New == Len(heap) + 1

(***************************************************************************)
(* The handle boundary: into_handle, handle_retain, handle_release.        *)
(***************************************************************************)
\* The new cells, the handle last, with its one reference given to the client.
into_handle(c, h, cells) ==
    /\ Len(h) + Len(cells) <= MaxCells
    /\ heap' = h \o cells
    /\ refs' = [refs EXCEPT ![c][Len(h) + Len(cells)] = 1]
    /\ plan' = Tail(plan)

\* A client retains a handle it holds, for itself or to hand it to another thread.
handle_retain(c) ==
    \E o \in DOMAIN heap, e \in Clients :
        /\ Idle(c) /\ refs[c][o] > 0
        /\ o # HalAllocator
        /\ refs[e][o] < MaxRefs
        /\ heap' = Retained(<<o>>)
        /\ refs' = [refs EXCEPT ![e][o] = @ + 1]
        /\ UNCHANGED <<call, todo, up, crashed, plan>>

handle_release(c) ==
    \E o \in DOMAIN heap :
        /\ Idle(c) /\ refs[c][o] > 0
        /\ o # HalAllocator
        /\ refs' = [refs EXCEPT ![c][o] = @ - 1]
        /\ todo' = [todo EXCEPT ![c] = <<o>>]
        /\ UNCHANGED <<heap, call, up, crashed, plan>>

\* Variant: the fields of an ended object are forgotten, not dropped.
DropForgetsFields(c) ==
    /\ ~crashed /\ todo[c] # <<>>
    /\ LET o == Head(todo[c]) IN
         heap' = [heap EXCEPT ![o] =
                    [heap[o] EXCEPT !.count = @ - 1,
                                    !.ends = IF heap[o].count <= 1 THEN @ + 1 ELSE @]]
    /\ todo' = [todo EXCEPT ![c] = Tail(@)]
    /\ UNCHANGED <<refs, call, up, crashed, plan>>

\* Releases the next reference of a teardown.  The last one ends the object:
\* an Arc drops its fields, an IREE object releases what it retains, a
\* MappedRange unmaps.
DropOne(c) ==
    /\ ~crashed /\ todo[c] # <<>>
    /\ LET o == Head(todo[c])
           last == heap[o].count <= 1
       IN
         /\ heap' = [heap EXCEPT ![o] =
                       [heap[o] EXCEPT !.count = @ - 1,
                                       !.ends = IF last THEN @ + 1 ELSE @,
                                       !.own = IF last THEN <<>> ELSE @]]
         /\ todo' = [todo EXCEPT ![c] = (IF last THEN heap[o].own ELSE <<>>) \o Tail(@)]
    /\ UNCHANGED <<refs, call, up, crashed, plan>>

\* hrx_*_shutdown, as seen by the device: the runtime releases its reference.
shutdown(c) ==
    /\ Idle(c) /\ up
    /\ up' = FALSE
    /\ todo' = [todo EXCEPT ![c] = <<Device>>]
    /\ UNCHANGED <<heap, refs, call, crashed, plan>>

\* A reference on the inline allocator, counted in refs as one on the HAL
\* allocator, is a reference on that and one on the device it is part of.
hrx_allocator_retain(c) ==
    /\ Ready(c, "hrx_allocator_retain")
    /\ refs[c][Device] > 0
    /\ heap' = Retained(<<HalAllocator, Device>>)
    /\ refs' = [refs EXCEPT ![c][HalAllocator] = @ + 1]
    /\ plan' = Tail(plan)
    /\ UNCHANGED <<call, todo, up, crashed>>

hrx_allocator_release(c) ==
    /\ Idle(c) /\ refs[c][HalAllocator] > 0
    /\ refs' = [refs EXCEPT ![c][HalAllocator] = @ - 1]
    /\ todo' = [todo EXCEPT ![c] = <<HalAllocator, Device>>]
    /\ UNCHANGED <<heap, call, up, crashed, plan>>

(***************************************************************************)
(* Semaphores and fences.                                                  *)
(***************************************************************************)
\* HrxSemaphoreS: hal, then device.
HrxSemaphoreS(hal) == <<hal, Device>>

hrx_semaphore_create(c) ==
    /\ Ready(c, "hrx_semaphore_create") /\ refs[c][Device] > 0
    /\ into_handle(c, Retained(<<Device>>),
           << Cell("hal_semaphore", <<>>, {HalDevice}),
              Cell("semaphore", HrxSemaphoreS(New), {}) >>)
    /\ UNCHANGED <<call, todo, up, crashed>>

\* The HAL object of a handle: its first field after a mapping.
Hal(h) ==
    LET own == heap[h].own
    IN  IF heap[own[1]].kind = "mapped_range" THEN own[2] ELSE own[1]

\* A fence holds no device, and its HAL fence the semaphores of s.
FenceOver(c, s) ==
    /\ into_handle(c, Lent(s), << Cell("hal_fence", s, {}), Cell("fence", <<New>>, {}) >>)
    /\ UNCHANGED <<call, todo, up, crashed>>

hrx_fence_create(c) == Ready(c, "hrx_fence_create") /\ FenceOver(c, <<>>)

hrx_fence_create_at(c) ==
    /\ Ready(c, "hrx_fence_create_at")
    /\ \E s \in Holds(c, "semaphore") : FenceOver(c, <<Hal(s)>>)

\* Appends what is new in s to the references an IREE object owns.
Absorb(hal, s) ==
    /\ LET h == Lent(s)
       IN  heap' = [h EXCEPT ![hal] = [h[hal] EXCEPT !.own = @ \o s]]
    /\ UNCHANGED <<refs, call, todo, up, crashed, plan>>

hrx_fence_insert(c) ==
    \E f \in Holds(c, "fence"), s \in Holds(c, "semaphore") :
        /\ Idle(c)
        /\ Hal(s) \notin Range(heap[Hal(f)].own)
        /\ Absorb(Hal(f), <<Hal(s)>>)

\* The semaphores of fence g that f does not wait for, in the order g has them, or
\* the first of them if f has no room for more.
hrx_fence_extend(c) ==
    \E f, g \in Holds(c, "fence") :
        LET from == heap[Hal(g)].own
            missing == {i \in DOMAIN from : from[i] \notin Range(heap[Hal(f)].own)}
        IN  /\ Idle(c)
            /\ \E n \in 1 .. Cardinality(missing) : \E at \in [1 .. n -> missing] :
                  /\ \A i, j \in DOMAIN at : i < j => at[i] < at[j]
                  /\ \A i \in missing \ Range(at), j \in DOMAIN at : at[j] < i
                  /\ Absorb(Hal(f), [i \in DOMAIN at |-> from[at[i]]])

(***************************************************************************)
(* Buffers.                                                                *)
(***************************************************************************)
\* Variant: the device is declared before the buffer and the pool.
DeviceFirst(hal, pool) == <<Device, hal>> \o pool

\* HrxBufferS: map, hal_buffer, hal_pool, device.  A buffer is created unmapped.
HrxBufferS(hal, pool) == <<hal>> \o pool \o <<Device>>

\* A HAL buffer of the allocator and, around it, a buffer without a pool.
NewBuffer(c, op, kind) ==
    /\ Ready(c, op) /\ refs[c][Device] > 0
    /\ into_handle(c, Retained(<<Device>>),
           << Cell(kind, <<>>, {HalDevice}), Cell("buffer", HrxBufferS(New, <<>>), {}) >>)
    /\ UNCHANGED <<call, todo, up, crashed>>

hrx_allocator_allocate_buffer(c) == NewBuffer(c, "hrx_allocator_allocate_buffer", "hal_buffer")

\* Over memory of the caller, with no release callback.
hrx_allocator_import_buffer(c) == NewBuffer(c, "hrx_allocator_import_buffer", "hal_buffer")

hrx_allocator_virtual_memory_reserve(c) ==
    NewBuffer(c, "hrx_allocator_virtual_memory_reserve", "virtual_memory")

\* into_inner_handle takes the object apart if the caller's is the last
\* reference.  Otherwise the reference is dropped and expect panics, which
\* aborts at the C ABI.  The HAL buffer leaves through
\* virtual_memory_release, after the mapping and before the device.
hrx_allocator_virtual_memory_release(c) ==
    \E b \in Holds(c, "buffer") :
        /\ Idle(c) /\ refs[c][Device] > 0
        /\ heap[Hal(b)].kind = "virtual_memory"
        /\ refs' = [refs EXCEPT ![c][b] = @ - 1]
        /\ IF heap[b].count = 1
             THEN /\ todo' = [todo EXCEPT ![c] = heap[b].own]
                  /\ heap' = [heap EXCEPT ![b] =
                                [heap[b] EXCEPT !.count = 0, !.ends = @ + 1, !.own = <<>>]]
                  /\ UNCHANGED crashed
             ELSE /\ heap' = [heap EXCEPT ![b] = [heap[b] EXCEPT !.count = @ - 1]]
                  /\ crashed' = TRUE
                  /\ UNCHANGED todo
        /\ UNCHANGED <<call, up, plan>>

Mapped(b) == heap[heap[b].own[1]].kind = "mapped_range"

\* A successful HAL map: the MappedRange becomes the buffer's first field.
MapRange(c, b) ==
    /\ New <= MaxCells
    /\ heap' = Append([heap EXCEPT ![b] = [heap[b] EXCEPT !.own = <<New>> \o @]],
                      Cell("mapped_range", <<>>, {Hal(b)}))
    /\ plan' = Tail(plan)
    /\ UNCHANGED <<refs, call, todo, up, crashed>>

hrx_buffer_map(c) ==
    \E b \in Holds(c, "buffer") :
        Ready(c, "hrx_buffer_map") /\ ~Mapped(b) /\ MapRange(c, b)

\* Maps the whole buffer if it is not mapped, and leaves it mapped.
hrx_buffer_get_device_ptr(c) ==
    \E b \in Holds(c, "buffer") :
        Ready(c, "hrx_buffer_get_device_ptr") /\ ~Mapped(b) /\ MapRange(c, b)

\* Variant: the range taken out is unmapped and then dropped, not forgotten.
UnmapAndDrop(c) ==
    \E b \in Holds(c, "buffer") :
        /\ Idle(c) /\ Mapped(b)
        /\ LET m == heap[b].own[1]
           IN  /\ heap' = [heap EXCEPT ![b] = [heap[b] EXCEPT !.own = Tail(@)],
                                       ![m] = [heap[m] EXCEPT !.ends = @ + 1]]
               /\ todo' = [todo EXCEPT ![c] = <<m>>]
        /\ UNCHANGED <<refs, call, up, crashed, plan>>

\* Takes the range out, unmaps it and forgets it, whatever the unmap returns.
hrx_buffer_unmap(c) ==
    \E b \in Holds(c, "buffer") :
        /\ Idle(c) /\ Mapped(b)
        /\ LET m == heap[b].own[1]
           IN  heap' = [heap EXCEPT ![b] = [heap[b] EXCEPT !.own = Tail(@)],
                                    ![m] = [heap[m] EXCEPT !.ends = @ + 1, !.count = 0]]
        /\ UNCHANGED <<refs, call, todo, up, crashed, plan>>

(***************************************************************************)
(* Constructors that take several fallible steps.  locals are the          *)
(* references the call owns so far; a failure releases them, last first.   *)
(***************************************************************************)
Locals(c) == call[c].locals

\* The references of list l, from the last to the first.
LastFirst(l) == [i \in DOMAIN l |-> l[(Len(l) - i) + 1]]

Enter(c, op) ==
    /\ Ready(c, op) /\ refs[c][Device] > 0
    /\ call' = [call EXCEPT ![c] = [op |-> op, at |-> 1, locals |-> <<>>]]
    /\ plan' = Tail(plan)
    /\ UNCHANGED <<heap, refs, todo, up, crashed>>

At(c, op, n) == ~crashed /\ call[c].op = op /\ call[c].at = n

\* Step n of the call succeeds: the cells are new, the locals become l.
Step(c, op, n, h, cells, l) ==
    /\ At(c, op, n)
    /\ Len(h) + Len(cells) <= MaxCells
    /\ heap' = h \o cells
    /\ call' = [call EXCEPT ![c] = [op |-> op, at |-> n + 1, locals |-> l]]
    /\ UNCHANGED <<refs, todo, up, crashed, plan>>

\* Variant: the early return releases nothing.
Abandon(c, op, n) ==
    /\ At(c, op, n)
    /\ call' = [call EXCEPT ![c] = NoCall]
    /\ UNCHANGED <<heap, refs, todo, up, crashed, plan>>

\* Step n of the call fails.
Unwind(c, op, n) ==
    /\ At(c, op, n)
    /\ todo' = [todo EXCEPT ![c] = LastFirst(Locals(c))]
    /\ call' = [call EXCEPT ![c] = NoCall]
    /\ UNCHANGED <<heap, refs, up, crashed, plan>>

\* The call returns: it retains what retained lists, and the fields of the
\* handle take over the locals except those of spare, which it releases.
Finish(c, op, n, retained, kind, fields, spare) ==
    /\ At(c, op, n)
    /\ New <= MaxCells
    /\ heap' = Append(Retained(retained), Cell(kind, fields, {}))
    /\ refs' = [refs EXCEPT ![c][New] = 1]
    /\ todo' = [todo EXCEPT ![c] = spare]
    /\ call' = [call EXCEPT ![c] = NoCall]
    /\ UNCHANGED <<up, crashed, plan>>

\* Variant: the failing notification leaves the HAL allocator retained.
PoolLeaksAllocator(c, op) ==
    \/ Step(c, op, 1, Retained(<<HalAllocator>>), <<>>, <<HalAllocator>>)
    \/ Unwind(c, op, 1)
    \/ Step(c, op, 2, heap, << Cell("notification", <<>>, {}),
                               Cell("hal_pool", <<New, HalAllocator>>, {HalDevice}) >>, <<New + 1>>)
    \/ Abandon(c, op, 2)

\* hrx_iree_exact_pool_create: the pool's memory with a reference on the HAL
\* allocator, then the notification.  pool_destroy releases the notification
\* and the allocator, in this order.
exact_pool_create(c, op) ==
    \/ Step(c, op, 1, Retained(<<HalAllocator>>), <<>>, <<HalAllocator>>)
    \/ Unwind(c, op, 1)
    \/ Step(c, op, 2, heap, << Cell("notification", <<>>, {}),
                               Cell("hal_pool", <<New, HalAllocator>>, {HalDevice}) >>, <<New + 1>>)
    \/ Unwind(c, op, 2)

\* queue_alloca: the device has the pool acquire a reservation, whose block is
\* a new HAL buffer, and materialize it.  With ownership transferred the block
\* itself is returned.  Otherwise materialize retains it, and a buffer of the
\* device keeps both references, the reservation's and the new one, and gives
\* them back when it ends (release_reservation releases the block).
queue_alloca(c, op) ==
    LET pool == Locals(c)[1] IN
    \/ Step(c, op, 3, heap, << Cell("hal_buffer", <<>>, {HalDevice, pool}) >>, <<pool, New>>)
    \/ Step(c, op, 3, heap, << [Cell("reserved_block", <<>>, {HalDevice, pool}) EXCEPT !.count = 2],
                               Cell("hal_buffer", <<New, New>>, {HalDevice, pool}) >>,
            <<pool, New + 1>>)
    \/ Unwind(c, op, 3)

\* Stream-ordered allocation; the wait for the allocation may fail too.
hrx_buffer_allocate(c) ==
    LET op == "hrx_buffer_allocate" IN
    \/ Enter(c, op)
    \/ exact_pool_create(c, op)
    \/ At(c, op, 3) /\ queue_alloca(c, op)
    \/ Unwind(c, op, 4)
    \/ /\ At(c, op, 4)
       /\ Finish(c, op, 4, <<Device>>, "buffer",
                 HrxBufferS(Locals(c)[2], <<Locals(c)[1]>>), <<>>)

\* HrxModuleS: context, hal_module, bytecode_module, device.
HrxModuleS(l) == <<l[3], l[2], l[1], Device>>

\* The bytecode module, the HAL module, which retains the device group, and a
\* context over both.
hrx_module_load_vmfb(c) ==
    LET op == "hrx_module_load_vmfb"
        l == Locals(c)
    IN
    \/ Enter(c, op)
    \/ Step(c, op, 1, heap, <<Cell("bytecode_module", <<>>, {})>>, <<New>>)
    \/ Step(c, op, 2, Retained(<<HalDeviceGroup>>),
            <<Cell("hal_module", <<HalDeviceGroup>>, {HalDevice})>>, Append(l, New))
    \/ /\ At(c, op, 3)
       /\ Step(c, op, 3, Retained(<<l[2], l[1]>>),
               <<Cell("vm_context", <<l[2], l[1]>>, {HalDevice})>>, Append(l, New))
    \/ \E n \in 1 .. 3 : Unwind(c, op, n)
    \/ At(c, op, 4) /\ Finish(c, op, 4, <<Device>>, "module", HrxModuleS(l), <<>>)

\* A function holds one reference on its module.
hrx_module_lookup_function(c) ==
    \E m \in Holds(c, "module") :
        /\ Ready(c, "hrx_module_lookup_function")
        /\ into_handle(c, Retained(<<m>>), <<Cell("function", <<m>>, {})>>)
        /\ UNCHANGED <<call, todo, up, crashed>>

\* HrxExecutableS: hal_executable, hal_executable_cache, device.
HrxExecutableS(cache, exe) == <<exe, cache, Device>>

hrx_executable_load_data(c) ==
    LET op == "hrx_executable_load_data"
        l == Locals(c)
    IN
    \/ Enter(c, op)
    \/ Step(c, op, 1, heap, <<Cell("executable_cache", <<>>, {HalDevice})>>, <<New>>)
    \/ /\ At(c, op, 2)
       /\ Step(c, op, 2, heap, <<Cell("hal_executable", <<>>, {HalDevice, l[1]})>>, Append(l, New))
    \/ \E n \in 1 .. 2 : Unwind(c, op, n)
    \/ /\ At(c, op, 3)
       /\ Finish(c, op, 3, <<Device>>, "executable", HrxExecutableS(l[1], l[2]), <<>>)

\* Reads the file into host memory, loads it, and frees the memory either way.  The
\* FILE, closed before the load begins, is left out.
hrx_executable_load_file(c) ==
    LET op == "hrx_executable_load_file"
        l == Locals(c)
    IN
    \/ Enter(c, op)
    \/ Step(c, op, 1, heap, <<Cell("file_data", <<>>, {})>>, <<New>>)
    \/ Step(c, op, 2, heap, <<Cell("executable_cache", <<>>, {HalDevice})>>, Append(l, New))
    \/ /\ At(c, op, 3)
       /\ Step(c, op, 3, heap, <<Cell("hal_executable", <<>>, {HalDevice, l[2]})>>, Append(l, New))
    \/ \E n \in 1 .. 3 : Unwind(c, op, n)
    \/ /\ At(c, op, 4)
       /\ Finish(c, op, 4, <<Device>>, "executable", HrxExecutableS(l[2], l[3]), <<l[1]>>)

(***************************************************************************)
(* Views and lists: they own HAL objects and know no device.               *)
(***************************************************************************)
\* Variant: the view keeps the buffer handle, not the HAL buffer.
ViewKeepsHandle(c) ==
    \E b \in Holds(c, "buffer") :
        /\ Ready(c, "hrx_buffer_view_create")
        /\ into_handle(c, Lent(<<b>>), << Cell("hal_buffer_view", <<b>>, {}),
                                          Cell("view", <<New>>, {}) >>)
        /\ UNCHANGED <<call, todo, up, crashed>>

hrx_buffer_view_create(c) ==
    \E b \in Holds(c, "buffer") :
        /\ Ready(c, "hrx_buffer_view_create")
        /\ into_handle(c, Lent(<<Hal(b)>>), << Cell("hal_buffer_view", <<Hal(b)>>, {}),
                                               Cell("view", <<New>>, {}) >>)
        /\ UNCHANGED <<call, todo, up, crashed>>

hrx_value_list_create(c) ==
    /\ Ready(c, "hrx_value_list_create")
    /\ into_handle(c, heap, << Cell("vm_list", <<>>, {}), Cell("list", <<New>>, {}) >>)
    /\ UNCHANGED <<call, todo, up, crashed>>

\* hrx_value_list_push_buffer, _push_buffer_view and _push_fence: retain, then
\* move the reference into the list.  Nobody has it if the list cannot grow.
hrx_value_list_push(c) ==
    \E l \in Holds(c, "list"), kind \in {"buffer", "view", "fence"} :
        \E h \in Holds(c, kind) :
            /\ Idle(c)
            /\ \/ /\ Len(heap[Hal(l)].own) < MaxRefs
                  /\ Absorb(Hal(l), <<Hal(h)>>)
               \/ /\ heap[Hal(h)].lost = 0
                  /\ LET g == Lent(<<Hal(h)>>)
                     IN  heap' = [g EXCEPT ![Hal(h)] = [g[Hal(h)] EXCEPT !.lost = 1]]
                  /\ UNCHANGED <<refs, call, todo, up, crashed, plan>>

\* The function must be one of this module.  What it returns, here a buffer it
\* made on the HAL device, is in the list that was passed for the results.
hrx_function_invoke(c) ==
    \E m \in Holds(c, "module"), f \in Holds(c, "function"), rets \in Holds(c, "list") :
        /\ Ready(c, "hrx_function_invoke")
        /\ heap[f].own[1] = m
        /\ New <= MaxCells
        /\ LET hal == Hal(rets)
           IN  heap' = Append([heap EXCEPT ![hal] = [heap[hal] EXCEPT !.own = Append(@, New)]],
                              [Cell("hal_buffer", <<>>, {HalDevice}) EXCEPT !.lent = TRUE])
        /\ plan' = Tail(plan)
        /\ UNCHANGED <<refs, call, todo, up, crashed>>

Next ==
    \E c \in Clients :
        \/ handle_retain(c) \/ handle_release(c) \/ DropOne(c) \/ shutdown(c)
        \/ hrx_allocator_retain(c) \/ hrx_allocator_release(c)
        \/ hrx_semaphore_create(c)
        \/ hrx_fence_create(c) \/ hrx_fence_create_at(c)
        \/ hrx_fence_insert(c) \/ hrx_fence_extend(c)
        \/ hrx_allocator_allocate_buffer(c) \/ hrx_allocator_import_buffer(c)
        \/ hrx_allocator_virtual_memory_reserve(c) \/ hrx_allocator_virtual_memory_release(c)
        \/ hrx_buffer_map(c) \/ hrx_buffer_get_device_ptr(c) \/ hrx_buffer_unmap(c)
        \/ hrx_buffer_allocate(c)
        \/ hrx_module_load_vmfb(c) \/ hrx_module_lookup_function(c) \/ hrx_function_invoke(c)
        \/ hrx_executable_load_data(c) \/ hrx_executable_load_file(c)
        \/ hrx_buffer_view_create(c)
        \/ hrx_value_list_create(c) \/ hrx_value_list_push(c)

Spec == Init /\ [][Next]_vars

(***************************************************************************)
(* Properties.                                                             *)
(***************************************************************************)
\* The sum of the values of f, a function with a finite domain into the naturals.
Total(f) == Cardinality(UNION {{x} \X (1 .. f[x]) : x \in DOMAIN f})

\* References a client has on object o.
Held(c, o) == refs[c][o] + (IF o = Device THEN refs[c][HalAllocator] ELSE 0)

\* References on object o a client's thread has: its handles, the locals of the call
\* it is inside of, and what that call has still to release.
Uses(c, o) == Held(c, o) + Occurrences(Locals(c), o) + Occurrences(todo[c], o)

\* References on object o that exist anywhere: the runtime's, the clients', and those
\* in the fields of other objects.
References(o) ==
    (IF up /\ o = Device THEN 1 ELSE 0)
    + Total([c \in Clients |-> Uses(c, o)])
    + Total([p \in DOMAIN heap |-> Occurrences(heap[p].own, o)])

\* Retain and release balance: at every instant the count of every object,
\* Arc or IREE, is the number of references that exist, on every branch of
\* every constructor, every teardown, and whatever the other threads do.  Only
\* a failed push on a value list leaves a reference that nobody has.
CountsExact == \A o \in DOMAIN heap : heap[o].count = References(o) + heap[o].lost

\* Nothing is torn down twice: an object ends (its fields dropped, its memory
\* freed, its range unmapped) exactly once, when its last reference goes.
EndsOnce == \A o \in DOMAIN heap : heap[o].ends = (IF Live(o) THEN 0 ELSE 1)

\* An object outlives whatever points to it: the HAL device and the pool a HAL
\* object came from, the cache of an executable, the buffer a mapped range
\* belongs to are there until it has ended, through the drop order of the
\* fields and the device reference each handle keeps.  Not covered is what a
\* view, a list or a fence has ever had a reference on: it may outlive its handle,
\* and the exception stays when that reference is released.
ParentsOutlive ==
    \A o \in DOMAIN heap :
        Live(o) /\ ~heap[o].lent => \A p \in heap[o].needs : Live(p)

\* What the goals of the port promise, with no exception.
UseAfterParentShutdownUnrepresentable ==
    \A o \in DOMAIN heap : Live(o) => \A p \in heap[o].needs : Live(p)

\* What the runtime and the clients have references on, and what was lost.
Roots ==
    {o \in DOMAIN heap : \/ up /\ o = Device
                         \/ heap[o].lost > 0
                         \/ \E c \in Clients : Held(c, o) > 0}

\* The objects of S and those that the objects of S own.
WithOwned(S) == S \cup UNION {Range(heap[o].own) : o \in S}

\* Objects reachable from the roots in up to six steps.
Reachable == WithOwned(WithOwned(WithOwned(WithOwned(WithOwned(WithOwned(Roots))))))

\* Nothing leaks and nothing dangles: between calls an object is alive exactly
\* if it can be reached from a handle somebody holds, so a program that
\* releases every handle and shuts down gets everything back but what a failed
\* push lost.
LiveIffReachable ==
    (\A c \in Clients : Idle(c)) => {o \in DOMAIN heap : Live(o)} = Reachable

\* virtual_memory_release aborts the process only over a reference of a
\* client, held or in the middle of being released on another thread: no
\* object of the library keeps a reference on a buffer handle, so a program
\* with one reference per buffer never meets the panic.
AbortMeansShared ==
    crashed => \E b \in DOMAIN heap, c \in Clients :
                   /\ Live(b) /\ heap[b].kind = "buffer" /\ heap[Hal(b)].kind = "virtual_memory"
                   /\ refs[c][b] > 0 \/ b \in Range(todo[c])

=============================================================================
