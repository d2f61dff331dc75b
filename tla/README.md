# A TLA+ model of hrx-system-rs

`hrx-system-rs` is a Rust port of two products: **libhrx**, a C ABI over the IREE
HAL (`crates/hrx-libhrx`, with the wrappers of `crates/iree-hal` and the bindings
of `crates/iree-sys`), and the **HIP passthrough tools**, an `LD_PRELOAD` shim with
pluggable interceptors (`crates/hip-*`). This directory models the stateful core of
both, checks them with TLC on small instances and proves the most important
facts with TLAPS for every value of the constants.

## 1. Inventory

| Part | State | Operations | What makes it hard |
|---|---|---|---|
| Streams (`stream.rs`) | `timepoint`, `pending_cb`, `has_pending_work`; a timeline semaphore; an `Arc` | record (fill, copy, update, dispatch, barrier), flush, wait, synchronize, query, wait_on, advance_timeline, retain, release, `Drop` | the device runs concurrently; each HAL call may fail between two assignments; streams wait on each other; `Drop` blocks |
| Stream-ordered allocation (`buffer.rs: hrx_buffer_allocate`) | the stream's timeline | flush, alloca, wait, advance | the timepoint is advanced only after a wait that may fail |
| Runtime (`runtime.rs`) | the mutex `G`: shared VM instance and proactor pool with `init_count`; CPU and GPU tables; the static `POOL_FOR_DEVICE` | initialize, shutdown, device_count, device_get; snapshots for other modules | seventeen calls that may fail, each with its own unwinding; two accelerators share one count; snapshots outlive the lock |
| Devices and handles (`device.rs`, `handle.rs`) | `Arc` strong counts; HAL device, group and allocator | retain, release, drop | borrowed pointers, children that outlive a shutdown |
| Buffers (`buffer.rs`) | HAL buffer, mapped range, virtual memory | allocate, map, unmap, copy, import, vm reserve/map/unmap/release | unmap exactly once, a release that takes the object apart, offset arithmetic |
| Exact pool (`pool.rs`) | an IREE resource with its own count | acquire, materialize, release, destroy, create | unwinding, a snapshot used after unlocking |
| Queue operations (`queue_ops.rs`) | the host-call thunk | fill, copy, barrier, dispatch, host_call | the thunk has two possible owners; fixed-size semaphore arrays |
| Modules, functions, executables (`module.rs`, `executable.rs`) | HAL objects and parents | load, lookup, invoke, release | acquire ladders, load-bearing drop order |
| Semaphores, fences (`semaphore.rs`, `fence.rs`) | payload; pairs of semaphore and value | create, signal, wait, query; insert, extend | waits and signals from several owners |
| Buffer views, value lists (`buffer_view.rs`, `value_list.rs`) | VM references | create, push, get | references moved into lists |
| Status (`common.rs`, `status.rs`) | none | mapping of codes, ownership of a status | a lossy mapping, an allocation failure that reads as OK |
| HIP passthrough (`hip-intercept`) | backend and interceptor handles, active and real tables, a `Once` | init, forward, unload | first calls from several threads, re-entry, unload with the table still active |
| Buffer tracer (`hip-buffer-tracer`) | buffer and kernel tables, filters, counters under one mutex | wrap malloc, free, launch, registration | tables at their limit, removal before the real free |
| Logging, no-op (`hip-logging`, `hip-noop`) | a log file | log around each call | order of lines against order of calls |

`PROJECT.json` lists every part with its status, and under `hazards` what can go
wrong in each at which line.

### Correctness properties wanted

* Work accepted by a stream is executed once, in order, and is never lost by a call
  that fails; completion is never reported early; no failure leaves a timepoint that
  nobody signals; blocked calls return.
* Whatever fails during an initialization, libhrx owns exactly the HAL references it
  can still reach; the shared state lives exactly as long as some accelerator is up;
  device pointers and snapshots are good for as long as their users may rely on them.
* Each HIP call reaches the interceptor and the backend through tables that are fully
  built, however the first calls race; the tracer's table agrees with the allocations
  it can see, and its lines and dumps are in the order of the calls.
* Each object behind a handle is counted exactly, ends once, after everything that
  points to it, and nothing else keeps it; each mapping is unmapped once.
* Each command buffer and each host-call thunk has one owner at a time and is freed
  once; a status that reports success, or an error, has the cause it claims.

## 2. Plan

Order of work, most important behaviour first:

1. `HrxStream` with the abstract `InOrderStreams`, and its proofs. *Done.*
2. `HrxRuntime`: accelerators, shared state, devices, and its proofs. *Done.*
3. `HrxObjects`: the handle graph with parents, children, drop order and
   `into_inner_handle`; mapping and virtual memory; the exact pool; the acquire ladders
   of modules, executables and buffers; views, lists and fences, and its proofs. *Done.*
4. `HrxQueue` and `HrxCodes`: queue operations with the host-call thunk, timelines,
   fences, statuses and timeouts, and their proofs. *Done.*
5. The HIP passthrough (`Once`, tables, unload) with an interceptor behind it, and the
   buffer tracer. *Done:* `HipIntercept`, `BufferTracer`, and their proofs.
6. More proofs: `WorkConserved`, `SubmittedOnce` and the refinement of
   `InOrderStreams`; the counts, the drop order and the reachability of 3. *Done.*

## 3. Modules

### HrxStream

One module for a set of streams and the device queue they submit to.

* *Host state*: `timepoint`, `pending_cb`, `has_pending_work` are the fields of
  `HrxStreamS`; `refs` is the count of the `Arc`; `call` says which call, if any, is
  blocked (`wait`, `alloc`, `drop`) or that the stream does not exist yet or any more.
* *Device state* (external): `payload` is the value of each stream's timeline
  semaphore, `queue` the submissions in flight, `executed` the commands that ran.
* *History*: `recorded`, `accepted`, `reserved`, `unordered` exist only for the
  properties. `unordered[s]` becomes true when the client lets the timeline run past
  the stream's own work: a `wait_on` whose barrier does not wait for it, a reserved
  value signalled early, an allocation whose wait failed.

A stream handle is used by one thread at a time (the fields are `Cell`s), so a call
is one step up to the point where it blocks; streams and the device interleave. Every
call has its failure branches: `BeginFails`, `CommandFails`, `OrderingBarrierFails`,
`FlushFails`, `FlushThenRefused` follow the early returns of the code and leave the
state exactly as the code does (an ended command buffer still installed, a command
recorded without `has_pending_work`). Commands are numbers; a barrier is 0. The
device runs a submission once its wait is satisfied, its commands in any order the
barriers allow, and several submissions at once. A wait for 0 stands for the empty
wait list.

Contract assumed of clients: the position given to `wait_on` is one that the other
stream has promised, as `hrx_stream_get_timeline_position` returns it. The code does not
check it; a stream that waits for a value nobody will signal is stuck.

`MCHrxStreamLive` adds a budget of calls for the liveness run.

Left out: null arguments (early returns without effect), buffer contents, the
bindings and sizes of a command. The device of this module does not fail a submission
once accepted (`HrxQueue` has such failures), and a signal at or below the value of a
semaphore, which IREE may refuse, leaves it as it is.

### InOrderStreams

What a stream promises its client: accepted commands execute once each and in order,
until the client lets the timeline run free. `HrxStream` is shown to implement it
(`ExecutesInOrder`).

### HrxRuntime

`shared`, `accel` and `POOL_FOR_DEVICE` are the globals of `runtime.rs`; `stage` is
both the lock bit of the mutex `G` and the program counter of the initialization
that holds it; `work` holds the locals of that function. Each HAL call of
`ensure_shared_state`, `create_local_task_device`, `create_single_device_group`,
`hrx_cpu_initialize` and `hrx_gpu_initialize` is one action with a success and a
failure branch. `held` counts, per HAL object, the references libhrx owns: `Succeeds`
and `Fails` name the references the code takes and releases on that branch, so that
the invariants on `held` compare the code's unwinding lists with what was acquired.
`strong` is the `Arc` count of each device; the last release drops allocator, group
and HAL device. Shutdown, `device_get` and the snapshots are one critical section
each, as in the code.

Clients hold borrowed pointers (`borrowed`), references of their own or of child
objects (`owned`) and snapshots (`snap`). Contract assumed of them: a borrowed pointer
is not used after the shutdown of its accelerator. A snapshot records which
accelerators were up when it was taken and have stayed up since; `SnapshotLive`
promises the object only while that set is not empty, which is what the code
guarantees: a shutdown of the last accelerator during `hrx_module_load_vmfb` or the
creation of an exact pool does release the object under it. The property excepts that
case; it does not rule it out.

Addresses of devices and shared objects come from small sets and are reused once
nothing refers to them.

### HrxObjects

The heap of everything that is counted: the objects behind handles, which are `Arc`s,
and the IREE objects their fields own. A cell records the count, `own` (the fields in
the order their drops run), `needs` (objects it points to without a reference: the HAL
device, the pool of a block, the cache of an executable, the buffer of a mapping),
`lent` (an IREE view, list or fence has had a reference on it, so it may outlive its
handle), `lost` (references nobody has any more) and how often it has ended. `refs` is
what each client holds. A release is not one step: `todo` is the rest of a teardown,
one reference per step, so a teardown interleaves with the other threads' calls and
with the shutdown. Constructors with several fallible steps (`hrx_buffer_allocate` with
the exact pool, `hrx_module_load_vmfb`, `hrx_executable_load_data` and `_load_file`) go
step by step, keep the references acquired so far in `call[c].locals`, and release them
in the order of the code when a step fails. A panic in `virtual_memory_release` crosses
the C ABI and ends the process (`crashed`). Every operation that creates objects has
the bound `MaxCells` in its guard.

`hrx_fence_extend` inserts one semaphore at a time and stops when the fence has no room
for the next, so it leaves some prefix of what it was to insert.

A failed push on a value list is modelled as it is: the reference the call has just
taken is moved only on success, and nobody releases it (`lost`).

Contract assumed of clients: a handle is used by a thread that holds a reference on
it, and two threads do not map or unmap one buffer at the same moment (its mapping is
a `RefCell`). Assumed of IREE: a view retains its buffer, a list its elements, a fence
its semaphores, a HAL module its device group, a context its modules; a buffer
allocated on a queue keeps the reservation of its pool until it ends;
`virtual_memory_release` consumes the reference it is given; a HAL object needs its
device until it ends.

Left out: sizes, usage flags and shapes; calls that fail without having acquired
anything; integers and null references in lists; the other entries of the pool's table;
the `FILE` of `hrx_executable_load_file`, which is closed before the load begins.

### HrxCodes

The conversions at the boundary with IREE on words of any width: status
codes in both directions, the timeout of a wait with its cast to `i64`, the range check
of host transfers with its wrapping sum. `hrx_make_status` and `hrx_status_from_iree`
give the *set* of codes a caller may read, since an error whose payload cannot be
allocated is the null pointer and reads as OK. IREE's codes are the 32 its mask leaves.
`HrxQueue` is built on these definitions.

### HrxQueue

Clients that submit directly to the device. Each owns a timeline (`sem`: payload and
failure); `promised` is the last timepoint an operation was accepted for. An operation
waits for its client's last timepoint, and possibly for another client's, and signals
the next one. `at` and `cur` follow a call through its HAL calls: a fill or copy creates,
begins, records and ends a command buffer, executes it and releases it; a host call
allocates its thunk, enqueues it and frees it if that failed. `mem` counts the
references on the command buffer or the thunk. The device runs an accepted operation
as soon as its waits are reached, also before the call that submitted it has returned,
and may fail it with any code; a timeline keeps the first failure it has. `ret` is the last status of a wait or query, with the
timepoints it is about (`claims`), whether the caller asked to wait for ever, and
whether the status was lost because it could not be allocated.

Assumed of IREE: an operation whose wait failed is dropped and fails its own timeline
(the thunk of a dropped host call then stays allocated, since only the trampoline would
free it); a refused enqueue has not taken the call; a wait on a failed semaphore reports
the failure or ABORTED; a fence keeps the later value of a timeline it has twice.

`RecordingFails` stands for the failure of begin, of the command and of end alike: each
releases the command buffer and returns the error.

Left out: ranges, patterns, constants and bindings; affinity; host signals that break
the order of a timeline; a clock, so a limited wait may time out at any moment. A status
lost for want of memory is followed for waits and queries only: a caller that reads a
failed *submission* as accepted, and then waits for it, is not modelled.

### HipIntercept

The statics of `hip-intercept` by name, `INIT` for the `Once`, and per thread the
place it has reached: `ensure_init`, one stage per store of `intercept_init`, loading
the table (`active`), reading its entry (`fwd`), the wrapper, the backend. `env` fixes
for a behaviour whether the backend loads, which interceptor is configured and which
symbols the backend lacks. An interceptor is what the shim can see of it: the tracer's
wrappers hold the mutex across the real call and its shutdown frees the table, the
logging wrappers do neither, the no-op interceptor returns no table. `mapped` is the
set of libraries and tables that exist; `Needs` is what a thread is about to read or
execute. Using something that is gone may end the process or may still work (`Crash`
beside the ordinary action). Exit runs `intercept_fini` in one thread while the others
go on.

### BufferTracer

The table of buffers, the table of kernels and the launch count of `State`, and every
wrapper as steps with the mutex held: the lock, what comes before the real call, the
real call, what comes after it. Wrappers with the same structure share an action
(`wrap_call` for those that only forward and write a line, `wrap_register` for those
that write their line first, `wrap_launch` for the three launches). Exports without a
wrapper go straight to the backend and may run in the middle of a wrapper. The backend
is a heap of reusable addresses and a device that may be waiting for a thread
(`hipLaunchHostFunc`). While it waits, whatever needs the device to run dry blocks: a
synchronize, a real `hipFree`, and the copy of a dump from device memory. `bypassed` and `untracked` record why an entry or a buffer is
excused from the agreement: freed behind the tracer's back; no slot left, or a free
that failed after the entry was removed.

Left out: sizes and contents of buffers, the list of kernels to dump in full, allocation
numbers, and the text of lines.

## 4. Runs

| Run | Instance | States | Shows |
|---|---|---|---|
| `stream_one` | 1 stream, 3 recordings, timepoint bound 2, 2 faults, 2 references | 1168k | implements `InOrderStreams`, no work lost or submitted twice, completion not early, timepoints promised |
| `stream_live` | 2 streams, 1 recording each, timepoint bound 2, 1 fault, 3 moves in all, values reserved on one stream, fair | 440k | the device never stuck, blocked calls return |
| `runtime` | 1 client, 3 devices, 2 addresses, 4 driver reports, 2 devices at most, fair | 242k | counts, ledger, pool, tables, initialization returns |
| `runtime_clients` | 2 clients, 3 devices, 1 GPU device at most | 499k | strong counts, device pointers, snapshots |
| `intercept` | 2 threads, 2 calls each, 6 interceptors, any symbols absent, fair | 283k | no call past the interceptor, no null table, tables final, calls and exit return |
| `intercept_exit` | 2 threads, 1 call each | violation | a freed table is read during exit |
| `tracer` | 2 threads, 2 calls each, 3 addresses, 2 slots, 6 settings, 1 host function, fair | 289k | entries live, none forgotten, lines in call order, dumps paired, calls return |
| `tracer_hold` | 2 threads, 1 host function | violation | the mutex is held in a circular wait |
| `objects` | 2 clients, 10 plans of up to 4 creations, 15 objects, 1 reference per client and handle | 231k | counts exact, one end each, parents outlive, no leak, no abort without sharing |
| `objects_escape` | 1 client, a buffer and a view | violation | a view's buffer outlives its device |
| `queue` | 2 clients, 5 plans of up to 4 calls each, 3 operations, 3 timeouts, 2 faults, fair | 253k | buffers and thunks freed once, statuses sound, waits and host calls end |

*Bounds.* Three recordings give a command in an earlier, the same and a later command
buffer. Two timeline steps allow a flush after a `wait_on`, an allocation after a
flush and a reserved value below a later flush. Two faults give a failed flush and a
failed retry.

The liveness run is bounded differently. A *move* is a recording or a step of a
timeline; three of them over two streams are enough for two streams that each wait for
a position the other has not reached yet, for a flush that fails and a `Drop` that then
blocks, and for an allocation behind either. They do not give every pattern of waits: longer
chains and a third stream are beyond this run, and for them `NeverStuck`, proved for any
number of streams, says that the device always has something to run, though not that
a particular call returns. The budget is an action constraint. It never takes a step of
the device or the return of a blocked call away, and fairness speaks of these only, so
it cuts no behaviour short that fairness would have to continue; what it removes are
behaviours in which the client calls more often.

In the runtime, the reports
of the driver include none, only the pseudo-device, pseudo-devices between physical
ones, and more physical devices than fit; two addresses for shared objects allow a
second life of the runtime while something still remembers the first; three devices
allow a retained device of an earlier life beside two new ones. Faults are not bounded
in `HrxRuntime`. In the tracer, three addresses and two slots allow a buffer that does
not fit, and two calls per thread an address that is freed behind the tracer and
handed out again; a limit of one launch is reached. Two
threads are enough for a race on the `Once` or on the mutex.

A behaviour of `HrxObjects` and of `HrxQueue` follows one of a few *plans*. In
`HrxObjects` a plan lists the creations, by whichever client; retain, release, handing
a reference to the other thread, unmap, push, fence insertion and shutdown happen
anywhere between them, and every failure is free. The plans cover each kind of object with the objects
that refer to it, so every edge of the graph is torn down from either end and by two
threads at once; one reference per client still makes two per handle. In `HrxQueue`
three operations give a chain on one timeline with a dependence on the other; words
have three bits, with a finite timeout, one that the cast to a signed word makes
negative, and the infinite one; the two faults are a code that HRX keeps and one that it
does not. The fences of the `HrxObjects` plans hold one semaphore, since a plan with two makes
the run several times as long: an extension that stops part of the way is covered by the
proofs only.

*Deadlock.* The stream runs allow a state without successor: every stream may be gone,
or a client may leave a reserved value unsignalled. The runtime runs check deadlock.
In `objects` and `queue` a plan ends.
In the HIP runs each thread makes a bounded number of calls, so they end.

*Fairness.* `FairSpec` of `HrxStream`: the device keeps running ready submissions, and
a thread blocked on a semaphore wakes when the value is reached. Nothing is assumed of
clients. `FairSpec` of `HrxRuntime`: the thread that holds `G` keeps running; no HAL
call of an initialization waits for another thread. `FairSpec` of the HIP modules:
threads inside the shim keep running and the backend's calls return; since calls are
bounded, weak fairness is enough for a mutex that is not fair. The device waits for a
host function only as long as the thread the function waits for is inside a call; the
circles this closes are excepted in `CallsReturn` and are the subject of `tracer_hold`.
`FairSpec` of `HrxQueue`: a call that has begun goes on, and the device serves what it
accepted; a wait without limit is promised to return only for timepoints some operation
was accepted for, one with a limit for any.

*Exceptions.* Some properties except the very states in which the code promises nothing,
and so say nothing of them: `CompletionMeansRetired` and `ExecutesInOrder` a stream whose
timeline the client, or a failed allocation, has let run free; `SnapshotLive` a snapshot
after the shutdown of the last accelerator; `EntriesLive` an entry whose buffer was freed
by an export the tracer does not wrap; `ParentsOutlive` an object that a view, list or
fence has ever had a reference on, also after that reference is gone; `CompletionSound` a
status that was lost. `hazards` says so at each of them.

*Findings.* `intercept_exit`: `hip-intercept/src/lib.rs:12-13` has every exported symbol forward
through the active table; `intercept_fini` has the tracer free that table and never
resets `G_ACTIVE_TABLE`, so a thread still calling during exit reads freed memory.

`tracer_hold`: `hip-buffer-tracer/src/lib.rs:333-334` calls holding the mutex across the
real call safe because real calls do not re-enter. A synchronize can wait for another
thread all the same, when the device runs a host function that waits for it; if that
thread's next HIP call is a wrapped one, neither returns.

`objects_escape`: `plans/rust-port-safety-plan.md:31-33` wants use after the shutdown of
a parent to be unrepresentable. A buffer view holds the HAL buffer and no device
(`buffer_view.rs:5-7`), so releasing the buffer and shutting down leaves a HAL buffer
whose device is gone. `ParentsOutlive` shows that views, lists and fences are the only
way there.

## 5. Proofs

`HrxStreamProofs` proves for every set of streams and every bound:

* `TypeCorrect`: `TypeOK`.
* `Completion`: `CompletionMeansRetired`. The invariant `TimelineOrdered` strengthens
  it: on a timeline not let free, each submission in flight signals a value of its own,
  above the payload, at most the horizon (one past the timepoint while an allocation
  waits), not reserved by the client, and cannot become ready before the value just
  below its own is reached. Retirement then moves the payload to exactly the next value.
* `TimepointsPromised` and `NeverStuck`: the invariant `TimelinePromised` says that each
  wait in the queue is satisfied, reserved, or covered by the signal of an *earlier*
  submission, and each timepoint likewise. The oldest submission in flight is then
  ready, unless a reserved value is outstanding.

Both invariants are stated on explicit values (`OrderedAt`, `WaitsCovered`,
`Promised`), so that a call that submits twice applies the same lemma twice; the
lemma `StepKinds` reduces the actions to eight ways of moving a timeline.

The rest of it proves what happens to the commands:

* `NoWorkLost` and `NoResubmission`: `WorkConserved` and `SubmittedOnce`. Neither says
  why a command of a later submission cannot run first, nor where in a command buffer a
  command stands, so neither is inductive. The invariant `WorkInv` adds that
  the commands of every command buffer, pending or submitted, are in recording order
  with a barrier behind each accepted one; that pending commands come after everything
  submitted or executed; and that of two submissions of a stream the one with the
  earlier commands signals the smaller value. It too is stated on explicit values
  (`WorkAt`), and a lemma per primitive (`WorkRecorded`, `WorkFlushed`, `WorkQueued`,
  `WorkAdvanced`, `WorkDropped`, `WorkExecuted`, `WorkRetired`) says what that primitive
  does to it; a call that flushes and then records applies two of them.
* `StreamsInOrder`: the refinement `ExecutesInOrder`. By `TimelineOrdered` the submission
  the device takes is the first of its stream's timeline unless the stream was let free
  (`ReadyIsFirst`), by `WorkInv` every accepted command before it is then executed
  already (`EarlierExecuted`); every other step is `Accept`, `LetFree` or a stutter.

Assumption: `StreamBounds` (the bounds are naturals). Only model-checked: the
liveness properties.

`HrxRuntimeProofs` proves for every set of clients, devices, addresses and driver
reports, and every device limit:

* `TypeCorrect`: `TypeOK`.
* `InitCountsExact`, `StrongCountsExact`: `InitCountExact` and `StrongCountExact`,
  inductive together with the rest below.
* `NoLeaks`: `NothingLeaked`. It speaks only of the moments when nobody holds `G`, so
  the invariant `Accounted` extends it to every stage of an initialization: at each
  program point, `held` is 1 on exactly the objects that the tables, the live devices
  and the locals of the function in progress own there (`Owns...`, one set per kind of
  object, in terms of `stage` and `work`), and 0 elsewhere. The lemma `Accounts` says
  that a step that takes and releases the difference between what is owned before and
  after keeps the ledger balanced; the proof of each action then only computes that
  difference for its branch.
* `PointersLive`, `PoolsShared`, `SnapshotsLive`: `DevicePointersLive`,
  `DevicesUseSharedPool`, `SnapshotLive`, from the ledger and three more conjuncts.
  `Apart`: a device is in one table or in the list being built, never in two of them.
  `ClientsCurrent`: a borrowed pointer is
  in a table, and a snapshot with a surviving accelerator names the shared object of
  now. `PoolsCurrent`: the devices in tables and in the making were created on the
  shared pool of now.

The inductive invariant `IInv` is the conjunction of `Typed`, `Shape` (what the locals
of an initialization may be at each stage), the two counts, `Accounted`, `Apart`,
`ClientsCurrent` and `PoolsCurrent`. It is proved of the initial states, of the device
loop, of the shared state and of failures, then of shutdown and of the clients' calls.

Assumption: `RuntimeConstants` (a positive device limit, driver reports that are
sequences of booleans, a null pointer that is no address, finitely many clients). Only
model-checked: `TablesComplete` (what a recursive count of physical devices computes,
which needs induction over data) and `InitializationReturns` (liveness).

The first section of `HrxQueueProofs` proves for words of every width what the
conversions promise:
`StatusConversion` (OK is kept; an error is read as itself, as INTERNAL, or, when its
payload could not be allocated, as OK), `ConversionSettles` (converting back and forth
again changes nothing more, but for another lost payload), `TimeoutConversion` (only the
largest value is infinite; one from the sign bit on has passed already),
`TransferCheck`. Assumption:
`SignBitAssumption` (a word has a bit besides the top one).

The rest of it proves for every set of clients, every number of operations, every plan,
timeout and fault:

* `TypeCorrect`: `TypeOK`, which no run repeats.
* `CommandBuffersReleasedOnce`, `ThunksFreedOnce`: `CommandBufferOwned` and `ThunkOwned`.
  They speak of *some* client's call; the inductive form `MemInv` names the one call
  that can own the object, that of the operation's own client, and `CallInv` says which
  operation a call is about at each place and that an operation being built has a call.
* `SuccessMeansDone`: `CompletionSound`. From `OrderInv`: the accepted operations of a
  timeline have distinct values up to the promised one, each waits for its predecessor,
  and those up to the payload are done; and `ReadInv`: what a success claimed is below
  a payload that never goes back.
* `ErrorsHaveACause`: `ErrorsExplained`. From `ErrInv` (an error is a timeout of a limited
  wait, or the code of the first failure of a timeline the call is about, or INTERNAL; a
  timeline never changes its first failure), `CauseInv` (a failed timeline has a failed
  operation behind it) and the lemmas on codes and timeouts.

The inductive invariant `IInv` is the conjunction of `TypeOK`, `CallInv`, `MemInv`,
`OrderInv`, `ReadInv`, `CauseInv` and `ErrInv`. Assumption: `QueueAssumption`
(bounds and inputs have their types). Only model-checked: `ForeverWaitsReturn`,
`LimitedWaitsReturn` and `HostCallsSettle`.

`HipInterceptProofs` proves for any number of threads, functions and calls and for every
interceptor: `TypeCorrect` (`TypeOK`), `NoCallSlipsPast` (`InterceptorSeesCalls`),
`OnlyMappedUsed` (`UsesMapped`) and `TablesFinal` (`GlobalsFixed`). None of them is
inductive: that a thread finds the wrapping table depends on what another thread, inside
the `Once`, had done before it. The inductive invariant says who may be where while the
`Once` is new, running or done (`OnceInv`), what each stage of `intercept_init` finds
(`StagesInv`), what it leaves behind (`DoneInv`) and what a thread in the middle of a
call has in hand (`CallInv`). Assumption: `InterceptConstants`. Only model-checked:
`CallsReturn`.

`BufferTracerProofs` proves for any number of threads, addresses, slots and calls:
`TypeCorrect` (`TypeOK`), `DumpReadsLiveMemory` (`EntriesLive`), `TableComplete`
(`NoneForgotten`), `LinesInCallOrder` (`TraceInCallOrder`) and `DumpsAreThePairs`
(`DumpsPaired`). The lock makes the wrappers a critical section (`LockInv`), so the
properties need saying only of the one thread inside: `LocalsInv` its locals, `TraceInv`
how far its line is ahead of or behind its call, `DumpInv` how many dumps it has made.
`HandsInv` says that an address in a wrapper's hands is live and in no other's, which
spans the lock: a freed address waits outside of it, and stays the table's until its
wrapper gets in. `TableInv` relates table and heap meanwhile. Assumption:
`TracerConstants`. Only model-checked: `CallsReturn`.

`HrxObjectsProofs` proves for every set of clients, every plan and every bound on cells
and references the five invariants of `HrxObjects`: `CountsAreExact` (`CountsExact`),
`ObjectsEndOnce` (`EndsOnce`), `AbortNeedsSharing` (`AbortMeansShared`),
`ParentsAlwaysOutlive` (`ParentsOutlive`) and `NothingLeaks` (`LiveIffReachable`). The
inductive invariant `IInv` has two halves that are proved apart.

* `Core` (module `HrxObjectsInv`) is about counts. `Balanced` extends `CountsExact` to
  cells that do not exist yet: nothing may refer to them, or a new object would start
  with a wrong count. `Sound` says what a cell may look like between two steps: its
  fields exist, an ended one has none, it has ended once exactly when its count is zero,
  and a mapped range has the buffer it maps as its only owner, in front of the other
  fields (otherwise an unmap and the drop of the buffer could both end it). `CallSound`
  says which locals a constructor has at each of its steps, and that its caller still
  holds the device; `HandlesSound` that handles exist. `HrxObjectsCounts` proves that
  each operation preserves `Core`. A step changes the references of one client and
  the fields of one cell; lemmas on sums (`Counting`: `Occurrences` adds up over
  concatenation and does not depend on the order, `Total` changes with its summands)
  turn each action into a comparison of two short lists.
* `Shape` (module `HrxObjectsOrder`) is about order. Counts alone do not say that an
  object outlives what points to it without a reference. `Shape` says for each place a
  reference can be (the fields of a handle, the locals of a constructor, the rest of a
  teardown) that what stands there comes before the reference that keeps what it needs
  alive (`Ordered`), so dropping from the front never ends a parent first; and `Rank`
  gives each kind a height above the kinds it owns. The exception of `ParentsOutlive`,
  what a view, list or fence of the client has kept, is what `Strict` leaves out.

The halves meet in two facts that `Core` provides: references are on live objects
(`Upheld`) and a live object has a reference in a live place (`Supported`). From a live
object one climbs to its owners, whose ranks grow: at the top is a client, the runtime
or a lost reference. The ranks end at 4, so the six steps of `Reachable` always
suffice, and what an object needs is found alive on the way (`OrderBacks`,
`OrderReaches`).

Sums are cardinalities (`Total`, `Occurrences`) rather than recursive functions: the
laws in `Counting` then follow from the library's theorems on finite sets and need no
induction. Assumption: `ObjectBounds` (finitely many clients, bounds that are naturals,
room for the device and what it owns).

## 6. Not modelled

* Physical memory, and mapping it into reserved virtual memory: five calls that forward
  to the HAL allocator; libhrx keeps nothing of them.
* The host allocator: seven forwarded calls.
* Contents of buffers, messages of statuses, names, versions, export and property
  queries, the shapes of views.
* `HRX_MAX_QUEUE_SEMAPHORES`: that lists fit the arrays is a precondition of the calls.
* Data races on the `RefCell` of a mapping and on the cells of a stream: the callers
  order calls on one object.
* The log file of `hip-logging`, and the tracer's hashes, sizes and full dumps.
* The bindings of `iree-sys` (no behaviour of their own); IREE and HIP themselves are
  external and appear as what they may do to the code modelled here.
