------------------------------ MODULE HrxStream ------------------------------
(***************************************************************************)
(* Streams of libhrx (crates/hrx-libhrx/src/stream.rs, with the            *)
(* stream-ordered hrx_buffer_allocate of buffer.rs).                       *)
(*                                                                         *)
(* A stream owns a timeline semaphore, a timepoint (the last value it has  *)
(* promised on that semaphore) and at most one pending command buffer.     *)
(* Recording calls append to the command buffer; a flush submits it to the *)
(* device queue, waiting on the current timepoint and signalling the next  *)
(* one.  The device (external, IREE HAL) runs submissions whose wait is    *)
(* satisfied, in any order, and signals their semaphores.                  *)
(*                                                                         *)
(* A stream handle is used by one host thread at a time (its state lives   *)
(* in Cells), so a host call is one step up to the point where it blocks   *)
(* on the semaphore; calls on different streams and the device interleave. *)
(***************************************************************************)
EXTENDS Integers, Sequences, FiniteSets

CONSTANTS
    Streams,       \* the hrx_stream_t objects that may be created
    MaxOps,        \* bound: recording calls per stream
    MaxTimepoint,  \* bound: timepoint up to which a client reserves, allocates or waits_on
    MaxFaults,     \* bound: HAL calls that fail in a behaviour
    MaxRefs        \* bound: references a client holds on a stream

ASSUME StreamBounds ==
    /\ MaxOps \in Nat /\ MaxTimepoint \in Nat /\ MaxFaults \in Nat
    /\ MaxRefs \in Nat \ {0}

VARIABLES
    timepoint,         \* HrxStreamS.timepoint
    pending_cb,        \* HrxStreamS.pending_cb: its state and its commands
    has_pending_work,  \* HrxStreamS.has_pending_work
    refs,              \* references held on the Arc behind the handle
    call,              \* the host call in progress on the stream
    payload,           \* current value of the stream's timeline semaphore
    queue,             \* submissions accepted by the device and not yet retired
    submitted,         \* number of submissions so far; the next one's id
    executed,          \* commands of each stream the device has executed
    faults,            \* HAL calls that have failed so far
    recorded,          \* history: recording calls that reached the command buffer
    accepted,          \* history: recorded commands whose call returned OK
    reserved,          \* history: values handed out by hrx_stream_advance_timeline
    unordered          \* history: the stream's timeline was let run past its own work

hostVars   == <<timepoint, pending_cb, has_pending_work, refs, call>>
deviceVars == <<payload, queue, submitted, executed>>
history    == <<recorded, accepted, reserved, unordered>>
vars       == <<hostVars, deviceVars, faults, history>>

(***************************************************************************)
(* Commands are numbered in recording order from 1; Barrier is the         *)
(* execution barrier a command buffer holds between them.                  *)
(***************************************************************************)
Barrier == 0

NoCb == [state |-> "null", cmds |-> <<>>]

CommandBuffer == [state : {"null", "recording", "ended"}, cmds : Seq(Nat)]

\* s: owning stream; the submission waits for semaphore sem to reach value and
\* signals the semaphore of s to signal.  A wait for 0 is the empty wait list.
Submission == [id : Nat, s : Streams, sem : Streams, value : Nat,
               signal : Nat, cmds : Seq(Nat)]

NewSubmission(id, s, sem, value, signal, cmds) ==
    [id |-> id, s |-> s, sem |-> sem, value |-> value, signal |-> signal, cmds |-> cmds]

Init ==
    /\ timepoint = [s \in Streams |-> 0]
    /\ pending_cb = [s \in Streams |-> NoCb]
    /\ has_pending_work = [s \in Streams |-> FALSE]
    /\ refs = [s \in Streams |-> 0]
    /\ call = [s \in Streams |-> "none"]
    /\ payload = [s \in Streams |-> 0]
    /\ queue = {}
    /\ submitted = 0
    /\ executed = [s \in Streams |-> {}]
    /\ faults = 0
    /\ recorded = [s \in Streams |-> 0]
    /\ accepted = [s \in Streams |-> {}]
    /\ reserved = [s \in Streams |-> {}]
    /\ unordered = [s \in Streams |-> FALSE]

Idle(s) == call[s] = "idle"

Fault == faults < MaxFaults /\ faults' = faults + 1

\* A HAL call on the pending command buffer fails.  On a command buffer that was
\* already ended the HAL may refuse every call, so no fault is spent on it.
CbCallFails(s) ==
    IF pending_cb[s].state = "ended" THEN UNCHANGED faults ELSE Fault

(***************************************************************************)
(* Creation and the handle's references.                                   *)
(***************************************************************************)
hrx_stream_create(s) ==
    /\ call[s] = "none"
    /\ call' = [call EXCEPT ![s] = "idle"]
    /\ refs' = [refs EXCEPT ![s] = 1]
    /\ UNCHANGED <<timepoint, pending_cb, has_pending_work, deviceVars, faults, history>>

hrx_stream_retain(s) ==
    /\ Idle(s)
    /\ refs[s] < MaxRefs
    /\ refs' = [refs EXCEPT ![s] = @ + 1]
    /\ UNCHANGED <<timepoint, pending_cb, has_pending_work, call, deviceVars, faults, history>>

(***************************************************************************)
(* Recording.  begin_cb installs a fresh command buffer when there is none *)
(* and leaves nothing installed when creating or beginning it fails.       *)
(***************************************************************************)
begin_cb(s) ==
    IF pending_cb[s].state = "null" THEN [state |-> "recording", cmds |-> <<>>]
                                    ELSE pending_cb[s]

BeginFails(s) ==
    /\ pending_cb[s].state = "null"
    /\ Fault
    /\ UNCHANGED <<pending_cb, has_pending_work, recorded, accepted>>

\* The recording call itself fails: only the begun command buffer stays behind.
CommandFails(s) ==
    /\ CbCallFails(s)
    /\ pending_cb' = [pending_cb EXCEPT ![s] = begin_cb(s)]
    /\ UNCHANGED <<has_pending_work, recorded, accepted>>

Appended(s, cmds) ==
    [state |-> begin_cb(s).state, cmds |-> begin_cb(s).cmds \o cmds]

\* The command is in the command buffer but record_ordering_barrier fails, so
\* the call reports an error and has_pending_work is not set.
OrderingBarrierFails(s) ==
    /\ CbCallFails(s)
    /\ pending_cb' = [pending_cb EXCEPT ![s] = Appended(s, <<recorded[s] + 1>>)]
    /\ recorded' = [recorded EXCEPT ![s] = @ + 1]
    /\ UNCHANGED <<has_pending_work, accepted>>

\* Variant: the ordering barrier after the command is left out.
RecordedWithoutBarrier(s) ==
    /\ pending_cb' = [pending_cb EXCEPT ![s] = Appended(s, <<recorded[s] + 1>>)]
    /\ has_pending_work' = [has_pending_work EXCEPT ![s] = TRUE]
    /\ recorded' = [recorded EXCEPT ![s] = @ + 1]
    /\ accepted' = [accepted EXCEPT ![s] = @ \cup {recorded[s] + 1}]
    /\ UNCHANGED faults

Recorded(s) ==
    /\ pending_cb' = [pending_cb EXCEPT ![s] = Appended(s, <<recorded[s] + 1, Barrier>>)]
    /\ has_pending_work' = [has_pending_work EXCEPT ![s] = TRUE]
    /\ recorded' = [recorded EXCEPT ![s] = @ + 1]
    /\ accepted' = [accepted EXCEPT ![s] = @ \cup {recorded[s] + 1}]
    /\ UNCHANGED faults

CanRecord(s) ==
    /\ Idle(s)
    /\ recorded[s] < MaxOps
    /\ UNCHANGED <<timepoint, refs, call, deviceVars, reserved, unordered>>

hrx_stream_fill_buffer(s) ==
    CanRecord(s) /\ (BeginFails(s) \/ CommandFails(s) \/ OrderingBarrierFails(s) \/ Recorded(s))

hrx_stream_copy_buffer(s) ==
    CanRecord(s) /\ (BeginFails(s) \/ CommandFails(s) \/ OrderingBarrierFails(s) \/ Recorded(s))

hrx_stream_update_buffer(s) ==
    CanRecord(s) /\ (BeginFails(s) \/ CommandFails(s) \/ OrderingBarrierFails(s) \/ Recorded(s))

\* A NULL binding is found only after begin_cb has installed the command buffer.
NullBinding(s) ==
    /\ pending_cb' = [pending_cb EXCEPT ![s] = begin_cb(s)]
    /\ UNCHANGED <<has_pending_work, recorded, accepted, faults>>

hrx_stream_dispatch(s) ==
    /\ CanRecord(s)
    /\ \/ BeginFails(s) \/ NullBinding(s)
       \/ CommandFails(s) \/ OrderingBarrierFails(s) \/ Recorded(s)

\* Records a barrier of the client's own: no command, but work to flush.
hrx_stream_execution_barrier(s) ==
    /\ CanRecord(s)
    /\ \/ BeginFails(s)
       \/ CommandFails(s)
       \/ /\ pending_cb' = [pending_cb EXCEPT ![s] = Appended(s, <<Barrier>>)]
          /\ has_pending_work' = [has_pending_work EXCEPT ![s] = TRUE]
          /\ recorded' = [recorded EXCEPT ![s] = @ + 1]
          /\ UNCHANGED <<accepted, faults>>

(***************************************************************************)
(* Flushing.  MustFlush is the negation of flush_inner's early return; the *)
(* operators below give the submission and timeline after a flush that     *)
(* succeeds (or that has nothing to do).                                   *)
(***************************************************************************)
MustFlush(s) == has_pending_work[s] /\ pending_cb[s].state # "null"

\* Variant: the submission waits for the value it signals itself.
FlushWaitingOnItself(s) ==
    NewSubmission(submitted + 1, s, s, timepoint[s] + 1, timepoint[s] + 1, pending_cb[s].cmds)

FlushSubmission(s) ==
    NewSubmission(submitted + 1, s, s, timepoint[s], timepoint[s] + 1, pending_cb[s].cmds)

FlushedQueue(s) == IF MustFlush(s) THEN queue \cup {FlushSubmission(s)} ELSE queue

\* Variant: the flush forgets to advance the timepoint.
FlushKeepsTimepoint(s) == timepoint[s]

FlushedTimepoint(s) == IF MustFlush(s) THEN timepoint[s] + 1 ELSE timepoint[s]

FlushedCount(s) == IF MustFlush(s) THEN submitted + 1 ELSE submitted

\* Variant: the submitted command buffer stays installed.
PendingKept(s) ==
    /\ has_pending_work' = IF MustFlush(s) THEN [has_pending_work EXCEPT ![s] = FALSE]
                                           ELSE has_pending_work
    /\ UNCHANGED <<pending_cb, payload, executed, recorded, accepted, reserved>>

\* The pending command buffer is handed to the queue and released.
PendingTaken(s) ==
    /\ pending_cb' = IF MustFlush(s) THEN [pending_cb EXCEPT ![s] = NoCb] ELSE pending_cb
    /\ has_pending_work' = IF MustFlush(s) THEN [has_pending_work EXCEPT ![s] = FALSE]
                                           ELSE has_pending_work
    /\ UNCHANGED <<payload, executed, recorded, accepted, reserved>>

flush_inner(s) ==
    /\ PendingTaken(s)
    /\ queue' = FlushedQueue(s)
    /\ submitted' = FlushedCount(s)
    /\ timepoint' = [timepoint EXCEPT ![s] = FlushedTimepoint(s)]
    /\ UNCHANGED unordered

\* Variant: the command buffer is taken before it is known to be submitted.
FlushFailsEmptied(s) ==
    /\ MustFlush(s)
    /\ Fault
    /\ pending_cb' = [pending_cb EXCEPT ![s] = NoCb]
    /\ has_pending_work' = [has_pending_work EXCEPT ![s] = FALSE]
    /\ UNCHANGED <<timepoint, deviceVars, history>>

\* Ending the command buffer or submitting it fails: it stays installed, ended in
\* the second case, and has_pending_work stays set.
FlushFails(s) ==
    /\ MustFlush(s)
    /\ \/ CbCallFails(s) /\ UNCHANGED pending_cb
       \/ Fault /\ pending_cb' = [pending_cb EXCEPT ![s].state = "ended"]
    /\ UNCHANGED <<timepoint, has_pending_work, deviceVars, history>>

hrx_stream_flush(s) ==
    /\ Idle(s)
    /\ \/ FlushFails(s)
       \/ flush_inner(s) /\ UNCHANGED faults
    /\ UNCHANGED <<refs, call>>

\* hrx_stream_wait returns at once at timepoint 0 and otherwise blocks.
hrx_stream_wait(s) ==
    /\ Idle(s)
    /\ timepoint[s] > 0
    /\ call' = [call EXCEPT ![s] = "wait"]
    /\ UNCHANGED <<timepoint, pending_cb, has_pending_work, refs, deviceVars, faults, history>>

hrx_stream_synchronize(s) ==
    /\ Idle(s)
    /\ \/ FlushFails(s) /\ UNCHANGED call
       \/ /\ flush_inner(s)
          /\ call' = [call EXCEPT ![s] = IF FlushedTimepoint(s) > 0 THEN "wait" ELSE "idle"]
          /\ UNCHANGED faults
    /\ UNCHANGED refs

\* The semaphore wait of hrx_stream_wait returns, with OK or with an error.
WaitReturns(s) ==
    /\ call[s] = "wait"
    /\ \/ payload[s] >= timepoint[s] /\ UNCHANGED faults
       \/ Fault
    /\ call' = [call EXCEPT ![s] = "idle"]
    /\ UNCHANGED <<timepoint, pending_cb, has_pending_work, refs, deviceVars, history>>

\* What hrx_stream_query stores in *complete.
hrx_stream_query(s) == timepoint[s] = 0 \/ payload[s] >= timepoint[s]

(***************************************************************************)
(* The timeline: positions of other streams, and reserved values.          *)
(***************************************************************************)
\* Values a client may have read with hrx_stream_get_timeline_position.
hrx_stream_get_timeline_position(s) == 0 .. timepoint[s]

\* The barrier waits on the given position only, not on the stream's own
\* timepoint; it lets the timeline pass work that is still in flight unless
\* there is none or the position is the stream's own latest one.
OvertakesOwnWork(s, t, v) ==
    /\ payload[s] < FlushedTimepoint(s)
    /\ ~(t = s /\ v >= FlushedTimepoint(s))

\* The flush has succeeded and one more submission follows it on the timeline.
FlushThenQueue(s, sem, value) ==
    /\ PendingTaken(s)
    /\ queue' = FlushedQueue(s) \cup
                {NewSubmission(FlushedCount(s) + 1, s, sem, value, FlushedTimepoint(s) + 1, <<>>)}
    /\ submitted' = FlushedCount(s) + 1
    /\ UNCHANGED faults

\* Variant: the timepoint is advanced although the operation was refused.
RefusedButAdvanced(s) ==
    /\ PendingTaken(s)
    /\ queue' = FlushedQueue(s)
    /\ submitted' = FlushedCount(s)
    /\ timepoint' = [timepoint EXCEPT ![s] = FlushedTimepoint(s) + 1]
    /\ Fault
    /\ UNCHANGED <<call, unordered>>

\* The flush succeeds and the operation after it is refused.
FlushThenRefused(s) == flush_inner(s) /\ Fault /\ UNCHANGED call

\* The call takes any semaphore and value.  Here the client passes positions it was
\* given by hrx_stream_get_timeline_position, so values that are promised already.
hrx_stream_wait_on(s) ==
    /\ Idle(s)
    /\ timepoint[s] < MaxTimepoint
    /\ \/ FlushFails(s) /\ UNCHANGED call
       \/ FlushThenRefused(s)
       \/ \E t \in {t \in Streams : call[t] # "none"} :
            \E v \in hrx_stream_get_timeline_position(t) :
               /\ FlushThenQueue(s, t, v)
               /\ timepoint' = [timepoint EXCEPT ![s] = FlushedTimepoint(s) + 1]
               /\ unordered' = [unordered EXCEPT ![s] = @ \/ OvertakesOwnWork(s, t, v)]
               /\ UNCHANGED call
    /\ UNCHANGED refs

hrx_stream_advance_timeline(s) ==
    /\ Idle(s)
    /\ timepoint[s] < MaxTimepoint
    /\ timepoint' = [timepoint EXCEPT ![s] = @ + 1]
    /\ reserved' = [reserved EXCEPT ![s] = @ \cup {timepoint[s] + 1}]
    /\ UNCHANGED <<pending_cb, has_pending_work, refs, call, deviceVars, faults,
                   recorded, accepted, unordered>>

\* A client signals a value it reserved, on the semaphore it obtained with
\* hrx_stream_get_semaphore.  Signalling ahead of work in flight skips it.
hrx_semaphore_signal(s) ==
    \E v \in reserved[s] :
        /\ v > payload[s]
        /\ payload' = [payload EXCEPT ![s] = v]
        /\ unordered' = [unordered EXCEPT ![s] = @ \/ v > payload[s] + 1]
        /\ UNCHANGED <<hostVars, queue, submitted, executed, faults,
                       recorded, accepted, reserved>>

(***************************************************************************)
(* hrx_buffer_allocate: flush, queue an alloca on the stream's timeline,   *)
(* block until it has run, and only then advance the timepoint.            *)
(***************************************************************************)
hrx_buffer_allocate(s) ==
    /\ Idle(s)
    /\ timepoint[s] < MaxTimepoint
    /\ \/ FlushFails(s) /\ UNCHANGED call
       \/ FlushThenRefused(s)
       \/ /\ FlushThenQueue(s, s, FlushedTimepoint(s))
          /\ timepoint' = [timepoint EXCEPT ![s] = FlushedTimepoint(s)]
          /\ call' = [call EXCEPT ![s] = "alloc"]
          /\ UNCHANGED unordered
    /\ UNCHANGED refs

\* Variant: waits for the value after the one the alloca signals.
AllocateWaitsTooFar(s) ==
    /\ call[s] = "alloc"
    /\ payload[s] >= timepoint[s] + 2
    /\ call' = [call EXCEPT ![s] = "idle"]
    /\ timepoint' = [timepoint EXCEPT ![s] = @ + 1]
    /\ UNCHANGED <<pending_cb, has_pending_work, refs, deviceVars, faults, history>>

\* The wait for the alloca returns.  On an error the timepoint is not advanced
\* although the queued alloca still signals the next value.
AllocateReturns(s) ==
    /\ call[s] = "alloc"
    /\ call' = [call EXCEPT ![s] = "idle"]
    /\ \/ /\ payload[s] >= timepoint[s] + 1
          /\ timepoint' = [timepoint EXCEPT ![s] = @ + 1]
          /\ UNCHANGED <<faults, unordered>>
       \/ /\ Fault
          /\ unordered' = [unordered EXCEPT ![s] = TRUE]
          /\ UNCHANGED timepoint
    /\ UNCHANGED <<pending_cb, has_pending_work, refs, deviceVars,
                   recorded, accepted, reserved>>

(***************************************************************************)
(* Release and teardown.  The last release runs Drop: flush, ignoring the  *)
(* status; wait for the timepoint, ignoring the status; release a leftover *)
(* command buffer; release the semaphore and the device.                   *)
(***************************************************************************)
\* Variant: the last reference is not noticed.
ReleaseNeverDrops(s) ==
    /\ Idle(s)
    /\ refs' = [refs EXCEPT ![s] = @ - 1]
    /\ UNCHANGED <<timepoint, pending_cb, has_pending_work, call, deviceVars, faults, history>>

hrx_stream_release(s) ==
    /\ Idle(s)
    /\ refs' = [refs EXCEPT ![s] = @ - 1]
    /\ \/ /\ refs[s] > 1
          /\ UNCHANGED <<timepoint, pending_cb, has_pending_work, call, deviceVars,
                         faults, history>>
       \/ /\ refs[s] = 1
          /\ call' = [call EXCEPT ![s] = "drop"]
          /\ \/ FlushFails(s)
             \/ flush_inner(s) /\ UNCHANGED faults

\* Drop's wait (skipped at timepoint 0) is over; "abandoned" is a stream freed
\* after the wait failed.
DropReturns(s) ==
    /\ call[s] = "drop"
    /\ \/ /\ payload[s] >= timepoint[s]
          /\ call' = [call EXCEPT ![s] = "gone"]
          /\ UNCHANGED faults
       \/ /\ timepoint[s] > 0
          /\ Fault
          /\ call' = [call EXCEPT ![s] = "abandoned"]
    /\ pending_cb' = [pending_cb EXCEPT ![s] = NoCb]
    /\ UNCHANGED <<timepoint, has_pending_work, refs, deviceVars, history>>

(***************************************************************************)
(* The device queue (external).  A ready submission's commands execute one *)
(* by one, in any order its barriers allow; it retires after all of them.  *)
(* No submission fails after it was accepted (HrxQueue has those), and a   *)
(* signal at or below the semaphore's value changes nothing.               *)
(***************************************************************************)
Ready(q) == payload[q.sem] >= q.value

MayExecute(q, i) ==
    /\ q.cmds[i] # Barrier
    /\ q.cmds[i] \notin executed[q.s]
    /\ \A k \in 1 .. i - 1 : q.cmds[k] = Barrier =>
         \A j \in 1 .. k - 1 : q.cmds[j] = Barrier \/ q.cmds[j] \in executed[q.s]

DeviceExecute(s) ==
    /\ \E q \in queue :
         /\ q.s = s
         /\ Ready(q)
         /\ \E i \in DOMAIN q.cmds :
              /\ MayExecute(q, i)
              /\ executed' = [executed EXCEPT ![s] = @ \cup {q.cmds[i]}]
    /\ UNCHANGED <<hostVars, payload, queue, submitted, faults, history>>

AllExecuted(q) == \A i \in DOMAIN q.cmds : q.cmds[i] = Barrier \/ q.cmds[i] \in executed[q.s]

DeviceRetire(s) ==
    /\ \E q \in queue :
         /\ q.s = s
         /\ Ready(q)
         /\ AllExecuted(q)
         /\ queue' = queue \ {q}
         /\ payload' = [payload EXCEPT ![s] = IF q.signal > @ THEN q.signal ELSE @]
    /\ UNCHANGED <<hostVars, submitted, executed, faults, history>>

HostCall(s) ==
    \/ hrx_stream_create(s) \/ hrx_stream_retain(s) \/ hrx_stream_release(s)
    \/ hrx_stream_fill_buffer(s) \/ hrx_stream_copy_buffer(s)
    \/ hrx_stream_update_buffer(s) \/ hrx_stream_dispatch(s)
    \/ hrx_stream_execution_barrier(s)
    \/ hrx_stream_flush(s) \/ hrx_stream_wait(s) \/ hrx_stream_synchronize(s)
    \/ hrx_stream_wait_on(s) \/ hrx_stream_advance_timeline(s)
    \/ hrx_semaphore_signal(s) \/ hrx_buffer_allocate(s)

HostReturn(s) == WaitReturns(s) \/ AllocateReturns(s) \/ DropReturns(s)

Device(s) == DeviceExecute(s) \/ DeviceRetire(s)

Next == \E s \in Streams : HostCall(s) \/ HostReturn(s) \/ Device(s)

Spec == Init /\ [][Next]_vars

(***************************************************************************)
(* Fairness: the device keeps running work that is ready, and a host       *)
(* thread blocked on a semaphore is woken when the value is reached.       *)
(* Nothing is assumed of the client: it may stop calling at any time.      *)
(***************************************************************************)
FairSpec == Spec /\ \A s \in Streams : WF_vars(Device(s)) /\ WF_vars(HostReturn(s))

(***************************************************************************)
(* Properties.                                                             *)
(***************************************************************************)
Calls == {"none", "idle", "wait", "alloc", "drop", "gone", "abandoned"}

\* Every variable has the type its declaration in stream.rs gives it, and every
\* submission was built from values the stream has held.
TypeOK ==
    /\ timepoint \in [Streams -> Nat]
    /\ pending_cb \in [Streams -> CommandBuffer]
    /\ has_pending_work \in [Streams -> BOOLEAN]
    /\ refs \in [Streams -> Nat]
    /\ call \in [Streams -> Calls]
    /\ payload \in [Streams -> Nat]
    /\ queue \subseteq Submission
    /\ submitted \in Nat
    /\ executed \in [Streams -> SUBSET Nat]
    /\ faults \in 0 .. MaxFaults
    /\ recorded \in [Streams -> Nat]
    /\ accepted \in [Streams -> SUBSET Nat]
    /\ reserved \in [Streams -> SUBSET Nat]
    /\ unordered \in [Streams -> BOOLEAN]

Holds(cmds, n) == \E i \in DOMAIN cmds : cmds[i] = n

\* No accepted command is lost, whatever fails in begin_cb, flush_inner,
\* hrx_stream_wait_on or hrx_buffer_allocate: it is executed, in flight, or in the
\* pending command buffer with has_pending_work set, so that the next flush
\* submits it.  Only Drop after a flush that failed discards it.
WorkConserved ==
    \A s \in Streams : \A n \in accepted[s] :
        \/ n \in executed[s]
        \/ \E q \in queue : q.s = s /\ Holds(q.cmds, n)
        \/ /\ has_pending_work[s]
           /\ Holds(pending_cb[s].cmds, n) \/ call[s] \in {"gone", "abandoned"}

\* A command is submitted once: one that is still in the pending command buffer
\* has not reached the device, and no two submissions carry the same command,
\* although a failed flush leaves the command buffer installed for a retry.
SubmittedOnce ==
    \A s \in Streams : \A n \in 1 .. recorded[s] :
        /\ Holds(pending_cb[s].cmds, n) =>
              /\ n \notin executed[s]
              /\ \A q \in queue : q.s = s => ~Holds(q.cmds, n)
        /\ \A p, q \in queue :
              p.s = s /\ q.s = s /\ Holds(p.cmds, n) /\ Holds(q.cmds, n) => p = q

\* What hrx_stream_query, a returned hrx_stream_wait and the end of Drop tell the
\* client: unless the timeline was let run past the stream's own work (an
\* unordered hrx_stream_wait_on, a reserved value signalled early, an alloca
\* abandoned by hrx_buffer_allocate), a timeline that has reached the timepoint
\* leaves nothing of the stream in flight.
CompletionMeansRetired ==
    \A s \in Streams :
        ~unordered[s] /\ call[s] # "alloc" /\ hrx_stream_query(s)
            => \A q \in queue : q.s # s

Outstanding(s) == \E v \in reserved[s] : v > payload[s]

\* The timepoint flush_inner, hrx_stream_wait and Drop wait for is reached, will be
\* signalled by a submission in flight, or was reserved by the client itself with
\* hrx_stream_advance_timeline: no failed HAL call leaves a timepoint nobody signals.
TimepointPromised ==
    \A s \in Streams :
        \/ timepoint[s] <= payload[s]
        \/ timepoint[s] \in reserved[s]
        \/ \E q \in queue : q.s = s /\ q.signal >= timepoint[s]

\* Streams that wait on each other's positions never deadlock the device: while
\* there is work in flight and no reserved value is outstanding, the wait of some
\* submission is satisfied.  This rests on clients that wait on positions, which
\* hrx_stream_wait_on does not enforce.
DeviceNotStuck ==
    queue # {} /\ (\A s \in Streams : ~Outstanding(s)) => \E q \in queue : Ready(q)

Blocked(s) == call[s] \in {"wait", "alloc", "drop"}

\* A host thread blocked in hrx_stream_wait, hrx_buffer_allocate or Drop returns,
\* unless some client never signals a value it reserved.
BlockedCallsReturn ==
    \A s \in Streams : Blocked(s) ~> (~Blocked(s) \/ \E t \in Streams : Outstanding(t))

InOrder == INSTANCE InOrderStreams WITH Commands <- 1 .. MaxOps, free <- unordered

\* The streams implement InOrderStreams: accepted commands execute once each and in
\* the order they were recorded, across command buffers, failed flushes and retries,
\* for as long as the timeline is not let run past the stream's own work.
ExecutesInOrder == InOrder!Spec
====
