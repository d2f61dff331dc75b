------------------------------ MODULE HrxQueue ------------------------------
(***************************************************************************)
(* Direct queue operations and the timepoints they are ordered by:         *)
(* hrx_queue_fill, _copy, _barrier, _dispatch and _host_call, timeline     *)
(* semaphores and fences (queue_ops.rs, semaphore.rs and fence.rs in       *)
(* crates/hrx-libhrx/src, common.rs for the statuses).                     *)
(*                                                                         *)
(* Every client owns one timeline.  An operation waits for the last        *)
(* timepoint its client promised, and for those of others it depends on,   *)
(* and signals the next one.  The device takes accepted operations in any  *)
(* order their waits allow, concurrently with the call that submitted them.*)
(*                                                                         *)
(* The HAL device, its semaphores and fences are external: an operation    *)
(* runs once its waits are reached, signals or fails its timeline, and is  *)
(* dropped, failing its timeline, if a wait failed.                        *)
(***************************************************************************)
EXTENDS HrxCodes, Sequences, FiniteSets

CONSTANTS
    Clients,    \* threads, each with a timeline of its own
    MaxOps,     \* bound on queue operations
    Plans,      \* each a sequence of calls for every client
    Timeouts,   \* values of timeout_ns the clients pass
    Faults      \* IREE codes the HAL device and the callbacks fail with

ASSUME QueueAssumption ==
    /\ MaxOps \in Nat
    /\ Timeouts \subseteq Word
    /\ Faults \subseteq IreeStatusCode \ {Ok}
    /\ \A p \in Plans : DOMAIN p = Clients

VARIABLES
    op,         \* queue operations
    mem,        \* references on the command buffer or the thunk of an operation
    sem,        \* timelines: payload and failure
    promised,   \* last timepoint of a timeline that an operation was accepted for
    fence,      \* each client's fence: the value of every timeline in it, 0 if none
    at,         \* where a client's call is
    cur,        \* the operation a client's call is about
    asked,      \* timepoints a waiting client waits for, and how long
    ret,        \* what a client's last call returned
    plan        \* calls a client has still to make

vars == <<op, mem, sem, promised, fence, at, cur, asked, ret, plan>>

OpIds == 1 .. MaxOps

\* No status yet: nothing is claimed.
NoRet == [code |-> Ok, claims |-> {}, forever |-> FALSE, lost |-> FALSE]

\* Not waiting.
NoWait == [claims |-> {}, ns |-> 0]

FreeOp == [stage |-> "free", kind |-> "none", wait |-> {}, tl |-> "none", val |-> 0, err |-> Ok]

Init ==
    /\ op = [i \in OpIds |-> FreeOp]
    /\ mem = [i \in OpIds |-> 0]
    /\ sem = [c \in Clients |-> [value |-> 0, fail |-> Ok]]
    /\ promised = [c \in Clients |-> 0]
    /\ fence = [c \in Clients |-> [s \in Clients |-> 0]]
    /\ at = [c \in Clients |-> "idle"]
    /\ cur = [c \in Clients |-> 0]
    /\ asked = [c \in Clients |-> NoWait]
    /\ ret = [c \in Clients |-> NoRet]
    /\ plan \in Plans

Reached(p) == sem[p[1]].fail = Ok /\ sem[p[1]].value >= p[2]
Failed(p) == sem[p[1]].fail # Ok

\* What a caller may be told of an IREE status.  An error is lost if it reads as OK.
Returned(iree, claims, forever) ==
    {[code |-> code, claims |-> claims, forever |-> forever, lost |-> code = Ok /\ iree # Ok] :
        code \in hrx_status_from_iree(iree)}

\* The call of client c returns a status made from an IREE one, about claims.
Report(c, iree, claims, forever) ==
    /\ at' = [at EXCEPT ![c] = "idle"]
    /\ asked' = [asked EXCEPT ![c] = NoWait]
    /\ \E r \in Returned(iree, claims, forever) : ret' = [ret EXCEPT ![c] = r]

\* The call returns a status that says only whether it was carried out.  The clients
\* here go by promised, so one that is lost, a refusal that reads as OK, misleads none.
Return(c) ==
    /\ at' = [at EXCEPT ![c] = "idle"]
    /\ cur' = [cur EXCEPT ![c] = 0]
    /\ ret' = [ret EXCEPT ![c] = NoRet]

\* Client c makes its next call.
Calling(c, call) ==
    /\ at[c] = "idle" /\ plan[c] # <<>>
    /\ Head(plan[c]) = call
    /\ plan' = [plan EXCEPT ![c] = Tail(@)]

(***************************************************************************)
(* Submission.                                                             *)
(***************************************************************************)
\* Variant: the loop stops one short.
LastLeftOut(list) == {list[i] : i \in 1 .. Len(list) - 1}

\* Variant: the values are those of the signal list.
SignalValues(list) == {<<list[i][1], list[i][2] + 1>> : i \in 1 .. Len(list)}

\* The timepoints of a list as the device has to find them reached.
to_iree_sem_list(list) == {list[i] : i \in 1 .. Len(list)}

\* The wait list of a new operation of c, after the timepoints of others.
WaitLists(c) ==
    {<< <<c, promised[c]>> >>}
    \cup {<< <<s, promised[s]>>, <<c, promised[c]>> >> : s \in Clients \ {c}}

\* Client c starts a submission of the given kind.
Submit(c, call, kind, first) ==
    /\ Calling(c, call)
    /\ \E i \in OpIds, list \in WaitLists(c) :
         /\ op[i].stage = "free" /\ \A j \in OpIds : j < i => op[j].stage # "free"
         /\ op' = [op EXCEPT ![i] = [stage |-> "building", kind |-> kind,
                                     wait |-> to_iree_sem_list(list),
                                     tl |-> c, val |-> promised[c] + 1, err |-> Ok]]
         /\ cur' = [cur EXCEPT ![c] = i]
    /\ at' = [at EXCEPT ![c] = first]
    /\ ret' = [ret EXCEPT ![c] = NoRet]
    /\ UNCHANGED <<mem, sem, promised, fence, asked>>

\* The HAL accepts operation cur[c]: its timepoint is promised from here on.
Accept(c) ==
    /\ op' = [op EXCEPT ![cur[c]].stage = "pending"]
    /\ promised' = [promised EXCEPT ![c] = op[cur[c]].val]

\* The submission of cur[c] is given up.
Refuse(c) == op' = [op EXCEPT ![cur[c]].stage = "refused"]

\* Variant: the failure returns without releasing the command buffer.
FailsAndLeaks(c) ==
    /\ Refuse(c)
    /\ Return(c)
    /\ UNCHANGED mem

\* begin, the command or end failed: the command buffer is released.
RecordingFails(c) ==
    /\ mem' = [mem EXCEPT ![cur[c]] = @ - 1]
    /\ Refuse(c)
    /\ Return(c)

\* The command buffer of a fill or a copy is created, then begun, given its
\* command and ended, each of which may fail.
BuildCommandBuffer(c) ==
    /\ \/ /\ at[c] = "create"
          /\ \/ /\ mem' = [mem EXCEPT ![cur[c]] = 1]
                /\ at' = [at EXCEPT ![c] = "record"]
                /\ UNCHANGED <<op, cur, ret>>
             \/ Refuse(c) /\ Return(c) /\ UNCHANGED mem
       \/ /\ at[c] = "record"
          /\ \/ at' = [at EXCEPT ![c] = "execute"] /\ UNCHANGED <<op, mem, cur, ret>>
             \/ RecordingFails(c)
    /\ UNCHANGED <<sem, promised, fence, asked, plan>>

\* queue_execute either takes the operation and a reference of its own, or
\* fails; the caller's reference is released either way.
queue_execute(c) ==
    \/ /\ at[c] = "execute"
       /\ at' = [at EXCEPT ![c] = "executed"]
       /\ \/ Accept(c) /\ mem' = [mem EXCEPT ![cur[c]] = @ + 1]
          \/ Refuse(c) /\ UNCHANGED <<promised, mem>>
       /\ UNCHANGED <<sem, fence, cur, asked, ret, plan>>
    \/ /\ at[c] = "executed"
       /\ mem' = [mem EXCEPT ![cur[c]] = @ - 1]
       /\ Return(c)
       /\ UNCHANGED <<op, sem, promised, fence, asked, plan>>

hrx_queue_fill(c) ==
    \/ Submit(c, "hrx_queue_fill", "work", "create")
    \/ BuildCommandBuffer(c)
    \/ queue_execute(c)

hrx_queue_copy(c) ==
    \/ Submit(c, "hrx_queue_copy", "work", "create")
    \/ BuildCommandBuffer(c)
    \/ queue_execute(c)

\* A barrier and a dispatch are one HAL call.
DirectCall(c) ==
    /\ at[c] = "direct"
    /\ Accept(c) \/ (Refuse(c) /\ UNCHANGED promised)
    /\ Return(c)
    /\ UNCHANGED <<mem, sem, fence, asked, plan>>

hrx_queue_barrier(c) ==
    Submit(c, "hrx_queue_barrier", "direct", "direct") \/ DirectCall(c)

\* Bindings without a buffer are refused before the operation exists.
hrx_queue_dispatch(c) ==
    Submit(c, "hrx_queue_dispatch", "direct", "direct") \/ DirectCall(c)

\* Variant: the thunk is freed whatever the enqueue returned.
FreesThunk(c) ==
    /\ at[c] \in {"enqueued", "unqueued"}
    /\ mem' = [mem EXCEPT ![cur[c]] = @ - 1]
    /\ Return(c)
    /\ UNCHANGED <<op, sem, promised, fence, asked, plan>>

\* The end of hrx_queue_host_call: the thunk is freed only if the HAL refused it.
HostCallReturns(c) ==
    /\ \/ at[c] = "enqueued" /\ UNCHANGED mem
       \/ at[c] = "unqueued" /\ mem' = [mem EXCEPT ![cur[c]] = @ - 1]
    /\ Return(c)
    /\ UNCHANGED <<op, sem, promised, fence, asked, plan>>

\* The thunk is allocated and handed to the HAL.  After an accepted enqueue the
\* call is not over yet, and the trampoline may already run.
hrx_queue_host_call(c) ==
    \/ Submit(c, "hrx_queue_host_call", "call", "malloc")
    \/ /\ at[c] = "malloc"
       /\ \/ /\ mem' = [mem EXCEPT ![cur[c]] = 1]
             /\ at' = [at EXCEPT ![c] = "enqueue"]
             /\ UNCHANGED <<op, cur, ret>>
          \/ Refuse(c) /\ Return(c) /\ UNCHANGED mem
       /\ UNCHANGED <<sem, promised, fence, asked, plan>>
    \/ /\ at[c] = "enqueue"
       /\ \/ Accept(c) /\ at' = [at EXCEPT ![c] = "enqueued"]
          \/ Refuse(c) /\ at' = [at EXCEPT ![c] = "unqueued"] /\ UNCHANGED promised
       /\ UNCHANGED <<mem, sem, fence, cur, asked, ret, plan>>
    \/ HostCallReturns(c)

(***************************************************************************)
(* The device.                                                             *)
(***************************************************************************)
\* Operation i ends with an IREE code: its timeline is signalled or failed, with the
\* first failure kept.
Complete(i, iree) ==
    /\ op' = [op EXCEPT ![i].stage = IF iree = Ok THEN "done" ELSE "failed", ![i].err = iree]
    /\ sem' = IF iree = Ok THEN [sem EXCEPT ![op[i].tl].value = op[i].val]
                            ELSE [sem EXCEPT ![op[i].tl].fail = IF @ = Ok THEN iree ELSE @]

\* The device runs a command buffer, a barrier or a dispatch, and releases
\* the command buffer.
Execute(i) ==
    /\ op[i].stage = "pending" /\ op[i].kind # "call"
    /\ \A p \in op[i].wait : Reached(p)
    /\ \E e \in Faults \cup {Ok} : Complete(i, e)
    /\ mem' = [mem EXCEPT ![i] = IF op[i].kind = "work" THEN @ - 1 ELSE @]
    /\ UNCHANGED <<promised, fence, at, cur, asked, ret, plan>>

\* A wait failed: the operation never runs and its timeline fails too.  The
\* trampoline of a host call is not called, so its thunk stays allocated.
Drop(i) ==
    /\ op[i].stage = "pending"
    /\ \E p \in op[i].wait :
         /\ Failed(p)
         /\ op' = [op EXCEPT ![i].stage = "dropped"]
         /\ sem' = [sem EXCEPT ![op[i].tl].fail = IF @ = Ok THEN sem[p[1]].fail ELSE @]
    /\ mem' = [mem EXCEPT ![i] = IF op[i].kind = "work" THEN @ - 1 ELSE @]
    /\ UNCHANGED <<promised, fence, at, cur, asked, ret, plan>>

\* The device thread enters the trampoline, which calls the callback.
CallBack(i) ==
    /\ op[i].stage = "pending" /\ op[i].kind = "call"
    /\ \A p \in op[i].wait : Reached(p)
    /\ op' = [op EXCEPT ![i].stage = "running"]
    /\ UNCHANGED <<mem, sem, promised, fence, at, cur, asked, ret, plan>>

\* The callback returns a status; the trampoline frees the thunk and converts it.
host_call_trampoline(i) ==
    /\ op[i].stage = "running"
    /\ mem' = [mem EXCEPT ![i] = @ - 1]
    /\ \E code \in (Faults \cap HrxStatusCode) \cup {Ok} : Complete(i, hrx_status_to_iree(code))
    /\ UNCHANGED <<promised, fence, at, cur, asked, ret, plan>>

(***************************************************************************)
(* Semaphores and fences.                                                  *)
(***************************************************************************)
\* A client signals its own timeline from the host, when it is not waiting
\* for the device.
hrx_semaphore_signal(c) ==
    /\ Calling(c, "hrx_semaphore_signal")
    /\ sem[c].fail = Ok /\ sem[c].value = promised[c]
    /\ promised' = [promised EXCEPT ![c] = @ + 1]
    /\ sem' = [sem EXCEPT ![c].value = promised[c] + 1]
    /\ Return(c)
    /\ UNCHANGED <<op, mem, fence, asked>>

\* The payload comes back whatever the status is; a failed timeline reports
\* what it failed with.
hrx_semaphore_query(c) ==
    /\ Calling(c, "hrx_semaphore_query")
    /\ \E s \in Clients : Report(c, sem[s].fail, {<<s, sem[s].value>>}, FALSE)
    /\ UNCHANGED <<op, mem, sem, promised, fence, cur>>

StartWait(c, call, timepoints) ==
    /\ Calling(c, call)
    /\ \E ns \in Timeouts : asked' = [asked EXCEPT ![c] = [claims |-> timepoints, ns |-> ns]]
    /\ at' = [at EXCEPT ![c] = "waiting"]
    /\ ret' = [ret EXCEPT ![c] = NoRet]
    /\ UNCHANGED <<op, mem, sem, promised, fence, cur>>

hrx_semaphore_wait(c) == \E s \in Clients : StartWait(c, "hrx_semaphore_wait", {<<s, promised[s]>>})

hrx_fence_wait(c) ==
    StartWait(c, "hrx_fence_wait", {<<s, fence[c][s]>> : s \in {t \in Clients : fence[c][t] > 0}})

\* Variant: the wait looks at the payload alone.
WaitIgnoresFailure(c) ==
    LET claims == asked[c].claims
        forever == asked[c].ns = WordMax
    IN  /\ at[c] = "waiting"
        /\ \/ (\A p \in claims : Reached(p)) /\ Report(c, Ok, claims, forever)
           \/ /\ ToTimeout(asked[c].ns) # Infinite
              /\ \E p \in claims : ~Reached(p)
              /\ Report(c, DeadlineExceeded, claims, forever)
        /\ UNCHANGED <<op, mem, sem, promised, fence, cur, plan>>

\* The HAL wait ends: everything is reached, something failed (the cause or
\* ABORTED is reported), or the time is over.
WaitReturns(c) ==
    LET claims == asked[c].claims
        forever == asked[c].ns = WordMax
    IN  /\ at[c] = "waiting"
        /\ \/ (\A p \in claims : Reached(p)) /\ Report(c, Ok, claims, forever)
           \/ \E p \in claims :
                Failed(p) /\ \E e \in {sem[p[1]].fail, Aborted} : Report(c, e, claims, forever)
           \/ /\ ToTimeout(asked[c].ns) # Infinite
              /\ \E p \in claims : ~Reached(p)
              /\ Report(c, DeadlineExceeded, claims, forever)
        /\ UNCHANGED <<op, mem, sem, promised, fence, cur, plan>>

SetFence(c, call, f) ==
    /\ Calling(c, call)
    /\ fence' = [fence EXCEPT ![c] = f]
    /\ Return(c)
    /\ UNCHANGED <<op, mem, sem, promised, asked>>

Later(u, v) == IF u > v THEN u ELSE v

\* A fence at the last promised timepoint of a timeline, or at the next one of
\* the client's own, to be signalled from the host.
hrx_fence_create_at(c) ==
    \E s \in Clients, d \in {0, 1} :
        /\ d = 1 => s = c
        /\ SetFence(c, "hrx_fence_create_at", [t \in Clients |-> IF t = s THEN promised[s] + d ELSE 0])

hrx_fence_insert(c) ==
    \E s \in Clients : SetFence(c, "hrx_fence_insert", [fence[c] EXCEPT ![s] = Later(@, promised[s])])

hrx_fence_extend(c) ==
    \E from \in Clients \ {c} :
        SetFence(c, "hrx_fence_extend", [t \in Clients |-> Later(fence[c][t], fence[from][t])])

\* Signals every timepoint of the fence; the client's own next one here.
hrx_fence_signal(c) ==
    /\ Calling(c, "hrx_fence_signal")
    /\ fence[c] = [t \in Clients |-> IF t = c THEN promised[c] + 1 ELSE 0]
    /\ sem[c].fail = Ok /\ sem[c].value = promised[c]
    /\ promised' = [promised EXCEPT ![c] = @ + 1]
    /\ sem' = [sem EXCEPT ![c].value = promised[c] + 1]
    /\ Return(c)
    /\ UNCHANGED <<op, mem, fence, asked>>

(***************************************************************************)
(* The system.                                                             *)
(***************************************************************************)
Submission(c) ==
    \/ hrx_queue_fill(c) \/ hrx_queue_copy(c)
    \/ hrx_queue_barrier(c) \/ hrx_queue_dispatch(c)
    \/ hrx_queue_host_call(c)

Device(i) == Execute(i) \/ Drop(i) \/ CallBack(i) \/ host_call_trampoline(i)

Timeline(c) ==
    \/ hrx_semaphore_signal(c) \/ hrx_semaphore_query(c) \/ hrx_semaphore_wait(c)
    \/ hrx_fence_wait(c) \/ WaitReturns(c) \/ hrx_fence_create_at(c)
    \/ hrx_fence_insert(c) \/ hrx_fence_extend(c) \/ hrx_fence_signal(c)

Next ==
    \/ \E c \in Clients : Submission(c) \/ Timeline(c)
    \/ \E i \in OpIds : Device(i)

Spec == Init /\ [][Next]_vars

\* A call that has begun goes on, and the device serves what it accepted.
FairSpec ==
    /\ Spec
    /\ \A c \in Clients : WF_vars(at[c] # "idle" /\ (Submission(c) \/ WaitReturns(c)))
    /\ \A i \in OpIds : WF_vars(Device(i))

(***************************************************************************)
(* Properties.                                                             *)
(***************************************************************************)
Stages == {"free", "building", "refused", "pending", "running", "done", "failed", "dropped"}

Timepoints == Clients \X Nat

OpType == [stage : Stages, kind : {"none", "work", "direct", "call"}, wait : SUBSET Timepoints,
           tl : Clients \cup {"none"}, val : Nat, err : IreeStatusCode]

RetType == [code : HrxStatusCode, claims : SUBSET Timepoints, forever : BOOLEAN, lost : BOOLEAN]

Places == {"idle", "create", "record", "execute", "executed", "direct", "malloc", "enqueue",
           "enqueued", "unqueued", "waiting"}

\* Every variable has its type.
TypeOK ==
    /\ op \in [OpIds -> OpType]
    /\ mem \in [OpIds -> 0 .. 2]
    /\ sem \in [Clients -> [value : Nat, fail : IreeStatusCode]]
    /\ promised \in [Clients -> Nat]
    /\ fence \in [Clients -> [Clients -> Nat]]
    /\ at \in [Clients -> Places]
    /\ cur \in [Clients -> 0 .. MaxOps]
    /\ asked \in [Clients -> [claims : SUBSET Timepoints, ns : Word]]
    /\ ret \in [Clients -> RetType]
    /\ DOMAIN plan = Clients

\* One unit per party that owns a reference on the object of operation i.
Owner(holds) == IF holds THEN 1 ELSE 0

\* The call that made operation i and has not let go of its command buffer.
HasBuffer(c, i) ==
    cur[c] = i /\ at[c] \in {"record", "execute", "executed"}

\* A command buffer is released as often as it is referenced: at every instant
\* its count is the call's reference, until the call returns on whatever
\* branch, plus the queue's, while the operation is pending.  So it is there
\* as long as the device may read it, and gone after that.
CommandBufferOwned ==
    \A i \in OpIds : op[i].kind = "work" =>
        mem[i] = Owner(\E c \in Clients : HasBuffer(c, i)) + Owner(op[i].stage = "pending")

\* The call that made operation i and owns its thunk.
HasThunk(c, i) == cur[c] = i /\ at[c] \in {"enqueue", "unqueued"}

\* The thunk of a host call has one owner at a time and is freed once: by the
\* caller if the enqueue failed, by the trampoline if it was called, even when
\* it runs before the enqueue returns.  Only a call dropped for a failed wait
\* keeps it for ever.
ThunkOwned ==
    \A i \in OpIds : op[i].kind = "call" =>
        mem[i] = Owner(\E c \in Clients : HasThunk(c, i))
                 + Owner(op[i].stage \in {"pending", "running", "dropped"})

\* What a success says: a wait, query or fence wait that returned OK, unless
\* the status was lost for want of memory, is about timepoints whose
\* operations, and all earlier ones on their timelines, have run and succeeded.
CompletionSound ==
    \A c \in Clients : ret[c].code = Ok /\ ~ret[c].lost =>
        \A p \in ret[c].claims, i \in OpIds :
            (op[i].tl = p[1] /\ op[i].val <= p[2]
               /\ op[i].stage \notin {"free", "building", "refused"}) => op[i].stage = "done"

\* Some operation failed with what the timeline of p failed with.
FailedOver(p) == \E i \in OpIds : op[i].stage = "failed" /\ op[i].err = sem[p[1]].fail

\* What an error says: one of the timelines a failed wait or query is about has
\* failed, over an operation that did, and the code is that operation's, or
\* INTERNAL where it has no HRX counterpart or the wait was aborted; a timeout is
\* reported only by a call that was given less than for ever, or for an
\* operation that itself timed out.
ErrorsExplained ==
    \A c \in Clients : ret[c].code # Ok /\ ret[c].claims # {} =>
        \/ ret[c].code = DeadlineExceeded /\ ~ret[c].forever
        \/ \E p \in ret[c].claims :
             /\ Failed(p) /\ FailedOver(p)
             /\ ret[c].code \in {sem[p[1]].fail, Internal}

\* A wait without a time limit, for timepoints operations were accepted for,
\* comes back: they are reached, or failed in the end.
ForeverWaitsReturn ==
    \A c \in Clients :
        (at[c] = "waiting" /\ \A p \in asked[c].claims : p[2] <= promised[p[1]])
            ~> (at[c] # "waiting")

\* A wait with a time limit comes back, however long the limit is and whoever was to
\* reach the timepoint and never does.
LimitedWaitsReturn ==
    \A c \in Clients :
        (at[c] = "waiting" /\ asked[c].ns # WordMax) ~> (at[c] # "waiting")

\* An accepted host call is called back and its thunk freed, or dropped.
HostCallsSettle ==
    \A i \in OpIds :
        (op[i].kind = "call" /\ op[i].stage = "pending")
            ~> (op[i].stage = "dropped" \/ mem[i] = 0)

=============================================================================
