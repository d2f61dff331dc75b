--------------------------- MODULE HrxStreamProofs ---------------------------
(***************************************************************************)
(* Proofs about HrxStream, for every set of streams and every bound: its   *)
(* timelines keep their promises, no command is lost, none is submitted    *)
(* twice, and the streams implement InOrderStreams.                        *)
(***************************************************************************)
EXTENDS HrxStream, WellFoundedInduction, TLAPS

(***************************************************************************)
(* Types.                                                                  *)
(***************************************************************************)

\* begin_cb yields a command buffer, and appending commands to it another one.
LEMMA CommandBufferTypes ==
    ASSUME TypeOK, NEW s \in Streams
    PROVE  /\ NoCb \in CommandBuffer
           /\ begin_cb(s) \in CommandBuffer
           /\ \A n \in Nat : /\ Appended(s, <<n>>) \in CommandBuffer
                             /\ Appended(s, <<n, Barrier>>) \in CommandBuffer
<1>1. NoCb \in CommandBuffer
  BY DEF NoCb, CommandBuffer
<1>2. begin_cb(s) \in CommandBuffer
  <2>1. [state |-> "recording", cmds |-> <<>>] \in CommandBuffer
    BY DEF CommandBuffer
  <2> QED BY <2>1, Zenon DEF begin_cb, TypeOK
<1>3. ASSUME NEW c \in Seq(Nat)
      PROVE  Appended(s, c) \in CommandBuffer
  <2>1. begin_cb(s).cmds \o c \in Seq(Nat)
    BY <1>2 DEF CommandBuffer
  <2> QED BY <1>2, <2>1, Zenon DEF Appended, CommandBuffer
<1>4. \A n \in Nat : <<n>> \in Seq(Nat) /\ <<n, Barrier>> \in Seq(Nat)
  BY DEF Barrier
<1> QED BY <1>1, <1>2, <1>3, <1>4, Zenon

\* What a flush hands to the queue is a set of submissions.
LEMMA FlushTypes ==
    ASSUME TypeOK, NEW s \in Streams
    PROVE  /\ FlushedQueue(s) \subseteq Submission
           /\ FlushedTimepoint(s) \in Nat
           /\ FlushedCount(s) \in Nat
           /\ \A t \in Streams, v \in Nat :
                NewSubmission(FlushedCount(s) + 1, s, t, v, FlushedTimepoint(s) + 1, <<>>)
                    \in Submission
<1>1. FlushSubmission(s) \in Submission
  BY DEF FlushSubmission, NewSubmission, Submission, TypeOK, CommandBuffer
<1>2. FlushedTimepoint(s) \in Nat /\ FlushedCount(s) \in Nat
  BY DEF FlushedTimepoint, FlushedCount, TypeOK
<1>3. \A t \in Streams, v \in Nat :
        NewSubmission(FlushedCount(s) + 1, s, t, v, FlushedTimepoint(s) + 1, <<>>) \in Submission
  <2>1. <<>> \in Seq(Nat)
    OBVIOUS
  <2> QED BY <1>2, <2>1 DEF NewSubmission, Submission
<1> QED BY <1>1, <1>2, <1>3, Zenon DEF FlushedQueue, TypeOK

\* The absence of a command buffer is a command buffer value.
LEMMA NoCbType == NoCb \in CommandBuffer
BY DEF NoCb, CommandBuffer

\* The types hold before any stream is created.
LEMMA InitType == Init => TypeOK
BY StreamBounds, NoCbType DEF Init, TypeOK, Calls

\* A flush, successful or not, keeps the types of the variables it changes.
LEMMA FlushStepTypes ==
    ASSUME TypeOK, NEW s \in Streams
    PROVE  /\ FlushFails(s) => /\ pending_cb' \in [Streams -> CommandBuffer]
                               /\ faults' \in 0 .. MaxFaults
                               /\ UNCHANGED <<timepoint, has_pending_work, deviceVars, history>>
           /\ PendingTaken(s) => /\ pending_cb' \in [Streams -> CommandBuffer]
                                 /\ has_pending_work' \in [Streams -> BOOLEAN]
                                 /\ UNCHANGED <<payload, executed, recorded, accepted, reserved>>
           /\ flush_inner(s) => /\ pending_cb' \in [Streams -> CommandBuffer]
                                /\ has_pending_work' \in [Streams -> BOOLEAN]
                                /\ queue' \subseteq Submission
                                /\ submitted' \in Nat
                                /\ timepoint' \in [Streams -> Nat]
                                /\ UNCHANGED <<payload, executed, history>>
<1> USE StreamBounds
<1>1. ASSUME FlushFails(s)
      PROVE  /\ pending_cb' \in [Streams -> CommandBuffer]
             /\ faults' \in 0 .. MaxFaults
             /\ UNCHANGED <<timepoint, has_pending_work, deviceVars, history>>
  <2>1. faults' \in 0 .. MaxFaults
    BY <1>1 DEF FlushFails, CbCallFails, Fault, TypeOK
  <2>2. pending_cb' \in [Streams -> CommandBuffer]
    <3>1. pending_cb[s] \in CommandBuffer
      BY Zenon DEF TypeOK
    <3>2. [pending_cb[s] EXCEPT !.state = "ended"] \in CommandBuffer
      BY <3>1, Zenon DEF CommandBuffer
    <3>3. CASE UNCHANGED pending_cb
      BY <3>3, Zenon DEF TypeOK
    <3>4. CASE pending_cb' = [pending_cb EXCEPT ![s] = [pending_cb[s] EXCEPT !.state = "ended"]]
      BY <3>2, <3>4, Zenon DEF TypeOK
    <3> QED BY <1>1, <3>3, <3>4, Zenon DEF FlushFails
  <2> QED BY <1>1, <2>1, <2>2, Zenon DEF FlushFails
<1>2. ASSUME PendingTaken(s)
      PROVE  /\ pending_cb' \in [Streams -> CommandBuffer]
             /\ has_pending_work' \in [Streams -> BOOLEAN]
             /\ UNCHANGED <<payload, executed, recorded, accepted, reserved>>
  BY <1>2, NoCbType, Zenon DEF PendingTaken, TypeOK
<1>3. ASSUME flush_inner(s)
      PROVE  /\ queue' \subseteq Submission
             /\ submitted' \in Nat
             /\ timepoint' \in [Streams -> Nat]
             /\ PendingTaken(s) /\ UNCHANGED unordered
  BY <1>3, FlushTypes, Zenon DEF flush_inner, TypeOK
<1> QED BY <1>1, <1>2, <1>3, Zenon DEF history

\* A recording call keeps the types.
LEMMA RecordTypes ==
    ASSUME TypeOK, NEW s \in Streams, CanRecord(s),
           \/ BeginFails(s) \/ NullBinding(s)
           \/ CommandFails(s) \/ OrderingBarrierFails(s) \/ Recorded(s)
    PROVE  TypeOK'
<1> USE StreamBounds
<1>1. UNCHANGED <<timepoint, refs, call, deviceVars, reserved, unordered>>
  BY Zenon DEF CanRecord
<1>2. /\ begin_cb(s) \in CommandBuffer
      /\ Appended(s, <<recorded[s] + 1>>) \in CommandBuffer
      /\ Appended(s, <<recorded[s] + 1, Barrier>>) \in CommandBuffer
      /\ recorded[s] + 1 \in Nat
  BY CommandBufferTypes DEF TypeOK
<1>3. CASE BeginFails(s)
  BY <1>1, <1>3 DEF BeginFails, Fault, TypeOK, deviceVars
<1>4. CASE NullBinding(s)
  BY <1>1, <1>2, <1>4, Zenon DEF NullBinding, TypeOK, deviceVars
<1>5. CASE CommandFails(s)
  BY <1>1, <1>2, <1>5 DEF CommandFails, CbCallFails, Fault, TypeOK, deviceVars
<1>6. CASE OrderingBarrierFails(s)
  BY <1>1, <1>2, <1>6 DEF OrderingBarrierFails, CbCallFails, Fault, TypeOK, deviceVars
<1>7. CASE Recorded(s)
  BY <1>1, <1>2, <1>7 DEF Recorded, TypeOK, deviceVars
<1> QED BY <1>3, <1>4, <1>5, <1>6, <1>7, Zenon

\* Every step keeps the types.
LEMMA StepType == TypeOK /\ [Next]_vars => TypeOK'
<1> SUFFICES ASSUME TypeOK, [Next]_vars PROVE TypeOK'
  BY Zenon
<1> USE StreamBounds
<1>1. CASE UNCHANGED vars
  BY <1>1, Zenon DEF TypeOK, vars, hostVars, deviceVars, history
<1>2. ASSUME NEW s \in Streams, HostCall(s) PROVE TypeOK'
  <2>1. CASE hrx_stream_create(s)
    BY <2>1, Zenon DEF hrx_stream_create, TypeOK, Calls, deviceVars, history
  <2>2. CASE hrx_stream_retain(s)
    BY <2>2 DEF hrx_stream_retain, TypeOK, Calls, deviceVars, history
  <2>3. CASE hrx_stream_release(s)
    <3>1. refs[s] \in Nat /\ (refs[s] > 1 \/ refs[s] = 1) => refs' \in [Streams -> Nat]
      BY <2>3 DEF hrx_stream_release, TypeOK
    <3>2. refs' \in [Streams -> Nat]
      BY <3>1, <2>3, Zenon DEF hrx_stream_release, TypeOK
    <3>3. CASE UNCHANGED <<timepoint, pending_cb, has_pending_work, call, deviceVars,
                           faults, history>>
      BY <3>2, <3>3, Zenon DEF TypeOK, deviceVars, history
    <3>4. CASE call' = [call EXCEPT ![s] = "drop"] /\ FlushFails(s)
      BY <3>2, <3>4, FlushStepTypes, Zenon DEF TypeOK, Calls, deviceVars, history
    <3>5. CASE call' = [call EXCEPT ![s] = "drop"] /\ flush_inner(s) /\ UNCHANGED faults
      BY <3>2, <3>5, FlushStepTypes, Zenon DEF TypeOK, Calls, history
    <3> QED BY <2>3, <3>3, <3>4, <3>5, Zenon DEF hrx_stream_release
  <2>4. CASE \/ hrx_stream_fill_buffer(s) \/ hrx_stream_copy_buffer(s)
             \/ hrx_stream_update_buffer(s) \/ hrx_stream_dispatch(s)
    BY <2>4, RecordTypes, Zenon DEF hrx_stream_fill_buffer, hrx_stream_copy_buffer,
                             hrx_stream_update_buffer, hrx_stream_dispatch
  <2>5. CASE hrx_stream_execution_barrier(s)
    <3>1. CASE BeginFails(s) \/ CommandFails(s)
      BY <2>5, <3>1, RecordTypes, Zenon DEF hrx_stream_execution_barrier
    <3>2. CASE /\ pending_cb' = [pending_cb EXCEPT ![s] = Appended(s, <<Barrier>>)]
               /\ has_pending_work' = [has_pending_work EXCEPT ![s] = TRUE]
               /\ recorded' = [recorded EXCEPT ![s] = @ + 1]
               /\ UNCHANGED <<accepted, faults>>
      <4>1. Appended(s, <<Barrier>>) \in CommandBuffer
        BY CommandBufferTypes, Zenon DEF Barrier
      <4> QED BY <2>5, <3>2, <4>1
              DEF hrx_stream_execution_barrier, CanRecord, TypeOK, deviceVars
    <3> QED BY <2>5, <3>1, <3>2, Zenon DEF hrx_stream_execution_barrier
  <2>6. CASE hrx_stream_flush(s)
    <3>1. UNCHANGED <<refs, call>> /\ (FlushFails(s) \/ (flush_inner(s) /\ UNCHANGED faults))
      BY <2>6, Zenon DEF hrx_stream_flush
    <3> QED BY <3>1, FlushStepTypes, Zenon DEF TypeOK, deviceVars, history
  <2>7. CASE hrx_stream_wait(s)
    BY <2>7, Zenon DEF hrx_stream_wait, TypeOK, Calls, deviceVars, history
  <2>8. CASE hrx_stream_synchronize(s)
    <3>1. UNCHANGED refs /\ call' \in [Streams -> Calls]
      BY <2>8, Zenon DEF hrx_stream_synchronize, TypeOK, Calls
    <3>2. FlushFails(s) \/ (flush_inner(s) /\ UNCHANGED faults)
      BY <2>8, Zenon DEF hrx_stream_synchronize
    <3> QED BY <3>1, <3>2, FlushStepTypes, Zenon DEF TypeOK, deviceVars, history
  <2>9. CASE hrx_stream_wait_on(s)
    <3>1. CASE FlushFails(s) /\ UNCHANGED <<call, refs>>
      BY <3>1, FlushStepTypes, Zenon DEF TypeOK, deviceVars, history
    <3>2. CASE FlushThenRefused(s) /\ UNCHANGED refs
      BY <3>2, FlushStepTypes DEF FlushThenRefused, Fault, TypeOK, history
    <3>3. ASSUME NEW t \in Streams, NEW v \in hrx_stream_get_timeline_position(t),
                 FlushThenQueue(s, t, v),
                 timepoint' = [timepoint EXCEPT ![s] = FlushedTimepoint(s) + 1],
                 unordered' = [unordered EXCEPT ![s] = @ \/ OvertakesOwnWork(s, t, v)],
                 UNCHANGED <<call, refs>>
          PROVE  TypeOK'
      <4>1. v \in Nat
        BY DEF hrx_stream_get_timeline_position, TypeOK
      <4>2. unordered' \in [Streams -> BOOLEAN]
        BY <3>3, Zenon DEF TypeOK, OvertakesOwnWork
      <4>3. FlushedTimepoint(s) \in Nat /\ FlushedCount(s) \in Nat
        BY FlushTypes, Zenon
      <4>4. NewSubmission(FlushedCount(s) + 1, s, t, v, FlushedTimepoint(s) + 1, <<>>)
                \in Submission
        BY <4>1, FlushTypes, Zenon
      <4>5. queue' \subseteq Submission
        BY <3>3, <4>4, FlushTypes, Zenon DEF FlushThenQueue
      <4>6. submitted' \in Nat /\ timepoint' \in [Streams -> Nat]
        BY <3>3, <4>3 DEF FlushThenQueue, TypeOK
      <4> QED BY <3>3, <4>2, <4>5, <4>6, FlushStepTypes, Zenon DEF FlushThenQueue, TypeOK
    <3> QED BY <2>9, <3>1, <3>2, <3>3, Zenon DEF hrx_stream_wait_on
  <2>10. CASE hrx_stream_advance_timeline(s)
    BY <2>10 DEF hrx_stream_advance_timeline, TypeOK, deviceVars
  <2>11. CASE hrx_semaphore_signal(s)
    BY <2>11 DEF hrx_semaphore_signal, TypeOK, hostVars
  <2>12. CASE hrx_buffer_allocate(s)
    <3>1. CASE FlushFails(s) /\ UNCHANGED <<call, refs>>
      BY <3>1, FlushStepTypes, Zenon DEF TypeOK, deviceVars, history
    <3>2. CASE FlushThenRefused(s) /\ UNCHANGED refs
      BY <3>2, FlushStepTypes DEF FlushThenRefused, Fault, TypeOK, history
    <3>3. CASE /\ FlushThenQueue(s, s, FlushedTimepoint(s))
               /\ timepoint' = [timepoint EXCEPT ![s] = FlushedTimepoint(s)]
               /\ call' = [call EXCEPT ![s] = "alloc"]
               /\ UNCHANGED <<unordered, refs>>
      <4>1. FlushedTimepoint(s) \in Nat /\ FlushedCount(s) \in Nat
        BY FlushTypes, Zenon
      <4>2. NewSubmission(FlushedCount(s) + 1, s, s, FlushedTimepoint(s),
                          FlushedTimepoint(s) + 1, <<>>) \in Submission
        BY <4>1, FlushTypes, Zenon
      <4>3. queue' \subseteq Submission
        BY <3>3, <4>2, FlushTypes, Zenon DEF FlushThenQueue
      <4>4. submitted' \in Nat /\ timepoint' \in [Streams -> Nat]
        BY <3>3, <4>1 DEF FlushThenQueue, TypeOK
      <4> QED BY <3>3, <4>3, <4>4, FlushStepTypes, Zenon DEF FlushThenQueue, TypeOK, Calls
    <3> QED BY <2>12, <3>1, <3>2, <3>3, Zenon DEF hrx_buffer_allocate
  <2> QED BY Zenon, <1>2, <2>1, <2>2, <2>3, <2>4, <2>5, <2>6, <2>7, <2>8, <2>9, <2>10, <2>11, <2>12
          DEF HostCall
<1>3. ASSUME NEW s \in Streams, HostReturn(s) PROVE TypeOK'
  <2>1. CASE WaitReturns(s)
    BY <2>1 DEF WaitReturns, Fault, TypeOK, Calls, deviceVars, history
  <2>2. CASE AllocateReturns(s)
    <3>1. call' \in [Streams -> Calls] /\ faults' \in 0 .. MaxFaults
      BY <2>2 DEF AllocateReturns, Fault, TypeOK, Calls
    <3>2. timepoint' \in [Streams -> Nat]
      BY <2>2 DEF AllocateReturns, TypeOK
    <3>3. unordered' = unordered \/ unordered' = [unordered EXCEPT ![s] = TRUE]
      BY <2>2, Zenon DEF AllocateReturns
    <3>4. unordered' \in [Streams -> BOOLEAN]
      BY <3>3, Zenon DEF TypeOK
    <3> QED BY <2>2, <3>1, <3>2, <3>4, Zenon DEF AllocateReturns, TypeOK, deviceVars
  <2>3. CASE DropReturns(s)
    <3>1. call' \in [Streams -> Calls] /\ faults' \in 0 .. MaxFaults
      BY <2>3 DEF DropReturns, Fault, TypeOK, Calls
    <3>2. pending_cb' \in [Streams -> CommandBuffer]
      BY <2>3, NoCbType, Zenon DEF DropReturns, TypeOK
    <3> QED BY <2>3, <3>1, <3>2, Zenon DEF DropReturns, TypeOK, deviceVars, history
  <2> QED BY <1>3, <2>1, <2>2, <2>3, Zenon DEF HostReturn
<1>4. ASSUME NEW s \in Streams, Device(s) PROVE TypeOK'
  <2>1. CASE DeviceExecute(s)
    <3>1. executed' \in [Streams -> SUBSET Nat]
      <4>1. PICK q \in queue : \E i \in DOMAIN q.cmds :
                executed' = [executed EXCEPT ![s] = @ \cup {q.cmds[i]}]
        BY <2>1, Zenon DEF DeviceExecute
      <4>2. PICK i \in DOMAIN q.cmds :
                executed' = [executed EXCEPT ![s] = @ \cup {q.cmds[i]}]
        BY <4>1, Zenon
      <4>3. q.cmds \in Seq(Nat)
        BY Zenon DEF TypeOK, Submission
      <4>4. q.cmds[i] \in Nat
        BY <4>3
      <4> QED BY <4>2, <4>4, Zenon DEF TypeOK
    <3> QED BY <2>1, <3>1, Zenon DEF DeviceExecute, TypeOK, hostVars, history
  <2>2. CASE DeviceRetire(s)
    BY <2>2, SMTT(30) DEF DeviceRetire, TypeOK, hostVars, history, Submission
  <2> QED BY <1>4, <2>1, <2>2, Zenon DEF Device
<1> QED BY <1>1, <1>2, <1>3, <1>4, Zenon DEF Next

\* Every variable of a stream keeps its type, whatever the HAL refuses.
THEOREM TypeCorrect == Spec => []TypeOK
BY InitType, StepType, PTL DEF Spec

(***************************************************************************)
(* The timeline.  Its invariants are stated on explicit values so that a   *)
(* call that submits twice (a flush, then a barrier or an alloca) is       *)
(* handled by applying the same lemma twice.                               *)
(***************************************************************************)

\* The highest value anything of stream s may signal: hrx_buffer_allocate has
\* queued a signal one past the timepoint while it waits for it.
Horizon(s) == IF call[s] = "alloc" THEN timepoint[s] + 1 ELSE timepoint[s]

\* On an ordered timeline with value P and horizon h, every submission in Q signals
\* a value of its own above P that no client has reserved (R), and it can only
\* become ready when the value just below its own has been reached.
OrderedAt(s, Q, P, h, R) ==
    /\ P <= h
    /\ \A q \in Q : q.s = s =>
          /\ P < q.signal
          /\ q.signal <= h
          /\ q.signal \notin R
          /\ (q.sem = s /\ q.value >= q.signal - 1) \/ P >= q.signal - 1
    /\ \A p, q \in Q : p.s = s /\ q.s = s /\ p.signal = q.signal => p = q

TimelineOrdered ==
    \A s \in Streams :
        /\ \A v \in reserved[s] : v <= timepoint[s]
        /\ ~unordered[s] => OrderedAt(s, queue, payload[s], Horizon(s), reserved[s])

\* Every wait in Q is satisfied, covered by a reserved value, or covered by the
\* signal of an earlier submission.
WaitsCovered(Q, n, PL, R) ==
    \A q \in Q :
        /\ q.id <= n
        /\ \/ q.value <= PL[q.sem]
           \/ \E v \in R[q.sem] : v >= q.value
           \/ \E p \in Q : p.id < q.id /\ p.s = q.sem /\ p.signal >= q.value

\* Every timepoint in TP is reached, reserved, or going to be signalled.
Promised(Q, TP, PL, R) ==
    \A s \in Streams :
        \/ TP[s] <= PL[s]
        \/ TP[s] \in R[s]
        \/ \E q \in Q : q.s = s /\ q.signal >= TP[s]

TimelinePromised ==
    /\ WaitsCovered(queue, submitted, payload, reserved)
    /\ Promised(queue, timepoint, payload, reserved)

\* What flush_inner does to the queue: nothing, or one submission that waits for
\* the timepoint and signals the next value.
LEMMA FlushCases ==
    ASSUME TypeOK, NEW s \in Streams
    PROVE  \/ /\ FlushedQueue(s) = queue
              /\ FlushedTimepoint(s) = timepoint[s]
              /\ FlushedCount(s) = submitted
           \/ \E a \in Submission :
              /\ a.id = submitted + 1 /\ a.s = s /\ a.sem = s
              /\ a.value = timepoint[s] /\ a.signal = timepoint[s] + 1
              /\ FlushedQueue(s) = queue \cup {a}
              /\ FlushedTimepoint(s) = timepoint[s] + 1
              /\ FlushedCount(s) = submitted + 1
<1>1. CASE ~MustFlush(s)
  BY <1>1, Zenon DEF FlushedQueue, FlushedTimepoint, FlushedCount
<1>2. CASE MustFlush(s)
  <2>1. FlushSubmission(s) \in Submission
    BY DEF FlushSubmission, NewSubmission, Submission, TypeOK, CommandBuffer
  <2>2. /\ FlushSubmission(s).id = submitted + 1 /\ FlushSubmission(s).s = s
        /\ FlushSubmission(s).sem = s /\ FlushSubmission(s).value = timepoint[s]
        /\ FlushSubmission(s).signal = timepoint[s] + 1
    BY Zenon DEF FlushSubmission, NewSubmission
  <2> QED BY <1>2, <2>1, <2>2, Zenon DEF FlushedQueue, FlushedTimepoint, FlushedCount
<1> QED BY <1>1, <1>2, Zenon

\* A submission that signals the value after the horizon keeps the timeline ordered
\* if it waits for the horizon or the horizon has been reached.
LEMMA OrderedAdd ==
    ASSUME NEW s \in Streams, NEW Q \in SUBSET Submission, NEW P \in Nat, NEW h \in Nat,
           NEW R \in SUBSET Nat, \A v \in R : v <= h,
           OrderedAt(s, Q, P, h, R),
           NEW a \in Submission, a.s = s, a.signal = h + 1,
           (a.sem = s /\ a.value >= h) \/ P >= h
    PROVE  OrderedAt(s, Q \cup {a}, P, h + 1, R)
BY DEF OrderedAt, Submission

\* A submission of another stream leaves this stream's timeline ordered.
LEMMA OrderedOther ==
    ASSUME NEW s \in Streams, NEW Q \in SUBSET Submission, NEW P \in Nat, NEW h \in Nat,
           NEW R \in SUBSET Nat, OrderedAt(s, Q, P, h, R),
           NEW a \in Submission, a.s # s
    PROVE  OrderedAt(s, Q \cup {a}, P, h, R)
BY Zenon DEF OrderedAt, Submission

\* Retiring a ready submission moves the timeline to exactly the value it signals.
LEMMA OrderedRetire ==
    ASSUME NEW s \in Streams, NEW Q \in SUBSET Submission, NEW P \in Nat, NEW h \in Nat,
           NEW R \in SUBSET Nat, OrderedAt(s, Q, P, h, R),
           NEW a \in Q, a.s = s, a.sem = s => P >= a.value
    PROVE  /\ OrderedAt(s, Q \ {a}, a.signal, h, R)
           /\ a.signal > P
BY DEF OrderedAt, Submission

\* Removing any submission leaves a timeline that has not moved ordered.
LEMMA OrderedRetireOther ==
    ASSUME NEW s \in Streams, NEW Q \in SUBSET Submission, NEW P \in Nat, NEW h \in Nat,
           NEW R \in SUBSET Nat, OrderedAt(s, Q, P, h, R), NEW a \in Q
    PROVE  OrderedAt(s, Q \ {a}, P, h, R)
BY Zenon DEF OrderedAt, Submission

\* A new submission that waits for no more than a promised timepoint has its wait
\* covered, and the promises already made stay covered.
LEMMA CoveredAdd ==
    ASSUME NEW Q \in SUBSET Submission, NEW n \in Nat, NEW TP \in [Streams -> Nat],
           NEW PL \in [Streams -> Nat], NEW R \in [Streams -> SUBSET Nat],
           WaitsCovered(Q, n, PL, R), Promised(Q, TP, PL, R),
           NEW a \in Submission, a.id = n + 1, a.value <= TP[a.sem]
    PROVE  /\ WaitsCovered(Q \cup {a}, n + 1, PL, R)
           /\ Promised(Q \cup {a}, TP, PL, R)
<1>1. Promised(Q \cup {a}, TP, PL, R)
  BY Zenon DEF Promised
<1>2. \/ a.value <= PL[a.sem]
      \/ \E v \in R[a.sem] : v >= a.value
      \/ \E p \in Q : p.id < a.id /\ p.s = a.sem /\ p.signal >= a.value
  <2>1. a.sem \in Streams /\ a.value \in Nat /\ TP[a.sem] \in Nat /\ PL[a.sem] \in Nat
    BY Zenon DEF Submission
  <2>2. CASE TP[a.sem] <= PL[a.sem]
    BY <2>1, <2>2
  <2>3. CASE TP[a.sem] \in R[a.sem]
    BY <2>1, <2>3, Zenon
  <2>4. CASE \E q \in Q : q.s = a.sem /\ q.signal >= TP[a.sem]
    <3>1. PICK q \in Q : q.s = a.sem /\ q.signal >= TP[a.sem]
      BY <2>4, Zenon
    <3>2. q.id \in Nat /\ q.signal \in Nat /\ q.id <= n
      BY Zenon DEF WaitsCovered, Submission
    <3>3. q.id < a.id /\ q.signal >= a.value
      BY <2>1, <3>1, <3>2
    <3> QED BY <3>1, <3>3, Zenon
  <2> QED BY <2>1, <2>2, <2>3, <2>4, Zenon DEF Promised
<1>3. WaitsCovered(Q \cup {a}, n + 1, PL, R)
  <2>1. ASSUME NEW q \in Q
        PROVE  /\ q.id <= n + 1
               /\ \/ q.value <= PL[q.sem]
                  \/ \E v \in R[q.sem] : v >= q.value
                  \/ \E p \in Q \cup {a} : p.id < q.id /\ p.s = q.sem /\ p.signal >= q.value
    <3>1. q.id <= n /\ q.id \in Nat /\ n \in Nat
      BY Zenon DEF WaitsCovered, Submission
    <3>2. q.id <= n + 1
      BY <3>1
    <3> QED BY <3>2, Zenon DEF WaitsCovered
  <2>2. a.id <= n + 1
    OBVIOUS
  <2> QED BY <1>2, <2>1, <2>2, Zenon DEF WaitsCovered
<1> QED BY <1>1, <1>3, Zenon

(***************************************************************************)
(* What a step may do to the timelines.                                    *)
(***************************************************************************)
SameAllocs == \A r \in Streams : call'[r] = "alloc" <=> call[r] = "alloc"

Quiet ==
    /\ UNCHANGED <<timepoint, payload, queue, submitted, reserved, unordered>>
    /\ SameAllocs

FlushStep(s) ==
    /\ call[s] = "idle"
    /\ queue' = FlushedQueue(s)
    /\ submitted' = FlushedCount(s)
    /\ timepoint' = [timepoint EXCEPT ![s] = FlushedTimepoint(s)]
    /\ UNCHANGED <<payload, reserved, unordered>>
    /\ SameAllocs

QueueStep(s, t, v) ==
    /\ call[s] = "idle"
    /\ queue' = FlushedQueue(s) \cup
                {NewSubmission(FlushedCount(s) + 1, s, t, v, FlushedTimepoint(s) + 1, <<>>)}
    /\ submitted' = FlushedCount(s) + 1
    /\ UNCHANGED <<payload, reserved>>

BarrierStep(s, t, v) ==
    /\ QueueStep(s, t, v)
    /\ timepoint' = [timepoint EXCEPT ![s] = FlushedTimepoint(s) + 1]
    /\ unordered' = [unordered EXCEPT ![s] = @ \/ OvertakesOwnWork(s, t, v)]
    /\ SameAllocs

AllocaStep(s) ==
    /\ QueueStep(s, s, FlushedTimepoint(s))
    /\ timepoint' = [timepoint EXCEPT ![s] = FlushedTimepoint(s)]
    /\ call' = [call EXCEPT ![s] = "alloc"]
    /\ UNCHANGED unordered

\* Every step is quiet, or one of the steps above, or one of the four actions that
\* move a timeline by themselves.
LEMMA StepKinds ==
    ASSUME TypeOK, [Next]_vars
    PROVE  \/ Quiet
           \/ \E s \in Streams :
                \/ FlushStep(s)
                \/ \E t \in Streams : \E v \in 0 .. timepoint[t] : BarrierStep(s, t, v)
                \/ AllocaStep(s)
                \/ hrx_stream_advance_timeline(s)
                \/ hrx_semaphore_signal(s)
                \/ AllocateReturns(s)
                \/ DeviceRetire(s)
<1>1. CASE UNCHANGED vars
  BY <1>1, Zenon DEF Quiet, SameAllocs, vars, hostVars, deviceVars, history
<1>2. ASSUME NEW s \in Streams, HostCall(s)
      PROVE  \/ Quiet \/ FlushStep(s)
             \/ \E t \in Streams : \E v \in 0 .. timepoint[t] : BarrierStep(s, t, v)
             \/ AllocaStep(s) \/ hrx_stream_advance_timeline(s) \/ hrx_semaphore_signal(s)
  <2>1. CASE hrx_stream_create(s) \/ hrx_stream_retain(s) \/ hrx_stream_wait(s)
    BY <2>1, Zenon DEF hrx_stream_create, hrx_stream_retain, hrx_stream_wait, Idle,
                Quiet, SameAllocs, TypeOK, deviceVars, history
  <2>2. ASSUME CanRecord(s) PROVE Quiet
    BY <2>2, Zenon DEF CanRecord, Quiet, SameAllocs, deviceVars
  <2>3. CASE \/ hrx_stream_fill_buffer(s) \/ hrx_stream_copy_buffer(s)
             \/ hrx_stream_update_buffer(s) \/ hrx_stream_dispatch(s)
             \/ hrx_stream_execution_barrier(s)
    BY <2>2, <2>3, Zenon DEF hrx_stream_fill_buffer, hrx_stream_copy_buffer, hrx_stream_update_buffer,
                      hrx_stream_dispatch, hrx_stream_execution_barrier
  <2>4. ASSUME FlushFails(s), SameAllocs PROVE Quiet
    BY <2>4, Zenon DEF FlushFails, Quiet, deviceVars, history
  <2>5. ASSUME flush_inner(s), Idle(s), SameAllocs PROVE FlushStep(s)
    BY <2>5, Zenon DEF flush_inner, PendingTaken, Idle, FlushStep
  <2>6. CASE hrx_stream_release(s)
    <3>1. CASE UNCHANGED <<timepoint, call, deviceVars, history>>
      BY <3>1, Zenon DEF Quiet, SameAllocs, deviceVars, history
    <3>2. CASE call' = [call EXCEPT ![s] = "drop"]
      <4>1. SameAllocs
        BY <2>6, <3>2, Zenon DEF SameAllocs, hrx_stream_release, Idle, TypeOK
      <4> QED BY <2>4, <2>5, <2>6, <3>2, <4>1, Zenon DEF hrx_stream_release, Quiet, deviceVars, history
    <3> QED BY <2>6, <3>1, <3>2, Zenon DEF hrx_stream_release
  <2>7. CASE hrx_stream_flush(s)
    <3>1. SameAllocs
      BY <2>7, Zenon DEF hrx_stream_flush, SameAllocs
    <3> QED BY <2>4, <2>5, <2>7, <3>1, Zenon DEF hrx_stream_flush
  <2>8. CASE hrx_stream_synchronize(s)
    <3>1. SameAllocs
      BY <2>8, Zenon DEF hrx_stream_synchronize, SameAllocs, Idle, TypeOK
    <3> QED BY <2>4, <2>5, <2>8, <3>1, Zenon DEF hrx_stream_synchronize
  <2>9. CASE hrx_stream_wait_on(s)
    <3>1. Idle(s)
      BY <2>9, Zenon DEF hrx_stream_wait_on
    <3>2. CASE UNCHANGED call
      <4>1. SameAllocs
        BY <3>2, Zenon DEF SameAllocs
      <4>2. CASE FlushFails(s) \/ FlushThenRefused(s)
        BY <2>4, <2>5, <3>1, <4>1, <4>2, Zenon DEF FlushThenRefused
      <4>3. ASSUME NEW t \in Streams, NEW v \in 0 .. timepoint[t],
                   FlushThenQueue(s, t, v),
                   timepoint' = [timepoint EXCEPT ![s] = FlushedTimepoint(s) + 1],
                   unordered' = [unordered EXCEPT ![s] = @ \/ OvertakesOwnWork(s, t, v)]
            PROVE  BarrierStep(s, t, v)
        BY <3>1, <4>1, <4>3, Zenon DEF FlushThenQueue, PendingTaken, BarrierStep, QueueStep, Idle
      <4> QED BY <2>9, <4>2, <4>3, Zenon DEF hrx_stream_wait_on, hrx_stream_get_timeline_position
    <3> QED BY <2>9, <3>2, Zenon DEF hrx_stream_wait_on, FlushThenRefused
  <2>10. CASE hrx_buffer_allocate(s)
    <3>1. Idle(s)
      BY <2>10, Zenon DEF hrx_buffer_allocate
    <3>2. CASE UNCHANGED call /\ (FlushFails(s) \/ FlushThenRefused(s))
      <4>1. SameAllocs
        BY <3>2, Zenon DEF SameAllocs
      <4> QED BY <2>4, <2>5, <3>1, <3>2, <4>1, Zenon DEF FlushThenRefused
    <3>3. CASE /\ FlushThenQueue(s, s, FlushedTimepoint(s))
               /\ timepoint' = [timepoint EXCEPT ![s] = FlushedTimepoint(s)]
               /\ call' = [call EXCEPT ![s] = "alloc"]
               /\ UNCHANGED unordered
      BY <3>1, <3>3, Zenon DEF FlushThenQueue, PendingTaken, AllocaStep, QueueStep, Idle
    <3> QED BY <2>10, <3>2, <3>3, Zenon DEF hrx_buffer_allocate, FlushThenRefused
  <2> QED BY <1>2, <2>1, <2>3, <2>6, <2>7, <2>8, <2>9, <2>10, Zenon DEF HostCall
<1>3. ASSUME NEW s \in Streams, HostReturn(s) PROVE Quiet \/ AllocateReturns(s)
  BY <1>3 DEF HostReturn, WaitReturns, DropReturns, Quiet, SameAllocs, TypeOK, deviceVars, history
<1>4. ASSUME NEW s \in Streams, Device(s) PROVE Quiet \/ DeviceRetire(s)
  BY <1>4, Zenon DEF Device, DeviceExecute, Quiet, SameAllocs, hostVars, history
<1> QED BY <1>1, <1>2, <1>3, <1>4, Zenon DEF Next

(***************************************************************************)
(* The timeline of a stream that was not let free is ordered.              *)
(***************************************************************************)

\* A flush of stream s takes an ordered timeline with horizon timepoint[s] to one
\* with horizon FlushedTimepoint(s), and leaves the other streams ordered.
LEMMA FlushOrdered ==
    ASSUME TypeOK, NEW s \in Streams, call[s] # "alloc",
           \A v \in reserved[s] : v <= timepoint[s],
           NEW r \in Streams, NEW h \in Nat, r = s => h = timepoint[s],
           OrderedAt(r, queue, payload[r], h, reserved[r])
    PROVE  OrderedAt(r, FlushedQueue(s), payload[r],
                     IF r = s THEN FlushedTimepoint(s) ELSE h, reserved[r])
<1>1. CASE FlushedQueue(s) = queue /\ FlushedTimepoint(s) = timepoint[s]
  BY <1>1, Zenon
<1>2. ASSUME NEW a \in Submission, a.s = s, a.sem = s, a.value = timepoint[s],
             a.signal = timepoint[s] + 1, FlushedQueue(s) = queue \cup {a},
             FlushedTimepoint(s) = timepoint[s] + 1
      PROVE  OrderedAt(r, FlushedQueue(s), payload[r],
                       IF r = s THEN FlushedTimepoint(s) ELSE h, reserved[r])
  <2>1. /\ payload[r] \in Nat /\ timepoint[s] \in Nat /\ queue \in SUBSET Submission
        /\ reserved[r] \in SUBSET Nat
    BY Zenon DEF TypeOK
  <2>2. CASE r = s
    <3>1. /\ payload[s] \in Nat /\ reserved[s] \in SUBSET Nat
          /\ OrderedAt(s, queue, payload[s], timepoint[s], reserved[s])
      BY <2>1, <2>2, Zenon
    <3>2. a.sem = s /\ a.value >= timepoint[s]
      BY <1>2, <2>1
    <3>3. OrderedAt(s, queue \cup {a}, payload[s], timepoint[s] + 1, reserved[s])
      BY <1>2, <2>1, <3>1, <3>2, OrderedAdd, Zenon
    <3> QED BY <1>2, <2>2, <3>3, Zenon
  <2>3. CASE r # s
    <3>1. OrderedAt(r, queue \cup {a}, payload[r], h, reserved[r])
      BY <1>2, <2>1, <2>3, OrderedOther, Zenon
    <3> QED BY <1>2, <2>3, <3>1, Zenon
  <2> QED BY <2>2, <2>3, Zenon
<1> QED BY <1>1, <1>2, FlushCases, Zenon

\* The same for a flush followed by one more submission of stream s, which keeps
\* stream s ordered if it waits for the flushed timepoint or that is reached.
LEMMA QueueOrdered ==
    ASSUME TypeOK, NEW s \in Streams, call[s] # "alloc",
           \A v \in reserved[s] : v <= timepoint[s],
           NEW t \in Streams, NEW w \in Nat,
           NEW r \in Streams, NEW h \in Nat, r = s => h = timepoint[s],
           OrderedAt(r, queue, payload[r], h, reserved[r]),
           r = s => (t = s /\ w >= FlushedTimepoint(s)) \/ payload[s] >= FlushedTimepoint(s)
    PROVE  OrderedAt(r, FlushedQueue(s) \cup
                        {NewSubmission(FlushedCount(s) + 1, s, t, w, FlushedTimepoint(s) + 1, <<>>)},
                     payload[r], IF r = s THEN FlushedTimepoint(s) + 1 ELSE h, reserved[r])
<1> DEFINE a == NewSubmission(FlushedCount(s) + 1, s, t, w, FlushedTimepoint(s) + 1, <<>>)
<1>1. a \in Submission /\ FlushedTimepoint(s) \in Nat /\ FlushedQueue(s) \in SUBSET Submission
  BY FlushTypes, Zenon
<1>2. a.s = s /\ a.sem = t /\ a.value = w /\ a.signal = FlushedTimepoint(s) + 1
  BY Zenon DEF NewSubmission
<1>3. OrderedAt(r, FlushedQueue(s), payload[r],
                IF r = s THEN FlushedTimepoint(s) ELSE h, reserved[r])
  BY FlushOrdered, Zenon
<1>4. payload[r] \in Nat /\ reserved[r] \in SUBSET Nat /\ timepoint[s] \in Nat
  BY Zenon DEF TypeOK
<1> HIDE DEF a
<1>5. CASE r = s
  <2>1. \A v \in reserved[s] : v <= FlushedTimepoint(s)
    BY <1>4, <1>5 DEF FlushedTimepoint
  <2>2. OrderedAt(s, FlushedQueue(s) \cup {a}, payload[s], FlushedTimepoint(s) + 1, reserved[s])
    BY <1>1, <1>2, <1>3, <1>4, <1>5, <2>1, OrderedAdd, Zenon
  <2> QED BY <1>5, <2>2, Zenon DEF a
<1>6. CASE r # s
  <2>1. OrderedAt(r, FlushedQueue(s) \cup {a}, payload[r], h, reserved[r])
    BY <1>1, <1>2, <1>3, <1>4, <1>6, OrderedOther, Zenon
  <2> QED BY <1>6, <2>1, Zenon DEF a
<1> QED BY <1>5, <1>6, Zenon

\* Every step keeps the timelines ordered.
LEMMA OrderedStep == TypeOK /\ TypeOK' /\ TimelineOrdered /\ [Next]_vars => TimelineOrdered'
<1> SUFFICES ASSUME TypeOK, TypeOK', TimelineOrdered, [Next]_vars, NEW r \in Streams
             PROVE  /\ \A v \in reserved'[r] : v <= timepoint'[r]
                    /\ ~unordered'[r] =>
                          OrderedAt(r, queue', payload'[r], Horizon(r)', reserved'[r])
  BY Zenon DEF TimelineOrdered
<1>1. /\ timepoint[r] \in Nat /\ payload[r] \in Nat /\ reserved[r] \in SUBSET Nat
      /\ queue \in SUBSET Submission /\ Horizon(r) \in Nat
      /\ \A v \in reserved[r] : v <= timepoint[r]
  BY DEF TypeOK, TimelineOrdered, Horizon
<1>2. ~unordered[r] => OrderedAt(r, queue, payload[r], Horizon(r), reserved[r])
  BY Zenon DEF TimelineOrdered
<1>3. CASE Quiet
  BY <1>1, <1>2, <1>3, Zenon DEF Quiet, SameAllocs, Horizon
<1>4. ASSUME NEW s \in Streams, FlushStep(s)
      PROVE  /\ \A v \in reserved'[r] : v <= timepoint'[r]
             /\ ~unordered'[r] => OrderedAt(r, queue', payload'[r], Horizon(r)', reserved'[r])
  <2>1. /\ timepoint' = [timepoint EXCEPT ![s] = FlushedTimepoint(s)]
        /\ timepoint \in [Streams -> Nat]
        /\ FlushedTimepoint(s) \in Nat /\ FlushedTimepoint(s) >= timepoint[s]
    BY <1>4 DEF FlushStep, FlushedTimepoint, TypeOK
  <2>2. \A v \in reserved'[r] : v <= timepoint'[r]
    BY <1>1, <1>4, <2>1 DEF FlushStep
  <2>3. Horizon(r)' = IF r = s THEN FlushedTimepoint(s) ELSE Horizon(r)
    BY <1>4, <2>1, Zenon DEF FlushStep, SameAllocs, Horizon
  <2>4. call[s] # "alloc" /\ (r = s => Horizon(r) = timepoint[s])
    BY <1>4, Zenon DEF FlushStep, Horizon
  <2>5. \A v \in reserved[s] : v <= timepoint[s]
    BY Zenon DEF TimelineOrdered
  <2>6. ASSUME ~unordered[r]
        PROVE  OrderedAt(r, FlushedQueue(s), payload[r],
                         IF r = s THEN FlushedTimepoint(s) ELSE Horizon(r), reserved[r])
    BY <1>1, <1>2, <2>4, <2>5, <2>6, FlushOrdered, Zenon
  <2> QED BY <1>4, <2>2, <2>3, <2>6, Zenon DEF FlushStep
<1>5. ASSUME NEW s \in Streams, NEW t \in Streams, NEW w \in 0 .. timepoint[t],
             BarrierStep(s, t, w)
      PROVE  /\ \A v \in reserved'[r] : v <= timepoint'[r]
             /\ ~unordered'[r] => OrderedAt(r, queue', payload'[r], Horizon(r)', reserved'[r])
  <2>1. /\ timepoint' = [timepoint EXCEPT ![s] = FlushedTimepoint(s) + 1]
        /\ timepoint \in [Streams -> Nat] /\ payload[s] \in Nat /\ w \in Nat
        /\ FlushedTimepoint(s) \in Nat /\ FlushedTimepoint(s) >= timepoint[s]
    BY <1>5 DEF BarrierStep, FlushedTimepoint, TypeOK
  <2>2. \A v \in reserved'[r] : v <= timepoint'[r]
    BY <1>1, <1>5, <2>1 DEF BarrierStep, QueueStep
  <2>3. Horizon(r)' = IF r = s THEN FlushedTimepoint(s) + 1 ELSE Horizon(r)
    BY <1>5, <2>1, Zenon DEF BarrierStep, QueueStep, SameAllocs, Horizon
  <2>4. call[s] # "alloc" /\ (r = s => Horizon(r) = timepoint[s])
    BY <1>5, Zenon DEF BarrierStep, QueueStep, Horizon
  <2>5. \A v \in reserved[s] : v <= timepoint[s]
    BY Zenon DEF TimelineOrdered
  <2>6. ASSUME ~unordered'[r]
        PROVE  ~unordered[r] /\ (r = s => ~OvertakesOwnWork(s, t, w))
    BY <1>5, <2>6, Zenon DEF BarrierStep, TypeOK
  <2>7. ~OvertakesOwnWork(s, t, w) =>
          (t = s /\ w >= FlushedTimepoint(s)) \/ payload[s] >= FlushedTimepoint(s)
    BY <2>1 DEF OvertakesOwnWork
  <2>8. ASSUME ~unordered'[r]
        PROVE  OrderedAt(r, queue', payload[r],
                         IF r = s THEN FlushedTimepoint(s) + 1 ELSE Horizon(r), reserved[r])
    <3>1. ~unordered[r] /\
          (r = s => (t = s /\ w >= FlushedTimepoint(s)) \/ payload[s] >= FlushedTimepoint(s))
      BY <2>6, <2>7, <2>8, Zenon
    <3>2. queue' = FlushedQueue(s) \cup
            {NewSubmission(FlushedCount(s) + 1, s, t, w, FlushedTimepoint(s) + 1, <<>>)}
      BY <1>5, Zenon DEF BarrierStep, QueueStep
    <3> QED BY <1>1, <1>2, <2>1, <2>4, <2>5, <3>1, <3>2, QueueOrdered, Zenon
  <2>9. payload' = payload /\ reserved' = reserved
    BY <1>5, Zenon DEF BarrierStep, QueueStep
  <2> QED BY <2>2, <2>3, <2>8, <2>9, Zenon
<1>6. ASSUME NEW s \in Streams, AllocaStep(s)
      PROVE  /\ \A v \in reserved'[r] : v <= timepoint'[r]
             /\ ~unordered'[r] => OrderedAt(r, queue', payload'[r], Horizon(r)', reserved'[r])
  <2>1. /\ timepoint' = [timepoint EXCEPT ![s] = FlushedTimepoint(s)]
        /\ timepoint \in [Streams -> Nat] /\ call \in [Streams -> Calls]
        /\ FlushedTimepoint(s) \in Nat /\ FlushedTimepoint(s) >= timepoint[s]
    BY <1>6 DEF AllocaStep, FlushedTimepoint, TypeOK
  <2>2. \A v \in reserved'[r] : v <= timepoint'[r]
    BY <1>1, <1>6, <2>1 DEF AllocaStep, QueueStep
  <2>3. Horizon(r)' = IF r = s THEN FlushedTimepoint(s) + 1 ELSE Horizon(r)
    BY <1>6, <2>1, Zenon DEF AllocaStep, Horizon
  <2>4. call[s] # "alloc" /\ (r = s => Horizon(r) = timepoint[s])
    BY <1>6, Zenon DEF AllocaStep, QueueStep, Horizon
  <2>5. \A v \in reserved[s] : v <= timepoint[s]
    BY Zenon DEF TimelineOrdered
  <2>6. ASSUME ~unordered[r]
        PROVE  OrderedAt(r, queue', payload[r],
                         IF r = s THEN FlushedTimepoint(s) + 1 ELSE Horizon(r), reserved[r])
    <3>1. queue' = FlushedQueue(s) \cup
            {NewSubmission(FlushedCount(s) + 1, s, s, FlushedTimepoint(s),
                           FlushedTimepoint(s) + 1, <<>>)}
      BY <1>6, Zenon DEF AllocaStep, QueueStep
    <3>2. FlushedTimepoint(s) >= FlushedTimepoint(s)
      BY <2>1
    <3> QED BY <1>1, <1>2, <2>1, <2>4, <2>5, <2>6, <3>1, <3>2, QueueOrdered
  <2>7. payload' = payload /\ reserved' = reserved /\ unordered' = unordered
    BY <1>6, Zenon DEF AllocaStep, QueueStep
  <2> QED BY <2>2, <2>3, <2>6, <2>7, Zenon
<1>7. ASSUME NEW s \in Streams, hrx_stream_advance_timeline(s)
      PROVE  /\ \A v \in reserved'[r] : v <= timepoint'[r]
             /\ ~unordered'[r] => OrderedAt(r, queue', payload'[r], Horizon(r)', reserved'[r])
  <2>1. /\ timepoint' = [timepoint EXCEPT ![s] = @ + 1] /\ timepoint \in [Streams -> Nat]
        /\ reserved' = [reserved EXCEPT ![s] = @ \cup {timepoint[s] + 1}]
        /\ reserved \in [Streams -> SUBSET Nat]
        /\ call[s] # "alloc" /\ UNCHANGED <<queue, payload, call, unordered>>
    BY <1>7, Zenon DEF hrx_stream_advance_timeline, Idle, TypeOK, deviceVars
  <2>2. CASE r # s
    BY <1>1, <1>2, <2>1, <2>2, Zenon DEF Horizon
  <2>3. CASE r = s
    <3>1. \A v \in reserved'[r] : v <= timepoint'[r]
      BY <1>1, <2>1, <2>3
    <3>2. OrderedAt(r, queue, payload[r], timepoint[r], reserved[r]) =>
          OrderedAt(r, queue, payload[r], timepoint[r] + 1, reserved[r] \cup {timepoint[r] + 1})
      BY <1>1 DEF OrderedAt, Submission
    <3> QED BY <1>2, <2>1, <2>3, <3>1, <3>2, Zenon DEF Horizon
  <2> QED BY <2>2, <2>3, Zenon
<1>8. ASSUME NEW s \in Streams, hrx_semaphore_signal(s)
      PROVE  /\ \A v \in reserved'[r] : v <= timepoint'[r]
             /\ ~unordered'[r] => OrderedAt(r, queue', payload'[r], Horizon(r)', reserved'[r])
  <2>1. PICK v \in reserved[s] :
            /\ v > payload[s]
            /\ payload' = [payload EXCEPT ![s] = v]
            /\ unordered' = [unordered EXCEPT ![s] = @ \/ v > payload[s] + 1]
            /\ UNCHANGED <<timepoint, call, queue, reserved>>
    BY <1>8, Zenon DEF hrx_semaphore_signal, hostVars
  <2>2. /\ payload \in [Streams -> Nat] /\ unordered \in [Streams -> BOOLEAN]
        /\ reserved[s] \in SUBSET Nat /\ v \in Nat /\ payload[s] \in Nat
    BY <2>1, Zenon DEF TypeOK
  <2>3. Horizon(r)' = Horizon(r)
    BY <2>1, Zenon DEF Horizon
  <2>4. CASE r # s
    <3>1. payload'[r] = payload[r] /\ unordered'[r] = unordered[r]
      BY <2>1, <2>2, <2>4, Zenon
    <3> QED BY <1>1, <1>2, <2>1, <2>3, <3>1, Zenon
  <2>5. CASE r = s
    <3>1. ASSUME ~unordered'[r] PROVE ~unordered[r] /\ ~(v > payload[s] + 1)
      BY <2>1, <2>2, <2>5, <3>1, Zenon
    <3>2. payload'[r] = v /\ v <= Horizon(r)
      BY <1>1, <2>1, <2>2, <2>5 DEF Horizon, TypeOK
    <3>3. ASSUME ~unordered'[r] PROVE OrderedAt(r, queue, v, Horizon(r), reserved[r])
      <4>1. v = payload[r] + 1
        BY <2>1, <2>2, <2>5, <3>1, <3>3
      <4>2. OrderedAt(r, queue, payload[r], Horizon(r), reserved[r])
        BY <1>2, <3>1, <3>3, Zenon
      <4> QED BY <1>1, <2>1, <2>5, <3>2, <4>1, <4>2 DEF OrderedAt, Submission
    <3> QED BY <1>1, <2>1, <2>3, <3>2, <3>3, Zenon
  <2> QED BY <2>4, <2>5, Zenon
<1>9. ASSUME NEW s \in Streams, AllocateReturns(s)
      PROVE  /\ \A v \in reserved'[r] : v <= timepoint'[r]
             /\ ~unordered'[r] => OrderedAt(r, queue', payload'[r], Horizon(r)', reserved'[r])
  <2>1. /\ call[s] = "alloc" /\ call' = [call EXCEPT ![s] = "idle"]
        /\ call \in [Streams -> Calls] /\ timepoint \in [Streams -> Nat]
        /\ unordered \in [Streams -> BOOLEAN]
        /\ UNCHANGED <<queue, payload, reserved>>
    BY <1>9, Zenon DEF AllocateReturns, TypeOK, deviceVars
  <2>2. CASE /\ timepoint' = [timepoint EXCEPT ![s] = @ + 1]
             /\ UNCHANGED unordered
    <3>1. Horizon(r)' = Horizon(r)
      BY <2>1, <2>2, Zenon DEF Horizon
    <3>2. \A v \in reserved'[r] : v <= timepoint'[r]
      BY <1>1, <2>1, <2>2
    <3> QED BY <1>2, <2>1, <2>2, <3>1, <3>2, Zenon
  <2>3. CASE unordered' = [unordered EXCEPT ![s] = TRUE] /\ UNCHANGED timepoint
    <3>1. CASE r = s
      BY <1>1, <2>1, <2>3, <3>1, Zenon
    <3>2. CASE r # s
      BY <1>1, <1>2, <2>1, <2>3, <3>2, Zenon DEF Horizon
    <3> QED BY <3>1, <3>2, Zenon
  <2> QED BY <1>9, <2>2, <2>3, Zenon DEF AllocateReturns
<1>10. ASSUME NEW s \in Streams, DeviceRetire(s)
      PROVE  /\ \A v \in reserved'[r] : v <= timepoint'[r]
             /\ ~unordered'[r] => OrderedAt(r, queue', payload'[r], Horizon(r)', reserved'[r])
  <2>1. PICK q \in queue :
            /\ q.s = s /\ Ready(q)
            /\ queue' = queue \ {q}
            /\ payload' = [payload EXCEPT ![s] = IF q.signal > @ THEN q.signal ELSE @]
    BY <1>10, Zenon DEF DeviceRetire
  <2>2. UNCHANGED <<timepoint, call, reserved, unordered>> /\ payload \in [Streams -> Nat]
    BY <1>10, Zenon DEF DeviceRetire, hostVars, history, TypeOK
  <2>3. Horizon(r)' = Horizon(r)
    BY <2>2, Zenon DEF Horizon
  <2>4. ASSUME ~unordered[r], r # s PROVE OrderedAt(r, queue', payload'[r], Horizon(r), reserved[r])
    <3>1. payload'[r] = payload[r]
      BY <2>1, <2>2, <2>4, Zenon
    <3> QED BY <1>1, <1>2, <2>1, <2>4, <3>1, OrderedRetireOther
  <2>5. ASSUME ~unordered[r], r = s PROVE OrderedAt(r, queue', payload'[r], Horizon(r), reserved[r])
    <3>1. q.sem = s => payload[s] >= q.value
      BY <2>1, Zenon DEF Ready
    <3>2. OrderedAt(r, queue \ {q}, q.signal, Horizon(r), reserved[r]) /\ q.signal > payload[r]
      BY <1>1, <1>2, <2>1, <2>5, <3>1, OrderedRetire
    <3>3. payload'[r] = q.signal
      BY <2>1, <2>2, <2>5, <3>2, Zenon
    <3> QED BY <2>1, <3>2, <3>3, Zenon
  <2> QED BY <1>1, <2>2, <2>3, <2>4, <2>5, Zenon
<1> QED BY <1>3, <1>4, <1>5, <1>6, <1>7, <1>8, <1>9, <1>10, StepKinds, Zenon

\* No timeline has anything on it at the start.
LEMMA InitOrdered == Init => TimelineOrdered
BY DEF Init, TimelineOrdered, OrderedAt, Horizon

\* An ordered timeline that has reached the timepoint leaves nothing in flight.
LEMMA OrderedCompletes == TypeOK /\ TimelineOrdered => CompletionMeansRetired
<1> SUFFICES ASSUME TypeOK, TimelineOrdered, NEW s \in Streams, ~unordered[s],
                    call[s] # "alloc", hrx_stream_query(s), NEW q \in queue, q.s = s
             PROVE  FALSE
  BY Zenon DEF CompletionMeansRetired
<1>1. OrderedAt(s, queue, payload[s], timepoint[s], reserved[s])
  BY Zenon DEF TimelineOrdered, Horizon
<1>2. timepoint[s] \in Nat /\ payload[s] \in Nat /\ q.signal \in Nat
  BY Zenon DEF TypeOK, Submission
<1>3. payload[s] < q.signal /\ q.signal <= timepoint[s]
  BY <1>1, Zenon DEF OrderedAt
<1> QED BY <1>2, <1>3 DEF hrx_stream_query

\* For every number of streams, commands, faults and submissions: a client that is
\* told its stream is complete, by hrx_stream_query, by a wait that returned or by
\* the end of Drop, has nothing of that stream left in flight, unless it let the
\* timeline run past the stream's own work.
THEOREM Completion == Spec => []CompletionMeansRetired
<1>1. TypeOK /\ TimelineOrdered /\ [Next]_vars => (TypeOK /\ TimelineOrdered)'
  BY StepType, OrderedStep, Zenon
<1>2. Init => TypeOK /\ TimelineOrdered
  BY InitType, InitOrdered, Zenon
<1> QED BY <1>1, <1>2, OrderedCompletes, PTL DEF Spec

(***************************************************************************)
(* Every timepoint and every wait is covered.                              *)
(***************************************************************************)

\* A promise moves to a later value when a submission signals that value.
LEMMA PromiseMoved ==
    ASSUME NEW Q \in SUBSET Submission, NEW TP \in [Streams -> Nat],
           NEW PL, NEW R, Promised(Q, TP, PL, R), NEW s \in Streams, NEW m \in Nat,
           \E q \in Q : q.s = s /\ q.signal >= m
    PROVE  Promised(Q, [TP EXCEPT ![s] = m], PL, R)
BY Zenon DEF Promised

\* A flush keeps every wait covered and promises the timepoint it moves to.
LEMMA FlushPromised ==
    ASSUME TypeOK, TimelinePromised, NEW s \in Streams
    PROVE  /\ WaitsCovered(FlushedQueue(s), FlushedCount(s), payload, reserved)
           /\ Promised(FlushedQueue(s), [timepoint EXCEPT ![s] = FlushedTimepoint(s)],
                       payload, reserved)
<1>1. /\ timepoint \in [Streams -> Nat] /\ payload \in [Streams -> Nat]
      /\ reserved \in [Streams -> SUBSET Nat] /\ queue \in SUBSET Submission
      /\ submitted \in Nat
  BY Zenon DEF TypeOK
<1>2. CASE /\ FlushedQueue(s) = queue /\ FlushedTimepoint(s) = timepoint[s]
           /\ FlushedCount(s) = submitted
  <2>1. [timepoint EXCEPT ![s] = timepoint[s]] = timepoint
    BY <1>1, Zenon
  <2> QED BY <1>2, <2>1, Zenon DEF TimelinePromised
<1>3. ASSUME NEW a \in Submission, a.id = submitted + 1, a.s = s, a.sem = s,
             a.value = timepoint[s], a.signal = timepoint[s] + 1,
             FlushedQueue(s) = queue \cup {a}, FlushedTimepoint(s) = timepoint[s] + 1,
             FlushedCount(s) = submitted + 1
      PROVE  /\ WaitsCovered(FlushedQueue(s), FlushedCount(s), payload, reserved)
             /\ Promised(FlushedQueue(s), [timepoint EXCEPT ![s] = FlushedTimepoint(s)],
                         payload, reserved)
  <2>1. a.value <= timepoint[a.sem]
    BY <1>1, <1>3
  <2>2. /\ WaitsCovered(queue \cup {a}, submitted + 1, payload, reserved)
        /\ Promised(queue \cup {a}, timepoint, payload, reserved)
    BY <1>1, <1>3, <2>1, CoveredAdd, Zenon DEF TimelinePromised
  <2>3. timepoint[s] + 1 \in Nat /\ queue \cup {a} \in SUBSET Submission
    BY <1>1
  <2>4. \E q \in queue \cup {a} : q.s = s /\ q.signal >= timepoint[s] + 1
    BY <1>1, <1>3
  <2>5. Promised(queue \cup {a}, [timepoint EXCEPT ![s] = timepoint[s] + 1], payload, reserved)
    BY <1>1, <2>2, <2>3, <2>4, PromiseMoved, Zenon
  <2> QED BY <1>3, <2>2, <2>5, Zenon
<1> QED BY <1>2, <1>3, FlushCases, Zenon

\* A flush and one more submission, which waits for a position a client can hold.
LEMMA QueuePromised ==
    ASSUME TypeOK, TimelinePromised, NEW s \in Streams, NEW t \in Streams, NEW w \in Nat,
           w <= timepoint[t] \/ (t = s /\ w <= FlushedTimepoint(s))
    PROVE  LET Q == FlushedQueue(s) \cup
                {NewSubmission(FlushedCount(s) + 1, s, t, w, FlushedTimepoint(s) + 1, <<>>)}
           IN  /\ WaitsCovered(Q, FlushedCount(s) + 1, payload, reserved)
               /\ Promised(Q, [timepoint EXCEPT ![s] = FlushedTimepoint(s)], payload, reserved)
               /\ Promised(Q, [timepoint EXCEPT ![s] = FlushedTimepoint(s) + 1],
                           payload, reserved)
<1> DEFINE a == NewSubmission(FlushedCount(s) + 1, s, t, w, FlushedTimepoint(s) + 1, <<>>)
           TP == [timepoint EXCEPT ![s] = FlushedTimepoint(s)]
<1>1. /\ timepoint \in [Streams -> Nat] /\ payload \in [Streams -> Nat]
      /\ reserved \in [Streams -> SUBSET Nat] /\ timepoint[s] \in Nat
  BY Zenon DEF TypeOK
<1>2. /\ a \in Submission /\ FlushedTimepoint(s) \in Nat
      /\ FlushedQueue(s) \in SUBSET Submission /\ FlushedCount(s) \in Nat
  BY FlushTypes, Zenon
<1>3. /\ a.id = FlushedCount(s) + 1 /\ a.s = s /\ a.sem = t /\ a.value = w
      /\ a.signal = FlushedTimepoint(s) + 1
  BY Zenon DEF NewSubmission
<1> HIDE DEF a
<1>4. TP \in [Streams -> Nat] /\ FlushedTimepoint(s) >= timepoint[s]
  BY <1>1, <1>2 DEF FlushedTimepoint
<1>5. a.value <= TP[a.sem]
  BY <1>1, <1>2, <1>3, <1>4
<1>6. /\ WaitsCovered(FlushedQueue(s), FlushedCount(s), payload, reserved)
      /\ Promised(FlushedQueue(s), TP, payload, reserved)
  BY FlushPromised, Zenon
<1> HIDE DEF TP
<1>7. /\ WaitsCovered(FlushedQueue(s) \cup {a}, FlushedCount(s) + 1, payload, reserved)
      /\ Promised(FlushedQueue(s) \cup {a}, TP, payload, reserved)
  BY <1>1, <1>2, <1>3, <1>4, <1>5, <1>6, CoveredAdd, Zenon
<1>8. /\ \E q \in FlushedQueue(s) \cup {a} : q.s = s /\ q.signal >= FlushedTimepoint(s) + 1
      /\ FlushedTimepoint(s) + 1 \in Nat /\ FlushedQueue(s) \cup {a} \in SUBSET Submission
  BY <1>2, <1>3
<1>9. Promised(FlushedQueue(s) \cup {a}, [TP EXCEPT ![s] = FlushedTimepoint(s) + 1],
               payload, reserved)
  BY <1>4, <1>7, <1>8, PromiseMoved, Zenon
<1>10. [TP EXCEPT ![s] = FlushedTimepoint(s) + 1] =
       [timepoint EXCEPT ![s] = FlushedTimepoint(s) + 1]
  BY <1>1, Zenon DEF TP
<1> QED BY <1>7, <1>9, <1>10, Zenon DEF a, TP

\* Timelines only move forward, so a later value covers what an earlier one did.
LEMMA CoveredLater ==
    ASSUME NEW Q \in SUBSET Submission, NEW n \in Nat, NEW TP \in [Streams -> Nat],
           NEW PL \in [Streams -> Nat], NEW R, WaitsCovered(Q, n, PL, R),
           Promised(Q, TP, PL, R), NEW s \in Streams, NEW v \in Nat, v >= PL[s]
    PROVE  /\ WaitsCovered(Q, n, [PL EXCEPT ![s] = v], R)
           /\ Promised(Q, TP, [PL EXCEPT ![s] = v], R)
<1> DEFINE PN == [PL EXCEPT ![s] = v]
<1>1. \A t \in Streams : PN[t] \in Nat /\ PL[t] \in Nat /\ PN[t] >= PL[t]
  OBVIOUS
<1> HIDE DEF PN
<1>2. WaitsCovered(Q, n, PN, R)
  <2> SUFFICES ASSUME NEW q \in Q, q.value <= PL[q.sem] PROVE q.value <= PN[q.sem]
    BY Zenon DEF WaitsCovered
  <2>1. q.sem \in Streams /\ q.value \in Nat
    BY Zenon DEF Submission
  <2> QED BY <1>1, <2>1
<1>3. Promised(Q, TP, PN, R)
  BY <1>1 DEF Promised
<1> QED BY <1>2, <1>3, Zenon DEF PN

\* Once a submission's value is reached it may leave the queue.
LEMMA CoveredRetire ==
    ASSUME NEW Q \in SUBSET Submission, NEW n \in Nat, NEW TP \in [Streams -> Nat],
           NEW PL \in [Streams -> Nat], NEW R, WaitsCovered(Q, n, PL, R),
           Promised(Q, TP, PL, R), NEW a \in Q, PL[a.s] >= a.signal
    PROVE  /\ WaitsCovered(Q \ {a}, n, PL, R)
           /\ Promised(Q \ {a}, TP, PL, R)
<1>1. a.s \in Streams /\ a.signal \in Nat /\ PL[a.s] \in Nat
  BY Zenon DEF Submission
<1>2. WaitsCovered(Q \ {a}, n, PL, R)
  <2> SUFFICES ASSUME NEW q \in Q, NEW p \in Q, p.id < q.id, p.s = q.sem, p.signal >= q.value
               PROVE  \/ q.value <= PL[q.sem]
                      \/ \E o \in Q \ {a} : o.id < q.id /\ o.s = q.sem /\ o.signal >= q.value
    BY Zenon DEF WaitsCovered
  <2>1. CASE p = a
    <3>1. q.value \in Nat
      BY Zenon DEF Submission
    <3> QED BY <1>1, <2>1, <3>1
  <2>2. CASE p # a
    BY <2>2, Zenon
  <2> QED BY <2>1, <2>2, Zenon
<1>3. Promised(Q \ {a}, TP, PL, R)
  BY <1>1 DEF Promised
<1> QED BY <1>2, <1>3, Zenon

\* Every step keeps the timepoints promised and the waits covered.
LEMMA PromisedStep == TypeOK /\ TimelinePromised /\ [Next]_vars => TimelinePromised'
<1> SUFFICES ASSUME TypeOK, TimelinePromised, [Next]_vars PROVE TimelinePromised'
  BY Zenon
<1>1. /\ timepoint \in [Streams -> Nat] /\ payload \in [Streams -> Nat]
      /\ reserved \in [Streams -> SUBSET Nat] /\ queue \in SUBSET Submission
      /\ submitted \in Nat
  BY Zenon DEF TypeOK
<1>2. /\ WaitsCovered(queue, submitted, payload, reserved)
      /\ Promised(queue, timepoint, payload, reserved)
  BY Zenon DEF TimelinePromised
<1>3. CASE Quiet
  BY <1>2, <1>3, Zenon DEF Quiet, TimelinePromised
<1>4. ASSUME NEW s \in Streams, FlushStep(s) PROVE TimelinePromised'
  BY <1>4, FlushPromised, Zenon DEF FlushStep, TimelinePromised
<1>5. ASSUME NEW s \in Streams, NEW t \in Streams, NEW w \in 0 .. timepoint[t],
             BarrierStep(s, t, w)
      PROVE  TimelinePromised'
  <2>1. w \in Nat /\ w <= timepoint[t]
    BY <1>1
  <2>2. /\ WaitsCovered(queue', submitted', payload, reserved)
        /\ Promised(queue', timepoint', payload, reserved)
    BY <1>5, <2>1, QueuePromised, Zenon DEF BarrierStep, QueueStep
  <2> QED BY <1>5, <2>2, Zenon DEF BarrierStep, QueueStep, TimelinePromised
<1>6. ASSUME NEW s \in Streams, AllocaStep(s) PROVE TimelinePromised'
  <2>1. FlushedTimepoint(s) \in Nat /\ FlushedTimepoint(s) <= FlushedTimepoint(s)
    BY FlushTypes
  <2>2. /\ WaitsCovered(queue', submitted', payload, reserved)
        /\ Promised(queue', timepoint', payload, reserved)
    BY <1>6, <2>1, QueuePromised, Zenon DEF AllocaStep, QueueStep
  <2> QED BY <1>6, <2>2, Zenon DEF AllocaStep, QueueStep, TimelinePromised
<1>7. ASSUME NEW s \in Streams, hrx_stream_advance_timeline(s) PROVE TimelinePromised'
  <2>1. /\ timepoint' = [timepoint EXCEPT ![s] = @ + 1]
        /\ reserved' = [reserved EXCEPT ![s] = @ \cup {timepoint[s] + 1}]
        /\ UNCHANGED <<queue, payload, submitted>>
    BY <1>7, Zenon DEF hrx_stream_advance_timeline, deviceVars
  <2>2. \A t \in Streams : reserved[t] \subseteq reserved'[t]
    BY <1>1, <2>1, Zenon
  <2>3. WaitsCovered(queue, submitted, payload, reserved')
    <3> SUFFICES ASSUME NEW q \in queue, NEW v \in reserved[q.sem], v >= q.value
                 PROVE  \E u \in reserved'[q.sem] : u >= q.value
      BY <1>2, Zenon DEF WaitsCovered
    <3>1. q.sem \in Streams
      BY <1>1, Zenon DEF Submission
    <3> QED BY <2>2, <3>1, Zenon
  <2>4. Promised(queue, timepoint', payload, reserved')
    <3>1. timepoint'[s] \in reserved'[s]
      BY <1>1, <2>1, Zenon
    <3>2. \A t \in Streams : t # s => timepoint'[t] = timepoint[t]
      BY <1>1, <2>1, Zenon
    <3> QED BY <1>2, <2>2, <3>1, <3>2, Zenon DEF Promised
  <2> QED BY <2>1, <2>3, <2>4, Zenon DEF TimelinePromised
<1>8. ASSUME NEW s \in Streams, hrx_semaphore_signal(s) PROVE TimelinePromised'
  <2>1. PICK v \in reserved[s] : /\ v > payload[s]
                                 /\ payload' = [payload EXCEPT ![s] = v]
                                 /\ UNCHANGED <<timepoint, queue, submitted, reserved>>
    BY <1>8, Zenon DEF hrx_semaphore_signal, hostVars
  <2>2. v \in Nat /\ v >= payload[s]
    BY <1>1, <2>1
  <2>3. /\ WaitsCovered(queue, submitted, payload', reserved)
        /\ Promised(queue, timepoint, payload', reserved)
    BY <1>1, <1>2, <2>1, <2>2, CoveredLater, Zenon
  <2> QED BY <2>1, <2>3, Zenon DEF TimelinePromised
<1>9. ASSUME NEW s \in Streams, AllocateReturns(s) PROVE TimelinePromised'
  <2>1. UNCHANGED <<queue, payload, submitted, reserved>>
    BY <1>9, Zenon DEF AllocateReturns, deviceVars
  <2>2. CASE UNCHANGED timepoint
    BY <1>2, <2>1, <2>2, Zenon DEF TimelinePromised
  <2>3. CASE payload[s] >= timepoint[s] + 1 /\ timepoint' = [timepoint EXCEPT ![s] = @ + 1]
    <3>1. timepoint'[s] <= payload[s]
      BY <1>1, <2>3, Zenon
    <3>2. \A t \in Streams : t # s => timepoint'[t] = timepoint[t]
      BY <1>1, <2>3, Zenon
    <3>3. Promised(queue, timepoint', payload, reserved)
      BY <1>2, <3>1, <3>2, Zenon DEF Promised
    <3> QED BY <1>2, <2>1, <3>3, Zenon DEF TimelinePromised
  <2> QED BY <1>9, <2>2, <2>3, Zenon DEF AllocateReturns
<1>10. ASSUME NEW s \in Streams, DeviceRetire(s) PROVE TimelinePromised'
  <2>1. PICK q \in queue :
            /\ q.s = s
            /\ queue' = queue \ {q}
            /\ payload' = [payload EXCEPT ![s] = IF q.signal > @ THEN q.signal ELSE @]
    BY <1>10, Zenon DEF DeviceRetire
  <2>2. UNCHANGED <<timepoint, submitted, reserved>>
    BY <1>10, Zenon DEF DeviceRetire, hostVars, history
  <2> DEFINE m == IF q.signal > payload[s] THEN q.signal ELSE payload[s]
  <2>3. m \in Nat /\ m >= payload[s] /\ m >= q.signal /\ payload' = [payload EXCEPT ![s] = m]
    BY <1>1, <2>1 DEF Submission
  <2>4. /\ WaitsCovered(queue, submitted, payload', reserved)
        /\ Promised(queue, timepoint, payload', reserved)
    BY <1>1, <1>2, <2>3, CoveredLater, Zenon
  <2>5. payload' \in [Streams -> Nat] /\ payload'[q.s] >= q.signal
    BY <1>1, <2>1, <2>3, Zenon
  <2>6. /\ WaitsCovered(queue \ {q}, submitted, payload', reserved)
        /\ Promised(queue \ {q}, timepoint, payload', reserved)
    BY <1>1, <2>4, <2>5, CoveredRetire, Zenon
  <2> QED BY <2>1, <2>2, <2>6, Zenon DEF TimelinePromised
<1> QED BY <1>3, <1>4, <1>5, <1>6, <1>7, <1>8, <1>9, <1>10, StepKinds, Zenon

\* Nothing has been promised or submitted at the start.
LEMMA InitPromised == Init => TimelinePromised
BY DEF Init, TimelinePromised, WaitsCovered, Promised

\* In every behaviour TypeOK and the covered timelines hold together.
LEMMA AlwaysPromised == Spec => [](TypeOK /\ TimelinePromised)
<1>1. TypeOK /\ TimelinePromised /\ [Next]_vars => (TypeOK /\ TimelinePromised)'
  BY StepType, PromisedStep, Zenon
<1>2. Init => TypeOK /\ TimelinePromised
  BY InitType, InitPromised, Zenon
<1> QED BY <1>1, <1>2, PTL DEF Spec

\* No failed flush, refused barrier or refused alloca leaves hrx_stream_wait, a
\* later flush or Drop waiting for a timepoint nobody will signal: only a value the
\* client reserved itself with hrx_stream_advance_timeline is not the stream's own.
THEOREM TimepointsPromised == Spec => []TimepointPromised
<1>1. TimelinePromised => TimepointPromised
  BY Zenon DEF TimelinePromised, Promised, TimepointPromised
<1> QED BY <1>1, AlwaysPromised, PTL

(***************************************************************************)
(* The device never gets stuck: the oldest submission in flight is ready.  *)
(***************************************************************************)

\* A set of submissions has an oldest one.
LEMMA Oldest ==
    ASSUME NEW Q \in SUBSET Submission, Q # {}
    PROVE  \E q \in Q : \A p \in Q : ~(p.id < q.id)
<1> DEFINE T == {q.id : q \in Q}
           Less == {ss \in Nat \X Nat : ss[1] < ss[2]}
<1>1. T \in SUBSET Nat /\ T # {}
  BY Zenon DEF Submission
<1>2. IsWellFoundedOn(Less, Nat)
  BY NatLessThanWellFounded, Zenon DEF OpToRel
<1>3. \A x, y \in Nat : y < x => <<y, x>> \in Less
  BY Zenon
<1> HIDE DEF T, Less
<1>4. PICK x \in T : \A y \in T : ~(<<y, x>> \in Less)
  BY <1>1, <1>2, WFMin, Zenon
<1>5. \A y \in T : ~(y < x)
  BY <1>1, <1>3, <1>4, Zenon
<1> QED BY <1>5, Zenon DEF T

\* Streams may wait on each other's positions in any pattern: while no reserved
\* value is outstanding, some submission in flight is ready to run.
THEOREM NeverStuck == Spec => []DeviceNotStuck
<1>1. TypeOK /\ TimelinePromised => DeviceNotStuck
  <2> SUFFICES ASSUME TypeOK, TimelinePromised, queue # {},
                      \A s \in Streams : ~Outstanding(s)
               PROVE  \E q \in queue : Ready(q)
    BY Zenon DEF DeviceNotStuck
  <2>1. queue \in SUBSET Submission /\ payload \in [Streams -> Nat]
        /\ reserved \in [Streams -> SUBSET Nat]
    BY Zenon DEF TypeOK
  <2>2. PICK q \in queue : \A p \in queue : ~(p.id < q.id)
    BY <2>1, Oldest, Zenon
  <2>3. q.sem \in Streams /\ q.value \in Nat /\ payload[q.sem] \in Nat
    BY <2>1, Zenon DEF Submission
  <2>4. q.value <= payload[q.sem] \/ \E v \in reserved[q.sem] : v >= q.value
    BY <2>2, Zenon DEF TimelinePromised, WaitsCovered
  <2>5. \A v \in reserved[q.sem] : v \in Nat /\ ~(v > payload[q.sem])
    BY <2>1, <2>3, Zenon DEF Outstanding
  <2>6. payload[q.sem] >= q.value
    BY <2>3, <2>4, <2>5
  <2> QED BY <2>6, Zenon DEF Ready
<1> QED BY <1>1, AlwaysPromised, PTL

(***************************************************************************)
(* The inductive invariant, on explicit values so that it can be applied   *)
(* to a queue, a command buffer and a timepoint in the middle of a call.   *)
(***************************************************************************)

\* The commands in c are at most N and in recording order, and an accepted one (A) is
\* followed by its ordering barrier.
Sequenced(c, A, N) ==
    \A i \in DOMAIN c :
        /\ c[i] <= N
        /\ c[i] \in A => i + 1 \in DOMAIN c /\ c[i + 1] = Barrier
        /\ \A j \in DOMAIN c : i < j /\ c[j] # Barrier => c[i] < c[j]

\* Every command in c was recorded before every command in d.
Precedes(c, d) ==
    \A i \in DOMAIN c, j \in DOMAIN d : d[j] # Barrier => c[i] < d[j]

\* An accepted command is executed, in flight, or waiting for the next flush; one
\* that Drop discarded was recorded after everything in flight.
Conserved(Q, c, hp, ex, A, dead) ==
    \A m \in A :
        \/ m \in ex
        \/ \E q \in Q : Holds(q.cmds, m)
        \/ /\ hp
           /\ \/ Holds(c, m)
              \/ dead /\ \A q \in Q : \A i \in DOMAIN q.cmds : q.cmds[i] < m

\* A stream with submissions Q in flight, commands c pending (hp: and to be flushed),
\* timepoint tp, executed and accepted commands ex and A, and N recording calls:
\* pending commands come after everything in flight or executed, and submissions
\* with commands are signalled in the order of their commands.
WorkAt(Q, c, hp, tp, ex, A, N, dead) ==
    /\ A \subseteq 1 .. N /\ ex \subseteq 1 .. N /\ N <= MaxOps
    /\ Sequenced(c, A, N)
    /\ \A m \in ex, j \in DOMAIN c : c[j] # Barrier => m < c[j]
    /\ \A q \in Q :
          /\ Sequenced(q.cmds, A, N)
          /\ Precedes(q.cmds, c)
          /\ q.cmds = <<>> \/ q.signal <= tp
    /\ \A p, q \in Q :
          \/ p = q \/ p.cmds = <<>> \/ q.cmds = <<>>
          \/ p.signal < q.signal /\ Precedes(p.cmds, q.cmds)
          \/ q.signal < p.signal /\ Precedes(q.cmds, p.cmds)
    /\ Conserved(Q, c, hp, ex, A, dead)

OwnQueue(s) == {q \in queue : q.s = s}

Dead(s) == call[s] \in {"gone", "abandoned"}

StreamWork(s) ==
    /\ pending_cb[s].state = "null" => pending_cb[s].cmds = <<>>
    /\ WorkAt(OwnQueue(s), pending_cb[s].cmds, has_pending_work[s], timepoint[s],
              executed[s], accepted[s], recorded[s], Dead(s))

WorkInv == \A s \in Streams : StreamWork(s)

(***************************************************************************)
(* What the calls do to a command buffer.                                  *)
(***************************************************************************)

\* Appending to a command buffer keeps what was in it and adds what is appended.
LEMMA AppendKeeps ==
    ASSUME NEW c \in Seq(Nat), NEW d \in Seq(Nat), NEW N \in Nat,
           \A k \in DOMAIN d : d[k] = N + 1 \/ d[k] = Barrier
    PROVE  /\ c \o d \in Seq(Nat)
           /\ \A j \in DOMAIN c : j \in DOMAIN (c \o d) /\ (c \o d)[j] = c[j]
           /\ \A j \in DOMAIN (c \o d) :
                j \in DOMAIN c \/ (c \o d)[j] = N + 1 \/ (c \o d)[j] = Barrier
<1>1. c \o d \in Seq(Nat) /\ \A j \in DOMAIN c : j \in DOMAIN (c \o d) /\ (c \o d)[j] = c[j]
  OBVIOUS
<1>2. \A j \in DOMAIN (c \o d) :
        j \in DOMAIN c \/ (j - Len(c) \in DOMAIN d /\ (c \o d)[j] = d[j - Len(c)])
  OBVIOUS
<1> QED BY <1>1, <1>2, Zenon

\* What a recording call appends is its own command, a barrier, or both.
LEMMA AppendedCommands ==
    ASSUME NEW N \in Nat, NEW d \in {<<N + 1>>, <<N + 1, Barrier>>, <<Barrier>>}
    PROVE  d \in Seq(Nat) /\ \A k \in DOMAIN d : d[k] = N + 1 \/ d[k] = Barrier
<1>1. CASE d = <<N + 1>>
  BY <1>1
<1>2. CASE d = <<N + 1, Barrier>>
  BY <1>2 DEF Barrier
<1>3. CASE d = <<Barrier>>
  BY <1>3 DEF Barrier
<1> QED BY <1>1, <1>2, <1>3, Zenon

\* One more recording call leaves what was recorded before in sequence, whether or not
\* the new command is accepted.
LEMMA SequencedLater ==
    ASSUME NEW c \in Seq(Nat), NEW N \in Nat, NEW A \in SUBSET Nat, Sequenced(c, A, N)
    PROVE  Sequenced(c, A, N + 1) /\ Sequenced(c, A \cup {N + 1}, N + 1)
<1>1. \A i \in DOMAIN c : c[i] \in Nat /\ c[i] <= N
  BY DEF Sequenced
<1>2. \A i \in DOMAIN c : c[i] <= N + 1 /\ c[i] # N + 1
  BY <1>1
<1> QED BY <1>2, Zenon DEF Sequenced

\* A command whose ordering barrier could not be recorded goes after the others.
LEMMA SequencedCommand ==
    ASSUME NEW c \in Seq(Nat), NEW N \in Nat, NEW A \in SUBSET (1 .. N), Sequenced(c, A, N)
    PROVE  Sequenced(c \o <<N + 1>>, A, N + 1)
<1> DEFINE e == c \o <<N + 1>>
<1>1. /\ e \in Seq(Nat) /\ Len(c) \in Nat /\ DOMAIN c = 1 .. Len(c)
      /\ DOMAIN e = 1 .. Len(c) + 1
      /\ \A i \in DOMAIN c : e[i] = c[i] /\ c[i] \in Nat
      /\ e[Len(c) + 1] = N + 1
  OBVIOUS
<1> HIDE DEF e
<1>2. \A i \in DOMAIN e : i \in DOMAIN c \/ i = Len(c) + 1
  BY <1>1
<1>3. \A i \in DOMAIN c : i \in Nat /\ i + 1 \in Nat /\ i < Len(c) + 1
  BY <1>1
<1>4. ASSUME NEW i \in DOMAIN c
      PROVE  /\ e[i] <= N + 1
             /\ e[i] \in A => i + 1 \in DOMAIN e /\ e[i + 1] = Barrier
             /\ \A j \in DOMAIN e : i < j /\ e[j] # Barrier => e[i] < e[j]
  <2>1. c[i] \in Nat /\ c[i] <= N /\ e[i] = c[i]
    BY <1>1 DEF Sequenced
  <2>2. e[i] <= N + 1 /\ e[i] < e[Len(c) + 1]
    BY <1>1, <2>1
  <2>3. DOMAIN c \subseteq DOMAIN e
    BY <1>1
  <2> QED BY <1>1, <1>2, <2>1, <2>2, <2>3, Zenon DEF Sequenced
<1>5. /\ e[Len(c) + 1] <= N + 1 /\ e[Len(c) + 1] \notin A
      /\ \A j \in DOMAIN e : ~(Len(c) + 1 < j)
  BY <1>1
<1> QED BY <1>2, <1>4, <1>5, Zenon DEF Sequenced, e

\* A barrier goes after anything.
LEMMA SequencedBarrier ==
    ASSUME NEW c \in Seq(Nat), NEW N \in Nat, NEW A \in SUBSET (1 .. N), Sequenced(c, A, N)
    PROVE  Sequenced(c \o <<Barrier>>, A, N + 1)
<1> DEFINE e == c \o <<Barrier>>
<1>1. /\ Barrier \in Nat /\ Barrier \notin A /\ Barrier <= N + 1
  BY DEF Barrier
<1>2. /\ e \in Seq(Nat) /\ Len(c) \in Nat /\ DOMAIN c = 1 .. Len(c)
      /\ DOMAIN e = 1 .. Len(c) + 1
      /\ \A i \in DOMAIN c : e[i] = c[i] /\ c[i] \in Nat
      /\ e[Len(c) + 1] = Barrier
  BY <1>1
<1> HIDE DEF e
<1>3. \A i \in DOMAIN e : i \in DOMAIN c \/ i = Len(c) + 1
  BY <1>2
<1>4. ASSUME NEW i \in DOMAIN c
      PROVE  /\ e[i] <= N + 1
             /\ e[i] \in A => i + 1 \in DOMAIN e /\ e[i + 1] = Barrier
             /\ \A j \in DOMAIN e : i < j /\ e[j] # Barrier => e[i] < e[j]
  <2>1. c[i] \in Nat /\ c[i] <= N /\ e[i] = c[i]
    BY <1>2 DEF Sequenced
  <2>2. e[i] <= N + 1
    BY <2>1
  <2>3. DOMAIN c \subseteq DOMAIN e
    BY <1>2
  <2>4. e[i] \in A => i + 1 \in DOMAIN e /\ e[i + 1] = Barrier
    <3>1. c[i] \in A => i + 1 \in DOMAIN c /\ c[i + 1] = Barrier
      BY Zenon DEF Sequenced
    <3>2. i + 1 \in DOMAIN c => i + 1 \in DOMAIN e /\ e[i + 1] = c[i + 1]
      BY <1>2, <2>3, Zenon
    <3> QED BY <2>1, <3>1, <3>2, Zenon
  <2>5. \A j \in DOMAIN c : i < j /\ e[j] # Barrier => e[i] < e[j]
    BY <1>2, <2>1, Zenon DEF Sequenced
  <2> QED BY <1>2, <1>3, <2>2, <2>4, <2>5, Zenon
<1>5. \A j \in DOMAIN e : ~(Len(c) + 1 < j)
  BY <1>2
<1> QED BY <1>1, <1>2, <1>3, <1>4, <1>5, Zenon DEF Sequenced, e

\* An accepted command goes after the others with its ordering barrier.
LEMMA SequencedAccepted ==
    ASSUME NEW c \in Seq(Nat), NEW N \in Nat, NEW A \in SUBSET (1 .. N), Sequenced(c, A, N)
    PROVE  Sequenced(c \o <<N + 1, Barrier>>, A \cup {N + 1}, N + 1)
<1> DEFINE e == c \o <<N + 1, Barrier>>
<1>1. /\ Barrier \in Nat /\ Barrier \notin A \cup {N + 1} /\ Barrier <= N + 1
  BY DEF Barrier
<1>2. /\ e \in Seq(Nat) /\ Len(c) \in Nat /\ DOMAIN c = 1 .. Len(c)
      /\ DOMAIN e = 1 .. Len(c) + 2
      /\ \A i \in DOMAIN c : e[i] = c[i] /\ c[i] \in Nat
      /\ e[Len(c) + 1] = N + 1
      /\ e[Len(c) + 2] = Barrier
  BY <1>1
<1> HIDE DEF e
<1>3. \A i \in DOMAIN e : i \in DOMAIN c \/ i = Len(c) + 1 \/ i = Len(c) + 2
  BY <1>2
<1>4. ASSUME NEW i \in DOMAIN c
      PROVE  /\ e[i] <= N + 1
             /\ e[i] \in A \cup {N + 1} => i + 1 \in DOMAIN e /\ e[i + 1] = Barrier
             /\ \A j \in DOMAIN e : i < j /\ e[j] # Barrier => e[i] < e[j]
  <2>1. c[i] \in Nat /\ c[i] <= N /\ e[i] = c[i]
    BY <1>2 DEF Sequenced
  <2>2. e[i] <= N + 1 /\ e[i] # N + 1 /\ e[i] < e[Len(c) + 1]
    BY <1>2, <2>1
  <2>3. DOMAIN c \subseteq DOMAIN e
    BY <1>2
  <2>4. e[i] \in A \cup {N + 1} => i + 1 \in DOMAIN e /\ e[i + 1] = Barrier
    <3>1. c[i] \in A => i + 1 \in DOMAIN c /\ c[i + 1] = Barrier
      BY Zenon DEF Sequenced
    <3>2. i + 1 \in DOMAIN c => i + 1 \in DOMAIN e /\ e[i + 1] = c[i + 1]
      BY <1>2, <2>3, Zenon
    <3> QED BY <2>1, <2>2, <3>1, <3>2, Zenon
  <2>5. \A j \in DOMAIN c : i < j /\ e[j] # Barrier => e[i] < e[j]
    BY <1>2, <2>1, Zenon DEF Sequenced
  <2> QED BY <1>2, <1>3, <2>2, <2>4, <2>5, Zenon
<1>5. /\ \A j \in DOMAIN e : ~(Len(c) + 2 < j)
      /\ \A j \in DOMAIN e : Len(c) + 1 < j => j = Len(c) + 2
      /\ (Len(c) + 1) + 1 = Len(c) + 2 /\ Len(c) + 2 \in DOMAIN e /\ N + 1 <= N + 1
  BY <1>2
<1> QED BY <1>1, <1>2, <1>3, <1>4, <1>5, Zenon DEF Sequenced, e

(***************************************************************************)
(* What the calls and the device do to a stream's work.                    *)
(***************************************************************************)

\* A recording call appends at most its own command and barriers.
LEMMA WorkRecorded ==
    ASSUME NEW Q \in SUBSET Submission, NEW c \in Seq(Nat), NEW e \in Seq(Nat),
           NEW hp, NEW hn, NEW tp \in Nat, NEW ex, NEW A, NEW B \in SUBSET Nat, NEW N \in Nat,
           WorkAt(Q, c, hp, tp, ex, A, N, FALSE),
           N < MaxOps, hp => hn, B = A \/ B = A \cup {N + 1}, Sequenced(e, B, N + 1),
           \A j \in DOMAIN c : j \in DOMAIN e /\ e[j] = c[j],
           \A j \in DOMAIN e : j \in DOMAIN c \/ e[j] = N + 1 \/ e[j] = Barrier,
           N + 1 \in B => hn /\ Holds(e, N + 1)
    PROVE  WorkAt(Q, e, hn, tp, ex, B, N + 1, FALSE)
<1>1. /\ A \subseteq 1 .. N /\ ex \subseteq 1 .. N /\ N <= MaxOps
      /\ \A m \in ex, j \in DOMAIN c : c[j] # Barrier => m < c[j]
  BY Zenon DEF WorkAt
<1>2. B \subseteq 1 .. N + 1 /\ ex \subseteq 1 .. N + 1 /\ N + 1 <= MaxOps
  BY <1>1, StreamBounds
<1>3. \A m \in ex, j \in DOMAIN e : e[j] # Barrier => m < e[j]
  <2>1. \A m \in ex : m < N + 1
    BY <1>1
  <2> QED BY <1>1, <2>1, Zenon
<1>4. ASSUME NEW q \in Q
      PROVE  /\ Sequenced(q.cmds, B, N + 1)
             /\ Precedes(q.cmds, e)
             /\ q.cmds = <<>> \/ q.signal <= tp
  <2>1. q.cmds \in Seq(Nat)
    BY Zenon DEF Submission
  <2>2. Sequenced(q.cmds, A, N) /\ Precedes(q.cmds, c) /\ (q.cmds = <<>> \/ q.signal <= tp)
    BY Zenon DEF WorkAt
  <2>3. A \in SUBSET Nat
    BY <1>1
  <2>4. Sequenced(q.cmds, B, N + 1)
    BY <2>1, <2>2, <2>3, SequencedLater, Zenon
  <2>5. \A i \in DOMAIN q.cmds : q.cmds[i] < N + 1
    BY <2>1, <2>2 DEF Sequenced
  <2>6. Precedes(q.cmds, e)
    BY <2>2, <2>5, Zenon DEF Precedes
  <2> QED BY <2>2, <2>4, <2>6, Zenon
<1>5. \A p, q \in Q :
          \/ p = q \/ p.cmds = <<>> \/ q.cmds = <<>>
          \/ p.signal < q.signal /\ Precedes(p.cmds, q.cmds)
          \/ q.signal < p.signal /\ Precedes(q.cmds, p.cmds)
  BY Zenon DEF WorkAt
<1>6. Conserved(Q, e, hn, ex, B, FALSE)
  <2>1. Conserved(Q, c, hp, ex, A, FALSE)
    BY Zenon DEF WorkAt
  <2>2. \A m : Holds(c, m) => Holds(e, m)
    BY Zenon DEF Holds
  <2> QED BY <2>1, <2>2, Zenon DEF Conserved
<1> QED BY <1>2, <1>3, <1>4, <1>5, <1>6, Zenon DEF WorkAt

\* A flush moves the pending commands into a submission that signals the next value.
LEMMA WorkFlushed ==
    ASSUME NEW Q \in SUBSET Submission, NEW c \in Seq(Nat), NEW tp \in Nat,
           NEW hp, NEW ex, NEW A, NEW N \in Nat, WorkAt(Q, c, hp, tp, ex, A, N, FALSE),
           NEW a \in Submission, a.cmds = c, a.signal = tp + 1
    PROVE  WorkAt(Q \cup {a}, <<>>, FALSE, tp + 1, ex, A, N, FALSE)
<1>1. /\ A \subseteq 1 .. N /\ ex \subseteq 1 .. N /\ N <= MaxOps
      /\ Sequenced(c, A, N)
  BY Zenon DEF WorkAt
<1>2. DOMAIN << >> = {}
  OBVIOUS
<1>3. /\ Sequenced(<<>>, A, N)
      /\ \A m \in ex, j \in DOMAIN << >> : FALSE
      /\ \A d : Precedes(d, <<>>)
  BY <1>2, Zenon DEF Sequenced, Precedes
<1>4. ASSUME NEW q \in Q \cup {a}
      PROVE  /\ Sequenced(q.cmds, A, N)
             /\ q.cmds = <<>> \/ q.signal <= tp + 1
  <2>1. CASE q = a
    <3>1. q.signal <= tp + 1
      BY <2>1
    <3> QED BY <1>1, <2>1, <3>1, Zenon
  <2>2. CASE q \in Q
    <3>1. Sequenced(q.cmds, A, N) /\ (q.cmds = <<>> \/ q.signal <= tp)
      BY <2>2, Zenon DEF WorkAt
    <3>2. q.signal \in Nat
      BY <2>2, Zenon DEF Submission
    <3>3. q.signal <= tp => q.signal <= tp + 1
      BY <3>2
    <3> QED BY <3>1, <3>3, Zenon
  <2> QED BY <2>1, <2>2, Zenon
<1>5. \A q \in Q : q.cmds = <<>> \/ (q.signal < a.signal /\ Precedes(q.cmds, a.cmds))
  <2> SUFFICES ASSUME NEW q \in Q, q.cmds # <<>>
               PROVE  q.signal < a.signal /\ Precedes(q.cmds, a.cmds)
    BY Zenon
  <2>1. Precedes(q.cmds, c) /\ q.signal <= tp
    BY Zenon DEF WorkAt
  <2>2. q.signal \in Nat
    BY Zenon DEF Submission
  <2>3. q.signal < a.signal
    BY <2>1, <2>2
  <2> QED BY <2>1, <2>3, Zenon
<1>6. \A p, q \in Q \cup {a} :
          \/ p = q \/ p.cmds = <<>> \/ q.cmds = <<>>
          \/ p.signal < q.signal /\ Precedes(p.cmds, q.cmds)
          \/ q.signal < p.signal /\ Precedes(q.cmds, p.cmds)
  BY <1>5, Zenon DEF WorkAt
<1>7. Conserved(Q \cup {a}, <<>>, FALSE, ex, A, FALSE)
  <2>1. Conserved(Q, c, hp, ex, A, FALSE)
    BY Zenon DEF WorkAt
  <2> QED BY <2>1, Zenon DEF Conserved
<1> QED BY <1>1, <1>3, <1>4, <1>6, <1>7, Zenon DEF WorkAt

\* A submission without commands (a barrier of hrx_stream_wait_on, an alloca), and a
\* timepoint that moves on, change nothing for the commands.
LEMMA WorkQueued ==
    ASSUME NEW Q \in SUBSET Submission, NEW c, NEW hp, NEW tp \in Nat, NEW ex, NEW A,
           NEW N \in Nat, WorkAt(Q, c, hp, tp, ex, A, N, FALSE),
           NEW a \in Submission, a.cmds = <<>>
    PROVE  WorkAt(Q \cup {a}, c, hp, tp, ex, A, N, FALSE)
<1>1. DOMAIN << >> = {}
  OBVIOUS
<1>2. Sequenced(<<>>, A, N) /\ Precedes(<<>>, c)
  BY <1>1, Zenon DEF Sequenced, Precedes
<1>3. Conserved(Q \cup {a}, c, hp, ex, A, FALSE)
  BY Zenon DEF WorkAt, Conserved
<1>4. \A q \in Q \cup {a} :
          /\ Sequenced(q.cmds, A, N)
          /\ Precedes(q.cmds, c)
          /\ q.cmds = <<>> \/ q.signal <= tp
  BY <1>2, Zenon DEF WorkAt
<1>5. \A p, q \in Q \cup {a} :
          \/ p = q \/ p.cmds = <<>> \/ q.cmds = <<>>
          \/ p.signal < q.signal /\ Precedes(p.cmds, q.cmds)
          \/ q.signal < p.signal /\ Precedes(q.cmds, p.cmds)
  BY Zenon DEF WorkAt
<1> QED BY <1>3, <1>4, <1>5, Zenon DEF WorkAt

\* The timepoint of a stream only grows, which keeps every signal below it.
LEMMA WorkAdvanced ==
    ASSUME NEW Q \in SUBSET Submission, NEW c, NEW hp, NEW tp \in Nat, NEW tn \in Nat,
           tp <= tn, NEW ex, NEW A, NEW N \in Nat, NEW dead,
           WorkAt(Q, c, hp, tp, ex, A, N, dead)
    PROVE  WorkAt(Q, c, hp, tn, ex, A, N, dead)
<1>1. \A q \in Q : q.signal \in Nat /\ (q.signal <= tp => q.signal <= tn)
  <2>1. \A q \in Q : q.signal \in Nat
    BY Zenon DEF Submission
  <2> QED BY <2>1
<1> QED BY <1>1, Zenon DEF WorkAt

\* Drop discards the pending commands; they come after everything in flight.
LEMMA WorkDropped ==
    ASSUME NEW Q \in SUBSET Submission, NEW c \in Seq(Nat), NEW hp, NEW tp, NEW ex, NEW A,
           NEW N \in Nat, WorkAt(Q, c, hp, tp, ex, A, N, FALSE)
    PROVE  WorkAt(Q, <<>>, hp, tp, ex, A, N, TRUE)
<1>1. DOMAIN << >> = {}
  OBVIOUS
<1>2. /\ Sequenced(<<>>, A, N)
      /\ \A m \in ex, j \in DOMAIN << >> : FALSE
      /\ \A d : Precedes(d, <<>>)
  BY <1>1, Zenon DEF Sequenced, Precedes
<1>3. ASSUME NEW m \in A, Holds(c, m), NEW q \in Q, NEW i \in DOMAIN q.cmds
      PROVE  q.cmds[i] < m
  <2>1. m # Barrier
    BY DEF WorkAt, Barrier
  <2> QED BY <1>3, <2>1, Zenon DEF WorkAt, Precedes, Holds
<1>4. Conserved(Q, <<>>, hp, ex, A, TRUE)
  BY <1>3, Zenon DEF WorkAt, Conserved
<1> QED BY <1>2, <1>4, Zenon DEF WorkAt

\* The device executes a command in flight.
LEMMA WorkExecuted ==
    ASSUME NEW Q \in SUBSET Submission, NEW c, NEW hp, NEW tp, NEW ex, NEW A,
           NEW N \in Nat, NEW dead, WorkAt(Q, c, hp, tp, ex, A, N, dead),
           NEW q \in Q, NEW i \in DOMAIN q.cmds, q.cmds[i] # Barrier
    PROVE  WorkAt(Q, c, hp, tp, ex \cup {q.cmds[i]}, A, N, dead)
<1>1. q.cmds \in Seq(Nat)
  BY Zenon DEF Submission
<1>2. q.cmds[i] \in Nat /\ q.cmds[i] <= N
  <2>1. Sequenced(q.cmds, A, N)
    BY Zenon DEF WorkAt
  <2> QED BY <1>1, <2>1 DEF Sequenced
<1>3. q.cmds[i] \in 1 .. N
  BY <1>2 DEF Barrier
<1>4. \A j \in DOMAIN c : c[j] # Barrier => q.cmds[i] < c[j]
  BY Zenon DEF WorkAt, Precedes
<1>5. Conserved(Q, c, hp, ex \cup {q.cmds[i]}, A, dead)
  BY Zenon DEF WorkAt, Conserved
<1> QED BY <1>3, <1>4, <1>5, Zenon DEF WorkAt

\* A submission all of whose commands are executed leaves the queue.
LEMMA WorkRetired ==
    ASSUME NEW Q \in SUBSET Submission, NEW c, NEW hp, NEW tp, NEW ex, NEW A,
           NEW N \in Nat, NEW dead, WorkAt(Q, c, hp, tp, ex, A, N, dead),
           NEW q \in Q, \A i \in DOMAIN q.cmds : q.cmds[i] = Barrier \/ q.cmds[i] \in ex
    PROVE  WorkAt(Q \ {q}, c, hp, tp, ex, A, N, dead)
<1>1. Barrier \notin A
  BY DEF WorkAt, Barrier
<1>2. \A m \in A : Holds(q.cmds, m) => m \in ex
  BY <1>1, Zenon DEF Holds
<1>3. Conserved(Q \ {q}, c, hp, ex, A, dead)
  BY <1>2, Zenon DEF WorkAt, Conserved
<1> QED BY <1>3, Zenon DEF WorkAt

(***************************************************************************)
(* Every step keeps the invariant: first the streams it leaves alone.      *)
(***************************************************************************)

\* What a step leaves as it was when it is not about the commands of stream r.
KeepsWork(r) ==
    /\ OwnQueue(r)' = OwnQueue(r)
    /\ pending_cb'[r].cmds = pending_cb[r].cmds
    /\ pending_cb'[r].state = "null" => pending_cb[r].state = "null"
    /\ has_pending_work'[r] = has_pending_work[r]
    /\ timepoint[r] <= timepoint'[r]
    /\ executed'[r] = executed[r] /\ accepted'[r] = accepted[r] /\ recorded'[r] = recorded[r]
    /\ Dead(r)' = Dead(r)

\* A step that keeps the work of a stream keeps its invariant.
LEMMA KeptWork ==
    ASSUME TypeOK, TypeOK', NEW r \in Streams, StreamWork(r), KeepsWork(r)
    PROVE  StreamWork(r)'
<1>1. /\ OwnQueue(r) \in SUBSET Submission /\ timepoint[r] \in Nat /\ timepoint'[r] \in Nat
      /\ recorded[r] \in Nat
  BY Zenon DEF TypeOK, OwnQueue
<1>2. WorkAt(OwnQueue(r), pending_cb[r].cmds, has_pending_work[r], timepoint'[r],
             executed[r], accepted[r], recorded[r], Dead(r))
  BY <1>1, WorkAdvanced, Zenon DEF StreamWork, KeepsWork
<1> QED BY <1>2, Zenon DEF StreamWork, KeepsWork

\* A flush submits nothing for another stream.
LEMMA FlushElsewhere ==
    ASSUME TypeOK, NEW s \in Streams, NEW r \in Streams, r # s
    PROVE  /\ {q \in FlushedQueue(s) : q.s = r} = OwnQueue(r)
           /\ PendingTaken(s) => /\ pending_cb'[r] = pending_cb[r]
                                 /\ has_pending_work'[r] = has_pending_work[r]
           /\ FlushFails(s) => pending_cb'[r] = pending_cb[r]
<1>1. FlushSubmission(s).s = s
  BY Zenon DEF FlushSubmission, NewSubmission
<1>2. {q \in FlushedQueue(s) : q.s = r} = OwnQueue(r)
  BY <1>1, Zenon DEF FlushedQueue, OwnQueue
<1> QED BY <1>2, Zenon DEF PendingTaken, FlushFails, TypeOK

\* A call or a return on stream s, or a step of the device on it, keeps the work of
\* every other stream.
LEMMA OthersKept ==
    ASSUME TypeOK, NEW s \in Streams, HostCall(s) \/ HostReturn(s) \/ Device(s),
           NEW r \in Streams, r # s
    PROVE  KeepsWork(r)
<1> DEFINE Same == /\ OwnQueue(r)' = OwnQueue(r)
                   /\ pending_cb'[r] = pending_cb[r]
                   /\ has_pending_work'[r] = has_pending_work[r]
                   /\ timepoint'[r] = timepoint[r]
                   /\ executed'[r] = executed[r] /\ accepted'[r] = accepted[r]
                   /\ recorded'[r] = recorded[r] /\ call'[r] = call[r]
<1>1. Same => KeepsWork(r)
  <2>1. timepoint[r] <= timepoint[r]
    BY DEF TypeOK
  <2> QED BY <2>1, Zenon DEF KeepsWork, Dead
<1>2. queue' = queue => OwnQueue(r)' = OwnQueue(r)
  BY Zenon DEF OwnQueue
<1>3. /\ flush_inner(s) => /\ OwnQueue(r)' = OwnQueue(r)
                           /\ pending_cb'[r] = pending_cb[r]
                           /\ has_pending_work'[r] = has_pending_work[r]
                           /\ timepoint'[r] = timepoint[r]
                           /\ UNCHANGED <<executed, accepted, recorded>>
  <2> SUFFICES ASSUME flush_inner(s)
               PROVE  /\ OwnQueue(r)' = OwnQueue(r)
                      /\ pending_cb'[r] = pending_cb[r]
                      /\ has_pending_work'[r] = has_pending_work[r]
                      /\ timepoint'[r] = timepoint[r]
                      /\ UNCHANGED <<executed, accepted, recorded>>
    BY Zenon
  <2>1. PendingTaken(s) /\ queue' = FlushedQueue(s) /\ timepoint'[r] = timepoint[r]
    BY Zenon DEF flush_inner, TypeOK
  <2>2. OwnQueue(r)' = OwnQueue(r)
    BY <2>1, FlushElsewhere, Zenon DEF OwnQueue
  <2> QED BY <2>1, <2>2, FlushElsewhere, Zenon DEF PendingTaken
<1>4. FlushFails(s) => /\ OwnQueue(r)' = OwnQueue(r)
                       /\ pending_cb'[r] = pending_cb[r]
                       /\ UNCHANGED <<has_pending_work, timepoint, executed, accepted, recorded>>
  BY FlushElsewhere, Zenon DEF FlushFails, OwnQueue, deviceVars, history
<1>5. ASSUME NEW t, NEW w, FlushThenQueue(s, t, w)
      PROVE  /\ OwnQueue(r)' = OwnQueue(r)
             /\ pending_cb'[r] = pending_cb[r]
             /\ has_pending_work'[r] = has_pending_work[r]
             /\ UNCHANGED <<executed, accepted, recorded>>
  <2> DEFINE a == NewSubmission(FlushedCount(s) + 1, s, t, w, FlushedTimepoint(s) + 1, <<>>)
  <2>1. a.s = s
    BY Zenon DEF NewSubmission
  <2>2. queue' = FlushedQueue(s) \cup {a}
    BY <1>5, Zenon DEF FlushThenQueue
  <2> HIDE DEF a
  <2>3. OwnQueue(r)' = {q \in FlushedQueue(s) : q.s = r}
    BY <2>1, <2>2, Zenon DEF OwnQueue
  <2> QED BY <1>5, <2>3, FlushElsewhere, Zenon DEF FlushThenQueue, PendingTaken
<1>6. CASE \/ hrx_stream_create(s) \/ hrx_stream_retain(s) \/ hrx_stream_wait(s)
           \/ hrx_stream_advance_timeline(s) \/ hrx_semaphore_signal(s)
  <2>1. Same
    BY <1>2, <1>6, Zenon DEF hrx_stream_create, hrx_stream_retain, hrx_stream_wait,
        hrx_stream_advance_timeline, hrx_semaphore_signal, TypeOK, hostVars, deviceVars, history
  <2> QED BY <1>1, <2>1, Zenon
<1>7. ASSUME CanRecord(s),
             \/ BeginFails(s) \/ NullBinding(s) \/ CommandFails(s)
             \/ OrderingBarrierFails(s) \/ Recorded(s)
             \/ /\ pending_cb' = [pending_cb EXCEPT ![s] = Appended(s, <<Barrier>>)]
                /\ has_pending_work' = [has_pending_work EXCEPT ![s] = TRUE]
                /\ recorded' = [recorded EXCEPT ![s] = @ + 1]
                /\ UNCHANGED <<accepted, faults>>
      PROVE  Same
  <2>1. UNCHANGED <<timepoint, call, queue, executed>>
    BY <1>7, Zenon DEF CanRecord, deviceVars
  <2>2. /\ pending_cb'[r] = pending_cb[r] /\ has_pending_work'[r] = has_pending_work[r]
        /\ accepted'[r] = accepted[r] /\ recorded'[r] = recorded[r]
    BY <1>7, Zenon DEF BeginFails, NullBinding, CommandFails, OrderingBarrierFails, Recorded, TypeOK
  <2> QED BY <1>2, <2>1, <2>2, Zenon
<1>8. CASE \/ hrx_stream_fill_buffer(s) \/ hrx_stream_copy_buffer(s)
           \/ hrx_stream_update_buffer(s) \/ hrx_stream_dispatch(s)
           \/ hrx_stream_execution_barrier(s)
  <2>1. Same
    BY <1>7, <1>8, Zenon DEF hrx_stream_fill_buffer, hrx_stream_copy_buffer,
        hrx_stream_update_buffer, hrx_stream_dispatch, hrx_stream_execution_barrier
  <2> QED BY <1>1, <2>1, Zenon
<1>9. CASE hrx_stream_flush(s) \/ hrx_stream_synchronize(s) \/ hrx_stream_release(s)
  <2>1. call'[r] = call[r]
    BY <1>9, Zenon DEF hrx_stream_flush, hrx_stream_synchronize, hrx_stream_release, TypeOK
  <2>2. \/ FlushFails(s) \/ flush_inner(s)
        \/ UNCHANGED <<timepoint, pending_cb, has_pending_work, deviceVars, history>>
    BY <1>9, Zenon DEF hrx_stream_flush, hrx_stream_synchronize, hrx_stream_release
  <2>3. Same
    BY <1>2, <1>3, <1>4, <2>1, <2>2, Zenon DEF deviceVars, history
  <2> QED BY <1>1, <2>3, Zenon
<1>10. CASE hrx_stream_wait_on(s) \/ hrx_buffer_allocate(s)
  <2>1. call'[r] = call[r]
    BY <1>10, Zenon DEF hrx_stream_wait_on, hrx_buffer_allocate, FlushThenRefused, TypeOK
  <2>2. \/ FlushFails(s) \/ flush_inner(s)
        \/ \E t, w : FlushThenQueue(s, t, w) /\ timepoint'[r] = timepoint[r]
    BY <1>10, Zenon DEF hrx_stream_wait_on, hrx_buffer_allocate, FlushThenRefused, TypeOK
  <2>3. Same
    BY <1>3, <1>4, <1>5, <2>1, <2>2, Zenon
  <2> QED BY <1>1, <2>3, Zenon
<1>11. CASE HostReturn(s)
  <2>1. Same
    BY <1>2, <1>11, Zenon DEF HostReturn, WaitReturns, AllocateReturns, DropReturns, TypeOK,
        deviceVars, history
  <2> QED BY <1>1, <2>1, Zenon
<1>12. CASE DeviceExecute(s)
  <2>1. Same
    BY <1>2, <1>12, Zenon DEF DeviceExecute, TypeOK, hostVars, history
  <2> QED BY <1>1, <2>1, Zenon
<1>13. CASE DeviceRetire(s)
  <2>1. Same
    BY <1>13, Zenon DEF DeviceRetire, OwnQueue, TypeOK, hostVars, history
  <2> QED BY <1>1, <2>1, Zenon
<1> QED BY <1>6, <1>8, <1>9, <1>10, <1>11, <1>12, <1>13, Zenon DEF HostCall, Device

(***************************************************************************)
(* Then the stream a step is about.                                        *)
(***************************************************************************)

\* The values of a stream have their types.
LEMMA WorkTypes ==
    ASSUME TypeOK, NEW s \in Streams
    PROVE  /\ OwnQueue(s) \in SUBSET Submission
           /\ pending_cb[s].cmds \in Seq(Nat)
           /\ timepoint[s] \in Nat
           /\ executed[s] \in SUBSET Nat
           /\ accepted[s] \in SUBSET Nat
           /\ recorded[s] \in Nat
BY Zenon DEF TypeOK, OwnQueue, CommandBuffer

\* The absence of a command buffer has no command.
LEMMA NoCbEmpty == NoCb.state = "null" /\ NoCb.cmds = <<>>
BY DEF NoCb

\* begin_cb changes no command.
LEMMA BeginKeeps ==
    ASSUME NEW s \in Streams, StreamWork(s)
    PROVE  begin_cb(s).cmds = pending_cb[s].cmds /\ begin_cb(s).state # "null"
BY Zenon DEF begin_cb, StreamWork

\* A recording call, whatever part of it fails.
LEMMA RecordWork ==
    ASSUME TypeOK, TypeOK', NEW s \in Streams, StreamWork(s), CanRecord(s),
           \/ BeginFails(s) \/ NullBinding(s) \/ CommandFails(s)
           \/ OrderingBarrierFails(s) \/ Recorded(s)
           \/ /\ pending_cb' = [pending_cb EXCEPT ![s] = Appended(s, <<Barrier>>)]
              /\ has_pending_work' = [has_pending_work EXCEPT ![s] = TRUE]
              /\ recorded' = [recorded EXCEPT ![s] = @ + 1]
              /\ UNCHANGED <<accepted, faults>>
    PROVE  StreamWork(s)'
<1> DEFINE c == pending_cb[s].cmds
           N == recorded[s]
           A == accepted[s]
<1>1. /\ OwnQueue(s) \in SUBSET Submission /\ c \in Seq(Nat) /\ timepoint[s] \in Nat
      /\ N \in Nat /\ A \in SUBSET Nat
  BY WorkTypes, Zenon
<1>2. /\ UNCHANGED <<timepoint, call, queue, executed>> /\ call[s] = "idle" /\ N < MaxOps
      /\ OwnQueue(s)' = OwnQueue(s) /\ Dead(s) = FALSE /\ Dead(s)' = FALSE
  <2>1. UNCHANGED <<timepoint, call, queue, executed>> /\ call[s] = "idle" /\ N < MaxOps
    BY Zenon DEF CanRecord, Idle, deviceVars
  <2>2. OwnQueue(s)' = OwnQueue(s)
    BY <2>1, Zenon DEF OwnQueue
  <2>3. Dead(s) = FALSE /\ Dead(s)' = FALSE
    BY <2>1 DEF Dead
  <2> QED BY <2>1, <2>2, <2>3, Zenon
<1>3. /\ WorkAt(OwnQueue(s), c, has_pending_work[s], timepoint[s], executed[s], A, N, FALSE)
      /\ A \in SUBSET (1 .. N) /\ Sequenced(c, A, N)
  BY <1>2, Zenon DEF StreamWork, WorkAt
<1>4. begin_cb(s).cmds = c /\ begin_cb(s).state # "null"
  BY BeginKeeps, Zenon
<1>5. /\ pending_cb \in [Streams -> CommandBuffer] /\ has_pending_work \in [Streams -> BOOLEAN]
      /\ recorded \in [Streams -> Nat] /\ accepted \in [Streams -> SUBSET Nat]
  BY Zenon DEF TypeOK
<1>6. CASE BeginFails(s) \/ NullBinding(s) \/ CommandFails(s)
  <2>1. /\ UNCHANGED <<has_pending_work, recorded, accepted>>
        /\ pending_cb' = pending_cb \/ pending_cb' = [pending_cb EXCEPT ![s] = begin_cb(s)]
    BY <1>6, Zenon DEF BeginFails, NullBinding, CommandFails
  <2>2. KeepsWork(s)
    <3>1. timepoint[s] <= timepoint'[s]
      BY <1>1, <1>2
    <3> QED BY <1>2, <1>4, <1>5, <2>1, <3>1, Zenon DEF KeepsWork
  <2> QED BY <2>2, KeptWork, Zenon
<1> HIDE DEF c, N, A
<1>7. ASSUME NEW d \in {<<N + 1>>, <<N + 1, Barrier>>, <<Barrier>>}
      PROVE  /\ c \o d \in Seq(Nat)
             /\ \A j \in DOMAIN c : j \in DOMAIN (c \o d) /\ (c \o d)[j] = c[j]
             /\ \A j \in DOMAIN (c \o d) :
                  j \in DOMAIN c \/ (c \o d)[j] = N + 1 \/ (c \o d)[j] = Barrier
  <2>1. d \in Seq(Nat) /\ \A k \in DOMAIN d : d[k] = N + 1 \/ d[k] = Barrier
    BY <1>1, <1>7, AppendedCommands, Zenon
  <2>2. c \in Seq(Nat) /\ N \in Nat
    BY <1>1, Zenon
  <2> QED BY <2>1, <2>2, AppendKeeps
<1>8. ASSUME NEW d, NEW hn, NEW B, StreamWork(s),
             pending_cb' = [pending_cb EXCEPT ![s] = Appended(s, d)],
             has_pending_work'[s] = hn, recorded' = [recorded EXCEPT ![s] = @ + 1],
             accepted'[s] = B,
             WorkAt(OwnQueue(s), c \o d, hn, timepoint[s], executed[s], B, N + 1, FALSE)
      PROVE  StreamWork(s)'
  <2>1. pending_cb'[s].cmds = c \o d /\ pending_cb'[s].state # "null" /\ recorded'[s] = N + 1
    BY <1>4, <1>5, <1>8, Zenon DEF Appended, N
  <2> QED BY <1>2, <1>8, <2>1, Zenon DEF StreamWork
<1>9. CASE OrderingBarrierFails(s)
  <2>1. Sequenced(c \o <<N + 1>>, A, N + 1)
    BY <1>1, <1>3, SequencedCommand, Zenon
  <2>2. N + 1 \notin A
    BY <1>1, <1>3
  <2>3. WorkAt(OwnQueue(s), c \o <<N + 1>>, has_pending_work[s], timepoint[s], executed[s],
               A, N + 1, FALSE)
    <3> DEFINE e == c \o <<N + 1>>
    <3>1. /\ e \in Seq(Nat)
          /\ \A j \in DOMAIN c : j \in DOMAIN e /\ e[j] = c[j]
          /\ \A j \in DOMAIN e : j \in DOMAIN c \/ e[j] = N + 1 \/ e[j] = Barrier
          /\ Sequenced(e, A, N + 1)
      BY <1>7, <2>1, Zenon
    <3> HIDE DEF e
    <3>2. has_pending_work[s] => has_pending_work[s]
      OBVIOUS
    <3>3. WorkAt(OwnQueue(s), e, has_pending_work[s], timepoint[s], executed[s], A, N + 1, FALSE)
      BY <1>1, <1>2, <1>3, <2>2, <3>1, <3>2, WorkRecorded, Zenon
    <3> QED BY <3>3, Zenon DEF e
  <2>4. has_pending_work'[s] = has_pending_work[s] /\ accepted'[s] = A
    BY <1>9, Zenon DEF OrderingBarrierFails, A
  <2> QED BY <1>8, <1>9, <2>3, <2>4, Zenon DEF OrderingBarrierFails, N
<1>10. CASE Recorded(s)
  <2>1. Sequenced(c \o <<N + 1, Barrier>>, A \cup {N + 1}, N + 1)
    BY <1>1, <1>3, SequencedAccepted, Zenon
  <2>2. Holds(c \o <<N + 1, Barrier>>, N + 1)
    <3>1. /\ Len(c) + 1 \in DOMAIN (c \o <<N + 1, Barrier>>)
          /\ (c \o <<N + 1, Barrier>>)[Len(c) + 1] = N + 1
      BY <1>1 DEF Barrier
    <3> QED BY <3>1, Zenon DEF Holds
  <2>3. A \cup {N + 1} \in SUBSET Nat
    BY <1>1
  <2>4. WorkAt(OwnQueue(s), c \o <<N + 1, Barrier>>, TRUE, timepoint[s], executed[s],
               A \cup {N + 1}, N + 1, FALSE)
    BY <1>1, <1>2, <1>3, <1>7, <2>1, <2>2, <2>3, WorkRecorded, Zenon
  <2>5. has_pending_work'[s] = TRUE /\ accepted'[s] = A \cup {N + 1}
    BY <1>5, <1>10, Zenon DEF Recorded, A, N
  <2> QED BY <1>8, <1>10, <2>4, <2>5, Zenon DEF Recorded, N
<1>11. CASE /\ pending_cb' = [pending_cb EXCEPT ![s] = Appended(s, <<Barrier>>)]
            /\ has_pending_work' = [has_pending_work EXCEPT ![s] = TRUE]
            /\ recorded' = [recorded EXCEPT ![s] = @ + 1]
            /\ UNCHANGED <<accepted, faults>>
  <2>1. Sequenced(c \o <<Barrier>>, A, N + 1)
    BY <1>1, <1>3, SequencedBarrier, Zenon
  <2>2. N + 1 \notin A
    BY <1>1, <1>3
  <2>3. WorkAt(OwnQueue(s), c \o <<Barrier>>, TRUE, timepoint[s], executed[s], A, N + 1, FALSE)
    BY <1>1, <1>2, <1>3, <1>7, <2>1, <2>2, WorkRecorded, Zenon
  <2>4. has_pending_work'[s] = TRUE /\ accepted'[s] = A
    BY <1>5, <1>11, Zenon DEF A
  <2> QED BY <1>8, <1>11, <2>3, <2>4, Zenon
<1> QED BY <1>6, <1>9, <1>10, <1>11, Zenon

\* A flush that succeeds or has nothing to do moves the pending commands to the queue.
LEMMA FlushWork ==
    ASSUME TypeOK, NEW s \in Streams, StreamWork(s), Dead(s) = FALSE, PendingTaken(s)
    PROVE  /\ pending_cb'[s].state = "null" => pending_cb'[s].cmds = <<>>
           /\ WorkAt({q \in FlushedQueue(s) : q.s = s}, pending_cb'[s].cmds,
                     has_pending_work'[s], FlushedTimepoint(s),
                     executed[s], accepted[s], recorded[s], FALSE)
<1>1. /\ OwnQueue(s) \in SUBSET Submission /\ pending_cb[s].cmds \in Seq(Nat)
      /\ timepoint[s] \in Nat /\ recorded[s] \in Nat
  BY WorkTypes, Zenon
<1>2. /\ pending_cb[s].state = "null" => pending_cb[s].cmds = <<>>
      /\ WorkAt(OwnQueue(s), pending_cb[s].cmds, has_pending_work[s], timepoint[s],
                executed[s], accepted[s], recorded[s], FALSE)
  BY Zenon DEF StreamWork
<1>3. CASE ~MustFlush(s)
  <2>1. /\ {q \in FlushedQueue(s) : q.s = s} = OwnQueue(s)
        /\ FlushedTimepoint(s) = timepoint[s]
        /\ UNCHANGED <<pending_cb, has_pending_work>>
    BY <1>3, Zenon DEF FlushedQueue, FlushedTimepoint, OwnQueue, PendingTaken
  <2> QED BY <1>2, <2>1, Zenon
<1>4. CASE MustFlush(s)
  <2>1. /\ FlushSubmission(s) \in Submission /\ FlushSubmission(s).s = s
        /\ FlushSubmission(s).cmds = pending_cb[s].cmds
        /\ FlushSubmission(s).signal = timepoint[s] + 1
    BY DEF FlushSubmission, NewSubmission, Submission, TypeOK, CommandBuffer
  <2>2. WorkAt(OwnQueue(s) \cup {FlushSubmission(s)}, <<>>, FALSE, timepoint[s] + 1,
               executed[s], accepted[s], recorded[s], FALSE)
    BY <1>1, <1>2, <2>1, WorkFlushed, Zenon
  <2>3. /\ {q \in FlushedQueue(s) : q.s = s} = OwnQueue(s) \cup {FlushSubmission(s)}
        /\ FlushedTimepoint(s) = timepoint[s] + 1
    BY <1>4, <2>1, Zenon DEF FlushedQueue, FlushedTimepoint, OwnQueue
  <2>4. pending_cb'[s] = NoCb /\ has_pending_work'[s] = FALSE
    BY <1>4, Zenon DEF PendingTaken, TypeOK
  <2> QED BY <2>2, <2>3, <2>4, NoCbEmpty, Zenon
<1> QED BY <1>3, <1>4, Zenon

\* The same for a flush and the submission without commands that follows it, whether
\* the timepoint moves with that submission or not.
LEMMA QueueWork ==
    ASSUME TypeOK, NEW s \in Streams, StreamWork(s), Dead(s) = FALSE,
           NEW t \in Streams, NEW w \in Nat, FlushThenQueue(s, t, w),
           NEW n \in {FlushedTimepoint(s), FlushedTimepoint(s) + 1}
    PROVE  /\ pending_cb'[s].state = "null" => pending_cb'[s].cmds = <<>>
           /\ WorkAt(OwnQueue(s)', pending_cb'[s].cmds, has_pending_work'[s], n,
                     executed[s], accepted[s], recorded[s], FALSE)
<1> DEFINE a == NewSubmission(FlushedCount(s) + 1, s, t, w, FlushedTimepoint(s) + 1, <<>>)
           Q == {q \in FlushedQueue(s) : q.s = s}
<1>1. PendingTaken(s) /\ queue' = FlushedQueue(s) \cup {a}
  BY Zenon DEF FlushThenQueue
<1>2. /\ a \in Submission /\ FlushedTimepoint(s) \in Nat
      /\ FlushedQueue(s) \in SUBSET Submission /\ recorded[s] \in Nat
  BY FlushTypes, WorkTypes, Zenon
<1>3. a.s = s /\ a.cmds = <<>>
  BY Zenon DEF NewSubmission
<1> HIDE DEF a
<1>4. Q \cup {a} = OwnQueue(s)' /\ Q \in SUBSET Submission
  BY <1>1, <1>2, <1>3, Zenon DEF OwnQueue
<1>5. /\ pending_cb'[s].state = "null" => pending_cb'[s].cmds = <<>>
      /\ WorkAt(Q, pending_cb'[s].cmds, has_pending_work'[s], FlushedTimepoint(s),
                executed[s], accepted[s], recorded[s], FALSE)
  BY <1>1, FlushWork, Zenon
<1> HIDE DEF Q
<1>6. WorkAt(OwnQueue(s)', pending_cb'[s].cmds, has_pending_work'[s], FlushedTimepoint(s),
             executed[s], accepted[s], recorded[s], FALSE)
  <2>1. WorkAt(Q \cup {a}, pending_cb'[s].cmds, has_pending_work'[s], FlushedTimepoint(s),
               executed[s], accepted[s], recorded[s], FALSE)
    BY <1>2, <1>3, <1>4, <1>5, WorkQueued, Zenon
  <2> QED BY <1>4, <2>1, Zenon
<1>7. n \in Nat /\ FlushedTimepoint(s) <= n /\ OwnQueue(s)' \in SUBSET Submission
  BY <1>2, <1>4
<1> QED BY <1>2, <1>5, <1>6, <1>7, WorkAdvanced, Zenon

\* A flush that failed leaves the commands where they were.
LEMMA FlushFailsWork ==
    ASSUME TypeOK, TypeOK', NEW s \in Streams, StreamWork(s), FlushFails(s),
           Dead(s)' = Dead(s)
    PROVE  StreamWork(s)'
<1>1. /\ UNCHANGED <<timepoint, has_pending_work, queue, executed, accepted, recorded>>
      /\ OwnQueue(s)' = OwnQueue(s)
  BY Zenon DEF FlushFails, deviceVars, history, OwnQueue
<1>2. \/ pending_cb' = pending_cb
      \/ pending_cb' = [pending_cb EXCEPT ![s] = [pending_cb[s] EXCEPT !.state = "ended"]]
  BY Zenon DEF FlushFails
<1>3. pending_cb \in [Streams -> CommandBuffer] /\ pending_cb[s] \in CommandBuffer
  BY Zenon DEF TypeOK
<1>4. /\ [pending_cb[s] EXCEPT !.state = "ended"].cmds = pending_cb[s].cmds
      /\ [pending_cb[s] EXCEPT !.state = "ended"].state = "ended"
  BY <1>3, Zenon DEF CommandBuffer
<1>5. /\ pending_cb'[s].cmds = pending_cb[s].cmds
      /\ pending_cb'[s].state = "null" => pending_cb[s].state = "null"
  BY <1>2, <1>3, <1>4, Zenon
<1>6. timepoint[s] <= timepoint'[s]
  BY <1>1 DEF TypeOK
<1>7. KeepsWork(s)
  BY <1>1, <1>5, <1>6, Zenon DEF KeepsWork
<1> QED BY <1>7, KeptWork, Zenon

\* Every step on a stream keeps the invariant of that stream.
LEMMA OwnStep ==
    ASSUME TypeOK, TypeOK', NEW s \in Streams, StreamWork(s),
           HostCall(s) \/ HostReturn(s) \/ Device(s)
    PROVE  StreamWork(s)'
<1>1. /\ OwnQueue(s) \in SUBSET Submission /\ pending_cb[s].cmds \in Seq(Nat)
      /\ timepoint[s] \in Nat /\ recorded[s] \in Nat
  BY WorkTypes, Zenon
<1>2. /\ timepoint \in [Streams -> Nat] /\ call \in [Streams -> Calls]
      /\ pending_cb \in [Streams -> CommandBuffer] /\ executed \in [Streams -> SUBSET Nat]
  BY Zenon DEF TypeOK
<1>3. /\ timepoint[s] <= timepoint[s] /\ timepoint[s] <= timepoint[s] + 1
  BY <1>1
<1>4. Idle(s) => Dead(s) = FALSE
  BY DEF Idle, Dead
<1>5. ASSUME flush_inner(s), Idle(s), call'[s] \in {"idle", "wait", "drop"} PROVE StreamWork(s)'
  <2>1. /\ PendingTaken(s) /\ Dead(s) = FALSE /\ Dead(s)' = FALSE
        /\ OwnQueue(s)' = {q \in FlushedQueue(s) : q.s = s}
        /\ timepoint'[s] = FlushedTimepoint(s) /\ UNCHANGED <<executed, accepted, recorded>>
    <3>1. Dead(s)' = FALSE
      BY <1>5 DEF Dead
    <3> QED BY <1>2, <1>4, <1>5, <3>1, Zenon DEF flush_inner, PendingTaken, OwnQueue
  <2> QED BY <2>1, FlushWork, Zenon DEF StreamWork
<1>6. ASSUME UNCHANGED <<queue, pending_cb, has_pending_work, executed, accepted, recorded>>,
             timepoint[s] <= timepoint'[s], Dead(s)' = Dead(s)
      PROVE  StreamWork(s)'
  <2>1. KeepsWork(s)
    BY <1>6, Zenon DEF KeepsWork, OwnQueue
  <2> QED BY <2>1, KeptWork, Zenon
<1>7. CASE \/ hrx_stream_create(s) \/ hrx_stream_retain(s) \/ hrx_stream_wait(s)
           \/ hrx_stream_advance_timeline(s) \/ hrx_semaphore_signal(s)
           \/ WaitReturns(s) \/ AllocateReturns(s)
  <2>1. UNCHANGED <<queue, pending_cb, has_pending_work, executed, accepted, recorded>>
    BY <1>7, Zenon DEF hrx_stream_create, hrx_stream_retain, hrx_stream_wait, WaitReturns,
        AllocateReturns, hrx_stream_advance_timeline, hrx_semaphore_signal, hostVars, deviceVars,
        history
  <2>2. timepoint'[s] = timepoint[s] \/ timepoint'[s] = timepoint[s] + 1
    BY <1>2, <1>7, Zenon DEF hrx_stream_create, hrx_stream_retain, hrx_stream_wait, WaitReturns,
        AllocateReturns, hrx_stream_advance_timeline, hrx_semaphore_signal, hostVars
  <2>3. Dead(s)' = Dead(s)
    <3>1. \/ call'[s] = call[s]
          \/ /\ call[s] \in {"none", "idle", "wait", "alloc"}
             /\ call'[s] \in {"idle", "wait"}
      BY <1>2, <1>7, Zenon DEF hrx_stream_create, hrx_stream_retain, hrx_stream_wait, WaitReturns,
          AllocateReturns, hrx_stream_advance_timeline, hrx_semaphore_signal, hostVars, Idle
    <3> QED BY <3>1 DEF Dead
  <2> QED BY <1>3, <1>6, <2>1, <2>2, <2>3, Zenon
<1>8. CASE \/ hrx_stream_fill_buffer(s) \/ hrx_stream_copy_buffer(s)
           \/ hrx_stream_update_buffer(s) \/ hrx_stream_dispatch(s)
           \/ hrx_stream_execution_barrier(s)
  BY <1>8, RecordWork, Zenon DEF hrx_stream_fill_buffer, hrx_stream_copy_buffer,
      hrx_stream_update_buffer, hrx_stream_dispatch, hrx_stream_execution_barrier
<1>9. CASE hrx_stream_flush(s) \/ hrx_stream_synchronize(s)
  <2>1. Idle(s) /\ call'[s] \in {"idle", "wait"}
    BY <1>2, <1>9, Zenon DEF hrx_stream_flush, hrx_stream_synchronize, Idle
  <2>2. Dead(s)' = Dead(s)
    BY <1>4, <2>1 DEF Dead
  <2>3. FlushFails(s) \/ flush_inner(s)
    BY <1>9, Zenon DEF hrx_stream_flush, hrx_stream_synchronize
  <2> QED BY <1>5, <2>1, <2>2, <2>3, FlushFailsWork, Zenon
<1>10. CASE hrx_stream_release(s)
  <2>1. CASE UNCHANGED <<timepoint, pending_cb, has_pending_work, call, deviceVars, history>>
    BY <1>3, <1>6, <2>1, Zenon DEF Dead, deviceVars, history
  <2>2. CASE call' = [call EXCEPT ![s] = "drop"] /\ (FlushFails(s) \/ flush_inner(s))
    <3>1. Idle(s) /\ call'[s] = "drop"
      BY <1>2, <1>10, <2>2, Zenon DEF hrx_stream_release
    <3>2. Dead(s)' = Dead(s)
      BY <1>4, <3>1 DEF Dead
    <3> QED BY <1>5, <2>2, <3>1, <3>2, FlushFailsWork, Zenon
  <2> QED BY <1>10, <2>1, <2>2, Zenon DEF hrx_stream_release
<1>11. CASE hrx_stream_wait_on(s) \/ hrx_buffer_allocate(s)
  <2>1. Idle(s) /\ call'[s] \in {"idle", "alloc"}
    BY <1>2, <1>11, Zenon DEF hrx_stream_wait_on, hrx_buffer_allocate, FlushThenRefused, Idle
  <2>2. Dead(s)' = FALSE /\ Dead(s) = FALSE
    BY <1>4, <2>1 DEF Dead
  <2>3. ASSUME NEW t \in Streams, NEW w \in Nat, FlushThenQueue(s, t, w),
               timepoint'[s] \in {FlushedTimepoint(s), FlushedTimepoint(s) + 1}
        PROVE  StreamWork(s)'
    <3>1. UNCHANGED <<executed, accepted, recorded>>
      BY <2>3, Zenon DEF FlushThenQueue, PendingTaken
    <3> QED BY <2>2, <2>3, <3>1, QueueWork, Zenon DEF StreamWork
  <2>4. \/ FlushFails(s) \/ (flush_inner(s) /\ UNCHANGED call)
        \/ \E t \in Streams : \E w \in 0 .. timepoint[t] :
             /\ FlushThenQueue(s, t, w)
             /\ timepoint' = [timepoint EXCEPT ![s] = FlushedTimepoint(s) + 1]
        \/ /\ FlushThenQueue(s, s, FlushedTimepoint(s))
           /\ timepoint' = [timepoint EXCEPT ![s] = FlushedTimepoint(s)]
    BY <1>11, Zenon DEF hrx_stream_wait_on, hrx_buffer_allocate, FlushThenRefused,
        hrx_stream_get_timeline_position
  <2>5. \A t \in Streams : 0 .. timepoint[t] \subseteq Nat
    BY <1>2
  <2>6. FlushedTimepoint(s) \in Nat
    BY FlushTypes, Zenon
  <2> QED BY <1>2, <1>5, <2>1, <2>2, <2>3, <2>4, <2>5, <2>6, FlushFailsWork, Zenon DEF Idle
<1>12. CASE DropReturns(s)
  <2>1. /\ UNCHANGED <<queue, has_pending_work, executed, accepted, recorded, timepoint>>
        /\ pending_cb'[s] = NoCb /\ call[s] = "drop" /\ call'[s] \in {"gone", "abandoned"}
    BY <1>2, <1>12, Zenon DEF DropReturns, deviceVars, history
  <2>2. Dead(s) = FALSE /\ Dead(s)' = TRUE /\ OwnQueue(s)' = OwnQueue(s)
    <3>1. Dead(s) = FALSE /\ Dead(s)' = TRUE
      BY <2>1 DEF Dead
    <3> QED BY <2>1, <3>1, Zenon DEF OwnQueue
  <2>3. WorkAt(OwnQueue(s), <<>>, has_pending_work[s], timepoint[s],
               executed[s], accepted[s], recorded[s], TRUE)
    BY <1>1, <2>2, WorkDropped, Zenon DEF StreamWork
  <2> QED BY <2>1, <2>2, <2>3, NoCbEmpty, Zenon DEF StreamWork
<1>13. CASE DeviceExecute(s)
  <2>1. PICK q \in OwnQueue(s) : \E i \in DOMAIN q.cmds :
            MayExecute(q, i) /\ executed' = [executed EXCEPT ![s] = @ \cup {q.cmds[i]}]
    BY <1>13, Zenon DEF DeviceExecute, OwnQueue
  <2>2. PICK i \in DOMAIN q.cmds :
            q.cmds[i] # Barrier /\ executed' = [executed EXCEPT ![s] = @ \cup {q.cmds[i]}]
    BY <2>1, Zenon DEF MayExecute
  <2>3. /\ UNCHANGED <<timepoint, pending_cb, has_pending_work, call, queue, accepted, recorded>>
        /\ OwnQueue(s)' = OwnQueue(s) /\ Dead(s)' = Dead(s)
    BY <1>13, Zenon DEF DeviceExecute, hostVars, history, OwnQueue, Dead
  <2>4. executed'[s] = executed[s] \cup {q.cmds[i]}
    BY <1>2, <2>2, Zenon
  <2>5. WorkAt(OwnQueue(s), pending_cb[s].cmds, has_pending_work[s], timepoint[s],
               executed[s] \cup {q.cmds[i]}, accepted[s], recorded[s], Dead(s))
    BY <1>1, <2>2, WorkExecuted, Zenon DEF StreamWork
  <2> QED BY <2>3, <2>4, <2>5, Zenon DEF StreamWork
<1>14. CASE DeviceRetire(s)
  <2>1. PICK q \in OwnQueue(s) : AllExecuted(q) /\ queue' = queue \ {q}
    BY <1>14, Zenon DEF DeviceRetire, OwnQueue
  <2>2. /\ UNCHANGED <<timepoint, pending_cb, has_pending_work, call, executed, accepted, recorded>>
        /\ OwnQueue(s)' = OwnQueue(s) \ {q} /\ Dead(s)' = Dead(s) /\ q.s = s
    BY <1>14, <2>1, Zenon DEF DeviceRetire, hostVars, history, OwnQueue, Dead
  <2>3. \A i \in DOMAIN q.cmds : q.cmds[i] = Barrier \/ q.cmds[i] \in executed[s]
    BY <2>1, <2>2, Zenon DEF AllExecuted
  <2>4. WorkAt(OwnQueue(s) \ {q}, pending_cb[s].cmds, has_pending_work[s], timepoint[s],
               executed[s], accepted[s], recorded[s], Dead(s))
    BY <1>1, <2>3, WorkRetired, Zenon DEF StreamWork
  <2> QED BY <2>2, <2>4, Zenon DEF StreamWork
<1> QED BY <1>7, <1>8, <1>9, <1>10, <1>11, <1>12, <1>13, <1>14, Zenon
        DEF HostCall, HostReturn, Device

(***************************************************************************)
(* No command is lost and none is submitted twice.                         *)
(***************************************************************************)

\* No stream has any work at the start.
LEMMA InitWork == Init => WorkInv
<1> SUFFICES ASSUME Init, NEW s \in Streams PROVE StreamWork(s)
  BY Zenon DEF WorkInv
<1>1. /\ pending_cb[s].cmds = <<>> /\ executed[s] = {} /\ accepted[s] = {} /\ recorded[s] = 0
      /\ OwnQueue(s) = {}
  BY Zenon DEF Init, NoCb, OwnQueue
<1>2. 0 <= MaxOps /\ DOMAIN << >> = {}
  BY StreamBounds
<1> QED BY <1>1, <1>2, Zenon DEF StreamWork, WorkAt, Sequenced, Conserved

\* Every step keeps the work of every stream.
LEMMA WorkStep == TypeOK /\ TypeOK' /\ WorkInv /\ [Next]_vars => WorkInv'
<1> SUFFICES ASSUME TypeOK, TypeOK', WorkInv, [Next]_vars, NEW r \in Streams
             PROVE  StreamWork(r)'
  BY Zenon DEF WorkInv
<1>1. StreamWork(r)
  BY Zenon DEF WorkInv
<1>2. CASE UNCHANGED vars
  <2>1. timepoint[r] <= timepoint'[r]
    BY <1>2 DEF TypeOK, vars, hostVars
  <2>2. KeepsWork(r)
    BY <1>2, <2>1, Zenon DEF KeepsWork, OwnQueue, Dead, vars, hostVars, deviceVars, history
  <2> QED BY <1>1, <2>2, KeptWork, Zenon
<1>3. CASE Next
  <2>1. PICK s \in Streams : HostCall(s) \/ HostReturn(s) \/ Device(s)
    BY <1>3, Zenon DEF Next
  <2>2. CASE r = s
    BY <1>1, <2>1, <2>2, OwnStep, Zenon
  <2>3. CASE r # s
    BY <1>1, <2>1, <2>3, OthersKept, KeptWork, Zenon
  <2> QED BY <2>2, <2>3, Zenon
<1> QED BY <1>2, <1>3, Zenon

\* In every behaviour the types, the ordered timelines and the work hold together.
LEMMA AlwaysWork == Spec => [](TypeOK /\ TimelineOrdered /\ WorkInv)
<1>1. TypeOK /\ TimelineOrdered /\ WorkInv /\ [Next]_vars
        => (TypeOK /\ TimelineOrdered /\ WorkInv)'
  BY StepType, OrderedStep, WorkStep, Zenon
<1>2. Init => TypeOK /\ TimelineOrdered /\ WorkInv
  BY InitType, InitOrdered, InitWork, Zenon
<1> QED BY <1>1, <1>2, PTL DEF Spec

\* For every number of streams, commands, faults and submissions: whatever HAL call
\* fails in begin_cb, flush_inner, hrx_stream_wait_on or hrx_buffer_allocate, a
\* command whose recording call returned OK is executed, in flight, or pending with
\* has_pending_work set; only Drop after a failed flush discards it.
THEOREM NoWorkLost == Spec => []WorkConserved
<1>1. WorkInv => WorkConserved
  BY Zenon DEF WorkInv, StreamWork, WorkAt, Conserved, WorkConserved, OwnQueue, Dead
<1> QED BY <1>1, AlwaysWork, PTL

\* However often a failed flush is retried, a command reaches the device in one
\* submission only, and not before it has left the pending command buffer.
THEOREM NoResubmission == Spec => []SubmittedOnce
<1>1. TypeOK /\ WorkInv => SubmittedOnce
  <2> SUFFICES ASSUME TypeOK, WorkInv, NEW s \in Streams, NEW n \in 1 .. recorded[s]
               PROVE  /\ Holds(pending_cb[s].cmds, n) =>
                           /\ n \notin executed[s]
                           /\ \A q \in OwnQueue(s) : ~Holds(q.cmds, n)
                      /\ \A p, q \in OwnQueue(s) :
                           Holds(p.cmds, n) /\ Holds(q.cmds, n) => p = q
    BY Zenon DEF SubmittedOnce, OwnQueue
  <2>1. WorkAt(OwnQueue(s), pending_cb[s].cmds, has_pending_work[s], timepoint[s],
               executed[s], accepted[s], recorded[s], Dead(s))
    BY Zenon DEF WorkInv, StreamWork
  <2>2. ~(n < n) /\ n # Barrier
    BY WorkTypes DEF Barrier
  <2>3. \A c, d : Precedes(c, d) => ~(Holds(c, n) /\ Holds(d, n))
    BY <2>2, Zenon DEF Precedes, Holds
  <2>4. ~Holds(<<>>, n)
    <3>1. DOMAIN << >> = {}
      OBVIOUS
    <3> QED BY <3>1, Zenon DEF Holds
  <2>5. Holds(pending_cb[s].cmds, n) => n \notin executed[s]
    BY <2>1, <2>2, Zenon DEF WorkAt, Holds
  <2> QED BY <2>1, <2>3, <2>4, <2>5, Zenon DEF WorkAt
<1> QED BY <1>1, AlwaysWork, PTL

(***************************************************************************)
(* The streams implement InOrderStreams.                                   *)
(***************************************************************************)

\* On an ordered timeline a ready submission signals the lowest value in flight.
LEMMA ReadyIsFirst ==
    ASSUME TypeOK, TimelineOrdered, NEW s \in Streams, ~unordered[s],
           NEW q \in OwnQueue(s), Ready(q), NEW p \in OwnQueue(s)
    PROVE  ~(p.signal < q.signal)
<1>1. OrderedAt(s, queue, payload[s], Horizon(s), reserved[s])
  BY Zenon DEF TimelineOrdered
<1>2. q \in queue /\ p \in queue /\ q.s = s /\ p.s = s
  BY Zenon DEF OwnQueue
<1>3. /\ payload[s] < p.signal
      /\ (q.sem = s /\ q.value >= q.signal - 1) \/ payload[s] >= q.signal - 1
  BY <1>1, <1>2, Zenon DEF OrderedAt
<1>4. /\ payload[s] \in Nat /\ p.signal \in Nat /\ q.signal \in Nat /\ q.value \in Nat
  BY <1>2, Zenon DEF TypeOK, Submission
<1>5. q.sem = s => payload[s] >= q.value
  BY Zenon DEF Ready
<1> QED BY <1>3, <1>4, <1>5

\* While the timeline of a stream is ordered, the device executes a command only after
\* every accepted command recorded before it: those of earlier submissions have
\* retired, and those of the same submission are behind a barrier.
LEMMA EarlierExecuted ==
    ASSUME TypeOK, TimelineOrdered, WorkInv, NEW s \in Streams, ~unordered[s],
           NEW q \in OwnQueue(s), Ready(q), NEW i \in DOMAIN q.cmds, MayExecute(q, i),
           NEW m \in accepted[s], m < q.cmds[i]
    PROVE  m \in executed[s]
<1>1. WorkAt(OwnQueue(s), pending_cb[s].cmds, has_pending_work[s], timepoint[s],
             executed[s], accepted[s], recorded[s], Dead(s))
  BY Zenon DEF WorkInv, StreamWork
<1>2. /\ q \in Submission /\ q.cmds \in Seq(Nat) /\ q.s = s /\ q.signal \in Nat
      /\ accepted[s] \in SUBSET Nat
  BY WorkTypes, Zenon DEF Submission, OwnQueue
<1>3. q.cmds[i] \in Nat /\ m \in Nat /\ m # Barrier /\ q.cmds[i] # Barrier
  <2>1. m \in 1 .. recorded[s]
    BY <1>1, Zenon DEF WorkAt
  <2> QED BY <1>2, <2>1 DEF MayExecute, Barrier
<1>4. ~(q.cmds[i] < m) /\ ~(q.cmds[i] < q.cmds[i])
  BY <1>3
<1>5. CASE Holds(pending_cb[s].cmds, m)
  <2>1. q.cmds[i] < m
    BY <1>1, <1>3, <1>5, Zenon DEF WorkAt, Precedes, Holds
  <2> QED BY <1>4, <2>1, Zenon
<1>6. ASSUME NEW p \in OwnQueue(s), Holds(p.cmds, m), p # q PROVE m \in executed[s]
  <2>1. PICK j \in DOMAIN p.cmds : p.cmds[j] = m
    BY <1>6, Zenon DEF Holds
  <2>2. p.cmds # <<>> /\ q.cmds # <<>>
    <3>1. DOMAIN << >> = {}
      OBVIOUS
    <3> QED BY <2>1, <3>1, Zenon
  <2>3. ~Precedes(q.cmds, p.cmds)
    BY <1>3, <1>4, <2>1, Zenon DEF Precedes
  <2>4. p.signal < q.signal
    BY <1>1, <1>6, <2>2, <2>3, Zenon DEF WorkAt
  <2> QED BY <2>4, ReadyIsFirst, Zenon
<1>7. CASE Holds(q.cmds, m)
  <2>1. PICK j \in DOMAIN q.cmds : q.cmds[j] = m
    BY <1>7, Zenon DEF Holds
  <2>2. Sequenced(q.cmds, accepted[s], recorded[s])
    BY <1>1, Zenon DEF WorkAt
  <2>3. ~(i < j) /\ i # j
    BY <1>3, <1>4, <2>1, <2>2, Zenon DEF Sequenced
  <2>4. j + 1 \in DOMAIN q.cmds /\ q.cmds[j + 1] = Barrier
    BY <2>1, <2>2, Zenon DEF Sequenced
  <2>5. i \in Nat /\ j \in Nat /\ j > 0 /\ j + 1 # i
    <3>1. j + 1 # i
      BY <1>3, <2>4, Zenon
    <3>2. DOMAIN q.cmds = 1 .. Len(q.cmds) /\ Len(q.cmds) \in Nat
      BY <1>2
    <3> QED BY <2>1, <3>1, <3>2
  <2>6. j + 1 \in 1 .. i - 1 /\ j \in 1 .. (j + 1) - 1
    BY <2>3, <2>5
  <2> QED BY <1>2, <1>3, <2>1, <2>4, <2>6, Zenon DEF MayExecute
<1>8. Conserved(OwnQueue(s), pending_cb[s].cmds, has_pending_work[s], executed[s],
                accepted[s], Dead(s))
  BY <1>1, Zenon DEF WorkAt
<1> QED BY <1>4, <1>5, <1>6, <1>7, <1>8, Zenon DEF Conserved

\* Each step of the streams is a step of InOrderStreams or changes nothing there.
LEMMA InOrderStep ==
    TypeOK /\ TimelineOrdered /\ WorkInv /\ [Next]_vars
        => [InOrder!Next]_<<accepted, executed, unordered>>
<1> SUFFICES ASSUME TypeOK, TimelineOrdered, WorkInv, Next
             PROVE  InOrder!Next \/ UNCHANGED <<accepted, executed, unordered>>
  BY Zenon DEF vars, deviceVars, history
<1>1. PICK s \in Streams : HostCall(s) \/ HostReturn(s) \/ Device(s)
  BY Zenon DEF Next
<1>2. /\ accepted \in [Streams -> SUBSET Nat] /\ executed \in [Streams -> SUBSET Nat]
      /\ unordered \in [Streams -> BOOLEAN] /\ recorded[s] \in Nat /\ MaxOps \in Nat
  BY StreamBounds, Zenon DEF TypeOK
<1>3. /\ accepted[s] \subseteq 1 .. recorded[s] /\ executed[s] \subseteq 1 .. recorded[s]
      /\ recorded[s] <= MaxOps
  BY Zenon DEF WorkInv, StreamWork, WorkAt
<1>4. ASSUME UNCHANGED <<accepted, executed>>,
             unordered' = [unordered EXCEPT ![s] = TRUE] \/ unordered' = unordered
      PROVE  InOrder!Next \/ UNCHANGED <<accepted, executed, unordered>>
  BY <1>4, Zenon DEF InOrder!Next, InOrder!LetFree
<1>5. ASSUME NEW b \in BOOLEAN, unordered' = [unordered EXCEPT ![s] = @ \/ b]
      PROVE  unordered' = [unordered EXCEPT ![s] = TRUE] \/ unordered' = unordered
  <2>1. CASE unordered[s] \/ b
    BY <1>2, <1>5, <2>1, Zenon
  <2>2. CASE ~(unordered[s] \/ b)
    <3>1. [unordered EXCEPT ![s] = FALSE] = unordered
      BY <1>2, <2>2, Zenon
    <3> QED BY <1>5, <2>2, <3>1, Zenon
  <2> QED BY <2>1, <2>2, Zenon
<1>6. ASSUME CanRecord(s),
             \/ BeginFails(s) \/ NullBinding(s) \/ CommandFails(s)
             \/ OrderingBarrierFails(s) \/ Recorded(s) \/ UNCHANGED accepted
      PROVE  InOrder!Next \/ UNCHANGED <<accepted, executed, unordered>>
  <2>1. UNCHANGED <<executed, unordered>> /\ recorded[s] < MaxOps
    BY <1>6, Zenon DEF CanRecord, deviceVars
  <2>2. CASE Recorded(s)
    <3>1. accepted' = [accepted EXCEPT ![s] = @ \cup {recorded[s] + 1}]
      BY <2>2, Zenon DEF Recorded
    <3>2. recorded[s] + 1 \in 1 .. MaxOps
      BY <1>2, <2>1
    <3>3. \A m \in accepted[s] \cup executed[s] : m < recorded[s] + 1
      BY <1>2, <1>3
    <3>4. InOrder!Accept(s, recorded[s] + 1)
      BY <2>1, <3>1, <3>3, Zenon DEF InOrder!Accept
    <3> QED BY <3>2, <3>4, Zenon DEF InOrder!Next
  <2>3. CASE UNCHANGED accepted
    BY <2>1, <2>3, Zenon
  <2> QED BY <1>6, <2>2, <2>3, Zenon DEF BeginFails, NullBinding, CommandFails, OrderingBarrierFails
<1>7. CASE \/ hrx_stream_fill_buffer(s) \/ hrx_stream_copy_buffer(s)
           \/ hrx_stream_update_buffer(s) \/ hrx_stream_dispatch(s)
           \/ hrx_stream_execution_barrier(s)
  BY <1>6, <1>7, Zenon DEF hrx_stream_fill_buffer, hrx_stream_copy_buffer,
      hrx_stream_update_buffer, hrx_stream_dispatch, hrx_stream_execution_barrier
<1>8. CASE \/ hrx_stream_create(s) \/ hrx_stream_retain(s) \/ hrx_stream_release(s)
           \/ hrx_stream_flush(s) \/ hrx_stream_wait(s) \/ hrx_stream_synchronize(s)
           \/ hrx_stream_advance_timeline(s) \/ WaitReturns(s) \/ DropReturns(s)
           \/ DeviceRetire(s)
  BY <1>8, Zenon DEF hrx_stream_create, hrx_stream_retain, hrx_stream_release,
      hrx_stream_flush, hrx_stream_wait, hrx_stream_synchronize, hrx_stream_advance_timeline,
      WaitReturns, DropReturns, DeviceRetire, FlushFails, flush_inner, PendingTaken,
      deviceVars, history
<1>9. CASE hrx_stream_wait_on(s) \/ hrx_buffer_allocate(s)
  <2>1. UNCHANGED <<accepted, executed>>
    BY <1>9, Zenon DEF hrx_stream_wait_on, hrx_buffer_allocate, FlushFails, FlushThenRefused,
        FlushThenQueue, flush_inner, PendingTaken, deviceVars, history
  <2>2. \A t, w : OvertakesOwnWork(s, t, w) \in BOOLEAN
    BY Zenon DEF OvertakesOwnWork
  <2>3. unordered' = unordered \/ \E b \in BOOLEAN : unordered' = [unordered EXCEPT ![s] = @ \/ b]
    BY <1>9, <2>2, Zenon DEF hrx_stream_wait_on, hrx_buffer_allocate, FlushFails, FlushThenRefused,
        flush_inner, history
  <2> QED BY <1>4, <1>5, <2>1, <2>3, Zenon
<1>10. CASE hrx_semaphore_signal(s)
  <2>1. UNCHANGED <<accepted, executed>>
    BY <1>10, Zenon DEF hrx_semaphore_signal
  <2>2. \E b \in BOOLEAN : unordered' = [unordered EXCEPT ![s] = @ \/ b]
    BY <1>10, Zenon DEF hrx_semaphore_signal
  <2> QED BY <1>4, <1>5, <2>1, <2>2, Zenon
<1>11. CASE AllocateReturns(s)
  <2>1. /\ UNCHANGED <<accepted, executed>>
        /\ unordered' = [unordered EXCEPT ![s] = TRUE] \/ unordered' = unordered
    BY <1>11, Zenon DEF AllocateReturns, deviceVars
  <2> QED BY <1>4, <2>1, Zenon
<1>12. CASE DeviceExecute(s)
  <2>1. PICK q \in OwnQueue(s) : Ready(q) /\ \E i \in DOMAIN q.cmds :
            MayExecute(q, i) /\ executed' = [executed EXCEPT ![s] = @ \cup {q.cmds[i]}]
    BY <1>12, Zenon DEF DeviceExecute, OwnQueue
  <2>2. PICK i \in DOMAIN q.cmds :
            MayExecute(q, i) /\ executed' = [executed EXCEPT ![s] = @ \cup {q.cmds[i]}]
    BY <2>1, Zenon
  <2>3. UNCHANGED <<accepted, unordered>> /\ q.s = s
    BY <1>12, Zenon DEF DeviceExecute, history, OwnQueue
  <2>4. q.cmds[i] \notin executed[s] /\ q.cmds[i] # Barrier
    BY <2>2, <2>3, Zenon DEF MayExecute
  <2>5. unordered[s] \/ \A m \in accepted[s] : m < q.cmds[i] => m \in executed[s]
    BY <2>1, <2>2, EarlierExecuted, Zenon
  <2>6. q.cmds[i] \in 1 .. MaxOps
    <3>1. q.cmds \in Seq(Nat)
      BY WorkTypes, Zenon DEF Submission
    <3>2. Sequenced(q.cmds, accepted[s], recorded[s])
      BY Zenon DEF WorkInv, StreamWork, WorkAt
    <3>3. q.cmds[i] \in Nat /\ q.cmds[i] <= recorded[s]
      <4>1. q.cmds[i] <= recorded[s]
        BY <3>2, Zenon DEF Sequenced
      <4>2. q.cmds[i] \in Nat
        BY <3>1
      <4> QED BY <4>1, <4>2, Zenon
    <3> QED BY <1>2, <1>3, <2>4, <3>3 DEF Barrier
  <2>7. InOrder!Execute(s, q.cmds[i])
    BY <2>2, <2>3, <2>4, <2>5, Zenon DEF InOrder!Execute
  <2> QED BY <2>6, <2>7, Zenon DEF InOrder!Next
<1> QED BY <1>1, <1>7, <1>8, <1>9, <1>10, <1>11, <1>12, Zenon DEF HostCall, HostReturn, Device

\* The initial states are initial states of InOrderStreams.
LEMMA InOrderInit == Init => InOrder!Init
BY Zenon DEF Init, InOrder!Init

\* For every number of streams, commands, faults and submissions, the streams implement
\* InOrderStreams: across command buffers, failed flushes and retries, the commands a
\* stream accepted execute once each and in the order they were recorded, for as long
\* as its timeline is not let run past its own work.
THEOREM StreamsInOrder == Spec => ExecutesInOrder
BY AlwaysWork, InOrderStep, InOrderInit, PTL DEF Spec, ExecutesInOrder, InOrder!Spec
====
