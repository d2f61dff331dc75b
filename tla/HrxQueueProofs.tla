--------------------------- MODULE HrxQueueProofs ---------------------------
(***************************************************************************)
(* Proofs about the conversions of HrxCodes, for words of every width, and *)
(* about HrxQueue, for every number of clients and operations and every    *)
(* sequence of calls: command buffers and thunks are released exactly      *)
(* once, a success means the work is done, and an error has a cause.       *)
(*                                                                         *)
(* The invariant says which operation a call is about and how far it is    *)
(* (CallInv), who owns what (MemInv), that the operations of a timeline    *)
(* are consecutive and complete in order (OrderInv, with one clause for    *)
(* the payload a status was read at), and that a failed timeline has a     *)
(* failed operation behind it (CauseInv).                                  *)
(***************************************************************************)
EXTENDS HrxQueue, TLAPS

(***************************************************************************)
(* The conversions.                                                        *)
(***************************************************************************)
\* Whatever code IREE reports, those HRX has no name for included, the caller
\* sees OK for OK, and for an error the same code or INTERNAL; an error reads as OK
\* only as the null status that stands for one without memory for its payload, and
\* always may.
THEOREM StatusConversion ==
    ASSUME NEW iree \in IreeStatusCode
    PROVE  /\ hrx_status_from_iree(iree) \subseteq HrxStatusCode
           /\ iree = Ok => hrx_status_from_iree(iree) = {Ok}
           /\ iree # Ok => \E code \in {iree, Internal} \ {Ok} :
                             hrx_status_from_iree(iree) = {code, Ok}
<1>1. CASE iree = Ok
  BY <1>1 DEF hrx_status_from_iree, HrxStatusCode, Ok
<1>2. CASE iree # Ok
  <2> DEFINE code == hrx_code_from_iree(iree)
  <2>1. code \in {iree, Internal} \ {Ok} /\ code \in HrxStatusCode /\ Ok \in HrxStatusCode
    BY <1>2 DEF hrx_code_from_iree, HrxStatusCode, Ok, Internal
  <2>2. hrx_status_from_iree(iree) = {code, Ok}
    BY <1>2, <2>1, Zenon DEF hrx_status_from_iree, hrx_make_status
  <2> HIDE DEF code
  <2>3. QED BY <1>2, <2>1, <2>2, Zenon
<1>3. QED BY <1>1, <1>2, Zenon

\* A status that goes to IREE and back any number of times, as the result of
\* a host call does, is settled after the first time, unless it is lost.
THEOREM ConversionSettles ==
    ASSUME NEW code \in HrxStatusCode,
           NEW once \in hrx_status_from_iree(hrx_status_to_iree(code)),
           NEW twice \in hrx_status_from_iree(hrx_status_to_iree(once))
    PROVE  twice \in {once, Ok}
<1>1. once = Ok \/ once = hrx_code_from_iree(code)
  BY DEF hrx_status_from_iree, hrx_make_status, hrx_status_to_iree, OutOfMemory, ResourceExhausted
<1>2. once # Ok => hrx_code_from_iree(once) = once
  BY <1>1 DEF hrx_code_from_iree, Ok, Internal
<1>3. twice = Ok \/ twice = hrx_code_from_iree(once)
  BY DEF hrx_status_from_iree, hrx_make_status, hrx_status_to_iree, OutOfMemory, ResourceExhausted
<1>4. once = Ok => twice = Ok
  BY DEF hrx_status_from_iree, hrx_status_to_iree, OutOfMemory, Ok
<1>5. QED BY <1>2, <1>3, <1>4, Zenon

\* Only the largest timeout waits for ever, only zero is immediate, a smaller
\* one than 2^63 is the time that was asked for, and from there on, short of
\* the largest, the cast makes it a time that has already passed.
THEOREM TimeoutConversion ==
    ASSUME NEW ns \in Word
    PROVE  /\ ToTimeout(ns) = Infinite <=> ns = WordMax
           /\ ToTimeout(ns) = Immediate <=> ns = 0
           /\ ns \in 1 .. SignBit - 1 => ToTimeout(ns) = Relative(ns)
           /\ ns \in SignBit .. WordMax - 1 =>
                \E t \in Int : t < 0 /\ ToTimeout(ns) = Relative(t)
<1>1. WordMax # 0 /\ SignBit - 1 < WordMax
  BY SignBitAssumption DEF WordMax
<1>2. \A t \in Int : Relative(t) # Infinite /\ Relative(t) # Immediate
  BY Zenon DEF Relative, Infinite, Immediate
<1>3. Infinite # Immediate
  BY Zenon DEF Infinite, Immediate
<1>4. AsSigned(ns) \in Int
  BY SignBitAssumption DEF AsSigned, Word, WordMax
<1>5. (ToTimeout(ns) = Infinite <=> ns = WordMax) /\ (ToTimeout(ns) = Immediate <=> ns = 0)
  BY <1>1, <1>2, <1>3, <1>4, Zenon DEF ToTimeout
<1>6. ns \in 1 .. SignBit - 1 => ToTimeout(ns) = Relative(ns)
  BY <1>1, SignBitAssumption DEF ToTimeout, AsSigned
<1>7. ASSUME ns \in SignBit .. WordMax - 1
      PROVE  AsSigned(ns) < 0 /\ ToTimeout(ns) = Relative(AsSigned(ns))
  BY <1>7, SignBitAssumption DEF ToTimeout, AsSigned, WordMax
<1>8. QED
  BY <1>4, <1>5, <1>6, <1>7, Zenon

\* The range check of hrx_synchronous_h2d and _d2h refuses nothing that lies in the
\* buffer, and accepts nothing else unless the sum of offset and size wraps.
THEOREM TransferCheck ==
    ASSUME NEW offset \in Word, NEW size \in Word, NEW bufferSize \in Word
    PROVE  /\ offset + size <= bufferSize => TransferAccepted(offset, size, bufferSize)
           /\ TransferAccepted(offset, size, bufferSize) =>
                offset + size <= bufferSize \/ offset + size > WordMax
<1>1. offset + size \in Nat /\ SignBit \in Nat /\ SignBit > 1
  BY SignBitAssumption DEF Word
<1>2. offset + size <= WordMax => (offset + size) % (2 * SignBit) = offset + size
  BY <1>1, Z3 DEF WordMax
<1>3. bufferSize <= WordMax
  BY SignBitAssumption DEF Word, WordMax
<1>4. offset + size <= bufferSize => offset + size <= WordMax
  BY <1>1, <1>3, SignBitAssumption DEF Word, WordMax
<1>5. QED
  BY <1>1, <1>2, <1>4, SignBitAssumption DEF TransferAccepted, Word, WordMax

(***************************************************************************)
(* The invariant.                                                          *)
(***************************************************************************)
ToAccept == {"create", "record", "execute", "direct", "malloc", "enqueue"}
Accepted == {"pending", "running", "done", "failed", "dropped"}

\* The kind of operation a call at a place is about.
KindAt(place) ==
    IF place \in {"create", "record", "execute", "executed"} THEN "work"
    ELSE IF place = "direct" THEN "direct"
    ELSE "call"

\* A call in the middle of a submission is about an operation of its own
\* client, and an operation being built has such a call.
CallInv ==
    /\ \A c \in Clients : at[c] \notin {"idle", "waiting"} =>
         /\ cur[c] \in OpIds
         /\ op[cur[c]].tl = c
         /\ op[cur[c]].kind = KindAt(at[c])
         /\ at[c] \in ToAccept => op[cur[c]].stage = "building"
         /\ at[c] = "executed" => op[cur[c]].stage \in Accepted \cup {"refused"}
         /\ at[c] = "enqueued" => op[cur[c]].stage \in Accepted
         /\ at[c] = "unqueued" => op[cur[c]].stage = "refused"
    /\ \A i \in OpIds : op[i].stage # "free" => op[i].tl \in Clients
    /\ \A i \in OpIds : op[i].stage = "building" =>
         at[op[i].tl] \in ToAccept /\ cur[op[i].tl] = i

\* The call of client c has the command buffer of its operation.
BufferAt == {"record", "execute", "executed"}
ThunkAt == {"enqueue", "unqueued"}

\* Every object is owned by the call of its operation's client or by the queue.
MemInv ==
    \A i \in OpIds :
        /\ op[i].stage = "free" => mem[i] = 0 /\ op[i].kind = "none"
        /\ op[i].stage = "running" => op[i].kind = "call"
        /\ op[i].kind = "work" =>
             mem[i] = Owner(cur[op[i].tl] = i /\ at[op[i].tl] \in BufferAt)
                      + Owner(op[i].stage = "pending")
        /\ op[i].kind = "call" =>
             mem[i] = Owner(cur[op[i].tl] = i /\ at[op[i].tl] \in ThunkAt)
                      + Owner(op[i].stage \in {"pending", "running", "dropped"})

\* Timelines advance one operation at a time.
OrderInv ==
    /\ \A i \in OpIds : op[i].stage = "building" =>
         /\ op[i].val = promised[op[i].tl] + 1
         /\ <<op[i].tl, op[i].val - 1>> \in op[i].wait
    /\ \A i \in OpIds : op[i].stage \in Accepted =>
         /\ op[i].val \in 1 .. promised[op[i].tl]
         /\ <<op[i].tl, op[i].val - 1>> \in op[i].wait
         /\ op[i].val <= sem[op[i].tl].value => op[i].stage = "done"
         /\ op[i].stage = "running" => op[i].val - 1 <= sem[op[i].tl].value
    /\ \A i, j \in OpIds :
         op[i].stage \in Accepted /\ op[j].stage \in Accepted
           /\ op[i].tl = op[j].tl /\ op[i].val = op[j].val => i = j
    /\ \A c \in Clients : sem[c].value <= promised[c]

\* A successful status was read at payloads that timelines do not go back from.
ReadInv ==
    \A c \in Clients : ret[c].code = Ok /\ ~ret[c].lost =>
        \A p \in ret[c].claims : p[2] <= sem[p[1]].value

\* A failed timeline has a failed operation behind it.
CauseInv ==
    \A c \in Clients : sem[c].fail # Ok =>
        \E i \in OpIds : op[i].stage = "failed" /\ op[i].err = sem[c].fail

\* An error was read off a timeline that had failed by then.
ErrInv ==
    \A c \in Clients : ret[c].code # Ok /\ ret[c].claims # {} =>
        \/ ret[c].code = DeadlineExceeded /\ ~ret[c].forever
        \/ \E p \in ret[c].claims :
             sem[p[1]].fail # Ok /\ ret[c].code \in {sem[p[1]].fail, Internal}

IInv == TypeOK /\ CallInv /\ MemInv /\ OrderInv /\ ReadInv /\ CauseInv /\ ErrInv

\* NoRet and NoWait are what they should be.
LEMMA Defaults == NoRet \in RetType /\ NoWait \in [claims : SUBSET Timepoints, ns : Word]
<1>1. 0 \in Word
  BY SignBitAssumption DEF Word, WordMax
<1>2. QED BY <1>1 DEF NoRet, NoWait, RetType, HrxStatusCode, Ok

\* The invariant holds before the first call.
LEMMA InitIInv == ASSUME Init PROVE IInv
<1> USE DEF Init
<1>1. TypeOK
  <2>1. FreeOp \in OpType
    BY DEF FreeOp, OpType, Stages, IreeStatusCode, Ok
  <2>2. \A c \in Clients : [value |-> 0, fail |-> Ok] \in [value : Nat, fail : IreeStatusCode]
    BY DEF IreeStatusCode, Ok
  <2>3. DOMAIN plan = Clients
    BY QueueAssumption, Zenon
  <2>4. QED BY <2>1, <2>2, <2>3, Defaults, QueueAssumption DEF TypeOK, Places
<1>2. \A i \in OpIds : op[i].stage = "free" /\ op[i].kind = "none" /\ mem[i] = 0
  BY Zenon DEF FreeOp
<1>3. CallInv
  BY <1>2, Zenon DEF CallInv
<1>4. MemInv
  BY <1>2, Zenon DEF MemInv
<1>5. OrderInv
  BY <1>2 DEF OrderInv, Accepted
<1>6. ReadInv /\ ErrInv
  BY Zenon DEF ReadInv, ErrInv, NoRet
<1>7. CauseInv
  BY Zenon DEF CauseInv
<1>8. QED BY <1>1, <1>3, <1>4, <1>5, <1>6, <1>7, Zenon DEF IInv

(***************************************************************************)
(* Submission.                                                             *)
(***************************************************************************)
\* The wait list of a new operation is made of timepoints and holds the last
\* one its client promised.
LEMMA WaitListFacts ==
    ASSUME promised \in [Clients -> Nat], NEW c \in Clients, NEW list \in WaitLists(c)
    PROVE  /\ to_iree_sem_list(list) \subseteq Timepoints
           /\ <<c, promised[c]>> \in to_iree_sem_list(list)
<1>1. CASE list = << <<c, promised[c]>> >>
  <2>1. Len(list) = 1 /\ list[1] = <<c, promised[c]>>
    BY <1>1, Zenon
  <2>2. to_iree_sem_list(list) = {<<c, promised[c]>>}
    BY <2>1 DEF to_iree_sem_list
  <2>3. QED BY <2>2 DEF Timepoints
<1>2. ASSUME NEW s \in Clients, list = << <<s, promised[s]>>, <<c, promised[c]>> >>
      PROVE  /\ to_iree_sem_list(list) \subseteq Timepoints
             /\ <<c, promised[c]>> \in to_iree_sem_list(list)
  <2>1. Len(list) = 2 /\ list[1] = <<s, promised[s]>> /\ list[2] = <<c, promised[c]>>
    BY <1>2, Zenon
  <2>2. to_iree_sem_list(list) = {<<s, promised[s]>>, <<c, promised[c]>>}
    BY <2>1 DEF to_iree_sem_list
  <2>3. QED BY <2>2 DEF Timepoints
<1>3. QED BY <1>1, <1>2, Zenon DEF WaitLists

\* A submission takes a free operation, which nothing else is about.
LEMMA SubmitStep ==
    ASSUME IInv, NEW c \in Clients, NEW call, NEW kind, NEW first,
           first \in {"create", "direct", "malloc"}, kind = KindAt(first),
           Submit(c, call, kind, first)
    PROVE  IInv'
<1> USE DEF IInv
<1>1. PICK i \in OpIds, list \in WaitLists(c) :
        /\ op[i].stage = "free"
        /\ op' = [op EXCEPT ![i] = [stage |-> "building", kind |-> kind,
                                    wait |-> to_iree_sem_list(list),
                                    tl |-> c, val |-> promised[c] + 1, err |-> Ok]]
        /\ cur' = [cur EXCEPT ![c] = i]
  BY Zenon DEF Submit
<1>2. /\ at[c] = "idle" /\ at' = [at EXCEPT ![c] = first]
      /\ ret' = [ret EXCEPT ![c] = NoRet]
      /\ UNCHANGED <<mem, sem, promised, fence, asked>>
      /\ plan' = [plan EXCEPT ![c] = Tail(@)]
  BY Zenon DEF Submit, Calling
<1>3. kind \in {"work", "direct", "call"}
  BY Zenon DEF KindAt
<1>4. /\ \A j \in OpIds \ {i} : op'[j] = op[j]
      /\ op'[i].stage = "building" /\ op'[i].kind = kind /\ op'[i].tl = c
      /\ op'[i].val = promised[c] + 1 /\ op'[i].wait = to_iree_sem_list(list)
      /\ op'[i].err = Ok
  BY <1>1, Zenon DEF TypeOK
<1>5. /\ \A d \in Clients \ {c} : at'[d] = at[d] /\ cur'[d] = cur[d] /\ ret'[d] = ret[d]
      /\ at'[c] = first /\ cur'[c] = i /\ ret'[c] = NoRet
  BY <1>1, <1>2, Zenon DEF TypeOK
<1>6. /\ promised \in [Clients -> Nat]
      /\ to_iree_sem_list(list) \subseteq Timepoints
      /\ <<c, (promised[c] + 1) - 1>> \in to_iree_sem_list(list)
  <2>1. promised \in [Clients -> Nat]
    BY Zenon DEF TypeOK
  <2>2. to_iree_sem_list(list) \subseteq Timepoints /\ <<c, promised[c]>> \in to_iree_sem_list(list)
    BY <2>1, WaitListFacts, Zenon
  <2>3. (promised[c] + 1) - 1 = promised[c]
    BY <2>1
  <2>4. QED BY <2>1, <2>2, <2>3, Zenon
<1>7. TypeOK'
  <2>1. [stage |-> "building", kind |-> kind, wait |-> to_iree_sem_list(list),
         tl |-> c, val |-> promised[c] + 1, err |-> Ok] \in OpType
    BY <1>3, <1>6 DEF OpType, Stages, IreeStatusCode, Ok
  <2>2. NoRet \in RetType
    BY DEF NoRet, RetType, HrxStatusCode, Ok
  <2>3. first \in Places /\ i \in 0 .. MaxOps
    BY QueueAssumption DEF Places, OpIds
  <2>4. QED BY <1>1, <1>2, <2>1, <2>2, <2>3, Zenon DEF TypeOK
<1>8. CallInv'
  <2>1. \A d \in Clients : at[d] \in Places
    BY Zenon DEF TypeOK
  <2>2. \A d \in Clients : at[d] \notin {"idle", "waiting"} => cur[d] # i
    BY <1>1, <2>1 DEF CallInv, ToAccept, Accepted, Places
  <2>3. QED BY <1>2, <1>4, <1>5, <2>2 DEF CallInv, ToAccept, Accepted
<1>9. MemInv' /\ OrderInv'
  <2>1. MemInv'
    BY <1>1, <1>2, <1>3, <1>4, <1>5 DEF CallInv, MemInv, Owner, BufferAt, ThunkAt, ToAccept
  <2>2. OrderInv'
    <3>1. \A j \in OpIds : op'[j].stage = "building" =>
            /\ op'[j].val = promised'[op'[j].tl] + 1
            /\ <<op'[j].tl, op'[j].val - 1>> \in op'[j].wait
      BY <1>2, <1>4, <1>6, ZenonT(60) DEF OrderInv
    <3>2. \A j \in OpIds : op'[j].stage \in Accepted => j # i /\ op'[j] = op[j]
      BY <1>4, Zenon DEF Accepted
    <3>3. QED BY <1>2, <3>1, <3>2, Zenon DEF OrderInv
  <2>3. QED BY <2>1, <2>2, Zenon
<1>10. ReadInv'
  BY <1>2, Zenon DEF TypeOK, ReadInv, NoRet
<1>11. CauseInv'
  BY <1>1, <1>2, Zenon DEF TypeOK, CauseInv
<1>12. ErrInv'
  BY <1>1, <1>2, Zenon DEF TypeOK, ErrInv, NoRet
<1>13. QED
  BY <1>7, <1>8, <1>9, <1>10, <1>11, <1>12, Zenon

\* What changing the stage of one operation leaves alone.
LEMMA StageUpdate ==
    ASSUME op \in [OpIds -> OpType], NEW i \in OpIds, NEW x \in Stages,
           op' = [op EXCEPT ![i].stage = x]
    PROVE  /\ op' \in [OpIds -> OpType]
           /\ \A j \in OpIds \ {i} : op'[j] = op[j]
           /\ op'[i].stage = x /\ op'[i].kind = op[i].kind /\ op'[i].tl = op[i].tl
           /\ op'[i].val = op[i].val /\ op'[i].wait = op[i].wait /\ op'[i].err = op[i].err
<1>1. op[i] \in OpType /\ op'[i] = [op[i] EXCEPT !.stage = x]
  BY Zenon
<1>2. op'[i] \in OpType
  BY <1>1, Zenon DEF OpType
<1>3. QED BY <1>1, <1>2, Zenon DEF OpType

\* A step that leaves the payloads, the failed operations and, but for a reset,
\* the results alone.
LEMMA QuietStep ==
    ASSUME TypeOK, ReadInv, CauseInv, ErrInv, NEW c \in Clients,
           UNCHANGED sem, ret' = ret \/ ret' = [ret EXCEPT ![c] = NoRet],
           \A j \in OpIds : op[j].stage = "failed" => op'[j] = op[j]
    PROVE  ReadInv' /\ CauseInv' /\ ErrInv'
<1>1. \A d \in Clients : ret'[d] = ret[d] \/ ret'[d] = NoRet
  BY Zenon DEF TypeOK
<1>2. ReadInv'
  BY <1>1 DEF ReadInv, NoRet
<1>3. CauseInv'
  BY Zenon DEF CauseInv
<1>4. ErrInv'
  BY <1>1 DEF ErrInv, NoRet
<1>5. QED BY <1>2, <1>3, <1>4, Zenon

\* A call goes on to its next place with its object in hand.
LEMMA MoveStep ==
    ASSUME IInv, NEW c \in Clients, NEW to, NEW m,
           \/ at[c] = "create" /\ to = "record" /\ m = 1
           \/ at[c] = "record" /\ to = "execute" /\ m = mem[cur[c]]
           \/ at[c] = "malloc" /\ to = "enqueue" /\ m = 1,
           at' = [at EXCEPT ![c] = to], mem' = [mem EXCEPT ![cur[c]] = m],
           UNCHANGED <<op, sem, promised, fence, cur, asked, ret, plan>>
    PROVE  IInv'
<1> USE DEF IInv
<1>1. /\ cur[c] \in OpIds /\ op[cur[c]].tl = c /\ op[cur[c]].stage = "building"
      /\ op[cur[c]].kind = KindAt(at[c]) /\ at[c] \in ToAccept
  BY Zenon DEF CallInv, ToAccept
<1>2. /\ \A d \in Clients \ {c} : at'[d] = at[d]
      /\ at'[c] = to
      /\ \A j \in OpIds \ {cur[c]} : mem'[j] = mem[j]
      /\ mem'[cur[c]] = m
  BY <1>1, Zenon DEF TypeOK
<1>3. to \in {"record", "execute", "enqueue"} /\ m \in 0 .. 2
  BY <1>1 DEF TypeOK
<1>4. TypeOK'
  BY <1>1, <1>3, Zenon DEF TypeOK, Places
<1>5. CallInv'
  BY <1>1, <1>2, <1>3 DEF CallInv, ToAccept, KindAt
<1>6. MemInv'
  BY <1>1, <1>2, <1>3 DEF MemInv, CallInv, Owner, BufferAt, ThunkAt, KindAt, ToAccept
<1>7. OrderInv'
  BY Zenon DEF OrderInv
<1>8. QED BY <1>4, <1>5, <1>6, <1>7, QuietStep, Zenon

\* A call gives up before the HAL has taken its operation.
LEMMA GiveUpStep ==
    ASSUME IInv, NEW c \in Clients, at[c] \in {"create", "record", "direct", "malloc"},
           Refuse(c), Return(c),
           IF at[c] = "record" THEN mem' = [mem EXCEPT ![cur[c]] = @ - 1] ELSE UNCHANGED mem,
           UNCHANGED <<sem, promised, fence, asked, plan>>
    PROVE  IInv'
<1> USE DEF IInv
<1>1. /\ cur[c] \in OpIds /\ op[cur[c]].tl = c /\ op[cur[c]].stage = "building"
      /\ op[cur[c]].kind = KindAt(at[c]) /\ at[c] \in ToAccept
  BY Zenon DEF CallInv, ToAccept
<1> DEFINE i == cur[c]
<1>2. /\ op' \in [OpIds -> OpType]
      /\ \A j \in OpIds \ {i} : op'[j] = op[j]
      /\ op'[i].stage = "refused" /\ op'[i].kind = op[i].kind /\ op'[i].tl = op[i].tl
  BY <1>1, StageUpdate, Zenon DEF TypeOK, Refuse, Stages
<1>3. /\ \A d \in Clients \ {c} : at'[d] = at[d] /\ cur'[d] = cur[d]
      /\ at'[c] = "idle" /\ cur'[c] = 0 /\ ret' = [ret EXCEPT ![c] = NoRet]
  BY Zenon DEF TypeOK, Return
<1>4. /\ \A j \in OpIds \ {i} : mem'[j] = mem[j]
      /\ mem'[i] = IF at[c] = "record" THEN mem[i] - 1 ELSE mem[i]
      /\ at[c] = "record" => mem[i] = 1
  BY <1>1 DEF TypeOK, MemInv, Owner, BufferAt, KindAt
<1>5. TypeOK'
  <2>1. NoRet \in RetType
    BY DEF NoRet, RetType, HrxStatusCode, Ok
  <2>2. mem' \in [OpIds -> 0 .. 2]
    <3>1. CASE at[c] = "record"
      <4>1. mem' = [mem EXCEPT ![cur[c]] = @ - 1] /\ mem[cur[c]] - 1 \in 0 .. 2
        BY <1>4, <3>1
      <4>2. QED BY <4>1, Zenon DEF TypeOK
    <3>2. CASE at[c] # "record"
      BY <3>2, Zenon DEF TypeOK
    <3>3. QED BY <3>1, <3>2, Zenon
  <2>3. QED BY <1>2, <2>1, <2>2, QueueAssumption DEF TypeOK, Return, Places
<1>6. CallInv'
  <2>1. \A d \in Clients \ {c} : at[d] \notin {"idle", "waiting"} => cur[d] # i
    BY <1>1 DEF CallInv
  <2>2. QED BY <1>1, <1>2, <1>3, <2>1 DEF CallInv, ToAccept, Accepted
<1>7. MemInv'
  <2>1. op[i].kind \in {"work", "call"} => mem'[i] = 0
    BY <1>1, <1>4 DEF MemInv, Owner, BufferAt, ThunkAt, KindAt
  <2>2. /\ op[i].kind = "work" \/ op[i].kind = "direct" \/ op[i].kind = "call"
        /\ \A j \in OpIds : op[j].stage # "free" => op[j].tl \in Clients
        /\ 0 \notin OpIds
    BY <1>1 DEF KindAt, CallInv, OpIds
  <2>3. ASSUME NEW j \in OpIds \ {i}
        PROVE  /\ op[j].stage # "free" =>
                    /\ (cur'[op[j].tl] = j /\ at'[op[j].tl] \in BufferAt)
                         <=> (cur[op[j].tl] = j /\ at[op[j].tl] \in BufferAt)
                    /\ (cur'[op[j].tl] = j /\ at'[op[j].tl] \in ThunkAt)
                         <=> (cur[op[j].tl] = j /\ at[op[j].tl] \in ThunkAt)
               /\ mem'[j] = mem[j] /\ op'[j] = op[j]
    BY <1>2, <1>3, <1>4, <2>2, Zenon DEF BufferAt, ThunkAt
  <2>4. cur'[c] # i /\ i \in OpIds
    BY <1>1, <1>3, <2>2, Zenon
  <2>5. QED BY <1>1, <1>2, <2>1, <2>2, <2>3, <2>4 DEF MemInv, Owner
<1>8. OrderInv'
  BY <1>1, <1>2, StageUpdate, SMTT(60) DEF OrderInv, Accepted
<1>9. ReadInv' /\ CauseInv' /\ ErrInv'
  BY Zenon, <1>1, <1>2, <1>3, QuietStep
<1>10. QED BY <1>5, <1>6, <1>7, <1>8, <1>9, Zenon

\* The next timepoint of a timeline is promised to the operation built for it.
LEMMA AcceptOrder ==
    ASSUME IInv, NEW c \in Clients, at[c] \in {"execute", "enqueue", "direct"},
           Accept(c), UNCHANGED sem
    PROVE  OrderInv'
<1> USE DEF IInv
<1> DEFINE i == cur[c]
<1>1. i \in OpIds /\ op[i].tl = c /\ op[i].stage = "building"
  BY Zenon DEF CallInv, ToAccept
<1>2. /\ \A j \in OpIds \ {i} : op'[j] = op[j]
      /\ op'[i].stage = "pending" /\ op'[i].tl = c
      /\ op'[i].val = op[i].val /\ op'[i].wait = op[i].wait
  BY <1>1, StageUpdate, Zenon DEF TypeOK, Accept, Stages
<1>3. /\ op[i].val = promised[c] + 1 /\ <<c, op[i].val - 1>> \in op[i].wait
      /\ promised'[c] = promised[c] + 1 /\ promised[c] \in Nat /\ sem[c].value <= promised[c]
      /\ sem[c].value \in Nat
      /\ \A d \in Clients \ {c} : promised'[d] = promised[d]
  BY <1>1, Zenon DEF OrderInv, TypeOK, Accept
<1>4. \A j \in OpIds : op[j].stage \in Accepted => op[j].tl \in Clients /\ op[j].val \in Nat
  BY DEF CallInv, Accepted, TypeOK, OpType
<1>5. ASSUME NEW j \in OpIds, op[j].stage \in Accepted, op[j].tl = c
      PROVE  op[j].val <= promised[c]
  <2>1. op[j].val \in 1 .. promised[op[j].tl]
    BY <1>5, Zenon DEF OrderInv
  <2>2. QED BY <1>3, <1>5, <2>1
<1>6. \A j \in OpIds : op'[j].stage = "building" => j # i /\ op[j].tl \in Clients \ {c}
  BY <1>1, <1>2 DEF CallInv
<1>7. \A j \in OpIds : op'[j].stage = "building" =>
        /\ op'[j].val = promised'[op'[j].tl] + 1
        /\ <<op'[j].tl, op'[j].val - 1>> \in op'[j].wait
  BY <1>2, <1>3, <1>6 DEF OrderInv
<1>8. ASSUME NEW j \in OpIds, op'[j].stage \in Accepted
      PROVE  /\ op'[j].val \in 1 .. promised'[op'[j].tl]
             /\ <<op'[j].tl, op'[j].val - 1>> \in op'[j].wait
             /\ op'[j].val <= sem'[op'[j].tl].value => op'[j].stage = "done"
             /\ op'[j].stage = "running" => op'[j].val - 1 <= sem'[op'[j].tl].value
  <2>1. CASE j = i
    BY <1>2, <1>3, <2>1
  <2>2. CASE j # i
    <3>1. op'[j] = op[j] /\ op[j].stage \in Accepted /\ op[j].tl \in Clients
      BY <1>2, <1>4, <1>8, <2>2, Zenon
    <3>2. promised[op[j].tl] \in Nat /\ promised'[op[j].tl] \in Nat
            /\ promised[op[j].tl] <= promised'[op[j].tl]
      <4>1. \A d \in Clients : promised[d] \in Nat
        BY Zenon DEF TypeOK
      <4>2. CASE op[j].tl = c
        BY <1>3, <4>2
      <4>3. CASE op[j].tl # c
        BY <1>3, <3>1, <4>1, <4>3
      <4>4. QED BY <4>2, <4>3, Zenon
    <3>3. QED BY <3>1, <3>2 DEF OrderInv
  <2>3. QED BY <2>1, <2>2, Zenon
<1>9. \A j, k \in OpIds :
        op'[j].stage \in Accepted /\ op'[k].stage \in Accepted
          /\ op'[j].tl = op'[k].tl /\ op'[j].val = op'[k].val => j = k
  BY <1>2, <1>3, <1>5 DEF OrderInv
<1>10. \A d \in Clients : sem'[d].value <= promised'[d]
  BY <1>3 DEF OrderInv
<1>11. QED BY <1>7, <1>8, <1>9, <1>10, Zenon DEF OrderInv

\* The HAL takes the operation of a call, or refuses it, and the call goes on.
LEMMA HandOverStep ==
    ASSUME IInv, NEW c \in Clients, NEW to, NEW m, NEW x \in {"pending", "refused"},
           at[c] \in {"execute", "enqueue"},
           at[c] = "execute" => to = "executed" /\ m = mem[cur[c]] + Owner(x = "pending"),
           at[c] = "enqueue" => /\ to = IF x = "pending" THEN "enqueued" ELSE "unqueued"
                                /\ m = mem[cur[c]],
           op' = [op EXCEPT ![cur[c]].stage = x],
           IF x = "pending" THEN Accept(c) ELSE UNCHANGED promised,
           at' = [at EXCEPT ![c] = to], mem' = [mem EXCEPT ![cur[c]] = m],
           UNCHANGED <<sem, fence, cur, asked, ret, plan>>
    PROVE  IInv'
<1> USE DEF IInv
<1> DEFINE i == cur[c]
<1>1. /\ i \in OpIds /\ op[i].tl = c /\ op[i].stage = "building"
      /\ op[i].kind = KindAt(at[c]) /\ at[c] \in ToAccept
  BY Zenon DEF CallInv, ToAccept
<1>2. /\ to = "enqueued" => x = "pending"
      /\ to = "unqueued" => x = "refused"
      /\ to = "executed" => m = mem[i] + Owner(x = "pending")
      /\ to # "executed" => m = mem[i]
      /\ x = "pending" => Accept(c)
      /\ x = "refused" => UNCHANGED promised
  BY Zenon
<1>3. /\ op' \in [OpIds -> OpType]
      /\ \A j \in OpIds \ {i} : op'[j] = op[j]
      /\ op'[i].stage = x /\ op'[i].kind = op[i].kind /\ op'[i].tl = op[i].tl
      /\ op'[i].val = op[i].val /\ op'[i].wait = op[i].wait
  BY <1>1, <1>2, StageUpdate, Zenon DEF TypeOK, Stages
<1>4. /\ \A d \in Clients \ {c} : at'[d] = at[d]
      /\ at'[c] = to /\ to \in {"executed", "enqueued", "unqueued"}
      /\ \A j \in OpIds \ {i} : mem'[j] = mem[j]
      /\ mem'[i] = m
      /\ at[c] = "execute" <=> to = "executed"
  BY <1>1, Zenon DEF TypeOK
<1>5. mem[i] = 1
  BY <1>1 DEF MemInv, Owner, BufferAt, ThunkAt, KindAt
<1>6. TypeOK'
  <2>1. m \in 0 .. 2
    BY <1>2, <1>5 DEF Owner
  <2>2. promised' \in [Clients -> Nat]
    BY <1>1, <1>2, Zenon DEF TypeOK, OpType, Accept
  <2>3. QED BY <1>3, <1>4, <2>1, <2>2, Zenon DEF TypeOK, Places
<1>7. CallInv'
  <2>1. \A d \in Clients \ {c} : at[d] \notin {"idle", "waiting"} => cur[d] # i
    BY <1>1 DEF CallInv
  <2>2. KindAt(to) = KindAt(at[c])
    BY <1>4, Zenon DEF KindAt
  <2>3. QED BY <1>1, <1>2, <1>3, <1>4, <2>1, <2>2 DEF CallInv, ToAccept, Accepted
<1>8. MemInv'
  <2>1. \A j \in OpIds : op[j].stage # "free" => op[j].tl \in Clients
    BY Zenon DEF CallInv
  <2>2. ASSUME NEW j \in OpIds \ {i}
        PROVE  /\ op[j].stage # "free" =>
                    /\ (cur[op[j].tl] = j /\ at'[op[j].tl] \in BufferAt)
                         <=> (cur[op[j].tl] = j /\ at[op[j].tl] \in BufferAt)
                    /\ (cur[op[j].tl] = j /\ at'[op[j].tl] \in ThunkAt)
                         <=> (cur[op[j].tl] = j /\ at[op[j].tl] \in ThunkAt)
               /\ mem'[j] = mem[j] /\ op'[j] = op[j]
    BY <1>3, <1>4, <2>1, Zenon
  <2>3. /\ op[i].kind = "work" <=> to = "executed"
        /\ op[i].kind = "call" <=> to # "executed"
    BY <1>1, <1>4, Zenon DEF KindAt
  <2>4. /\ op'[i].kind = "work" => mem'[i] = Owner(to \in BufferAt) + Owner(x = "pending")
        /\ op'[i].kind = "call" =>
             mem'[i] = Owner(to \in ThunkAt) + Owner(x \in {"pending", "running", "dropped"})
    BY <1>2, <1>3, <1>4, <1>5, <2>3 DEF Owner, BufferAt, ThunkAt
  <2>5. QED BY <1>1, <1>2, <1>3, <1>4, <2>2, <2>4 DEF MemInv, Owner
<1>9. OrderInv'
  <2>1. CASE x = "pending"
    BY <1>2, <2>1, AcceptOrder, Zenon
  <2>2. CASE x = "refused"
    <3>1. UNCHANGED <<promised, sem>>
      BY <1>2, <2>2, Zenon
    <3>2. \A j \in OpIds : op'[j].stage \in Accepted \/ op'[j].stage = "building" => op'[j] = op[j]
      BY <1>3, <2>2, Zenon DEF Accepted
    <3>3. QED BY <3>1, <3>2, ZenonT(60) DEF OrderInv
  <2>3. QED BY <2>1, <2>2, Zenon
<1>10. ReadInv' /\ CauseInv' /\ ErrInv'
  BY <1>1, <1>3, QuietStep, Zenon
<1>11. QED BY <1>6, <1>7, <1>8, <1>9, <1>10, Zenon

\* The HAL takes a barrier or a dispatch.
LEMMA DirectAcceptStep ==
    ASSUME IInv, NEW c \in Clients, at[c] = "direct", Accept(c), Return(c),
           UNCHANGED <<mem, sem, fence, asked, plan>>
    PROVE  IInv'
<1> USE DEF IInv
<1> DEFINE i == cur[c]
<1>1. /\ i \in OpIds /\ op[i].tl = c /\ op[i].stage = "building"
      /\ op[i].kind = "direct" /\ at[c] \in ToAccept
  BY DEF CallInv, ToAccept, KindAt
<1>2. /\ op' \in [OpIds -> OpType]
      /\ \A j \in OpIds \ {i} : op'[j] = op[j]
      /\ op'[i].stage = "pending" /\ op'[i].kind = op[i].kind /\ op'[i].tl = op[i].tl
  BY <1>1, StageUpdate, Zenon DEF TypeOK, Accept, Stages
<1>3. /\ \A d \in Clients \ {c} : at'[d] = at[d] /\ cur'[d] = cur[d]
      /\ at'[c] = "idle" /\ cur'[c] = 0 /\ ret' = [ret EXCEPT ![c] = NoRet]
  BY Zenon DEF TypeOK, Return
<1>4. TypeOK'
  <2>1. NoRet \in RetType
    BY DEF NoRet, RetType, HrxStatusCode, Ok
  <2>2. op[i].val \in Nat
    BY <1>1, Zenon DEF TypeOK, OpType
  <2>3. promised' \in [Clients -> Nat]
    BY <2>2, Zenon DEF TypeOK, Accept
  <2>4. at' \in [Clients -> Places] /\ cur' \in [Clients -> 0 .. MaxOps]
          /\ ret' \in [Clients -> RetType]
    BY <2>1, QueueAssumption DEF TypeOK, Return, Places
  <2>5. QED BY <1>2, <2>3, <2>4, Zenon DEF TypeOK
<1>5. CallInv'
  <2>1. \A d \in Clients \ {c} : at[d] \notin {"idle", "waiting"} => cur[d] # i
    BY <1>1 DEF CallInv
  <2>2. QED BY <1>1, <1>2, <1>3, <2>1 DEF CallInv, ToAccept, Accepted
<1>6. MemInv'
  <2>1. \A j \in OpIds : op[j].stage # "free" => op[j].tl \in Clients
    BY Zenon DEF CallInv
  <2>2. ASSUME NEW j \in OpIds \ {i}
        PROVE  /\ op[j].stage # "free" =>
                    /\ (cur'[op[j].tl] = j /\ at'[op[j].tl] \in BufferAt)
                         <=> (cur[op[j].tl] = j /\ at[op[j].tl] \in BufferAt)
                    /\ (cur'[op[j].tl] = j /\ at'[op[j].tl] \in ThunkAt)
                         <=> (cur[op[j].tl] = j /\ at[op[j].tl] \in ThunkAt)
               /\ mem'[j] = mem[j] /\ op'[j] = op[j]
    BY <1>2, <1>3, <2>1, Zenon DEF BufferAt, ThunkAt
  <2>3. QED BY <1>1, <1>2, <2>2 DEF MemInv, Owner
<1>7. OrderInv'
  BY AcceptOrder, Zenon
<1>8. ReadInv' /\ CauseInv' /\ ErrInv'
  BY Zenon, <1>1, <1>2, <1>3, QuietStep
<1>9. QED BY <1>4, <1>5, <1>6, <1>7, <1>8, Zenon

\* A call whose operation is decided lets go of what it owns and returns.
LEMMA ReturnStep ==
    ASSUME IInv, NEW c \in Clients, at[c] \in {"executed", "enqueued", "unqueued"},
           IF at[c] = "enqueued" THEN UNCHANGED mem ELSE mem' = [mem EXCEPT ![cur[c]] = @ - 1],
           Return(c), UNCHANGED <<op, sem, promised, fence, asked, plan>>
    PROVE  IInv'
<1> USE DEF IInv
<1> DEFINE i == cur[c]
<1>1. /\ i \in OpIds /\ op[i].tl = c /\ op[i].stage # "free" /\ op[i].stage # "building"
      /\ op[i].kind = KindAt(at[c])
  BY Zenon DEF CallInv, Accepted
<1>2. /\ \A d \in Clients \ {c} : at'[d] = at[d] /\ cur'[d] = cur[d]
      /\ at'[c] = "idle" /\ cur'[c] = 0 /\ ret' = [ret EXCEPT ![c] = NoRet]
  BY Zenon DEF TypeOK, Return
<1>3. /\ op[i].kind = "work" <=> at[c] = "executed"
      /\ op[i].kind = "call" <=> at[c] # "executed"
  BY <1>1, Zenon DEF KindAt
<1>4. /\ op[i].kind = "work" => mem[i] = 1 + Owner(op[i].stage = "pending")
      /\ op[i].kind = "call" => mem[i] = Owner(at[c] = "unqueued")
                                         + Owner(op[i].stage \in {"pending", "running", "dropped"})
  BY <1>1, <1>3, Zenon DEF MemInv, Owner, BufferAt, ThunkAt
<1>5. /\ \A j \in OpIds \ {i} : mem'[j] = mem[j]
      /\ mem'[i] = mem[i] - Owner(at[c] # "enqueued")
  <2>1. CASE at[c] = "enqueued"
    <3>1. mem' = mem /\ mem[i] \in 0 .. 2
      BY <1>1, <2>1, Zenon DEF TypeOK
    <3>2. QED BY <2>1, <3>1 DEF Owner
  <2>2. CASE at[c] # "enqueued"
    <3>1. mem' = [mem EXCEPT ![i] = @ - 1]
      BY <2>2, Zenon
    <3>2. QED BY <1>1, <2>2, <3>1, Zenon DEF Owner, TypeOK
  <2>3. QED BY <2>1, <2>2, Zenon
<1>6. TypeOK'
  <2>1. NoRet \in RetType
    BY DEF NoRet, RetType, HrxStatusCode, Ok
  <2>2. mem' \in [OpIds -> 0 .. 2]
    <3>1. CASE at[c] = "enqueued"
      BY <3>1, Zenon DEF TypeOK
    <3>2. CASE at[c] # "enqueued"
      <4>1. mem' = [mem EXCEPT ![i] = @ - 1]
        BY <3>2, Zenon
      <4>2. mem[i] - 1 \in 0 .. 2
        BY <1>3, <1>4, <3>2 DEF Owner
      <4>3. QED BY <4>1, <4>2, Zenon DEF TypeOK
    <3>3. QED BY <3>1, <3>2, Zenon
  <2>3. QED BY <2>1, <2>2, QueueAssumption DEF TypeOK, Return, Places
<1>7. CallInv'
  BY <1>1, <1>2 DEF CallInv, ToAccept, Accepted
<1>8. MemInv'
  <2>1. \A j \in OpIds : op[j].stage # "free" => op[j].tl \in Clients
    BY Zenon DEF CallInv
  <2>2. ASSUME NEW j \in OpIds \ {i}
        PROVE  /\ op[j].stage # "free" =>
                    /\ (cur'[op[j].tl] = j /\ at'[op[j].tl] \in BufferAt)
                         <=> (cur[op[j].tl] = j /\ at[op[j].tl] \in BufferAt)
                    /\ (cur'[op[j].tl] = j /\ at'[op[j].tl] \in ThunkAt)
                         <=> (cur[op[j].tl] = j /\ at[op[j].tl] \in ThunkAt)
               /\ mem'[j] = mem[j]
    BY <1>2, <1>5, <2>1, Zenon DEF BufferAt, ThunkAt, OpIds
  <2>3. /\ op[i].kind = "work" => mem'[i] = Owner(op[i].stage = "pending")
        /\ op[i].kind = "call" => mem'[i] = Owner(op[i].stage \in {"pending", "running", "dropped"})
    BY <1>3, <1>4, <1>5 DEF Owner
  <2>4. cur'[c] # i
    BY <1>1, <1>2 DEF OpIds
  <2>5. op[i].kind = "work" \/ op[i].kind = "call"
    BY <1>3, Zenon
  <2>6. QED BY <1>1, <2>2, <2>3, <2>4, <2>5 DEF MemInv, Owner
<1>9. OrderInv'
  BY Zenon DEF OrderInv
<1>10. ReadInv' /\ CauseInv' /\ ErrInv'
  BY Zenon, <1>2, QuietStep
<1>11. QED BY <1>6, <1>7, <1>8, <1>9, <1>10, Zenon

(***************************************************************************)
(* The device.                                                             *)
(***************************************************************************)
\* Operation i, with the HAL, goes to stage x; nothing else of it changes but
\* its error.
Settles(i, x) ==
    /\ op' \in [OpIds -> OpType]
    /\ \A j \in OpIds \ {i} : op'[j] = op[j]
    /\ op'[i].stage = x /\ op'[i].kind = op[i].kind /\ op'[i].tl = op[i].tl
    /\ op'[i].val = op[i].val /\ op'[i].wait = op[i].wait

\* A call that still runs finds its operation further on, but decided.
LEMMA SettleCall ==
    ASSUME IInv, NEW i \in OpIds, op[i].stage \in {"pending", "running"},
           NEW x \in {"running", "done", "failed", "dropped"}, Settles(i, x),
           UNCHANGED <<at, cur>>
    PROVE  CallInv'
<1>1. /\ op[i].stage # "building" /\ op[i].stage # "refused" /\ op[i].stage # "free"
      /\ x \in Accepted /\ x # "building" /\ x # "free"
  BY Zenon DEF Accepted
<1>2. ASSUME NEW c \in Clients, at[c] \notin {"idle", "waiting"}
      PROVE  /\ cur[c] \in OpIds
             /\ op'[cur[c]].tl = c
             /\ op'[cur[c]].kind = KindAt(at[c])
             /\ at[c] \in ToAccept => op'[cur[c]].stage = "building"
             /\ at[c] = "executed" => op'[cur[c]].stage \in Accepted \cup {"refused"}
             /\ at[c] = "enqueued" => op'[cur[c]].stage \in Accepted
             /\ at[c] = "unqueued" => op'[cur[c]].stage = "refused"
  <2>1. CASE cur[c] = i
    BY <1>1, <1>2, <2>1, Zenon DEF IInv, CallInv, Settles
  <2>2. CASE cur[c] # i
    BY <1>2, <2>2 DEF IInv, CallInv, Settles
  <2>3. QED BY <2>1, <2>2, Zenon
<1>3. \A j \in OpIds : op'[j].stage # "free" => op'[j].tl \in Clients
  BY <1>1 DEF IInv, CallInv, Settles
<1>4. \A j \in OpIds : op'[j].stage = "building" => at[op'[j].tl] \in ToAccept /\ cur[op'[j].tl] = j
  BY <1>1 DEF IInv, CallInv, Settles
<1>5. QED BY <1>2, <1>3, <1>4, Zenon DEF CallInv

\* The queue's reference goes when the operation ends, with the thunk of a
\* dropped host call the exception.
LEMMA SettleMem ==
    ASSUME IInv, NEW i \in OpIds, op[i].stage \in {"pending", "running"},
           NEW x \in {"running", "done", "failed", "dropped"}, Settles(i, x),
           NEW m,
           op[i].kind = "work" => m = mem[i] - 1 /\ x # "running" /\ op[i].stage = "pending",
           op[i].kind = "call" => m = IF x \in {"done", "failed"} THEN mem[i] - 1 ELSE mem[i],
           op[i].kind \notin {"work", "call"} => m = mem[i] /\ x # "running",
           mem' = [mem EXCEPT ![i] = m], UNCHANGED <<at, cur>>
    PROVE  MemInv' /\ mem' \in [OpIds -> 0 .. 2]
<1>1. /\ \A j \in OpIds \ {i} : mem'[j] = mem[j]
      /\ mem'[i] = m /\ mem[i] \in 0 .. 2
  BY Zenon DEF IInv, TypeOK
<1> DEFINE b == cur[op[i].tl] = i /\ at[op[i].tl] \in BufferAt
           t == cur[op[i].tl] = i /\ at[op[i].tl] \in ThunkAt
<1>2. /\ op[i].kind = "work" => mem[i] = Owner(b) + 1
      /\ op[i].kind = "call" => mem[i] = Owner(t) + 1
  BY Zenon DEF IInv, MemInv, Owner
<1>3. /\ op[i].kind = "work" => m = Owner(b) + Owner(x = "pending")
      /\ op[i].kind = "call" => m = Owner(t) + Owner(x \in {"pending", "running", "dropped"})
      /\ x = "running" => op[i].kind = "call"
  BY <1>1, <1>2 DEF Owner
<1>4. m \in 0 .. 2
  BY <1>1, <1>2 DEF Owner
<1>5. mem' \in [OpIds -> 0 .. 2]
  BY <1>4, Zenon DEF IInv, TypeOK
<1>6. ASSUME NEW j \in OpIds
      PROVE  /\ op'[j].stage = "free" => mem'[j] = 0 /\ op'[j].kind = "none"
             /\ op'[j].stage = "running" => op'[j].kind = "call"
             /\ op'[j].kind = "work" =>
                  mem'[j] = Owner(cur[op'[j].tl] = j /\ at[op'[j].tl] \in BufferAt)
                            + Owner(op'[j].stage = "pending")
             /\ op'[j].kind = "call" =>
                  mem'[j] = Owner(cur[op'[j].tl] = j /\ at[op'[j].tl] \in ThunkAt)
                            + Owner(op'[j].stage \in {"pending", "running", "dropped"})
  <2>1. CASE j = i
    BY <1>1, <1>3, <2>1, Zenon DEF Settles
  <2>2. CASE j # i
    BY <1>1, <2>2 DEF IInv, MemInv, Settles
  <2>3. QED BY <2>1, <2>2, Zenon
<1>7. QED BY <1>5, <1>6, Zenon DEF MemInv

\* An operation that starts, fails or is dropped does not move its timeline.
LEMMA SettleOrder ==
    ASSUME IInv, NEW i \in OpIds, op[i].stage \in {"pending", "running"},
           NEW x \in {"running", "failed", "dropped"}, Settles(i, x),
           x = "running" => \A p \in op[i].wait : Reached(p),
           \A c \in Clients : sem'[c].value = sem[c].value, UNCHANGED promised
    PROVE  OrderInv'
<1> USE DEF IInv
<1>1. /\ op[i].stage \in Accepted /\ x \in Accepted /\ x # "building"
      /\ op[i].stage # "done" /\ x # "done"
  BY Zenon DEF Accepted
<1>2. /\ op[i].val \in 1 .. promised[op[i].tl] /\ <<op[i].tl, op[i].val - 1>> \in op[i].wait
      /\ ~(op[i].val <= sem[op[i].tl].value)
  BY <1>1, Zenon DEF OrderInv
<1>3. x = "running" => op[i].val - 1 <= sem[op[i].tl].value
  <2>1. op[i].tl \in Clients
    BY <1>1, Zenon DEF CallInv, Accepted
  <2>2. op[i].val \in Nat /\ sem[op[i].tl].value \in Nat
    BY <2>1, Zenon DEF TypeOK, OpType
  <2>3. QED BY <1>2, <2>2, Zenon DEF Reached
<1>4. \A j \in OpIds : op'[j].stage \in Accepted <=> op[j].stage \in Accepted
  BY <1>1, Zenon DEF Settles
<1>5. \A j \in OpIds : op'[j].tl = op[j].tl /\ op'[j].val = op[j].val /\ op'[j].wait = op[j].wait
  BY Zenon DEF Settles
<1>6. \A j \in OpIds : op'[j].stage # "free" => op'[j].tl \in Clients
  BY <1>1 DEF CallInv, Settles
<1>7. \A j \in OpIds : op'[j].stage = "building" => j # i /\ op[j].stage = "building"
  BY <1>1, Zenon DEF Settles
<1>8. ASSUME NEW j \in OpIds, op'[j].stage \in Accepted
      PROVE  /\ op'[j].val \in 1 .. promised[op'[j].tl]
             /\ <<op'[j].tl, op'[j].val - 1>> \in op'[j].wait
             /\ op'[j].val <= sem'[op'[j].tl].value => op'[j].stage = "done"
             /\ op'[j].stage = "running" => op'[j].val - 1 <= sem'[op'[j].tl].value
  <2>1. sem'[op'[j].tl].value = sem[op[j].tl].value
    BY <1>5, <1>6, <1>8, Zenon DEF Accepted
  <2>2. CASE j = i
    BY <1>2, <1>3, <1>5, <2>1, <2>2, Zenon DEF Settles
  <2>3. CASE j # i
    BY <1>4, <1>5, <1>8, <2>1, <2>3 DEF OrderInv, Settles
  <2>4. QED BY <2>2, <2>3, Zenon
<1>9. QED BY <1>4, <1>5, <1>7, <1>8 DEF OrderInv

\* An operation that succeeds takes its timeline from the timepoint before its
\* own to its own, so everything below it is done.
LEMMA DoneOrder ==
    ASSUME IInv, NEW i \in OpIds, op[i].stage \in {"pending", "running"}, Settles(i, "done"),
           op[i].stage = "pending" => \A p \in op[i].wait : Reached(p),
           sem'[op[i].tl].value = op[i].val,
           \A c \in Clients \ {op[i].tl} : sem'[c].value = sem[c].value, UNCHANGED promised
    PROVE  OrderInv' /\ \A c \in Clients : sem[c].value <= sem'[c].value
<1> USE DEF IInv
<1> DEFINE tl == op[i].tl
<1>1. op[i].stage \in Accepted /\ op[i].stage # "done" /\ tl \in Clients
  BY Zenon DEF Accepted, CallInv
<1>2. op[i].val \in Nat /\ \A c \in Clients : sem[c].value \in Nat /\ promised[c] \in Nat
  BY Zenon DEF TypeOK, OpType
<1>3. /\ op[i].val \in 1 .. promised[tl] /\ <<tl, op[i].val - 1>> \in op[i].wait
      /\ ~(op[i].val <= sem[tl].value)
      /\ op[i].stage = "running" => op[i].val - 1 <= sem[tl].value
  BY <1>1, Zenon DEF OrderInv
<1>4. op[i].val - 1 <= sem[tl].value
  <2>1. CASE op[i].stage = "running"
    BY <1>3, <2>1, Zenon
  <2>2. CASE op[i].stage = "pending"
    <3>1. Reached(<<tl, op[i].val - 1>>)
      BY <1>3, <2>2, Zenon
    <3>2. QED BY <1>1, <1>2, <3>1, Zenon DEF Reached
  <2>3. QED BY <2>1, <2>2, Zenon
<1>5. op[i].val = sem[tl].value + 1
  BY <1>1, <1>2, <1>3, <1>4
<1>6. \A j \in OpIds : /\ op'[j].stage \in Accepted <=> op[j].stage \in Accepted
                       /\ op'[j].tl = op[j].tl /\ op'[j].val = op[j].val /\ op'[j].wait = op[j].wait
                       /\ j # i => op'[j].stage = op[j].stage
  BY <1>1, Zenon DEF Settles, Accepted
<1>7. \A j \in OpIds : op'[j].stage = "building" => j # i /\ op[j].stage = "building"
  BY <1>6, Zenon DEF Settles
<1>8. ASSUME NEW j \in OpIds, op'[j].stage \in Accepted
      PROVE  /\ op'[j].val \in 1 .. promised[op'[j].tl]
             /\ <<op'[j].tl, op'[j].val - 1>> \in op'[j].wait
             /\ op'[j].val <= sem'[op'[j].tl].value => op'[j].stage = "done"
             /\ op'[j].stage = "running" => op'[j].val - 1 <= sem'[op'[j].tl].value
  <2>1. op[j].stage \in Accepted /\ op[j].tl \in Clients /\ op[j].val \in Nat
    BY <1>6, <1>8 DEF CallInv, Accepted, TypeOK, OpType
  <2>2. /\ op[j].val \in 1 .. promised[op[j].tl]
        /\ <<op[j].tl, op[j].val - 1>> \in op[j].wait
        /\ op[j].val <= sem[op[j].tl].value => op[j].stage = "done"
        /\ op[j].stage = "running" => op[j].val - 1 <= sem[op[j].tl].value
        /\ op[j].tl = tl /\ op[j].val = op[i].val => j = i
    BY <1>1, <2>1, Zenon DEF OrderInv
  <2>3. CASE j = i
    BY <1>6, <2>2, <2>3, Zenon DEF Settles
  <2>4. CASE j # i /\ op[j].tl = tl
    <3>1. sem'[tl].value = sem[tl].value + 1 /\ op[j].val # sem[tl].value + 1
      BY <1>5, <2>2, <2>4, Zenon
    <3>2. sem[tl].value \in Nat
      BY <1>1, <1>2, Zenon
    <3>3. QED BY <1>6, <2>1, <2>2, <2>4, <3>1, <3>2
  <2>5. CASE op[j].tl # tl
    <3>1. sem'[op[j].tl].value = sem[op[j].tl].value /\ j # i
      BY <2>1, <2>5, Zenon
    <3>2. QED BY <1>6, <2>2, <3>1, Zenon
  <2>6. QED BY <2>3, <2>4, <2>5, Zenon
<1>9. ASSUME NEW c \in Clients
      PROVE  sem[c].value <= sem'[c].value /\ sem'[c].value <= promised[c]
  <2>1. sem[c].value <= promised[c]
    BY Zenon DEF OrderInv
  <2>2. CASE c = tl
    BY <1>2, <1>3, <1>5, <2>2
  <2>3. CASE c # tl
    BY <1>2, <2>1, <2>3
  <2>4. QED BY <2>2, <2>3, Zenon
<1>10. QED BY <1>6, <1>7, <1>8, <1>9 DEF OrderInv

\* What an operation does to the records of what was read and what failed.
LEMMA SettleRead ==
    ASSUME IInv, NEW i \in OpIds, op[i].stage \in {"pending", "running"},
           NEW x, Settles(i, x),
           \A c \in Clients : sem[c].value <= sem'[c].value,
           sem' \in [Clients -> [value : Nat, fail : IreeStatusCode]],
           \A c \in Clients : \/ sem'[c].fail = sem[c].fail
                              \/ \E d \in Clients : sem[d].fail # Ok /\ sem'[c].fail = sem[d].fail
                              \/ x = "failed" /\ sem'[c].fail = op'[i].err,
           \A c \in Clients : sem[c].fail # Ok => sem'[c].fail = sem[c].fail,
           UNCHANGED ret
    PROVE  ReadInv' /\ CauseInv' /\ ErrInv'
<1>1. \A j \in OpIds : op[j].stage = "failed" => op'[j] = op[j]
  BY Zenon DEF Settles
<1>2. ReadInv'
  <2>1. SUFFICES ASSUME NEW c \in Clients, ret[c].code = Ok, ~ret[c].lost, NEW p \in ret[c].claims
                 PROVE  p[2] <= sem'[p[1]].value
    BY Zenon DEF ReadInv
  <2>2. p[2] <= sem[p[1]].value /\ p \in Timepoints
    BY <2>1, Zenon DEF IInv, ReadInv, TypeOK, RetType
  <2>3. p[1] \in Clients /\ p[2] \in Nat
    BY <2>2, Zenon DEF Timepoints
  <2>4. sem[p[1]].value \in Nat /\ sem'[p[1]].value \in Nat
    BY <2>3, Zenon DEF IInv, TypeOK
  <2>5. QED BY <2>2, <2>3, <2>4
<1>3. CauseInv'
  <2>1. SUFFICES ASSUME NEW c \in Clients, sem'[c].fail # Ok
                 PROVE  \E j \in OpIds : op'[j].stage = "failed" /\ op'[j].err = sem'[c].fail
    BY Zenon DEF CauseInv
  <2>2. CASE x = "failed" /\ sem'[c].fail = op'[i].err
    BY <2>2, Zenon DEF Settles
  <2>3. CASE \E d \in Clients : sem[d].fail # Ok /\ sem'[c].fail = sem[d].fail
    <3>1. PICK d \in Clients : sem[d].fail # Ok /\ sem'[c].fail = sem[d].fail
      BY <2>3, Zenon
    <3>2. PICK j \in OpIds : op[j].stage = "failed" /\ op[j].err = sem[d].fail
      BY <3>1, Zenon DEF IInv, CauseInv
    <3>3. QED BY ONLY <1>1, <3>1, <3>2, Zenon
  <2>4. CASE sem'[c].fail = sem[c].fail
    BY <1>1, <2>1, <2>4 DEF IInv, CauseInv
  <2>5. QED BY <2>2, <2>3, <2>4, Zenon
<1>4. ErrInv'
  <2>1. SUFFICES ASSUME NEW c \in Clients, ret[c].code # Ok, ret[c].claims # {},
                        NEW p \in ret[c].claims, sem[p[1]].fail # Ok
                 PROVE  sem'[p[1]].fail = sem[p[1]].fail
    BY Zenon DEF IInv, ErrInv
  <2>2. p \in Timepoints
    BY <2>1, Zenon DEF IInv, TypeOK, RetType
  <2>3. p[1] \in Clients
    BY <2>2, Zenon DEF Timepoints
  <2>4. QED BY <2>1, <2>3, Zenon
<1>5. QED BY <1>2, <1>3, <1>4, Zenon

\* What Complete changes.
LEMMA CompleteFacts ==
    ASSUME TypeOK, CallInv, NEW i \in OpIds, op[i].stage \in {"pending", "running"},
           NEW e \in IreeStatusCode, Complete(i, e)
    PROVE  /\ op[i].tl \in Clients /\ op[i].val \in Nat
           /\ Settles(i, IF e = Ok THEN "done" ELSE "failed") /\ op'[i].err = e
           /\ sem' \in [Clients -> [value : Nat, fail : IreeStatusCode]]
           /\ \A c \in Clients \ {op[i].tl} : sem'[c] = sem[c]
           /\ sem'[op[i].tl].value = IF e = Ok THEN op[i].val ELSE sem[op[i].tl].value
           /\ sem'[op[i].tl].fail = IF e = Ok \/ sem[op[i].tl].fail # Ok THEN sem[op[i].tl].fail ELSE e
<1> DEFINE tl == op[i].tl
           x == IF e = Ok THEN "done" ELSE "failed"
<1>1. op[i] \in OpType /\ tl \in Clients /\ op[i].val \in Nat
  BY DEF TypeOK, OpType, CallInv
<1>2. x \in Stages
  BY Zenon DEF Stages
<1>3. op' = [op EXCEPT ![i] = [op[i] EXCEPT !.stage = x, !.err = e]]
  BY Zenon DEF Complete, TypeOK
<1>4. op'[i] = [op[i] EXCEPT !.stage = x, !.err = e] /\ \A j \in OpIds \ {i} : op'[j] = op[j]
  BY <1>3, Zenon DEF TypeOK
<1>5. /\ op'[i] \in OpType /\ op'[i].stage = x /\ op'[i].err = e
      /\ op'[i].kind = op[i].kind /\ op'[i].tl = op[i].tl
      /\ op'[i].val = op[i].val /\ op'[i].wait = op[i].wait
  BY <1>1, <1>2, <1>4, Zenon DEF OpType
<1>6. Settles(i, x) /\ op'[i].err = e
  <2>1. op' \in [OpIds -> OpType]
    BY <1>3, <1>4, <1>5, Zenon DEF TypeOK
  <2>2. QED BY <1>4, <1>5, <2>1, Zenon DEF Settles
<1> DEFINE T == [value : Nat, fail : IreeStatusCode]
           first == IF sem[tl].fail = Ok THEN e ELSE sem[tl].fail
           new == IF e = Ok THEN [sem[tl] EXCEPT !.value = op[i].val]
                            ELSE [sem[tl] EXCEPT !.fail = first]
<1>7. sem[tl] \in T
  BY <1>1, Zenon DEF TypeOK
<1>8. /\ new \in T
      /\ new.value = IF e = Ok THEN op[i].val ELSE sem[tl].value
      /\ new.fail = IF e = Ok \/ sem[tl].fail # Ok THEN sem[tl].fail ELSE e
  <2>1. first \in IreeStatusCode
    BY <1>7, Zenon
  <2>2. QED BY <1>1, <1>7, <2>1, Zenon
<1>9. sem' = [sem EXCEPT ![tl] = new]
  <2>1. CASE e = Ok
    <3>1. sem' = [sem EXCEPT ![tl].value = op[i].val]
      BY <2>1, Zenon DEF Complete
    <3>2. QED BY <1>1, <2>1, <3>1, Zenon DEF TypeOK
  <2>2. CASE e # Ok
    <3>1. sem' = [sem EXCEPT ![tl].fail = IF @ = Ok THEN e ELSE @]
      BY <2>2, Zenon DEF Complete
    <3>2. sem' = [sem EXCEPT ![tl] = [sem[tl] EXCEPT !.fail = first]]
      BY <1>1, <3>1, Zenon DEF TypeOK
    <3>3. QED BY <2>2, <3>2, Zenon
  <2>3. QED BY <2>1, <2>2, Zenon
<1>10. sem' \in [Clients -> T] /\ sem'[tl] = new /\ \A c \in Clients \ {tl} : sem'[c] = sem[c]
  BY <1>1, <1>8, <1>9, Zenon DEF TypeOK
<1>11. QED BY <1>1, <1>6, <1>8, <1>10, Zenon



(***************************************************************************)
(* The device.                                                             *)
(***************************************************************************)
\* An operation completes.
LEMMA CompleteStep ==
    ASSUME IInv, NEW i \in OpIds, op[i].stage \in {"pending", "running"},
           op[i].stage = "pending" => op[i].kind # "call" /\ \A p \in op[i].wait : Reached(p),
           NEW e \in IreeStatusCode, Complete(i, e),
           mem' = [mem EXCEPT ![i] = IF op[i].kind \in {"work", "call"} THEN mem[i] - 1 ELSE mem[i]],
           UNCHANGED <<promised, fence, at, cur, asked, ret, plan>>
    PROVE  IInv'
<1> DEFINE x == IF e = Ok THEN "done" ELSE "failed"
           tl == op[i].tl
<1>1. /\ tl \in Clients /\ op[i].val \in Nat
      /\ Settles(i, x) /\ op'[i].err = e
      /\ sem' \in [Clients -> [value : Nat, fail : IreeStatusCode]]
      /\ \A c \in Clients \ {tl} : sem'[c] = sem[c]
      /\ sem'[tl].value = IF e = Ok THEN op[i].val ELSE sem[tl].value
      /\ sem'[tl].fail = IF e = Ok \/ sem[tl].fail # Ok THEN sem[tl].fail ELSE e
  BY CompleteFacts, Zenon DEF IInv
<1>2. x \in {"done", "failed"} /\ (x = "done" <=> e = Ok)
  BY Zenon
<1> HIDE DEF x
<1>3. CallInv'
  BY <1>1, <1>2, SettleCall, Zenon
<1>4. MemInv' /\ mem' \in [OpIds -> 0 .. 2]
  <2>1. op[i].stage = "running" => op[i].kind = "call"
    BY Zenon DEF IInv, MemInv
  <2>2. x \in {"running", "done", "failed", "dropped"} /\ x # "running" /\ UNCHANGED <<at, cur>>
          /\ Settles(i, x)
    BY <1>1, <1>2, Zenon
  <2>3. mem[i] \in 0 .. 2
    BY Zenon DEF IInv, TypeOK
  <2>4. CASE op[i].kind = "work"
    <3>1. mem' = [mem EXCEPT ![i] = mem[i] - 1] /\ op[i].stage = "pending"
      BY <2>1, <2>4, Zenon
    <3>2. QED BY Zenon, <2>2, <2>4, <3>1, SettleMem
  <2>5. CASE op[i].kind = "call"
    <3>1. mem' = [mem EXCEPT ![i] = mem[i] - 1]
      BY <2>5, Zenon
    <3>2. op[i].kind # "work" /\ op[i].kind \in {"work", "call"} /\ x \in {"done", "failed"}
      BY <1>2, <2>5, Zenon
    <3>3. QED BY Zenon, <2>2, <3>1, <3>2, SettleMem
  <2>6. CASE op[i].kind \notin {"work", "call"}
    <3>1. mem' = [mem EXCEPT ![i] = mem[i]]
      BY <2>6, Zenon
    <3>2. op[i].kind # "work" /\ op[i].kind # "call"
      BY <2>6, Zenon
    <3>3. QED BY Zenon, <2>2, <3>1, <3>2, SettleMem
  <2>7. QED BY <2>4, <2>5, <2>6, Zenon
<1>5. OrderInv' /\ \A c \in Clients : sem[c].value <= sem'[c].value
  <2>1. CASE x = "done"
    <3>1. /\ Settles(i, "done") /\ sem'[tl].value = op[i].val
          /\ \A c \in Clients \ {tl} : sem'[c].value = sem[c].value
      BY <1>1, <1>2, <2>1, Zenon
    <3>2. QED BY <3>1, DoneOrder, Zenon
  <2>2. CASE x = "failed"
    <3>1. \A c \in Clients : sem'[c].value = sem[c].value /\ sem[c].value \in Nat
      BY <1>1, <1>2, <2>2, Zenon DEF IInv, TypeOK
    <3>2. OrderInv'
      BY Zenon, <1>1, <2>2, <3>1, SettleOrder
    <3>3. QED BY <3>1, <3>2
  <2>3. QED BY <1>2, <2>1, <2>2, Zenon
<1>6. ReadInv' /\ CauseInv' /\ ErrInv'
  <2>1. \A c \in Clients : sem'[c].fail = sem[c].fail \/ (x = "failed" /\ sem'[c].fail = op'[i].err)
    BY <1>1, <1>2, Zenon
  <2>2. \A c \in Clients : sem[c].fail # Ok => sem'[c].fail = sem[c].fail
    BY <1>1, Zenon
  <2>3. QED BY <1>1, <1>5, <2>1, <2>2, SettleRead, Zenon
<1>7. TypeOK'
  BY <1>1, <1>4, Zenon DEF IInv, TypeOK, Settles
<1>8. QED BY <1>3, <1>4, <1>5, <1>6, <1>7, Zenon DEF IInv

\* An operation is dropped because something it waits for failed.
LEMMA DropStep ==
    ASSUME IInv, NEW i \in OpIds, Drop(i)
    PROVE  IInv'
<1> DEFINE tl == op[i].tl
<1>1. PICK p \in op[i].wait :
        /\ Failed(p) /\ op' = [op EXCEPT ![i].stage = "dropped"]
        /\ sem' = [sem EXCEPT ![tl].fail = IF @ = Ok THEN sem[p[1]].fail ELSE @]
  BY Zenon DEF Drop
<1>2. op[i].stage = "pending" /\ tl \in Clients /\ op[i] \in OpType
  BY DEF Drop, IInv, CallInv, TypeOK
<1>3. p[1] \in Clients /\ sem[p[1]].fail \in IreeStatusCode /\ sem[p[1]].fail # Ok
  <2>1. p \in Timepoints
    BY <1>2, Zenon DEF OpType
  <2>2. p[1] \in Clients
    BY <2>1, Zenon DEF Timepoints
  <2>3. QED BY <1>1, <2>2, Zenon DEF Failed, IInv, TypeOK
<1>4. Settles(i, "dropped")
  BY <1>1, StageUpdate, Zenon DEF IInv, TypeOK, Stages, Settles
<1> DEFINE T == [value : Nat, fail : IreeStatusCode]
           f == IF sem[tl].fail = Ok THEN sem[p[1]].fail ELSE sem[tl].fail
<1>5. sem[tl] \in T /\ f \in IreeStatusCode
  BY <1>2, <1>3, Zenon DEF IInv, TypeOK
<1>6. sem' = [sem EXCEPT ![tl] = [sem[tl] EXCEPT !.fail = f]]
  BY <1>1, <1>2, Zenon DEF IInv, TypeOK
<1>7. /\ sem' \in [Clients -> T]
      /\ \A c \in Clients : sem'[c].value = sem[c].value
      /\ \A c \in Clients \ {tl} : sem'[c].fail = sem[c].fail
      /\ sem'[tl].fail = f
  <2>1. [sem[tl] EXCEPT !.fail = f] \in T
    BY <1>5, Zenon
  <2>2. /\ [sem[tl] EXCEPT !.fail = f].value = sem[tl].value
        /\ [sem[tl] EXCEPT !.fail = f].fail = f
    BY <1>5, Zenon
  <2>3. QED BY <1>2, <1>6, <2>1, <2>2, Zenon DEF IInv, TypeOK
<1>8. CallInv'
  BY <1>2, <1>4, SettleCall, Zenon DEF Drop
<1>9. MemInv' /\ mem' \in [OpIds -> 0 .. 2]
  <2> DEFINE m == IF op[i].kind = "work" THEN mem[i] - 1 ELSE mem[i]
  <2>1. mem[i] \in 0 .. 2
    BY Zenon DEF IInv, TypeOK
  <2>2. /\ op[i].kind = "work" => m = mem[i] - 1 /\ "dropped" # "running" /\ op[i].stage = "pending"
        /\ op[i].kind = "call" => m = mem[i]
        /\ op[i].kind \notin {"work", "call"} => m = mem[i] /\ "dropped" # "running"
    BY <1>2, <2>1, Zenon
  <2>3. mem' = [mem EXCEPT ![i] = m] /\ UNCHANGED <<at, cur>>
    BY Zenon DEF Drop
  <2> HIDE DEF m
  <2>4. QED BY Zenon, <1>2, <1>4, <2>2, <2>3, SettleMem
<1>10. OrderInv'
  BY <1>2, <1>4, <1>7, SettleOrder, Zenon DEF Drop
<1>11. ReadInv' /\ CauseInv' /\ ErrInv'
  <2>1. \A c \in Clients : sem[c].value <= sem'[c].value
    BY <1>7 DEF IInv, TypeOK
  <2>2. \A c \in Clients : \/ sem'[c].fail = sem[c].fail
                           \/ \E d \in Clients : sem[d].fail # Ok /\ sem'[c].fail = sem[d].fail
    BY <1>3, <1>7, Zenon
  <2>3. UNCHANGED ret /\ op[i].stage \in {"pending", "running"}
    BY <1>2, Zenon DEF Drop
  <2>4. \A c \in Clients : sem[c].fail # Ok => sem'[c].fail = sem[c].fail
    BY <1>7, Zenon
  <2> HIDE DEF T
  <2>5. QED BY <1>4, <1>7, <2>1, <2>2, <2>3, <2>4, SettleRead DEF T
<1>12. TypeOK'
  BY <1>4, <1>7, <1>9, Zenon DEF IInv, TypeOK, Settles, Drop
<1>13. QED BY <1>8, <1>9, <1>10, <1>11, <1>12, Zenon DEF IInv

\* The trampoline is entered.
LEMMA CallBackStep ==
    ASSUME IInv, NEW i \in OpIds, CallBack(i)
    PROVE  IInv'
<1>1. /\ op[i].stage = "pending" /\ op[i].kind = "call" /\ Settles(i, "running")
      /\ \A p \in op[i].wait : Reached(p)
  BY StageUpdate, Zenon DEF CallBack, IInv, TypeOK, Stages, Settles
<1>2. UNCHANGED <<mem, sem, promised, fence, at, cur, asked, ret, plan>>
  BY Zenon DEF CallBack
<1>3. CallInv'
  BY <1>1, <1>2, SettleCall, Zenon
<1>4. MemInv'
  <2>1. mem[i] \in 0 .. 2 /\ mem' = [mem EXCEPT ![i] = mem[i]]
    BY <1>2, Zenon DEF IInv, TypeOK
  <2>2. QED BY Zenon, <1>1, <1>2, <2>1, SettleMem
<1>5. OrderInv'
  BY <1>1, <1>2, SettleOrder, Zenon
<1>6. ReadInv' /\ CauseInv' /\ ErrInv'
  <2>1. \A c \in Clients : sem[c].value <= sem'[c].value
    BY <1>2 DEF IInv, TypeOK
  <2>2. sem' \in [Clients -> [value : Nat, fail : IreeStatusCode]]
    BY <1>2, Zenon DEF IInv, TypeOK
  <2>3. QED BY <1>1, <1>2, <2>1, <2>2, SettleRead, Zenon
<1>7. TypeOK'
  BY <1>1, <1>2, Zenon DEF IInv, TypeOK, Settles
<1>8. QED BY <1>3, <1>4, <1>5, <1>6, <1>7, Zenon DEF IInv

\* Every step of the device preserves the invariant.
LEMMA DeviceStep ==
    ASSUME IInv, NEW i \in OpIds, Device(i)
    PROVE  IInv'
<1>1. /\ Faults \cup {Ok} \subseteq IreeStatusCode
      /\ (Faults \cap HrxStatusCode) \cup {Ok} \subseteq HrxStatusCode
  BY QueueAssumption DEF IreeStatusCode, HrxStatusCode, Ok
<1>2. CASE Execute(i)
  <2>1. PICK e \in IreeStatusCode : Complete(i, e)
    BY <1>1, <1>2, Zenon DEF Execute
  <2>2. mem' = [mem EXCEPT ![i] = IF op[i].kind \in {"work", "call"} THEN mem[i] - 1 ELSE mem[i]]
    BY <1>2, Zenon DEF Execute
  <2>3. QED BY <1>2, <2>1, <2>2, CompleteStep, Zenon DEF Execute
<1>3. CASE Drop(i)
  BY <1>3, DropStep, Zenon
<1>4. CASE CallBack(i)
  BY <1>4, CallBackStep, Zenon
<1>5. CASE host_call_trampoline(i)
  <2>1. PICK code \in HrxStatusCode : Complete(i, hrx_status_to_iree(code))
    BY <1>1, <1>5, Zenon DEF host_call_trampoline
  <2>2. hrx_status_to_iree(code) \in IreeStatusCode
    BY DEF hrx_status_to_iree, HrxStatusCode, IreeStatusCode, ResourceExhausted
  <2>3. op[i].stage = "running" /\ op[i].kind = "call"
    BY <1>5, Zenon DEF host_call_trampoline, IInv, MemInv
  <2>4. mem' = [mem EXCEPT ![i] = IF op[i].kind \in {"work", "call"} THEN mem[i] - 1 ELSE mem[i]]
    BY <1>5, <2>3, Zenon DEF host_call_trampoline
  <2>5. UNCHANGED <<promised, fence, at, cur, asked, ret, plan>>
    BY <1>5, Zenon DEF host_call_trampoline
  <2> HIDE DEF hrx_status_to_iree
  <2>6. QED BY Zenon, <2>1, <2>2, <2>3, <2>4, <2>5, CompleteStep
<1>6. QED BY <1>2, <1>3, <1>4, <1>5, Zenon DEF Device

(***************************************************************************)
(* Semaphores and fences.                                                  *)
(***************************************************************************)
\* A call that is not a submission has nothing of an operation in hand.
LEMMA NoSubmission ==
    ASSUME IInv, NEW c \in Clients, at[c] \in {"idle", "waiting"},
           NEW to \in {"idle", "waiting"}, at' = [at EXCEPT ![c] = to],
           cur' = cur \/ cur' = [cur EXCEPT ![c] = 0], UNCHANGED <<op, mem>>
    PROVE  /\ CallInv' /\ MemInv'
           /\ op' \in [OpIds -> OpType] /\ mem' \in [OpIds -> 0 .. 2]
           /\ at' \in [Clients -> Places] /\ cur' \in [Clients -> 0 .. MaxOps]
<1>1. /\ \A d \in Clients \ {c} : at'[d] = at[d] /\ cur'[d] = cur[d]
      /\ at'[c] = to
  BY Zenon DEF IInv, TypeOK
<1>2. CallInv'
  BY <1>1 DEF IInv, CallInv, ToAccept
<1>3. MemInv'
  <2>1. \A j \in OpIds : op[j].stage # "free" => op[j].tl \in Clients
    BY Zenon DEF IInv, CallInv
  <2>2. ASSUME NEW j \in OpIds, op[j].stage # "free"
        PROVE  /\ (cur'[op[j].tl] = j /\ at'[op[j].tl] \in BufferAt)
                    <=> (cur[op[j].tl] = j /\ at[op[j].tl] \in BufferAt)
               /\ (cur'[op[j].tl] = j /\ at'[op[j].tl] \in ThunkAt)
                    <=> (cur[op[j].tl] = j /\ at[op[j].tl] \in ThunkAt)
    BY <1>1, <2>1, <2>2, Zenon DEF BufferAt, ThunkAt
  <2>3. QED BY <2>2 DEF IInv, MemInv, Owner
<1>4. to \in Places /\ 0 \in 0 .. MaxOps
  BY QueueAssumption DEF Places
<1>5. QED BY <1>2, <1>3, <1>4 DEF IInv, TypeOK

\* The host signals the next timepoint of a timeline with nothing under way.
LEMMA SignalStep ==
    ASSUME IInv, NEW c \in Clients, at[c] = "idle", sem[c].value = promised[c],
           promised' = [promised EXCEPT ![c] = @ + 1],
           sem' = [sem EXCEPT ![c].value = promised[c] + 1],
           plan' = [plan EXCEPT ![c] = Tail(@)], Return(c),
           UNCHANGED <<op, mem, fence, asked>>
    PROVE  IInv'
<1>1. \A d \in Clients : promised[d] \in Nat /\ sem[d].value \in Nat /\ sem[d].fail \in IreeStatusCode
  BY Zenon DEF IInv, TypeOK
<1> DEFINE T == [value : Nat, fail : IreeStatusCode]
<1>2. /\ sem' \in [Clients -> T] /\ promised' \in [Clients -> Nat]
      /\ \A d \in Clients : sem'[d].fail = sem[d].fail
      /\ \A d \in Clients \ {c} : sem'[d].value = sem[d].value /\ promised'[d] = promised[d]
      /\ sem'[c].value = promised[c] + 1 /\ promised'[c] = promised[c] + 1
  <2>1. sem[c] \in T /\ sem' = [sem EXCEPT ![c] = [sem[c] EXCEPT !.value = promised[c] + 1]]
    BY Zenon DEF IInv, TypeOK
  <2>2. /\ [sem[c] EXCEPT !.value = promised[c] + 1] \in T
        /\ [sem[c] EXCEPT !.value = promised[c] + 1].value = promised[c] + 1
        /\ [sem[c] EXCEPT !.value = promised[c] + 1].fail = sem[c].fail
    BY <1>1, <2>1
  <2>3. QED BY <1>1, <2>1, <2>2 DEF IInv, TypeOK
<1>3. /\ CallInv' /\ MemInv'
      /\ op' \in [OpIds -> OpType] /\ mem' \in [OpIds -> 0 .. 2]
      /\ at' \in [Clients -> Places] /\ cur' \in [Clients -> 0 .. MaxOps]
  BY NoSubmission, Zenon DEF Return
<1>4. OrderInv'
  <2>1. \A j \in OpIds : op[j].stage = "building" => op[j].tl \in Clients \ {c}
    BY Zenon DEF IInv, CallInv, ToAccept
  <2>2. \A j \in OpIds : op[j].stage = "building" =>
          /\ op[j].val = promised'[op[j].tl] + 1
          /\ <<op[j].tl, op[j].val - 1>> \in op[j].wait
    BY <1>2, <2>1, Zenon DEF IInv, OrderInv
  <2>3. ASSUME NEW j \in OpIds, op[j].stage \in Accepted
        PROVE  /\ op[j].val \in 1 .. promised'[op[j].tl]
               /\ <<op[j].tl, op[j].val - 1>> \in op[j].wait
               /\ op[j].val <= sem'[op[j].tl].value => op[j].stage = "done"
               /\ op[j].stage = "running" => op[j].val - 1 <= sem'[op[j].tl].value
    <3>1. op[j].tl \in Clients
      BY <2>3, Zenon DEF IInv, CallInv, Accepted
    <3>2. /\ op[j].val \in 1 .. promised[op[j].tl]
          /\ <<op[j].tl, op[j].val - 1>> \in op[j].wait
          /\ op[j].val <= sem[op[j].tl].value => op[j].stage = "done"
          /\ op[j].stage = "running" => op[j].val - 1 <= sem[op[j].tl].value
      BY <2>3, Zenon DEF IInv, OrderInv
    <3>3. CASE op[j].tl = c
      BY <1>1, <1>2, <3>2, <3>3
    <3>4. CASE op[j].tl # c
      BY <1>2, <3>1, <3>2, <3>4, Zenon
    <3>5. QED BY <3>3, <3>4, Zenon
  <2>4. \A d \in Clients : sem'[d].value <= promised'[d]
    BY <1>1, <1>2 DEF IInv, OrderInv
  <2>5. QED BY <2>2, <2>3, <2>4, Zenon DEF IInv, OrderInv
<1>5. \A d \in Clients : ret'[d] = ret[d] \/ ret'[d] = NoRet
  BY Zenon DEF IInv, TypeOK, Return
<1>6. ReadInv'
  <2>1. SUFFICES ASSUME NEW d \in Clients, ret'[d].code = Ok, ~ret'[d].lost,
                        NEW p \in ret'[d].claims
                 PROVE  p[2] <= sem'[p[1]].value
    BY DEF ReadInv
  <2>2. ret'[d] = ret[d]
    BY <1>5, <2>1 DEF NoRet
  <2>3. p[2] <= sem[p[1]].value /\ p \in Timepoints
    BY <2>1, <2>2, Zenon DEF IInv, ReadInv, TypeOK, RetType
  <2>4. p[1] \in Clients /\ p[2] \in Nat
    BY <2>3, Zenon DEF Timepoints
  <2>5. QED BY <1>1, <1>2, <2>3, <2>4
<1>7. CauseInv'
  BY <1>2 DEF IInv, CauseInv
<1>8. ErrInv'
  <2>1. \A d \in Clients : ret[d].claims \subseteq Timepoints
    BY Zenon DEF IInv, TypeOK, RetType
  <2>2. \A p \in Timepoints : p[1] \in Clients
    BY Zenon DEF Timepoints
  <2>3. \A d \in Clients : \A p \in ret[d].claims : sem'[p[1]].fail = sem[p[1]].fail
    BY ONLY <1>2, <2>1, <2>2
  <2>4. QED BY <1>5, <2>3 DEF IInv, ErrInv, NoRet
<1>9. TypeOK'
  BY <1>2, <1>3, Defaults, Zenon DEF IInv, TypeOK, Return
<1>10. QED BY <1>3, <1>4, <1>6, <1>7, <1>8, <1>9, Zenon DEF IInv

\* A step that only changes what a client waits for, its fence or its calls.
LEMMA AskStep ==
    ASSUME IInv, NEW c \in Clients, at[c] = "idle",
           NEW to \in {"idle", "waiting"}, at' = [at EXCEPT ![c] = to],
           cur' = cur \/ cur' = [cur EXCEPT ![c] = 0],
           asked' \in [Clients -> [claims : SUBSET Timepoints, ns : Word]],
           fence' \in [Clients -> [Clients -> Nat]],
           ret' = [ret EXCEPT ![c] = NoRet], plan' = [plan EXCEPT ![c] = Tail(@)],
           UNCHANGED <<op, mem, sem, promised>>
    PROVE  IInv'
<1>1. /\ CallInv' /\ MemInv'
      /\ op' \in [OpIds -> OpType] /\ mem' \in [OpIds -> 0 .. 2]
      /\ at' \in [Clients -> Places] /\ cur' \in [Clients -> 0 .. MaxOps]
  BY Zenon, NoSubmission
<1>2. OrderInv'
  BY Zenon DEF IInv, OrderInv
<1>3. ReadInv' /\ CauseInv' /\ ErrInv'
  BY QuietStep, Zenon DEF IInv
<1>4. TypeOK'
  BY <1>1, Defaults, Zenon DEF IInv, TypeOK
<1>5. QED BY <1>1, <1>2, <1>3, <1>4, Zenon DEF IInv

\* A status is reported: a success about payloads that were reached, an error
\* with its cause.
LEMMA ReportStep ==
    ASSUME IInv, NEW c \in Clients, at[c] \in {"idle", "waiting"},
           NEW e \in IreeStatusCode, NEW claims \in SUBSET Timepoints, NEW forever \in BOOLEAN,
           Report(c, e, claims, forever),
           e = Ok => \A p \in claims : p[2] <= sem[p[1]].value,
           e # Ok => \/ e = DeadlineExceeded /\ ~forever
                     \/ \E p \in claims : /\ sem[p[1]].fail # Ok
                                         /\ hrx_code_from_iree(e) \in {sem[p[1]].fail, Internal},
           DOMAIN plan' = Clients, UNCHANGED <<op, mem, sem, promised, fence, cur>>
    PROVE  IInv'
<1>1. PICK code \in hrx_status_from_iree(e) :
        ret' = [ret EXCEPT ![c] = [code |-> code, claims |-> claims, forever |-> forever,
                                   lost |-> code = Ok /\ e # Ok]]
  BY Zenon DEF Report, Returned
<1>2. /\ code \in HrxStatusCode
      /\ code # Ok => e # Ok /\ code = hrx_code_from_iree(e)
  <2>1. code \in HrxStatusCode
    BY StatusConversion, Zenon
  <2>2. code # Ok => e # Ok /\ code = hrx_code_from_iree(e)
    BY Zenon DEF hrx_status_from_iree, hrx_make_status
  <2>3. QED BY <2>1, <2>2, Zenon
<1>3. hrx_code_from_iree(DeadlineExceeded) = DeadlineExceeded
  BY DEF hrx_code_from_iree, DeadlineExceeded
<1> DEFINE r == [code |-> code, claims |-> claims, forever |-> forever,
                 lost |-> code = Ok /\ e # Ok]
<1>4. /\ r \in RetType /\ r.claims = claims /\ r.forever = forever /\ r.code = code
      /\ r.code = Ok /\ ~r.lost => e = Ok
      /\ ret' = [ret EXCEPT ![c] = r]
  <2>1. (code = Ok /\ e # Ok) \in BOOLEAN
    BY Zenon
  <2>2. QED BY <1>1, <1>2, <2>1, Zenon DEF RetType
<1> HIDE DEF r
<1>5. ret'[c] = r /\ \A d \in Clients \ {c} : ret'[d] = ret[d]
  BY <1>4, Zenon DEF IInv, TypeOK
<1>6. /\ CallInv' /\ MemInv'
      /\ op' \in [OpIds -> OpType] /\ mem' \in [OpIds -> 0 .. 2]
      /\ at' \in [Clients -> Places] /\ cur' \in [Clients -> 0 .. MaxOps]
  BY NoSubmission, Zenon DEF Report
<1>7. OrderInv' /\ CauseInv'
  BY Zenon DEF IInv, OrderInv, CauseInv
<1>8. ReadInv'
  <2>1. SUFFICES ASSUME NEW d \in Clients, ret'[d].code = Ok, ~ret'[d].lost,
                        NEW p \in ret'[d].claims
                 PROVE  p[2] <= sem[p[1]].value
    BY Zenon DEF ReadInv
  <2>2. CASE d = c
    BY <1>4, <1>5, <2>1, <2>2, Zenon
  <2>3. CASE d # c
    BY <1>5, <2>1, <2>3, Zenon DEF IInv, ReadInv
  <2>4. QED BY <2>2, <2>3, Zenon
<1>9. ErrInv'
  <2>1. SUFFICES ASSUME NEW d \in Clients, ret'[d].code # Ok, ret'[d].claims # {}
                 PROVE  \/ ret'[d].code = DeadlineExceeded /\ ~ret'[d].forever
                        \/ \E p \in ret'[d].claims :
                             sem[p[1]].fail # Ok /\ ret'[d].code \in {sem[p[1]].fail, Internal}
    BY Zenon DEF ErrInv
  <2>2. CASE d = c
    BY <1>2, <1>3, <1>4, <1>5, <2>1, <2>2, Zenon
  <2>3. CASE d # c
    BY <1>5, <2>1, <2>3 DEF IInv, ErrInv
  <2>4. QED BY <2>2, <2>3, Zenon
<1>10. TypeOK'
  BY <1>4, <1>6, Defaults, Zenon DEF IInv, TypeOK, Report
<1>11. QED BY <1>6, <1>7, <1>8, <1>9, <1>10, Zenon DEF IInv

\* A query reports what its timeline failed with.
LEMMA QueryStep ==
    ASSUME IInv, NEW c \in Clients, hrx_semaphore_query(c)
    PROVE  IInv'
<1>1. PICK s \in Clients : Report(c, sem[s].fail, {<<s, sem[s].value>>}, FALSE)
  BY Zenon DEF hrx_semaphore_query
<1>2. sem[s].value \in Nat /\ sem[s].fail \in IreeStatusCode
  BY Zenon DEF IInv, TypeOK
<1>3. {<<s, sem[s].value>>} \in SUBSET Timepoints
  BY <1>2 DEF Timepoints
<1>4. at[c] \in {"idle", "waiting"} /\ UNCHANGED <<op, mem, sem, promised, fence, cur>>
        /\ DOMAIN plan' = Clients
  BY Zenon DEF hrx_semaphore_query, Calling, IInv, TypeOK
<1>5. \A p \in {<<s, sem[s].value>>} : p[2] <= sem[p[1]].value
  BY <1>2
<1>6. sem[s].fail # Ok => \E p \in {<<s, sem[s].value>>} :
        sem[p[1]].fail # Ok /\ hrx_code_from_iree(sem[s].fail) \in {sem[p[1]].fail, Internal}
  BY DEF hrx_code_from_iree
<1>7. FALSE \in BOOLEAN
  BY Zenon
<1>8. QED BY Zenon, <1>1, <1>2, <1>3, <1>4, <1>5, <1>6, <1>7, ReportStep

\* A wait reports what it ended for.
LEMMA WaitStep ==
    ASSUME IInv, NEW c \in Clients, WaitReturns(c)
    PROVE  IInv'
<1> DEFINE claims == asked[c].claims
           forever == asked[c].ns = WordMax
<1>1. claims \in SUBSET Timepoints /\ asked[c].ns \in Word /\ forever \in BOOLEAN
  BY Zenon DEF IInv, TypeOK
<1>2. at[c] \in {"idle", "waiting"} /\ DOMAIN plan' = Clients
        /\ UNCHANGED <<op, mem, sem, promised, fence, cur>>
  BY Zenon DEF WaitReturns, IInv, TypeOK
<1>3. CASE (\A p \in claims : Reached(p)) /\ Report(c, Ok, claims, forever)
  <2>1. \A p \in claims : p[2] <= sem[p[1]].value
    <3>1. ASSUME NEW p \in claims PROVE p[2] <= sem[p[1]].value
      <4>1. p[1] \in Clients /\ p[2] \in Nat
        BY <1>1, Zenon DEF Timepoints
      <4>2. sem[p[1]].value \in Nat /\ sem[p[1]].value >= p[2]
        BY <1>3, <4>1, Zenon DEF Reached, IInv, TypeOK
      <4>3. QED BY <4>1, <4>2, Zenon
    <3>2. QED BY <3>1, Zenon
  <2>2. Ok \in IreeStatusCode
    BY DEF Ok, IreeStatusCode
  <2> HIDE DEF claims, forever
  <2>3. QED BY Zenon, <1>1, <1>2, <1>3, <2>1, <2>2, ReportStep
<1>4. ASSUME NEW p \in claims, Failed(p), NEW e \in {sem[p[1]].fail, Aborted},
             Report(c, e, claims, forever)
      PROVE  IInv'
  <2>1. p[1] \in Clients
    BY <1>1, Zenon DEF Timepoints
  <2>2. sem[p[1]].fail \in IreeStatusCode /\ sem[p[1]].fail # Ok
    BY <1>4, <2>1, Zenon DEF Failed, IInv, TypeOK
  <2>3. e \in IreeStatusCode /\ e # Ok
    BY <2>2 DEF IreeStatusCode, Aborted, Ok
  <2>4. hrx_code_from_iree(e) \in {sem[p[1]].fail, Internal}
    BY DEF hrx_code_from_iree, Aborted
  <2> HIDE DEF claims, forever
  <2>5. QED BY <1>1, <1>2, <1>4, <2>2, <2>3, <2>4, ReportStep, Zenon
<1>5. CASE ToTimeout(asked[c].ns) # Infinite /\ Report(c, DeadlineExceeded, claims, forever)
  <2>1. ~forever
    BY <1>1, <1>5, TimeoutConversion, Zenon
  <2>2. DeadlineExceeded \in IreeStatusCode /\ DeadlineExceeded # Ok
    BY DEF DeadlineExceeded, IreeStatusCode, Ok
  <2> HIDE DEF claims, forever
  <2>3. QED BY <1>1, <1>2, <1>5, <2>1, <2>2, ReportStep, Zenon
<1>6. QED BY <1>3, <1>4, <1>5, Zenon DEF WaitReturns

\* A wait is for timepoints, whatever is promised of them.
LEMMA StartWaitStep ==
    ASSUME IInv, NEW c \in Clients, NEW call, NEW timepoints \in SUBSET Timepoints,
           StartWait(c, call, timepoints)
    PROVE  IInv'
<1>1. PICK ns \in Timeouts : asked' = [asked EXCEPT ![c] = [claims |-> timepoints, ns |-> ns]]
  BY Zenon DEF StartWait
<1>2. asked' \in [Clients -> [claims : SUBSET Timepoints, ns : Word]]
  BY <1>1, QueueAssumption, Zenon DEF IInv, TypeOK
<1>3. /\ at[c] = "idle" /\ at' = [at EXCEPT ![c] = "waiting"] /\ cur' = cur
      /\ fence' \in [Clients -> [Clients -> Nat]]
      /\ ret' = [ret EXCEPT ![c] = NoRet] /\ plan' = [plan EXCEPT ![c] = Tail(@)]
      /\ UNCHANGED <<op, mem, sem, promised>>
  BY Zenon DEF StartWait, Calling, IInv, TypeOK
<1>4. QED BY Zenon, <1>2, <1>3, AskStep

\* A fence changes nothing but itself.
LEMMA SetFenceStep ==
    ASSUME IInv, NEW c \in Clients, NEW call, NEW f \in [Clients -> Nat], SetFence(c, call, f)
    PROVE  IInv'
<1>1. /\ at[c] = "idle" /\ at' = [at EXCEPT ![c] = "idle"] /\ cur' = [cur EXCEPT ![c] = 0]
      /\ fence' \in [Clients -> [Clients -> Nat]]
      /\ asked' \in [Clients -> [claims : SUBSET Timepoints, ns : Word]]
      /\ ret' = [ret EXCEPT ![c] = NoRet] /\ plan' = [plan EXCEPT ![c] = Tail(@)]
      /\ UNCHANGED <<op, mem, sem, promised>>
  BY Zenon DEF SetFence, Calling, Return, IInv, TypeOK
<1>2. QED BY Zenon, <1>1, AskStep

\* Every call on semaphores and fences preserves the invariant.
LEMMA TimelineStep ==
    ASSUME IInv, NEW c \in Clients, Timeline(c)
    PROVE  IInv'
<1>1. /\ promised \in [Clients -> Nat] /\ fence \in [Clients -> [Clients -> Nat]]
      /\ \A u, v \in Nat : Later(u, v) \in Nat
  BY Zenon DEF IInv, TypeOK, Later
<1>2. CASE hrx_semaphore_signal(c)
  BY <1>2, SignalStep, Zenon DEF hrx_semaphore_signal, Calling
<1>3. CASE hrx_semaphore_query(c)
  BY <1>3, QueryStep, Zenon
<1>4. CASE hrx_semaphore_wait(c)
  <2>1. PICK s \in Clients : StartWait(c, "hrx_semaphore_wait", {<<s, promised[s]>>})
    BY <1>4, Zenon DEF hrx_semaphore_wait
  <2>2. {<<s, promised[s]>>} \in SUBSET Timepoints
    BY <1>1 DEF Timepoints
  <2>3. QED BY <2>1, <2>2, StartWaitStep, Zenon
<1>5. CASE hrx_fence_wait(c)
  <2> DEFINE pts == {<<s, fence[c][s]>> : s \in {t \in Clients : fence[c][t] > 0}}
  <2>1. StartWait(c, "hrx_fence_wait", pts)
    BY <1>5, Zenon DEF hrx_fence_wait
  <2>2. pts \in SUBSET Timepoints
    BY <1>1 DEF Timepoints
  <2> HIDE DEF pts
  <2>3. QED BY <2>1, <2>2, StartWaitStep, Zenon
<1>6. CASE WaitReturns(c)
  BY <1>6, WaitStep, Zenon
<1>7. CASE hrx_fence_create_at(c)
  <2>1. PICK s \in Clients, d \in {0, 1} :
          SetFence(c, "hrx_fence_create_at", [t \in Clients |-> IF t = s THEN promised[s] + d ELSE 0])
    BY <1>7, Zenon DEF hrx_fence_create_at
  <2>2. promised[s] \in Nat /\ d \in Nat
    <3>1. promised[s] \in Nat
      BY <1>1, Zenon
    <3>2. QED BY <3>1
  <2>3. [t \in Clients |-> IF t = s THEN promised[s] + d ELSE 0] \in [Clients -> Nat]
    BY <2>2
  <2>4. QED BY <2>1, <2>3, SetFenceStep, Zenon
<1>8. CASE hrx_fence_insert(c)
  <2>1. PICK s \in Clients :
          SetFence(c, "hrx_fence_insert", [fence[c] EXCEPT ![s] = Later(@, promised[s])])
    BY <1>8, Zenon DEF hrx_fence_insert
  <2>2. fence[c] \in [Clients -> Nat] /\ Later(fence[c][s], promised[s]) \in Nat
    BY Zenon, <1>1
  <2>3. [fence[c] EXCEPT ![s] = Later(@, promised[s])] \in [Clients -> Nat]
    BY <2>2, Zenon
  <2>4. QED BY <2>1, <2>3, SetFenceStep, Zenon
<1>9. CASE hrx_fence_extend(c)
  <2>1. PICK from \in Clients \ {c} :
          SetFence(c, "hrx_fence_extend", [t \in Clients |-> Later(fence[c][t], fence[from][t])])
    BY <1>9, Zenon DEF hrx_fence_extend
  <2>2. \A t \in Clients : Later(fence[c][t], fence[from][t]) \in Nat
    BY Zenon, <1>1
  <2>3. [t \in Clients |-> Later(fence[c][t], fence[from][t])] \in [Clients -> Nat]
    BY <2>2, Zenon
  <2>4. QED BY <2>1, <2>3, SetFenceStep, Zenon
<1>10. CASE hrx_fence_signal(c)
  BY <1>10, SignalStep, Zenon DEF hrx_fence_signal, Calling
<1>11. QED
  BY <1>2, <1>3, <1>4, <1>5, <1>6, <1>7, <1>8, <1>9, <1>10, Timeline(c) DEF Timeline

\* Every step of a submission preserves the invariant.
LEMMA SubmissionStep ==
    ASSUME IInv, NEW c \in Clients, Submission(c)
    PROVE  IInv'
<1>1. /\ KindAt("create") = "work" /\ KindAt("direct") = "direct" /\ KindAt("malloc") = "call"
  BY Zenon DEF KindAt
<1>2. ASSUME NEW call, \/ Submit(c, call, "work", "create") \/ Submit(c, call, "direct", "direct")
                       \/ Submit(c, call, "call", "malloc")
      PROVE  IInv'
  BY <1>1, <1>2, SubmitStep, Zenon
<1>3. ASSUME at[c] \notin {"idle", "waiting"}
      PROVE  cur[c] \in OpIds /\ mem[cur[c]] \in 0 .. 2 /\ mem = [mem EXCEPT ![cur[c]] = mem[cur[c]]]
  BY <1>3, Zenon DEF IInv, CallInv, TypeOK
<1>4. CASE BuildCommandBuffer(c)
  <2>1. UNCHANGED <<sem, promised, fence, asked, plan>>
    BY <1>4, Zenon DEF BuildCommandBuffer
  <2>2. CASE /\ at[c] = "create" /\ mem' = [mem EXCEPT ![cur[c]] = 1]
             /\ at' = [at EXCEPT ![c] = "record"] /\ UNCHANGED <<op, cur, ret>>
    BY Zenon, <2>1, <2>2, MoveStep
  <2>3. CASE at[c] = "create" /\ Refuse(c) /\ Return(c) /\ UNCHANGED mem
    BY Zenon, <2>1, <2>3, GiveUpStep
  <2>4. CASE at[c] = "record" /\ at' = [at EXCEPT ![c] = "execute"] /\ UNCHANGED <<op, mem, cur, ret>>
    <3>1. mem' = [mem EXCEPT ![cur[c]] = mem[cur[c]]]
      BY <1>3, <2>4, Zenon
    <3>2. QED BY Zenon, <2>1, <2>4, <3>1, MoveStep
  <2>5. CASE at[c] = "record" /\ RecordingFails(c)
    BY <2>1, <2>5, GiveUpStep, Zenon DEF RecordingFails
  <2>6. QED BY <1>4, <2>2, <2>3, <2>4, <2>5, Zenon DEF BuildCommandBuffer
<1>5. CASE queue_execute(c)
  <2>1. CASE /\ at[c] = "execute" /\ at' = [at EXCEPT ![c] = "executed"]
             /\ Accept(c) /\ mem' = [mem EXCEPT ![cur[c]] = @ + 1]
             /\ UNCHANGED <<sem, fence, cur, asked, ret, plan>>
    <3>1. op' = [op EXCEPT ![cur[c]].stage = "pending"]
      BY <2>1, Zenon DEF Accept
    <3>2. mem[cur[c]] + 1 = mem[cur[c]] + Owner("pending" = "pending")
      BY Zenon DEF Owner
    <3>3. QED BY Zenon, <2>1, <3>1, <3>2, HandOverStep
  <2>2. CASE /\ at[c] = "execute" /\ at' = [at EXCEPT ![c] = "executed"]
             /\ Refuse(c) /\ UNCHANGED <<promised, mem>>
             /\ UNCHANGED <<sem, fence, cur, asked, ret, plan>>
    <3>1. op' = [op EXCEPT ![cur[c]].stage = "refused"]
      BY <2>2, Zenon DEF Refuse
    <3>2. mem[cur[c]] = mem[cur[c]] + Owner("refused" = "pending")
      BY <1>3, <2>2 DEF Owner
    <3>3. mem' = [mem EXCEPT ![cur[c]] = mem[cur[c]]]
      BY <1>3, <2>2, Zenon
    <3>4. QED BY Zenon, <2>2, <3>1, <3>2, <3>3, HandOverStep
  <2>3. CASE /\ at[c] = "executed" /\ mem' = [mem EXCEPT ![cur[c]] = @ - 1] /\ Return(c)
             /\ UNCHANGED <<op, sem, promised, fence, asked, plan>>
    BY Zenon, <2>3, ReturnStep
  <2>4. QED BY <1>5, <2>1, <2>2, <2>3, Zenon DEF queue_execute
<1>6. CASE DirectCall(c)
  <2>1. at[c] = "direct" /\ Return(c) /\ UNCHANGED <<mem, sem, fence, asked, plan>>
    BY <1>6, Zenon DEF DirectCall
  <2>2. CASE Accept(c)
    BY <2>1, <2>2, DirectAcceptStep, Zenon
  <2>3. CASE Refuse(c) /\ UNCHANGED promised
    BY <2>1, <2>3, GiveUpStep, Zenon
  <2>4. QED BY <1>6, <2>2, <2>3, Zenon DEF DirectCall
<1>7. CASE HostCallReturns(c)
  BY <1>7, ReturnStep, Zenon DEF HostCallReturns
<1>8. ASSUME at[c] = "malloc", UNCHANGED <<sem, promised, fence, asked, plan>>,
             \/ /\ mem' = [mem EXCEPT ![cur[c]] = 1]
                /\ at' = [at EXCEPT ![c] = "enqueue"] /\ UNCHANGED <<op, cur, ret>>
             \/ Refuse(c) /\ Return(c) /\ UNCHANGED mem
      PROVE  IInv'
  BY <1>8, MoveStep, GiveUpStep, Zenon
<1>9. ASSUME at[c] = "enqueue", UNCHANGED <<mem, sem, fence, cur, asked, ret, plan>>,
             \/ Accept(c) /\ at' = [at EXCEPT ![c] = "enqueued"]
             \/ Refuse(c) /\ at' = [at EXCEPT ![c] = "unqueued"] /\ UNCHANGED promised
      PROVE  IInv'
  <2>1. mem' = [mem EXCEPT ![cur[c]] = mem[cur[c]]]
    BY <1>3, <1>9, Zenon
  <2>2. CASE Accept(c) /\ at' = [at EXCEPT ![c] = "enqueued"]
    <3>1. op' = [op EXCEPT ![cur[c]].stage = "pending"]
      BY <2>2, Zenon DEF Accept
    <3>2. QED BY Zenon, <1>9, <2>1, <2>2, <3>1, HandOverStep
  <2>3. CASE Refuse(c) /\ at' = [at EXCEPT ![c] = "unqueued"] /\ UNCHANGED promised
    <3>1. op' = [op EXCEPT ![cur[c]].stage = "refused"]
      BY <2>3, Zenon DEF Refuse
    <3>2. QED BY Zenon, <1>9, <2>1, <2>3, <3>1, HandOverStep
  <2>4. QED BY <1>9, <2>2, <2>3, Zenon
<1>10. QED
  BY Zenon, <1>2, <1>4, <1>5, <1>6, <1>7, <1>8, <1>9
     DEF Submission, hrx_queue_fill, hrx_queue_copy, hrx_queue_barrier, hrx_queue_dispatch,
         hrx_queue_host_call

(***************************************************************************)
(* The theorems.                                                           *)
(***************************************************************************)
\* Every step of the system preserves it.
LEMMA NextIInv == ASSUME IInv, [Next]_vars PROVE IInv'
<1>1. CASE Next
  BY <1>1, SubmissionStep, TimelineStep, DeviceStep, Zenon DEF Next
<1>2. CASE UNCHANGED vars
  <2>1. UNCHANGED <<op, mem, sem, promised, fence, at, cur, asked, ret, plan>>
    BY <1>2, Zenon DEF vars
  <2>2. TypeOK'
    BY <2>1, Zenon DEF IInv, TypeOK
  <2>3. CallInv' /\ MemInv'
    BY <2>1 DEF IInv, CallInv, MemInv
  <2>4. OrderInv'
    BY <2>1, Zenon DEF IInv, OrderInv
  <2>5. ReadInv' /\ CauseInv' /\ ErrInv'
    BY <2>1, Zenon DEF IInv, ReadInv, CauseInv, ErrInv
  <2>6. QED BY <2>2, <2>3, <2>4, <2>5, Zenon DEF IInv
<1>3. QED BY <1>1, <1>2, Zenon

\* The inductive invariant holds in every reachable state.
THEOREM Invariance == Spec => []IInv
BY InitIInv, NextIInv, PTL DEF Spec

\* Every variable keeps its type.
THEOREM TypeCorrect == Spec => []TypeOK
<1>1. IInv => TypeOK
  BY Zenon DEF IInv
<1>2. QED BY <1>1, Invariance, PTL

\* A command buffer is referenced by the call that built it until that call
\* returns, and by the queue while the operation is pending, and by no one
\* else, on every branch of hrx_queue_fill and hrx_queue_copy.
THEOREM CommandBuffersReleasedOnce == Spec => []CommandBufferOwned
<1>1. IInv => CommandBufferOwned
  <2>1. SUFFICES ASSUME IInv, NEW i \in OpIds, op[i].kind = "work"
                 PROVE  mem[i] = Owner(\E c \in Clients : HasBuffer(c, i))
                                 + Owner(op[i].stage = "pending")
    BY Zenon DEF CommandBufferOwned
  <2>2. op[i].stage # "free" /\ op[i].tl \in Clients
    BY <2>1, Zenon DEF IInv, MemInv, CallInv
  <2>3. \A c \in Clients : HasBuffer(c, i) => c = op[i].tl
    BY <2>1 DEF HasBuffer, IInv, CallInv
  <2>4. (\E c \in Clients : HasBuffer(c, i)) <=> (cur[op[i].tl] = i /\ at[op[i].tl] \in BufferAt)
    BY <2>2, <2>3, Zenon DEF HasBuffer, BufferAt
  <2>5. QED BY <2>1, <2>4, Zenon DEF IInv, MemInv, Owner
<1>2. QED BY <1>1, Invariance, PTL

\* The thunk of a host call has one owner at a time: the caller, or the queue
\* and its trampoline, however they interleave.
THEOREM ThunksFreedOnce == Spec => []ThunkOwned
<1>1. IInv => ThunkOwned
  <2>1. SUFFICES ASSUME IInv, NEW i \in OpIds, op[i].kind = "call"
                 PROVE  mem[i] = Owner(\E c \in Clients : HasThunk(c, i))
                                 + Owner(op[i].stage \in {"pending", "running", "dropped"})
    BY Zenon DEF ThunkOwned
  <2>2. op[i].stage # "free" /\ op[i].tl \in Clients
    BY <2>1, Zenon DEF IInv, MemInv, CallInv
  <2>3. \A c \in Clients : HasThunk(c, i) => c = op[i].tl
    BY <2>1 DEF HasThunk, IInv, CallInv
  <2>4. (\E c \in Clients : HasThunk(c, i)) <=> (cur[op[i].tl] = i /\ at[op[i].tl] \in ThunkAt)
    BY <2>2, <2>3, Zenon DEF HasThunk, ThunkAt
  <2>5. QED BY <2>1, <2>4, Zenon DEF IInv, MemInv, Owner
<1>2. QED BY <1>1, Invariance, PTL

\* A wait, query or fence wait that returned success is about operations that
\* have run and succeeded, with all earlier ones of their timelines.
THEOREM SuccessMeansDone == Spec => []CompletionSound
<1>1. IInv => CompletionSound
  <2>1. SUFFICES ASSUME IInv, NEW c \in Clients, ret[c].code = Ok, ~ret[c].lost,
                        NEW p \in ret[c].claims, NEW i \in OpIds,
                        op[i].tl = p[1], op[i].val <= p[2],
                        op[i].stage \notin {"free", "building", "refused"}
                 PROVE  op[i].stage = "done"
    BY Zenon DEF CompletionSound
  <2>2. p \in Timepoints /\ p[2] <= sem[p[1]].value
    BY <2>1, Zenon DEF IInv, ReadInv, TypeOK, RetType
  <2>3. p[1] \in Clients /\ p[2] \in Nat
    BY <2>2, Zenon DEF Timepoints
  <2>4. op[i] \in OpType
    BY <2>1, Zenon DEF IInv, TypeOK
  <2>5. op[i].stage \in Accepted /\ op[i].val \in Nat
    BY <2>1, <2>4, Zenon DEF OpType, Stages, Accepted
  <2>6. sem[p[1]].value \in Nat
    BY <2>1, <2>3, Zenon DEF IInv, TypeOK
  <2>7. op[i].val <= sem[op[i].tl].value
    BY <2>1, <2>2, <2>3, <2>5, <2>6
  <2>8. QED BY <2>5, <2>7, <2>1, Zenon DEF IInv, OrderInv
<1>2. QED BY <1>1, Invariance, PTL

\* A wait or query that reports an error does so for a timeline it is about that
\* failed over an operation whose code it reports, or for a time limit it was given.
THEOREM ErrorsHaveACause == Spec => []ErrorsExplained
<1>1. IInv => ErrorsExplained
  <2>1. SUFFICES ASSUME IInv, NEW c \in Clients, NEW p \in ret[c].claims, sem[p[1]].fail # Ok
                 PROVE  FailedOver(p)
    BY Zenon DEF IInv, ErrInv, ErrorsExplained, Failed
  <2>2. p \in Timepoints
    BY <2>1, Zenon DEF IInv, TypeOK, RetType
  <2>3. p[1] \in Clients
    BY <2>2, Zenon DEF Timepoints
  <2>4. QED BY <2>1, <2>3, Zenon DEF IInv, CauseInv, FailedOver
<1>2. QED BY <1>1, Invariance, PTL

=============================================================================
