-------------------------- MODULE HrxObjectsCounts --------------------------
(***************************************************************************)
(* The counts of HrxObjects: every operation leaves every count equal to   *)
(* the references that exist, and ends no object twice.                    *)
(***************************************************************************)
EXTENDS HrxObjectsInv, TLAPS

\* Zenon proves what needs no arithmetic; the other leaves name SMT.
USE ZenonT(30)

(***************************************************************************)
(* Counting: how often an object occurs in a sequence, and sums.           *)
(***************************************************************************)
\* The one occurrence in a singleton.
One(x, o) == IF x = o THEN 1 ELSE 0

Summands(f, D) == DOMAIN f = D /\ \A x \in D : f[x] \in Nat

\* f and g have the same summands except that of i, which f may lack.
Differ(f, g, D, i) ==
    /\ IsFiniteSet(D) /\ i \in D
    /\ Summands(f, D) \/ Summands(f, D \ {i})
    /\ Summands(g, D)
    /\ \A x \in D : x # i => f[x] = g[x]

\* What is used of Occurrences: it counts, so it adds up, and the order does not matter.
OccurrenceLaws ==
    /\ \A o : Occurrences(<<>>, o) = 0
    /\ \A x, o : Occurrences(<<x>>, o) = One(x, o)
    /\ \A S : \A s \in Seq(S) :
          /\ LastFirst(s) \in Seq(S)
          /\ \A i \in DOMAIN s : Occurrences(s, s[i]) >= 1
          /\ \A o : /\ Occurrences(s, o) \in Nat
                    /\ Occurrences(s, o) # 0 => \E i \in DOMAIN s : s[i] = o
                    /\ Occurrences(LastFirst(s), o) = Occurrences(s, o)
    /\ \A S : \A s, t \in Seq(S) : \A o :
          Occurrences(s \o t, o) = Occurrences(s, o) + Occurrences(t, o)

\* What is used of Total: it is the sum of a function's values over a finite domain.
TotalLaws ==
    /\ \A D, f : DOMAIN f = D /\ (\A x \in D : f[x] = 0) => Total(f) = 0
    /\ \A D, f : IsFiniteSet(D) /\ DOMAIN f = D /\ (\A x \in D : f[x] = 1)
                    => Total(f) = Cardinality(D)
    /\ \A D, f : IsFiniteSet(D) /\ f \in [D -> Nat]
                    => Total(f) \in Nat /\ \A i \in D : f[i] <= Total(f)
    /\ \A D, f, g, i : Differ(f, g, D, i) /\ Summands(f, D) => Total(g) + f[i] = Total(f) + g[i]
    /\ \A D, f, g, i : Differ(f, g, D, i) /\ Summands(f, D \ {i}) => Total(g) = Total(f) + g[i]

\* The size of a finite set is a number, and the parts of 1 .. n are finite.
FiniteLaws ==
    /\ \A S : IsFiniteSet(S) => Cardinality(S) \in Nat
    /\ \A n \in Nat : \A S \in SUBSET (1 .. n) : IsFiniteSet(S) /\ Cardinality(S) \in Nat

\* The facts about finite sets that the proofs rest on; HrxObjectsProofs proves them.
Counting == OccurrenceLaws /\ TotalLaws /\ FiniteLaws

\* Occurrences are a number.
LEMMA OccType ==
    ASSUME Counting, NEW S, NEW s \in Seq(S), NEW o
    PROVE  Occurrences(s, o) \in Nat
BY DEF Counting, OccurrenceLaws

\* The size of a finite set is a number.
LEMMA SizeType ==
    ASSUME Counting, NEW S, IsFiniteSet(S)
    PROVE  Cardinality(S) \in Nat
BY DEF Counting, FiniteLaws

\* A part of 1 .. n is finite.
LEMMA PartsFinite ==
    ASSUME Counting, NEW n \in Nat, NEW S \in SUBSET (1 .. n)
    PROVE  IsFiniteSet(S) /\ Cardinality(S) \in Nat
BY DEF Counting, FiniteLaws

\* Nothing occurs in the empty sequence.
LEMMA OccEmpty ==
    ASSUME Counting, NEW o PROVE Occurrences(<<>>, o) = 0
BY DEF Counting, OccurrenceLaws

\* Occurrences in a concatenation add up.
LEMMA OccConcat ==
    ASSUME Counting, NEW S, NEW s \in Seq(S), NEW t \in Seq(S), NEW o
    PROVE  Occurrences(s \o t, o) = Occurrences(s, o) + Occurrences(t, o)
BY SMT DEF Counting, OccurrenceLaws

CountsJoin(s, t) == \A o : Occurrences(s \o t, o) = Occurrences(s, o) + Occurrences(t, o)

\* The references in two lists of cells.
LEMMA OccJoin ==
    ASSUME Counting, NEW s \in Seq(Cells), NEW t \in Seq(Cells)
    PROVE  CountsJoin(s, t)
<1>1. ASSUME NEW o PROVE Occurrences(s \o t, o) = Occurrences(s, o) + Occurrences(t, o)
  BY OccConcat
<1> QED BY <1>1 DEF CountsJoin

\* A single reference counts once.
LEMMA OccOne ==
    ASSUME Counting, NEW x, NEW o PROVE Occurrences(<<x>>, o) = One(x, o)
BY DEF Counting, OccurrenceLaws

\* t is x and then s.
Cons(S, x, s, t) == x \in S /\ s \in Seq(S) /\ t = <<x>> \o s

CountsCons(x, s, t) == \A o : Occurrences(t, o) = One(x, o) + Occurrences(s, o)

\* One more reference in front.
LEMMA OccCons ==
    ASSUME Counting, NEW S, NEW s, NEW x, NEW t, Cons(S, x, s, t)
    PROVE  CountsCons(x, s, t)
<1> SUFFICES ASSUME NEW o PROVE Occurrences(t, o) = One(x, o) + Occurrences(s, o)
  BY DEF CountsCons
<1>1. <<x>> \in Seq(S) /\ s \in Seq(S) /\ t = <<x>> \o s
  BY SMT DEF Cons
<1>2. Occurrences(<<x>> \o s, o) = Occurrences(<<x>>, o) + Occurrences(s, o)
  BY <1>1, OccConcat
<1> QED BY <1>1, <1>2, OccOne

\* Two, three and four references count one by one.
LEMMA OccTwo ==
    ASSUME Counting, NEW x, NEW y, NEW o
    PROVE  Occurrences(<<x, y>>, o) = One(x, o) + One(y, o)
<1> DEFINE S == {x, y}
           s == <<y>>
           t == <<x, y>>
<1>1. s \in Seq(S)
  BY SMT
<1>2. x \in S
  OBVIOUS
<1>3. t = <<x>> \o s
  <2>1. t = Append(<<x>>, y) /\ <<x>> \in Seq(S) /\ y \in S
    BY SMT
  <2>2. ASSUME NEW p \in Seq(S), NEW z \in S PROVE Append(p, z) = p \o <<z>>
    BY SMT
  <2> QED BY <2>1, <2>2
<1>4. Occurrences(s, o) = One(y, o)
  BY OccOne
<1> HIDE DEF S, s, t
<1>5. CountsCons(x, s, t)
  BY <1>1, <1>2, <1>3, OccCons DEF Cons
<1> QED BY <1>4, <1>5 DEF t, CountsCons

\* How often an object occurs in a list of three.
LEMMA OccThree ==
    ASSUME Counting, NEW x, NEW y, NEW z, NEW o
    PROVE  Occurrences(<<x, y, z>>, o) = One(x, o) + (One(y, o) + One(z, o))
<1> DEFINE S == {x, y, z}
           s == <<y, z>>
           t == <<x, y, z>>
<1>1. s \in Seq(S)
  BY SMT
<1>2. x \in S
  OBVIOUS
<1>3. t = <<x>> \o s
  BY SMT
<1>4. Occurrences(s, o) = One(y, o) + One(z, o)
  BY OccTwo
<1> HIDE DEF S, s, t
<1>5. CountsCons(x, s, t)
  BY <1>1, <1>2, <1>3, OccCons DEF Cons
<1> QED BY <1>4, <1>5 DEF t, CountsCons

\* The first reference of a list and the rest of it.
LEMMA OccHeadTail ==
    ASSUME Counting, NEW S, NEW s \in Seq(S), s # <<>>, NEW o
    PROVE  Occurrences(s, o) = One(Head(s), o) + Occurrences(Tail(s), o)
<1>1. <<Head(s)>> \in Seq(S) /\ Tail(s) \in Seq(S) /\ s = <<Head(s)>> \o Tail(s)
  BY SMT
<1>2. Occurrences(<<Head(s)>> \o Tail(s), o) = Occurrences(<<Head(s)>>, o) + Occurrences(Tail(s), o)
  BY <1>1, OccConcat
<1>3. Occurrences(s, o) = Occurrences(<<Head(s)>> \o Tail(s), o)
  BY <1>1
<1> QED BY <1>2, <1>3, OccOne

\* An element of a sequence occurs in it.
LEMMA OccIn ==
    ASSUME Counting, NEW S, NEW s \in Seq(S), NEW i \in DOMAIN s
    PROVE  Occurrences(s, s[i]) >= 1
BY DEF Counting, OccurrenceLaws

\* What occurs in a sequence is an element of it.
LEMMA OccSome ==
    ASSUME Counting, NEW S, NEW s \in Seq(S), NEW o, Occurrences(s, o) # 0
    PROVE  \E i \in DOMAIN s : s[i] = o
BY DEF Counting, OccurrenceLaws

\* The order of releases does not change how many there are.
LEMMA OccLastFirst ==
    ASSUME Counting, NEW S, NEW s \in Seq(S), NEW o
    PROVE  LastFirst(s) \in Seq(S) /\ Occurrences(LastFirst(s), o) = Occurrences(s, o)
BY DEF Counting, OccurrenceLaws

\* A total is a number, and no less than any of its summands.
LEMMA TotalType ==
    ASSUME Counting, NEW D, IsFiniteSet(D), NEW f \in [D -> Nat]
    PROVE  Total(f) \in Nat /\ \A i \in D : f[i] <= Total(f)
BY DEF Counting, TotalLaws

\* Changing one summand changes the total by as much.
LEMMA TotalChange ==
    ASSUME Counting, NEW D, NEW f, NEW g, NEW i, Differ(f, g, D, i), Summands(f, D)
    PROVE  Total(g) + f[i] = Total(f) + g[i]
BY SMT DEF Counting, TotalLaws

\* One more summand.
LEMMA TotalExtend ==
    ASSUME Counting, NEW D, NEW f, NEW g, NEW i, Differ(f, g, D, i), Summands(f, D \ {i})
    PROVE  Total(g) = Total(f) + g[i]
BY SMT DEF Counting, TotalLaws

\* A total of zeros, and of ones.
LEMMA TotalZero ==
    ASSUME Counting, NEW D, NEW f, DOMAIN f = D, \A x \in D : f[x] = 0
    PROVE  Total(f) = 0
BY DEF Counting, TotalLaws

\* A sum of ones counts the domain.
LEMMA TotalOnes ==
    ASSUME Counting, NEW D, IsFiniteSet(D), NEW f, DOMAIN f = D, \A x \in D : f[x] = 1
    PROVE  Total(f) = Cardinality(D)
BY DEF Counting, TotalLaws

\* A total other than zero has a summand other than zero.
LEMMA TotalSome ==
    ASSUME Counting, NEW D, NEW f, DOMAIN f = D, Total(f) # 0
    PROVE  \E x \in D : f[x] # 0
BY TotalZero

(***************************************************************************)
(* The three parts of References, on explicit values.                      *)
(***************************************************************************)
Runtime(u, o) == IF u /\ o = Device THEN 1 ELSE 0

HeldIn(r, o) == r[o] + (IF o = Device THEN r[HalAllocator] ELSE 0)

UsesIn(r, l, t, o) == HeldIn(r, o) + Occurrences(l, o) + Occurrences(t, o)

Users(r, k, t, o) == Total([c \in Clients |-> UsesIn(r[c], k[c].locals, t[c], o)])

Fields(h, o) == Total([p \in DOMAIN h |-> Occurrences(h[p].own, o)])

\* References are those of the runtime, the clients and the fields.
LEMMA ReferencesParts ==
    ASSUME NEW o
    PROVE  References(o) = Runtime(up, o) + Users(refs, call, todo, o) + Fields(heap, o)
BY DEF References, Runtime, Users, UsesIn, HeldIn, Uses, Held, Locals, Fields

\* The fixed cells are among the cells.
LEMMA FixedCells ==
    /\ MaxCells \in Nat /\ MaxCells >= 4
    /\ Device \in Cells /\ HalAllocator \in Cells /\ HalDeviceGroup \in Cells
    /\ HalDevice \in Cells /\ Device # HalAllocator
    /\ <<>> \in Seq(Cells)
<1>1. MaxCells \in Nat /\ MaxCells >= 4
  BY ObjectBounds
<1>2. <<>> \in Seq(Cells)
  BY SMT
<1> QED BY <1>1, <1>2, SMT DEF Cells, Device, HalAllocator, HalDeviceGroup, HalDevice

\* The domain of a heap.
LEMMA HeapDomain ==
    ASSUME Counting, NEW h \in Seq(CellType)
    PROVE  /\ Len(h) \in Nat /\ DOMAIN h = 1 .. Len(h) /\ IsFiniteSet(DOMAIN h)
           /\ \A p \in DOMAIN h : h[p] \in CellType
<1>1. Len(h) \in Nat /\ DOMAIN h = 1 .. Len(h) /\ \A p \in DOMAIN h : h[p] \in CellType
  BY SMT
<1>2. DOMAIN h \in SUBSET DOMAIN h
  OBVIOUS
<1> QED BY <1>1, <1>2, PartsFinite

\* The fields of a cell.
LEMMA CellFields ==
    ASSUME NEW x \in CellType
    PROVE  /\ x.kind \in Kinds /\ x.count \in Nat /\ x.own \in Seq(Cells)
           /\ x.needs \in SUBSET Cells /\ x.lent \in BOOLEAN /\ x.lost \in Nat /\ x.ends \in Nat
BY SMT DEF CellType

\* Outside of a call a client has no locals and nothing to release.
LEMMA NoCallType ==
    NoCall \in CallType /\ NoCall.locals = <<>>
<1>1. <<>> \in Seq(Cells)
  BY FixedCells
<1>2. ASSUME NEW s \in Seq(Cells)
      PROVE  [op |-> "none", at |-> 0, locals |-> s] \in CallType
  <2>1. 0 \in 0 .. 4
    BY SMT
  <2>2. "none" \in Constructors \cup {"none"}
    OBVIOUS
  <2> QED BY <2>1, <2>2 DEF CallType
<1>3. NoCall \in CallType
  BY <1>1, <1>2 DEF NoCall
<1> QED BY <1>3 DEF NoCall

(***************************************************************************)
(* The counts at first.                                                    *)
(***************************************************************************)
\* Core holds at first: the runtime and every client have one reference on
\* the device, which has the references on the three HAL objects.
LEMMA InitCore ==
    ASSUME Counting
    PROVE  Init => Core
\* The four cells the accelerator starts with.
<1>InitHeap.
    ASSUME Init
    PROVE  /\ heap \in Seq(CellType) /\ Len(heap) = 4 /\ DOMAIN heap = {1, 2, 3, 4}
           /\ heap[1].own = HrxDeviceS /\ heap[1].kind = "device"
           /\ heap[1].count = 1 + Cardinality(Clients)
           /\ heap[2].kind = "hal_allocator" /\ heap[3].kind = "hal_device_group"
           /\ heap[4].kind = "hal_device"
           /\ \A p \in {2, 3, 4} : heap[p].own = <<>> /\ heap[p].count = 1
           /\ \A p \in {1, 2, 3, 4} : heap[p].lost = 0 /\ heap[p].ends = 0
  <2> USE <1>InitHeap
  <2> DEFINE n == 1 + Cardinality(Clients)
             z == Cell("device", HrxDeviceS, {})
             a == [z EXCEPT !.count = n]
             b == Cell("hal_allocator", <<>>, {HalDevice})
             d == Cell("hal_device_group", <<>>, {HalDevice})
             e == Cell("hal_device", <<>>, {})
  <2>1. n \in Nat
    <3>1. Cardinality(Clients) \in Nat
      BY ObjectBounds, SizeType
    <3> QED BY <3>1, SMT
  <2>2. /\ {"device", "hal_allocator", "hal_device_group", "hal_device"} \subseteq Kinds
        /\ {HalDevice} \in SUBSET Cells /\ {} \in SUBSET Cells /\ <<>> \in Seq(Cells)
        /\ HrxDeviceS \in Seq(Cells)
    <3>1. HrxDeviceS \in Seq(Cells)
      <4>1. ASSUME NEW i \in Cells, NEW j \in Cells, NEW k \in Cells PROVE <<i, j, k>> \in Seq(Cells)
        BY SMT
      <4> QED BY <4>1, FixedCells DEF HrxDeviceS
    <3> QED BY <3>1, FixedCells, SMT DEF Kinds
  <2>3. z \in CellType /\ z.kind = "device" /\ z.own = HrxDeviceS /\ z.lost = 0 /\ z.ends = 0
    BY <2>2, SMT DEF Cell, CellType
  <2> HIDE DEF n, z
  <2>4. a \in CellType /\ a.kind = "device" /\ a.own = HrxDeviceS /\ a.lost = 0 /\ a.ends = 0 /\ a.count = n
    BY <2>1, <2>3 DEF CellType
  <2>5. /\ b \in CellType /\ b.kind = "hal_allocator" /\ b.own = <<>> /\ b.lost = 0 /\ b.ends = 0
        /\ b.count = 1
    BY <2>2, SMT DEF Cell, CellType
  <2>6. /\ d \in CellType /\ d.kind = "hal_device_group" /\ d.own = <<>> /\ d.lost = 0 /\ d.ends = 0
        /\ d.count = 1
    BY <2>2, SMT DEF Cell, CellType
  <2>7. /\ e \in CellType /\ e.kind = "hal_device" /\ e.own = <<>> /\ e.lost = 0 /\ e.ends = 0
        /\ e.count = 1
    BY <2>2, SMT DEF Cell, CellType
  <2>8. heap = <<a, b, d, e>>
    BY DEF Init, n, z
  <2> HIDE DEF a, b, d, e
  <2>9. /\ heap \in Seq(CellType) /\ Len(heap) = 4 /\ DOMAIN heap = {1, 2, 3, 4}
        /\ heap[1] = a /\ heap[2] = b /\ heap[3] = d /\ heap[4] = e
    <3>1. ASSUME NEW S, NEW i \in S, NEW j \in S, NEW k \in S, NEW l \in S
          PROVE  /\ <<i, j, k, l>> \in Seq(S) /\ Len(<<i, j, k, l>>) = 4
                 /\ DOMAIN <<i, j, k, l>> = {1, 2, 3, 4}
                 /\ <<i, j, k, l>>[1] = i /\ <<i, j, k, l>>[2] = j /\ <<i, j, k, l>>[3] = k
                 /\ <<i, j, k, l>>[4] = l
      BY SMT
    <3>2. /\ <<a, b, d, e>> \in Seq(CellType) /\ Len(<<a, b, d, e>>) = 4
          /\ DOMAIN <<a, b, d, e>> = {1, 2, 3, 4}
          /\ <<a, b, d, e>>[1] = a /\ <<a, b, d, e>>[2] = b /\ <<a, b, d, e>>[3] = d
          /\ <<a, b, d, e>>[4] = e
      BY <2>4, <2>5, <2>6, <2>7, <3>1, SMT
    <3> QED BY <2>8, <3>2
  <2> QED BY <2>4, <2>5, <2>6, <2>7, <2>9 DEF n
\* Only the device owns references.
<1>InitFields.
    ASSUME Init, NEW o \in Cells
    PROVE  Fields(heap, o) = Occurrences(HrxDeviceS, o)
  <2> USE <1>InitFields
  <2> DEFINE D == DOMAIN heap
             f == [p \in D |-> 0]
             g == [p \in D |-> Occurrences(heap[p].own, o)]
  <2>1. /\ heap \in Seq(CellType) /\ D = {1, 2, 3, 4} /\ heap[1].own = HrxDeviceS
        /\ \A p \in {2, 3, 4} : heap[p].own = <<>>
    BY <1>InitHeap
  <2>2. IsFiniteSet(D) /\ \A p \in D : heap[p] \in CellType
    BY <2>1, HeapDomain
  <2>3. \A p \in D : Occurrences(heap[p].own, o) \in Nat
    BY <2>2, CellFields, OccType
  <2>4. 1 \in D /\ \A p \in D : p # 1 => p \in {2, 3, 4}
    BY <2>1, SMT
  <2> HIDE DEF D
  <2>5. Summands(f, D) /\ Summands(g, D)
    BY <2>3, SMT DEF Summands
  <2>6. Total(f) = 0
    <3>1. DOMAIN f = D /\ \A p \in D : f[p] = 0
      OBVIOUS
    <3> HIDE DEF f
    <3> QED BY <3>1, TotalZero
  <2>7. \A p \in D : p # 1 => f[p] = g[p]
    BY <2>1, <2>4, OccEmpty
  <2>8. f[1] = 0 /\ g[1] = Occurrences(HrxDeviceS, o) /\ Fields(heap, o) = Total(g)
    BY <2>1, <2>4 DEF Fields, D
  <2>9. g[1] \in Nat
    BY <2>3, <2>4
  <2> HIDE DEF f, g
  <2>10. Differ(f, g, D, 1)
    BY <2>2, <2>4, <2>5, <2>7 DEF Differ
  <2>11. Total(g) + f[1] = Total(f) + g[1]
    BY <2>5, <2>10, TotalChange, SMT
  <2>12. Total(g) \in Nat
    <3>1. g \in [D -> Nat]
      <4>1. DOMAIN g = D /\ g = [p \in D |-> g[p]] /\ \A p \in D : g[p] \in Nat
        BY <2>3 DEF g
      <4> QED BY <4>1
    <3> QED BY <2>2, <3>1, TotalType, SMT
  <2>13. Total(g) = g[1]
    BY <2>6, <2>8, <2>9, <2>11, <2>12, SMT
  <2> QED BY <2>8, <2>13
\* Each client holds the device.
<1>InitUsers.
    ASSUME Init, NEW o \in Cells
    PROVE  Users(refs, call, todo, o) = IF o = Device THEN Cardinality(Clients) ELSE 0
  <2> USE <1>InitUsers
  <2> DEFINE f == [c \in Clients |-> UsesIn(refs[c], call[c].locals, todo[c], o)]
  <2>1. ASSUME NEW c \in Clients
        PROVE  UsesIn(refs[c], call[c].locals, todo[c], o) = One(Device, o)
    <3>1. /\ refs[c] = [x \in Cells |-> IF x = Device THEN 1 ELSE 0] /\ call[c] = NoCall
          /\ todo[c] = <<>>
      BY DEF Init
    <3>2. refs[c][o] = (IF o = Device THEN 1 ELSE 0) /\ refs[c][HalAllocator] = 0
      BY <3>1, FixedCells
    <3>3. HeldIn(refs[c], o) = One(Device, o) /\ One(Device, o) \in Nat
      BY <3>2, SMT DEF HeldIn, One
    <3>4. Occurrences(call[c].locals, o) = 0 /\ Occurrences(todo[c], o) = 0
      BY <3>1, NoCallType, OccEmpty
    <3> QED BY <3>3, <3>4, SMT DEF UsesIn
  <2>2. DOMAIN f = Clients /\ \A c \in Clients : f[c] = One(Device, o)
    BY <2>1
  <2>3. Users(refs, call, todo, o) = Total(f)
    BY DEF Users
  <2> HIDE DEF f
  <2>4. CASE o = Device
    <3>1. \A c \in Clients : f[c] = 1
      BY <2>2, <2>4 DEF One
    <3> QED BY <2>2, <2>3, <2>4, <3>1, ObjectBounds, TotalOnes
  <2>5. CASE o # Device
    <3>1. \A c \in Clients : f[c] = 0
      BY <2>2, <2>5 DEF One
    <3> QED BY <2>2, <2>3, <2>5, <3>1, TotalZero
  <2> QED BY <2>4, <2>5
\* All of the invariant.
<1>InitCore.
    ASSUME Init
    PROVE  Core
  <2> USE <1>InitCore
  <2>1. /\ heap \in Seq(CellType) /\ Len(heap) = 4 /\ DOMAIN heap = {1, 2, 3, 4}
        /\ heap[1].own = HrxDeviceS /\ heap[1].kind = "device"
        /\ heap[1].count = 1 + Cardinality(Clients)
        /\ heap[2].kind = "hal_allocator" /\ heap[3].kind = "hal_device_group"
        /\ heap[4].kind = "hal_device"
        /\ \A p \in {2, 3, 4} : heap[p].own = <<>> /\ heap[p].count = 1
        /\ \A p \in {1, 2, 3, 4} : heap[p].lost = 0 /\ heap[p].ends = 0
    BY <1>InitHeap
  <2>2. Cardinality(Clients) \in Nat
    BY ObjectBounds, SizeType
  <2>3. /\ Device = 1 /\ HalAllocator = 2 /\ HalDeviceGroup = 3 /\ HalDevice = 4
    BY SMT DEF Device, HalAllocator, HalDeviceGroup, HalDevice
  <2>4. Typed
    <3>1. Len(heap) \in 4 .. MaxCells
      BY <2>1, ObjectBounds, SMT
    <3>2. refs \in [Clients -> [Cells -> Nat]]
      BY SMT DEF Init
    <3>3. call \in [Clients -> CallType] /\ todo \in [Clients -> Seq(Cells)]
      BY NoCallType, FixedCells DEF Init
    <3>4. up \in BOOLEAN /\ crashed \in BOOLEAN
      BY DEF Init
    <3> QED BY <2>1, <3>1, <3>2, <3>3, <3>4 DEF Typed
  <2>5. Balanced
    <3> SUFFICES ASSUME NEW o \in Cells PROVE References(o) = Counted(heap, o)
      BY DEF Balanced
    <3> DEFINE n == Cardinality(Clients)
    <3>1. References(o) = Runtime(up, o) + Users(refs, call, todo, o) + Fields(heap, o)
      BY ReferencesParts
    <3>2. Runtime(up, o) = IF o = Device THEN 1 ELSE 0
      BY SMT DEF Init, Runtime
    <3>3. Fields(heap, o) = One(2, o) + (One(3, o) + One(4, o))
      <4>1. Occurrences(<<2, 3, 4>>, o) = One(2, o) + (One(3, o) + One(4, o))
        BY OccThree, SMT
      <4>2. HrxDeviceS = <<2, 3, 4>>
        BY <2>3 DEF HrxDeviceS
      <4> QED BY <4>1, <4>2, <1>InitFields
    <3>4. Users(refs, call, todo, o) = IF o = Device THEN n ELSE 0
      BY <1>InitUsers
    <3>5. References(o) = (IF o = 1 THEN 1 ELSE 0) + (IF o = 1 THEN n ELSE 0)
                            + (One(2, o) + (One(3, o) + One(4, o)))
      BY <2>3, <3>1, <3>2, <3>3, <3>4
    <3>6. o \in Int
      BY SMT DEF Cells
    <3>7. n \in Nat
      BY <2>2
    <3>8. CASE o = 1
      <4>1. Counted(heap, o) = (1 + n) - 0
        BY <2>1, <3>8, SMT DEF Counted
      <4> HIDE DEF n
      <4>2. References(o) = 1 + n + 0
        BY <3>5, <3>7, <3>8, SMT DEF One
      <4> QED BY <4>1, <4>2, <3>7, SMT
    <3>9. CASE o \in {2, 3, 4}
      <4>1. Counted(heap, o) = 1 - 0
        BY <2>1, <3>9, SMT DEF Counted
      <4> HIDE DEF n
      <4>2. References(o) = 1
        BY <3>5, <3>9, SMT DEF One
      <4> QED BY <4>1, <4>2, SMT
    <3>10. CASE o \notin {1, 2, 3, 4}
      <4>1. Counted(heap, o) = 0
        BY <2>1, <3>10 DEF Counted
      <4> HIDE DEF n
      <4>2. References(o) = 0
        BY <3>5, <3>10, SMT DEF One
      <4> QED BY <4>1, <4>2, SMT
    <3> QED BY <3>8, <3>9, <3>10, SMT
  <2>6. HeapSound(heap)
    <3>1. ASSUME NEW p \in DOMAIN heap PROVE Sound(heap, heap[p])
      <4>1. heap[p].lost = 0 /\ heap[p].ends = 0 /\ heap[p].count > 0
        BY <2>1, <2>2, SMT
      <4>2. CASE p = 1
        <5>1. /\ heap[p].own = HrxDeviceS /\ DOMAIN heap[p].own = {1, 2, 3} /\ heap[p].own[1] = 2
              /\ heap[p].own[2] = 3 /\ heap[p].own[3] = 4
          BY <2>1, <2>3, <4>2, SMT DEF HrxDeviceS
        <5>2. ASSUME NEW i \in DOMAIN heap[p].own
              PROVE  heap[p].own[i] \in DOMAIN heap /\ heap[heap[p].own[i]].kind \notin Private
          <6>1. heap[p].own[i] = 2 \/ heap[p].own[i] = 3 \/ heap[p].own[i] = 4
            BY <5>1, SMT
          <6>2. /\ 2 \in DOMAIN heap /\ 3 \in DOMAIN heap /\ 4 \in DOMAIN heap
                /\ heap[2].kind \notin Private /\ heap[3].kind \notin Private /\ heap[4].kind \notin Private
            BY <2>1, SMT DEF Private
          <6> QED BY <6>1, <6>2
        <5>3. /\ heap[p].kind \notin Private /\ heap[p].kind # "mapped_range"
              /\ heap[p].kind \notin {"buffer", "semaphore", "fence", "view", "list"}
              /\ heap[p].kind \notin {"fence", "list"}
          BY <2>1, <4>2, SMT DEF Private
        <5> QED BY <4>1, <5>1, <5>2, <5>3 DEF Sound
      <4>3. CASE p \in {2, 3, 4}
        <5>1. heap[p].own = <<>> /\ DOMAIN heap[p].own = {}
          BY <2>1, <4>3, SMT
        <5>2. /\ heap[p].kind \notin Private /\ heap[p].kind # "mapped_range"
              /\ heap[p].kind \notin {"buffer", "semaphore", "fence", "view", "list"}
              /\ heap[p].kind \notin {"fence", "list"} /\ heap[p].kind # "device"
          BY <2>1, <4>3, SMT DEF Private
        <5> QED BY <4>1, <5>1, <5>2 DEF Sound
      <4> QED BY <2>1, <4>2, <4>3, SMT
    <3> QED BY <2>1, <2>3, <3>1 DEF HeapSound
  <2>7. ASSUME NEW c \in Clients
        PROVE  CallSound(heap, call[c], todo[c], refs[c]) /\ HandlesSound(heap, refs[c])
    <3>1. call[c] = NoCall
      BY DEF Init
    <3>2. ASSUME NEW o \in Cells, refs[c][o] > 0 PROVE o = Device
      <4>1. refs[c][o] = IF o = Device THEN 1 ELSE 0
        BY DEF Init
      <4> QED BY <3>2, <4>1, SMT
    <3>3. Device \in DOMAIN heap /\ heap[Device].kind # "mapped_range"
      BY <2>1, <2>3, SMT
    <3> QED BY <3>1, <3>2, <3>3 DEF CallSound, HandlesSound
  <2> QED BY <2>4, <2>5, <2>6, <2>7 DEF Core
<1> QED BY <1>InitCore

(***************************************************************************)
(* The operations that cannot abort.                                       *)
(***************************************************************************)
\* The operations other than hrx_allocator_virtual_memory_release.
Ordinary(c) ==
    \/ handle_retain(c) \/ handle_release(c) \/ DropOne(c) \/ shutdown(c)
    \/ hrx_allocator_retain(c) \/ hrx_allocator_release(c)
    \/ hrx_semaphore_create(c)
    \/ hrx_fence_create(c) \/ hrx_fence_create_at(c)
    \/ hrx_fence_insert(c) \/ hrx_fence_extend(c)
    \/ hrx_allocator_allocate_buffer(c) \/ hrx_allocator_import_buffer(c)
    \/ hrx_allocator_virtual_memory_reserve(c)
    \/ hrx_buffer_map(c) \/ hrx_buffer_get_device_ptr(c) \/ hrx_buffer_unmap(c)
    \/ hrx_buffer_allocate(c)
    \/ hrx_module_load_vmfb(c) \/ hrx_module_lookup_function(c) \/ hrx_function_invoke(c)
    \/ hrx_executable_load_data(c) \/ hrx_executable_load_file(c)
    \/ hrx_buffer_view_create(c)
    \/ hrx_value_list_create(c) \/ hrx_value_list_push(c)

\* Each of them runs in a process that is up and leaves it up.
LEMMA StillRunning ==
    ASSUME NEW c \in Clients, Ordinary(c)
    PROVE  ~crashed'
<1> DEFINE ok == ~crashed /\ crashed' = crashed
<1>1. Idle(c) => ~crashed
  BY DEF Idle
<1>2. \A op : Ready(c, op) => ~crashed
  BY DEF Ready, Idle
<1>3. CASE handle_retain(c)
  <2>1. ~crashed
    BY <1>3 DEF handle_retain, Idle
  <2>2. crashed' = crashed
    BY <1>3 DEF handle_retain
  <2> QED BY <2>1, <2>2
<1>4. CASE handle_release(c)
  <2>1. ~crashed
    BY <1>4 DEF handle_release, Idle
  <2>2. crashed' = crashed
    BY <1>4 DEF handle_release
  <2> QED BY <2>1, <2>2
<1>5. CASE DropOne(c)
  BY <1>5 DEF DropOne
<1>6. CASE shutdown(c)
  BY <1>1, <1>6 DEF shutdown
<1>7. CASE hrx_allocator_retain(c)
  BY <1>2, <1>7 DEF hrx_allocator_retain
<1>8. CASE hrx_allocator_release(c)
  BY <1>1, <1>8 DEF hrx_allocator_release
<1>9. CASE hrx_semaphore_create(c)
  BY <1>2, <1>9 DEF hrx_semaphore_create
<1>10. CASE hrx_fence_create(c) \/ hrx_fence_create_at(c)
  <2>1. \A s : FenceOver(c, s) => crashed' = crashed
    BY DEF FenceOver
  <2> QED BY <1>2, <1>10, <2>1 DEF hrx_fence_create, hrx_fence_create_at
<1>11. CASE hrx_fence_insert(c) \/ hrx_fence_extend(c)
  <2>1. \A hal, s : Absorb(hal, s) => crashed' = crashed
    BY DEF Absorb
  <2>2. CASE hrx_fence_insert(c)
    BY <1>1, <2>1, <2>2 DEF hrx_fence_insert
  <2>3. CASE hrx_fence_extend(c)
    BY <1>1, <2>1, <2>3 DEF hrx_fence_extend
  <2> QED BY <1>11, <2>2, <2>3
<1>12. CASE \/ hrx_allocator_allocate_buffer(c) \/ hrx_allocator_import_buffer(c)
            \/ hrx_allocator_virtual_memory_reserve(c)
  <2>1. \A op, kind : NewBuffer(c, op, kind) => ~crashed /\ crashed' = crashed
    BY <1>2 DEF NewBuffer
  <2> QED BY <1>12, <2>1 DEF hrx_allocator_allocate_buffer, hrx_allocator_import_buffer,
                                    hrx_allocator_virtual_memory_reserve
<1>13. CASE hrx_buffer_map(c) \/ hrx_buffer_get_device_ptr(c)
  <2>1. \A b : MapRange(c, b) => crashed' = crashed
    BY DEF MapRange
  <2> QED BY <1>2, <1>13, <2>1 DEF hrx_buffer_map, hrx_buffer_get_device_ptr
<1>14. CASE hrx_buffer_unmap(c)
  <2>1. ~crashed
    BY <1>14 DEF hrx_buffer_unmap, Idle
  <2>2. crashed' = crashed
    BY <1>14 DEF hrx_buffer_unmap
  <2> QED BY <2>1, <2>2
<1>15. /\ \A op : Enter(c, op) => ok
       /\ \A op, n : Unwind(c, op, n) => ok
       /\ \A op, n, h, cells, l : Step(c, op, n, h, cells, l) => ok
       /\ \A op, n, s, kind, own, spare : Finish(c, op, n, s, kind, own, spare) => ok
  <2>1. \A op, n : At(c, op, n) => ~crashed
    BY DEF At
  <2>2. \A op : Enter(c, op) => ok
    BY <1>2 DEF Enter
  <2>3. \A op, n : Unwind(c, op, n) => ok
    BY <2>1 DEF Unwind
  <2>4. \A op, n, h, cells, l : Step(c, op, n, h, cells, l) => ok
    BY <2>1 DEF Step
  <2>5. \A op, n, s, kind, own, spare : Finish(c, op, n, s, kind, own, spare) => ok
    BY <2>1 DEF Finish
  <2> QED BY <2>2, <2>3, <2>4, <2>5
<1> HIDE DEF ok
<1>16. CASE hrx_buffer_allocate(c)
  <2>1. \A op : exact_pool_create(c, op) => ok
    BY <1>15 DEF exact_pool_create
  <2>2. \A op : queue_alloca(c, op) => ok
    BY <1>15 DEF queue_alloca
  <2>3. ok
    BY <1>15, <1>16, <2>1, <2>2 DEF hrx_buffer_allocate
  <2> QED BY <2>3 DEF ok
<1>17. CASE hrx_module_load_vmfb(c)
  <2>1. ok
    BY <1>15, <1>17 DEF hrx_module_load_vmfb
  <2> QED BY <2>1 DEF ok
<1>18. CASE hrx_module_lookup_function(c)
  <2>1. ~crashed
    BY <1>18 DEF hrx_module_lookup_function, Ready, Idle
  <2>2. crashed' = crashed
    BY <1>18 DEF hrx_module_lookup_function
  <2> QED BY <2>1, <2>2
<1>19. CASE hrx_function_invoke(c)
  <2>1. ~crashed
    BY <1>19 DEF hrx_function_invoke, Ready, Idle
  <2>2. crashed' = crashed
    BY <1>19 DEF hrx_function_invoke
  <2> QED BY <2>1, <2>2
<1>20. CASE hrx_executable_load_data(c)
  <2>1. ok
    BY <1>15, <1>20 DEF hrx_executable_load_data
  <2> QED BY <2>1 DEF ok
<1>21. CASE hrx_executable_load_file(c)
  <2>1. ok
    BY <1>15, <1>21 DEF hrx_executable_load_file
  <2> QED BY <2>1 DEF ok
<1>22. CASE hrx_buffer_view_create(c)
  <2>1. ~crashed
    BY <1>22 DEF hrx_buffer_view_create, Ready, Idle
  <2>2. crashed' = crashed
    BY <1>22 DEF hrx_buffer_view_create
  <2> QED BY <2>1, <2>2
<1>23. CASE hrx_value_list_create(c)
  BY <1>2, <1>23 DEF hrx_value_list_create
<1>24. CASE hrx_value_list_push(c)
  <2>1. \A hal, s : Absorb(hal, s) => crashed' = crashed
    BY DEF Absorb
  <2> QED BY <1>1, <1>24, <2>1 DEF hrx_value_list_push
<1> QED BY <1>3, <1>4, <1>5, <1>6, <1>7, <1>8, <1>9, <1>10, <1>11, <1>12, <1>13, <1>14, <1>16,
           <1>17, <1>18, <1>19, <1>20, <1>21, <1>22, <1>23, <1>24 DEF Ordinary

(***************************************************************************)
(* How the parts change.                                                   *)
(***************************************************************************)
\* The references in fields are a number, at least those of each cell.
LEMMA FieldsType ==
    ASSUME Counting, NEW h \in Seq(CellType), NEW o
    PROVE  Fields(h, o) \in Nat /\ \A p \in DOMAIN h : Occurrences(h[p].own, o) <= Fields(h, o)
<1> DEFINE f == [p \in DOMAIN h |-> Occurrences(h[p].own, o)]
<1>1. f \in [DOMAIN h -> Nat] /\ \A p \in DOMAIN h : f[p] = Occurrences(h[p].own, o)
  BY HeapDomain, CellFields, OccType
<1>2. IsFiniteSet(DOMAIN h)
  BY HeapDomain
<1>3. Fields(h, o) = Total(f)
  BY DEF Fields
<1> HIDE DEF f
<1> QED BY <1>1, <1>2, <1>3, TotalType

\* g is h but for cell p.
Edited(h, g, p) ==
    /\ h \in Seq(CellType) /\ g \in Seq(CellType) /\ p \in DOMAIN h
    /\ DOMAIN g = DOMAIN h /\ \A q \in DOMAIN h : q # p => g[q] = h[q]

FieldsMoved(h, g, p) ==
    \A o : Fields(g, o) + Occurrences(h[p].own, o) = Fields(h, o) + Occurrences(g[p].own, o)

\* Editing the fields of one cell.
LEMMA FieldsEdit ==
    ASSUME Counting, NEW h, NEW g, NEW p, Edited(h, g, p)
    PROVE  FieldsMoved(h, g, p)
<1> SUFFICES ASSUME NEW o
    PROVE  Fields(g, o) + Occurrences(h[p].own, o) = Fields(h, o) + Occurrences(g[p].own, o)
  BY DEF FieldsMoved
<1> USE DEF Edited
<1> DEFINE D == DOMAIN h
           f == [q \in D |-> Occurrences(h[q].own, o)]
           e == [q \in D |-> Occurrences(g[q].own, o)]
<1>1. f \in [D -> Nat] /\ \A q \in D : f[q] = Occurrences(h[q].own, o)
  BY HeapDomain, CellFields, OccType
<1>2. e \in [D -> Nat] /\ \A q \in D : e[q] = Occurrences(g[q].own, o)
  BY HeapDomain, CellFields, OccType
<1>3. IsFiniteSet(D) /\ p \in D
  BY HeapDomain
<1>4. Fields(h, o) = Total(f) /\ Fields(g, o) = Total(e)
  BY DEF Fields
<1> HIDE DEF f, e
<1>5. \A q \in D : q # p => f[q] = e[q]
  BY <1>1, <1>2
<1> HIDE DEF D
<1>6. Total(e) + f[p] = Total(f) + e[p]
  <2>1. Summands(f, D) /\ Summands(e, D)
    BY <1>1, <1>2 DEF Summands
  <2>2. Differ(f, e, D, p)
    BY <2>1, <1>3, <1>5 DEF Differ
  <2> QED BY <2>1, <2>2, TotalChange, SMT
<1> QED BY <1>1, <1>2, <1>3, <1>4, <1>6

\* Counts, kinds and marks do not matter to the references in fields.
LEMMA FieldsSame ==
    ASSUME NEW h, NEW g, NEW o, DOMAIN g = DOMAIN h, \A q \in DOMAIN h : g[q].own = h[q].own
    PROVE  Fields(g, o) = Fields(h, o)
<1>1. [q \in DOMAIN g |-> Occurrences(g[q].own, o)] = [q \in DOMAIN h |-> Occurrences(h[q].own, o)]
  OBVIOUS
<1> QED BY <1>1 DEF Fields

\* g is h and a cell n.
Extended(h, g, n) ==
    /\ h \in Seq(CellType) /\ g \in Seq(CellType) /\ n \notin DOMAIN h
    /\ DOMAIN g = DOMAIN h \cup {n} /\ \A q \in DOMAIN h : g[q] = h[q]

FieldsAdded(h, g, n) == \A o : Fields(g, o) = Fields(h, o) + Occurrences(g[n].own, o)

\* One more cell.
LEMMA FieldsAdd ==
    ASSUME Counting, NEW h, NEW g, NEW n, Extended(h, g, n)
    PROVE  FieldsAdded(h, g, n)
<1> SUFFICES ASSUME NEW o
    PROVE  Fields(g, o) = Fields(h, o) + Occurrences(g[n].own, o)
  BY DEF FieldsAdded
<1> USE DEF Extended
<1> DEFINE D == DOMAIN g
           f == [q \in DOMAIN h |-> Occurrences(h[q].own, o)]
           e == [q \in D |-> Occurrences(g[q].own, o)]
<1>1. Summands(f, DOMAIN h) /\ \A q \in DOMAIN h : f[q] = Occurrences(h[q].own, o)
  BY HeapDomain, CellFields, OccType DEF Summands
<1>2. Summands(e, D) /\ \A q \in D : e[q] = Occurrences(g[q].own, o)
  BY HeapDomain, CellFields, OccType DEF Summands
<1>3. IsFiniteSet(D) /\ n \in D /\ DOMAIN h = D \ {n}
  BY HeapDomain
<1>4. Fields(h, o) = Total(f) /\ Fields(g, o) = Total(e)
  BY DEF Fields
<1> HIDE DEF f, e
<1>5. Summands(f, D \ {n})
  BY <1>1, <1>3
<1>6. Differ(f, e, D, n)
  <2>1. \A q \in D : q # n => f[q] = e[q]
    BY <1>1, <1>2, <1>3
  <2> QED BY <2>1, <1>2, <1>3, <1>5 DEF Differ
<1> HIDE DEF D
<1>7. Total(e) = Total(f) + e[n]
  BY <1>5, <1>6, TotalExtend, SMT
<1>8. e[n] = Occurrences(g[n].own, o)
  BY <1>2, <1>3
<1> QED BY <1>4, <1>7, <1>8

\* What a client has is a number.
LEMMA UsesType ==
    ASSUME Counting, NEW r \in [Cells -> Nat], NEW l \in Seq(Cells), NEW t \in Seq(Cells), NEW o \in Cells
    PROVE  /\ UsesIn(r, l, t, o) \in Nat /\ HeldIn(r, o) \in Nat /\ r[o] <= HeldIn(r, o)
           /\ Occurrences(l, o) \in Nat /\ Occurrences(t, o) \in Nat
<1>1. Occurrences(l, o) \in Nat /\ Occurrences(t, o) \in Nat
  BY OccType
<1>2. r[o] \in Nat /\ r[HalAllocator] \in Nat
  BY FixedCells
<1>3. HeldIn(r, o) \in Nat /\ r[o] <= HeldIn(r, o)
  BY <1>2, SMT DEF HeldIn
<1> QED BY <1>1, <1>3, SMT DEF UsesIn

\* What the clients have: a number, at least what each of them has, and if it is
\* not zero one of them has something.
LEMMA UsersType ==
    ASSUME Counting, NEW r \in [Clients -> [Cells -> Nat]], NEW k \in [Clients -> CallType],
           NEW t \in [Clients -> Seq(Cells)], NEW o \in Cells
    PROVE  /\ Users(r, k, t, o) \in Nat
           /\ \A c \in Clients : UsesIn(r[c], k[c].locals, t[c], o) <= Users(r, k, t, o)
           /\ Users(r, k, t, o) # 0 => \E c \in Clients : UsesIn(r[c], k[c].locals, t[c], o) # 0
<1> DEFINE f == [c \in Clients |-> UsesIn(r[c], k[c].locals, t[c], o)]
<1>1. \A c \in Clients : r[c] \in [Cells -> Nat] /\ k[c].locals \in Seq(Cells) /\ t[c] \in Seq(Cells)
  BY SMT DEF CallType
<1>2. \A c \in Clients : UsesIn(r[c], k[c].locals, t[c], o) \in Nat
  BY <1>1, UsesType
<1>3. f \in [Clients -> Nat] /\ \A c \in Clients : f[c] = UsesIn(r[c], k[c].locals, t[c], o)
  BY <1>2
<1>4. IsFiniteSet(Clients)
  BY ObjectBounds
<1>5. Users(r, k, t, o) = Total(f)
  BY DEF Users
<1> HIDE DEF f
<1>6. Total(f) \in Nat /\ \A c \in Clients : f[c] <= Total(f)
  BY <1>3, <1>4, TotalType
<1>7. DOMAIN f = Clients
  BY <1>3
<1>8. Total(f) # 0 => \E c \in Clients : f[c] # 0
  BY <1>7, TotalSome
<1> QED BY <1>3, <1>5, <1>6, <1>8

\* The clients differ, at most, in client c.
ButFor(c, r, k, t, r2, k2, t2) ==
    /\ r \in [Clients -> [Cells -> Nat]] /\ k \in [Clients -> CallType]
    /\ t \in [Clients -> Seq(Cells)] /\ r2 \in [Clients -> [Cells -> Nat]]
    /\ k2 \in [Clients -> CallType] /\ t2 \in [Clients -> Seq(Cells)] /\ c \in Clients
    /\ \A d \in Clients : d # c => r2[d] = r[d] /\ k2[d] = k[d] /\ t2[d] = t[d]

UsersMoved(c, r, k, t, r2, k2, t2) ==
    \A o \in Cells : Users(r2, k2, t2, o) + UsesIn(r[c], k[c].locals, t[c], o)
                       = Users(r, k, t, o) + UsesIn(r2[c], k2[c].locals, t2[c], o)

\* A step of one client.
LEMMA UsersChange ==
    ASSUME Counting, NEW r, NEW k, NEW t, NEW r2, NEW k2, NEW t2, NEW c, ButFor(c, r, k, t, r2, k2, t2)
    PROVE  UsersMoved(c, r, k, t, r2, k2, t2)
<1> SUFFICES ASSUME NEW o \in Cells
             PROVE  Users(r2, k2, t2, o) + UsesIn(r[c], k[c].locals, t[c], o)
                      = Users(r, k, t, o) + UsesIn(r2[c], k2[c].locals, t2[c], o)
  BY DEF UsersMoved
<1> USE DEF ButFor
<1> DEFINE f == [d \in Clients |-> UsesIn(r[d], k[d].locals, t[d], o)]
           e == [d \in Clients |-> UsesIn(r2[d], k2[d].locals, t2[d], o)]
<1>1. \A d \in Clients : r[d] \in [Cells -> Nat] /\ k[d].locals \in Seq(Cells) /\ t[d] \in Seq(Cells)
  BY SMT DEF CallType
<1>2. \A d \in Clients : r2[d] \in [Cells -> Nat] /\ k2[d].locals \in Seq(Cells) /\ t2[d] \in Seq(Cells)
  BY SMT DEF CallType
<1>3. f \in [Clients -> Nat] /\ \A d \in Clients : f[d] = UsesIn(r[d], k[d].locals, t[d], o)
  BY <1>1, UsesType
<1>4. e \in [Clients -> Nat] /\ \A d \in Clients : e[d] = UsesIn(r2[d], k2[d].locals, t2[d], o)
  BY <1>2, UsesType
<1>5. Users(r, k, t, o) = Total(f) /\ Users(r2, k2, t2, o) = Total(e)
  BY DEF Users
<1> HIDE DEF f, e
<1>6. \A d \in Clients : d # c => f[d] = e[d]
  BY <1>3, <1>4
<1>7. IsFiniteSet(Clients)
  BY ObjectBounds
<1>8. Total(e) + f[c] = Total(f) + e[c]
  <2>1. Summands(f, Clients) /\ Summands(e, Clients)
    BY <1>3, <1>4 DEF Summands
  <2>2. Differ(f, e, Clients, c)
    BY <2>1, <1>6, <1>7 DEF Differ
  <2> QED BY <2>1, <2>2, TotalChange, SMT
<1> QED BY <1>3, <1>4, <1>5, <1>8

(***************************************************************************)
(* What the primitives do to a heap.                                       *)
(***************************************************************************)
\* The first field of an object that has one.
LEMMA FirstField ==
    ASSUME NEW s \in Seq(Cells), s # <<>>
    PROVE  1 \in DOMAIN s /\ s[1] \in Cells /\ Len(s) \in Nat /\ Len(s) >= 1
BY SMT

KindsKept(h, g) == \A p \in DOMAIN h : p \in DOMAIN g /\ g[p].kind = h[p].kind

\* A cell stays sound while the cells it owns keep their kinds.
LEMMA SoundKept ==
    ASSUME NEW h, NEW g, NEW x \in CellType, KindsKept(h, g), Sound(h, x)
    PROVE  Sound(g, x)
<1>1. x.own \in Seq(Cells)
  BY CellFields
<1>2. \A i \in DOMAIN x.own : /\ x.own[i] \in DOMAIN h /\ x.own[i] \in DOMAIN g
                              /\ g[x.own[i]].kind = h[x.own[i]].kind
  BY DEF Sound, KindsKept
<1>3. x.own # <<>> => g[x.own[1]].kind = h[x.own[1]].kind
  BY <1>1, <1>2, FirstField
<1>4. /\ x.kind \in Private => x.lost = 0
      /\ x.kind = "mapped_range" => x.count <= 1
      /\ x.own # <<>> => x.count > 0 /\ x.kind # "mapped_range"
      /\ x.ends = (IF x.count > 0 THEN 0 ELSE 1)
  BY DEF Sound
<1>5. x.count > 0 =>
          /\ x.kind \in {"buffer", "semaphore", "fence", "view", "list"} => x.own # <<>>
          /\ x.kind \in {"fence", "list"} => g[x.own[1]].kind \in {"hal_fence", "vm_list"}
          /\ x.kind = "device" => x.own = HrxDeviceS
  BY <1>3 DEF Sound
<1>6. \A i \in DOMAIN x.own :
          /\ x.own[i] \in DOMAIN g
          /\ g[x.own[i]].kind \in Private =>
                /\ g[x.own[i]].kind = "mapped_range"
                /\ x.kind = "buffer" /\ i = 1 /\ Len(x.own) >= 2
  BY <1>2 DEF Sound
<1> QED BY <1>4, <1>5, <1>6 DEF Sound

\* A heap is sound if its cells are sound for an earlier one.
LEMMA HeapSoundKept ==
    ASSUME Counting, NEW h, HeapOK(h), NEW g \in Seq(CellType), KindsKept(h, g), Len(g) \in 4 .. MaxCells,
           \A p \in DOMAIN g : Sound(h, g[p])
    PROVE  HeapOK(g)
<1>1. \A p \in DOMAIN g : Sound(g, g[p])
  BY HeapDomain, SoundKept
<1>2. Device \in DOMAIN h /\ HalAllocator \in DOMAIN h /\ HalDeviceGroup \in DOMAIN h
  <2>1. DOMAIN h = 1 .. Len(h) /\ Len(h) \in 4 .. MaxCells
    BY HeapDomain DEF HeapOK
  <2> QED BY <2>1, SMT DEF Device, HalAllocator, HalDeviceGroup
<1>3. HeapSound(g)
  BY <1>1, <1>2 DEF HeapSound, HeapOK, KindsKept
<1> QED BY <1>3 DEF HeapOK

\* What a sound heap says of its cells and of the fixed ones.
LEMMA HeapFacts ==
    ASSUME Counting, NEW h, HeapOK(h)
    PROVE  /\ h \in Seq(CellType) /\ Len(h) \in Nat /\ Len(h) >= 4 /\ Len(h) <= MaxCells
           /\ DOMAIN h = 1 .. Len(h) /\ DOMAIN h \subseteq Cells
           /\ Device \in DOMAIN h /\ HalAllocator \in DOMAIN h /\ HalDeviceGroup \in DOMAIN h
           /\ HalDevice \in DOMAIN h
           /\ \A p \in DOMAIN h : h[p] \in CellType /\ Sound(h, h[p])
<1>1. h \in Seq(CellType) /\ Len(h) \in 4 .. MaxCells
  BY DEF HeapOK
<1>2. DOMAIN h = 1 .. Len(h) /\ \A p \in DOMAIN h : h[p] \in CellType /\ Sound(h, h[p])
  BY HeapDomain DEF HeapOK, HeapSound
<1>3. MaxCells \in Nat
  BY FixedCells
<1>4. Len(h) \in Nat /\ Len(h) >= 4 /\ Len(h) <= MaxCells
  BY <1>1, <1>3, SMT
<1>5. 1 .. Len(h) \subseteq Cells
  BY <1>3, <1>4, SMT DEF Cells
<1>6. /\ Device \in 1 .. Len(h) /\ HalAllocator \in 1 .. Len(h) /\ HalDeviceGroup \in 1 .. Len(h)
      /\ HalDevice \in 1 .. Len(h)
  BY <1>4, SMT DEF Device, HalAllocator, HalDeviceGroup, HalDevice
<1> QED BY <1>1, <1>2, <1>4, <1>5, <1>6

\* The references on o that no field accounts for: those of the runtime and the
\* clients have to make up for them.
Net(h, o) == Counted(h, o) - Fields(h, o)

\* Net is a number.
LEMMA NetType ==
    ASSUME Counting, NEW h \in Seq(CellType), NEW o \in Cells
    PROVE  Counted(h, o) \in Int /\ Fields(h, o) \in Nat /\ Net(h, o) \in Int
<1>1. \A p \in DOMAIN h : h[p].count \in Nat /\ h[p].lost \in Nat
  BY HeapDomain, CellFields
<1>2. Counted(h, o) \in Int
  BY <1>1, SMT DEF Counted
<1>3. Fields(h, o) \in Nat
  BY FieldsType
<1> QED BY <1>2, <1>3, SMT DEF Net

\* A new cell: its references, less those in its own fields, are to be accounted for.
NetAdded(h, g, n) ==
    \A o \in Cells : Net(g, o) = Net(h, o) + (IF o = n THEN g[n].count - g[n].lost ELSE 0)
                                   - Occurrences(g[n].own, o)

\* A new cell leaves the others sound and adds what it counts and what it owns.
LEMMA AddCell ==
    ASSUME Counting, NEW h, NEW g, NEW n, Extended(h, g, n), HeapOK(h), Len(g) \in 4 .. MaxCells,
           Sound(h, g[n])
    PROVE  HeapOK(g) /\ KindsKept(h, g) /\ NetAdded(h, g, n)
<1>1. /\ h \in Seq(CellType) /\ g \in Seq(CellType) /\ n \notin DOMAIN h /\ n \in DOMAIN g
      /\ DOMAIN g = DOMAIN h \cup {n} /\ \A q \in DOMAIN h : q \in DOMAIN g /\ g[q] = h[q]
  BY DEF Extended
<1>2. KindsKept(h, g)
  BY <1>1 DEF KindsKept
<1>3. HeapOK(g)
  <2>1. \A p \in DOMAIN g : Sound(h, g[p])
    BY HeapFacts, <1>1
  <2> QED BY <2>1, <1>1, <1>2, HeapSoundKept
<1>4. g[n].count \in Nat /\ g[n].lost \in Nat /\ g[n].own \in Seq(Cells)
  BY <1>1, HeapDomain, CellFields
<1>5. FieldsAdded(h, g, n)
  BY FieldsAdd
<1>6. ASSUME NEW o \in Cells
      PROVE  Net(g, o) = Net(h, o) + (IF o = n THEN g[n].count - g[n].lost ELSE 0)
                           - Occurrences(g[n].own, o)
  <2> DEFINE d == IF o = n THEN g[n].count - g[n].lost ELSE 0
  <2>1. Fields(g, o) = Fields(h, o) + Occurrences(g[n].own, o)
    BY <1>5 DEF FieldsAdded
  <2>2. Counted(h, o) \in Int /\ Fields(h, o) \in Nat /\ Occurrences(g[n].own, o) \in Nat
    BY <1>1, <1>4, NetType, OccType
  <2>3. d \in Int
    BY <1>4, SMT
  <2>4. Counted(g, o) = Counted(h, o) + d
    <3>1. CASE o = n
      <4>1. Counted(h, o) = 0 /\ Counted(g, o) = g[n].count - g[n].lost
        BY <3>1, <1>1 DEF Counted
      <4> QED BY <4>1, <3>1, <1>4, SMT
    <3>2. CASE o # n
      <4>1. Counted(h, o) = Counted(g, o)
        BY <3>2, <1>1 DEF Counted
      <4> QED BY <4>1, <2>2, <3>2, SMT
    <3> QED BY <3>1, <3>2
  <2> HIDE DEF d
  <2>5. Net(g, o) = Net(h, o) + d - Occurrences(g[n].own, o)
    BY <2>1, <2>2, <2>3, <2>4, SMT DEF Net
  <2> QED BY <2>5 DEF d
<1>7. NetAdded(h, g, n)
  BY <1>6 DEF NetAdded
<1> QED BY <1>2, <1>3, <1>7

\* Appending a cell to a heap that has room.
LEMMA AppendExtends ==
    ASSUME Counting, NEW h, HeapOK(h), NEW x \in CellType, Len(h) < MaxCells
    PROVE  /\ Extended(h, Append(h, x), Len(h) + 1)
           /\ Len(Append(h, x)) = Len(h) + 1 /\ Len(h) + 1 \in 4 .. MaxCells
           /\ Len(h) + 1 \in Cells /\ Append(h, x)[Len(h) + 1] = x
<1>1. /\ h \in Seq(CellType) /\ Len(h) \in Nat /\ Len(h) >= 4 /\ MaxCells \in Nat
      /\ DOMAIN h = 1 .. Len(h)
  BY HeapFacts, FixedCells
<1>2. /\ Append(h, x) \in Seq(CellType) /\ Len(Append(h, x)) = Len(h) + 1
      /\ DOMAIN Append(h, x) = 1 .. Len(h) + 1 /\ Append(h, x)[Len(h) + 1] = x
      /\ \A p \in 1 .. Len(h) : Append(h, x)[p] = h[p]
  BY <1>1, SMT
<1>3. /\ Len(h) + 1 \in 4 .. MaxCells /\ Len(h) + 1 \in Cells
      /\ Len(h) + 1 \notin 1 .. Len(h) /\ 1 .. Len(h) + 1 = (1 .. Len(h)) \cup {Len(h) + 1}
  BY <1>1, SMT DEF Cells
<1>4. Extended(h, Append(h, x), Len(h) + 1)
  BY <1>1, <1>2, <1>3 DEF Extended
<1> QED BY <1>2, <1>3, <1>4

\* Overwriting a cell.
LEMMA ExceptEdits ==
    ASSUME Counting, NEW h, HeapOK(h), NEW p \in DOMAIN h, NEW x \in CellType
    PROVE  Edited(h, [h EXCEPT ![p] = x], p) /\ [h EXCEPT ![p] = x][p] = x
<1>1. h \in Seq(CellType) /\ p \in 1 .. Len(h) /\ DOMAIN h = 1 .. Len(h)
  BY HeapFacts
<1>2. [h EXCEPT ![p] = x] \in Seq(CellType)
  BY <1>1, SMT
<1> QED BY <1>1, <1>2 DEF Edited

\* g is h with one more reference on every element of s.
More(h, s, g) ==
    /\ h \in Seq(CellType) /\ g \in Seq(CellType) /\ s \in Seq(Cells)
    /\ DOMAIN g = DOMAIN h /\ Len(g) = Len(h)
    /\ \A p \in DOMAIN h :
          /\ g[p].kind = h[p].kind /\ g[p].own = h[p].own
          /\ g[p].lost = h[p].lost /\ g[p].ends = h[p].ends
          /\ g[p].count = h[p].count + Occurrences(s, p)

\* An object that may be retained: it is live, and not a range.
Retainable(h, o) == o \in DOMAIN h /\ h[o].count > 0 /\ h[o].kind # "mapped_range"

\* Retaining live objects leaves the heap sound; nobody accounts for the references yet.
LEMMA MoreReferences ==
    ASSUME Counting, NEW h, HeapOK(h), NEW g, NEW s, More(h, s, g), \A i \in DOMAIN s : Retainable(h, s[i])
    PROVE  /\ HeapOK(g) /\ KindsKept(h, g) /\ Len(g) = Len(h) /\ DOMAIN g = DOMAIN h
           /\ \A o \in Cells : Net(g, o) = Net(h, o) + Occurrences(s, o)
<1>1. /\ h \in Seq(CellType) /\ g \in Seq(CellType) /\ s \in Seq(Cells)
      /\ DOMAIN g = DOMAIN h /\ Len(g) = Len(h)
  BY DEF More
<1>2. KindsKept(h, g)
  BY DEF More, KindsKept
<1>3. \A p : Occurrences(s, p) \in Nat
  BY <1>1, OccType
<1>4. \A p : Occurrences(s, p) = 0 \/ Retainable(h, p)
  BY <1>1, OccSome
<1>5. ASSUME NEW p \in DOMAIN g PROVE Sound(h, g[p])
  <2>1. /\ g[p].kind = h[p].kind /\ g[p].own = h[p].own
        /\ g[p].lost = h[p].lost /\ g[p].ends = h[p].ends
        /\ g[p].count = h[p].count + Occurrences(s, p)
        /\ p \in DOMAIN h /\ h[p] \in CellType /\ Sound(h, h[p]) /\ h[p].count \in Nat
    BY <1>1, HeapFacts, CellFields DEF More
  <2>2. CASE Occurrences(s, p) = 0
    <3>1. g[p].count = h[p].count
      BY <2>1, <2>2, SMT
    <3> QED BY <2>1, <3>1 DEF Sound
  <2>3. CASE Retainable(h, p)
    <3>1. g[p].count > 0 /\ h[p].count > 0 /\ h[p].kind # "mapped_range"
      BY <2>1, <2>3, <1>3, SMT DEF Retainable
    <3> QED BY <2>1, <3>1 DEF Sound
  <2> QED BY <2>2, <2>3, <1>4
<1>6. HeapOK(g)
  <2>1. Len(g) \in 4 .. MaxCells
    BY <1>1 DEF HeapOK
  <2> QED BY <1>1, <1>2, <1>5, <2>1, HeapSoundKept
<1>7. ASSUME NEW o \in Cells PROVE Net(g, o) = Net(h, o) + Occurrences(s, o)
  <2>1. Fields(g, o) = Fields(h, o)
    BY <1>1, FieldsSame DEF More
  <2>2. Counted(g, o) = Counted(h, o) + Occurrences(s, o)
    <3>1. CASE o \in DOMAIN h
      <4>1. /\ Counted(g, o) = g[o].count - g[o].lost /\ Counted(h, o) = h[o].count - h[o].lost
            /\ g[o].count = h[o].count + Occurrences(s, o) /\ g[o].lost = h[o].lost
        BY <3>1, <1>1 DEF Counted, More
      <4>2. h[o].count \in Nat /\ h[o].lost \in Nat
        BY <3>1, HeapFacts, CellFields
      <4> QED BY <4>1, <4>2, <1>3, SMT
    <3>2. CASE o \notin DOMAIN h
      <4>1. Counted(g, o) = 0 /\ Counted(h, o) = 0 /\ Occurrences(s, o) = 0
        BY <3>2, <1>1, <1>4 DEF Counted, Retainable
      <4> QED BY <4>1, SMT
    <3> QED BY <3>1, <3>2
  <2>3. Counted(h, o) \in Int /\ Fields(h, o) \in Nat
    BY <1>1, NetType
  <2> QED BY <2>1, <2>2, <2>3, <1>3, SMT DEF Net
<1> QED BY <1>1, <1>2, <1>6, <1>7

\* Editing one cell: what it gives up of its fields, and of its count, is no longer
\* accounted for.
NetEdited(h, g, p) ==
    \A o \in Cells :
        Net(g, o) = Net(h, o) + (IF o = p THEN (g[p].count - g[p].lost) - (h[p].count - h[p].lost)
                                          ELSE 0)
                      + Occurrences(h[p].own, o) - Occurrences(g[p].own, o)

\* So does a change to one cell that keeps its kind.
LEMMA EditCell ==
    ASSUME Counting, NEW h, NEW g, NEW p, Edited(h, g, p), HeapOK(h), g[p].kind = h[p].kind, Sound(h, g[p])
    PROVE  HeapOK(g) /\ KindsKept(h, g) /\ Len(g) = Len(h) /\ NetEdited(h, g, p)
<1>1. /\ h \in Seq(CellType) /\ g \in Seq(CellType) /\ p \in DOMAIN h /\ p \in DOMAIN g
      /\ DOMAIN g = DOMAIN h /\ \A q \in DOMAIN h : q # p => g[q] = h[q]
  BY DEF Edited
<1>2. Len(g) = Len(h)
  BY <1>1, SMT
<1>3. KindsKept(h, g)
  BY <1>1 DEF KindsKept
<1>4. HeapOK(g)
  <2>1. \A q \in DOMAIN g : Sound(h, g[q])
    BY <1>1, HeapFacts
  <2>2. Len(g) \in 4 .. MaxCells
    BY <1>2 DEF HeapOK
  <2> QED BY <1>1, <1>3, <2>1, <2>2, HeapSoundKept
<1>5. /\ h[p].count \in Nat /\ h[p].lost \in Nat /\ g[p].count \in Nat /\ g[p].lost \in Nat
      /\ h[p].own \in Seq(Cells) /\ g[p].own \in Seq(Cells)
  BY <1>1, HeapDomain, CellFields
<1>6. FieldsMoved(h, g, p)
  BY FieldsEdit
<1>7. ASSUME NEW o \in Cells
      PROVE  Net(g, o) = Net(h, o) + (IF o = p THEN (g[p].count - g[p].lost) - (h[p].count - h[p].lost)
                                               ELSE 0)
                           + Occurrences(h[p].own, o) - Occurrences(g[p].own, o)
  <2> DEFINE d == IF o = p THEN (g[p].count - g[p].lost) - (h[p].count - h[p].lost) ELSE 0
  <2>1. Fields(g, o) + Occurrences(h[p].own, o) = Fields(h, o) + Occurrences(g[p].own, o)
    BY <1>6 DEF FieldsMoved
  <2>2. Counted(h, o) \in Int /\ Fields(h, o) \in Nat /\ Fields(g, o) \in Nat
    BY <1>1, NetType
  <2>3. Occurrences(h[p].own, o) \in Nat /\ Occurrences(g[p].own, o) \in Nat
    BY <1>5, OccType
  <2>4. d \in Int
    <3>1. ASSUME NEW i \in Nat, NEW j \in Nat, NEW k \in Nat, NEW l \in Nat
          PROVE  (i - j) - (k - l) \in Int
      BY SMT
    <3>2. 0 \in Int
      BY SMT
    <3> QED BY <1>5, <3>1, <3>2
  <2>5. Counted(g, o) = Counted(h, o) + d
    <3>1. CASE o = p
      <4>1. Counted(h, o) = h[p].count - h[p].lost /\ Counted(g, o) = g[p].count - g[p].lost
        BY <3>1, <1>1 DEF Counted
      <4> QED BY <4>1, <3>1, <1>5, SMT
    <3>2. CASE o # p
      <4>1. Counted(h, o) = Counted(g, o)
        BY <3>2, <1>1 DEF Counted
      <4> QED BY <4>1, <2>2, <3>2, SMT
    <3> QED BY <3>1, <3>2
  <2> HIDE DEF d
  <2>6. Net(g, o) = Net(h, o) + d + Occurrences(h[p].own, o) - Occurrences(g[p].own, o)
    BY <2>1, <2>2, <2>3, <2>4, <2>5, SMT DEF Net
  <2> QED BY <2>6 DEF d
<1>8. NetEdited(h, g, p)
  BY <1>7 DEF NetEdited
<1> QED BY <1>2, <1>3, <1>4, <1>8

(***************************************************************************)
(* A step of one client.                                                   *)
(***************************************************************************)
\* What the invariant says, in the terms of the lemmas above.
LEMMA CoreFacts ==
    ASSUME Core
    PROVE  /\ HeapOK(heap)
           /\ refs \in [Clients -> [Cells -> Nat]] /\ call \in [Clients -> CallType]
           /\ todo \in [Clients -> Seq(Cells)] /\ up \in BOOLEAN /\ crashed \in BOOLEAN
           /\ \A c \in Clients :
                 /\ CallSound(heap, call[c], todo[c], refs[c]) /\ HandlesSound(heap, refs[c])
                 /\ refs[c] \in [Cells -> Nat] /\ call[c] \in CallType
                 /\ call[c].locals \in Seq(Cells) /\ todo[c] \in Seq(Cells)
           /\ \A o \in Cells : Runtime(up, o) + Users(refs, call, todo, o) + Fields(heap, o)
                                 = Counted(heap, o)
<1>1. /\ HeapOK(heap)
      /\ refs \in [Clients -> [Cells -> Nat]] /\ call \in [Clients -> CallType]
      /\ todo \in [Clients -> Seq(Cells)] /\ up \in BOOLEAN /\ crashed \in BOOLEAN
  BY DEF Core, Typed, HeapOK
<1>2. \A c \in Clients : refs[c] \in [Cells -> Nat] /\ call[c] \in CallType /\ todo[c] \in Seq(Cells)
  BY <1>1
<1>3. \A k \in CallType : k.locals \in Seq(Cells)
  BY SMT DEF CallType
<1>4. \A o \in Cells : Runtime(up, o) + Users(refs, call, todo, o) + Fields(heap, o)
                         = Counted(heap, o)
  BY ReferencesParts DEF Core, Balanced
<1> QED BY <1>1, <1>2, <1>3, <1>4 DEF Core

\* A live buffer handle is a client's: held, or on the way to being released.
BuffersUsed ==
    \A b \in DOMAIN heap :
        heap[b].kind = "buffer" /\ heap[b].count > 0 =>
            \E c \in Clients : refs[c][b] > 0 \/ b \in Range(todo[c])

\* No field, no call in progress and no lost reference keeps a buffer handle alive.
LEMMA BufferUsed ==
    ASSUME Counting
    PROVE  Core => BuffersUsed
<1> SUFFICES ASSUME Core, NEW b \in DOMAIN heap, heap[b].kind = "buffer", heap[b].count > 0
             PROVE  \E c \in Clients : refs[c][b] > 0 \/ b \in Range(todo[c])
  BY DEF BuffersUsed
<1>1. /\ HeapOK(heap)
      /\ refs \in [Clients -> [Cells -> Nat]] /\ call \in [Clients -> CallType]
      /\ todo \in [Clients -> Seq(Cells)]
      /\ \A c \in Clients :
            /\ CallSound(heap, call[c], todo[c], refs[c])
            /\ refs[c] \in [Cells -> Nat]
            /\ call[c].locals \in Seq(Cells) /\ todo[c] \in Seq(Cells)
      /\ \A o \in Cells : Runtime(up, o) + Users(refs, call, todo, o) + Fields(heap, o)
                            = Counted(heap, o)
  BY CoreFacts
<1>2. /\ heap \in Seq(CellType) /\ b \in Cells /\ heap[b] \in CellType /\ Sound(heap, heap[b])
      /\ \A p \in DOMAIN heap : heap[p] \in CellType /\ Sound(heap, heap[p])
  BY <1>1, HeapFacts
<1>3. "buffer" \in Private /\ "buffer" # "mapped_range" /\ "buffer" # "device"
  BY SMT DEF Private
<1>4. b # Device
  <2>1. heap[Device].kind = "device"
    BY DEF Core, HeapSound
  <2> QED BY <1>3, <2>1
<1>5. Runtime(up, b) = 0
  BY <1>4 DEF Runtime
<1>6. Fields(heap, b) = 0
  <2>1. ASSUME NEW p \in DOMAIN heap, Occurrences(heap[p].own, b) # 0 PROVE FALSE
    <3>1. heap[p].own \in Seq(Cells) /\ Sound(heap, heap[p])
      BY <1>2, CellFields
    <3>2. PICK i \in DOMAIN heap[p].own : heap[p].own[i] = b
      BY <2>1, <3>1, OccSome
    <3>3. heap[b].kind \in Private => heap[b].kind = "mapped_range"
      BY <3>1, <3>2 DEF Sound
    <3> QED BY <1>3, <3>3
  <2> DEFINE f == [p \in DOMAIN heap |-> Occurrences(heap[p].own, b)]
  <2>2. DOMAIN f = DOMAIN heap /\ \A p \in DOMAIN heap : f[p] = 0
    BY <2>1
  <2>3. Fields(heap, b) = Total(f)
    BY DEF Fields
  <2> HIDE DEF f
  <2> QED BY <2>2, <2>3, TotalZero
<1>7. Counted(heap, b) = heap[b].count - heap[b].lost /\ heap[b].lost = 0
  BY <1>2, <1>3 DEF Counted, Sound
<1>8. heap[b].count \in Nat
  BY <1>2, CellFields
<1>9. Users(refs, call, todo, b) \in Nat
  BY <1>1, <1>2, UsersType
<1>10. Runtime(up, b) + Users(refs, call, todo, b) + Fields(heap, b) = Counted(heap, b)
  BY <1>1, <1>2
<1>11. Users(refs, call, todo, b) # 0
  BY <1>5, <1>6, <1>7, <1>8, <1>9, <1>10, SMT
<1>12. PICK c \in Clients : UsesIn(refs[c], call[c].locals, todo[c], b) # 0
  BY <1>1, <1>2, <1>11, UsersType
<1>13. Occurrences(call[c].locals, b) = 0
  <2>1. CASE call[c] = NoCall
    BY <2>1, NoCallType, OccEmpty
  <2>2. CASE call[c] # NoCall
    <3>1. \A i \in DOMAIN call[c].locals : heap[call[c].locals[i]].kind \notin Private
      BY <1>1, <2>2 DEF CallSound
    <3>2. ~ \E i \in DOMAIN call[c].locals : call[c].locals[i] = b
      BY <1>3, <3>1
    <3> QED BY <1>1, <3>2, OccSome
  <2> QED BY <2>1, <2>2
<1>14. HeldIn(refs[c], b) = refs[c][b] + 0
  BY <1>4 DEF HeldIn
<1>15. refs[c][b] \in Nat
  BY <1>1, <1>2
<1>16. CASE refs[c][b] > 0
  BY <1>16
<1>17. CASE ~(refs[c][b] > 0)
  <2>1. Occurrences(todo[c], b) # 0
    <3> DEFINE x == refs[c][b]
               y == Occurrences(todo[c], b)
               u == UsesIn(refs[c], call[c].locals, todo[c], b)
    <3>1. u = (x + 0) + 0 + y
      BY <1>13, <1>14 DEF UsesIn
    <3>2. x \in Nat /\ ~(x > 0) /\ u # 0
      BY <1>12, <1>15, <1>17
    <3> HIDE DEF x, y, u
    <3>3. y # 0
      BY <3>1, <3>2, SMT
    <3> QED BY <3>3 DEF y
  <2>2. PICK i \in DOMAIN todo[c] : todo[c][i] = b
    BY <1>1, <2>1, OccSome
  <2>3. b \in Range(todo[c])
    BY <2>2 DEF Range
  <2> QED BY <2>3
<1> QED BY <1>16, <1>17

\* The runtime's reference is a number.
LEMMA RuntimeType ==
    ASSUME NEW u, NEW o PROVE Runtime(u, o) \in Nat
BY SMT DEF Runtime

\* A client's call and handles stay sound while cells keep their kinds.
LEMMA ClientKept ==
    ASSUME NEW h, NEW g, KindsKept(h, g), NEW k, NEW t, NEW r
    PROVE  /\ CallSound(h, k, t, r) => CallSound(g, k, t, r)
           /\ HandlesSound(h, r) => HandlesSound(g, r)
BY DEF KindsKept, CallSound, HandlesSound

\* No client but c changes, and the variables keep their types.
Alone(c) ==
    /\ refs' \in [Clients -> [Cells -> Nat]] /\ call' \in [Clients -> CallType]
    /\ todo' \in [Clients -> Seq(Cells)] /\ up' \in BOOLEAN /\ crashed' \in BOOLEAN
    /\ \A d \in Clients : d # c => refs'[d] = refs[d] /\ call'[d] = call[d] /\ todo'[d] = todo[d]

\* The references the heap counts move as those of the runtime and of client c do.
Moves(c) ==
    \A o \in Cells :
        Net(heap', o) + Runtime(up, o) + UsesIn(refs[c], call[c].locals, todo[c], o)
          = Net(heap, o) + Runtime(up', o) + UsesIn(refs'[c], call'[c].locals, todo'[c], o)

\* A step of client c that keeps the heap sound and moves references as it counts them.
LEMMA Assemble ==
    ASSUME Counting, Core, NEW c \in Clients, Alone(c), Moves(c), HeapOK(heap'), KindsKept(heap, heap'),
           CallSound(heap', call'[c], todo'[c], refs'[c]), HandlesSound(heap', refs'[c])
    PROVE  Core'
<1>1. /\ refs' \in [Clients -> [Cells -> Nat]] /\ call' \in [Clients -> CallType]
      /\ todo' \in [Clients -> Seq(Cells)] /\ up' \in BOOLEAN /\ crashed' \in BOOLEAN
      /\ \A d \in Clients : d # c => refs'[d] = refs[d] /\ call'[d] = call[d] /\ todo'[d] = todo[d]
  BY DEF Alone
<1>2. heap' \in Seq(CellType) /\ Len(heap') \in 4 .. MaxCells /\ HeapSound(heap')
  BY DEF HeapOK
<1>3. /\ heap \in Seq(CellType) /\ refs \in [Clients -> [Cells -> Nat]]
      /\ call \in [Clients -> CallType] /\ todo \in [Clients -> Seq(Cells)]
  BY CoreFacts, HeapFacts
<1>4. \A d \in Clients :
          CallSound(heap', call'[d], todo'[d], refs'[d]) /\ HandlesSound(heap', refs'[d])
  <2> SUFFICES ASSUME NEW d \in Clients, d # c
               PROVE  CallSound(heap', call'[d], todo'[d], refs'[d]) /\ HandlesSound(heap', refs'[d])
    OBVIOUS
  <2>1. CallSound(heap', call[d], todo[d], refs[d]) /\ HandlesSound(heap', refs[d])
    BY CoreFacts, ClientKept
  <2> QED BY <1>1, <2>1
<1>5. ASSUME NEW o \in Cells PROVE References(o)' = Counted(heap', o)
  <2>1. References(o)' = Runtime(up', o) + Users(refs', call', todo', o) + Fields(heap', o)
    BY DEF References, Runtime, Users, UsesIn, HeldIn, Uses, Held, Locals, Fields
  <2>2. Users(refs', call', todo', o) + UsesIn(refs[c], call[c].locals, todo[c], o)
          = Users(refs, call, todo, o) + UsesIn(refs'[c], call'[c].locals, todo'[c], o)
    <3>1. ButFor(c, refs, call, todo, refs', call', todo')
      BY <1>1, <1>3 DEF ButFor
    <3>2. UsersMoved(c, refs, call, todo, refs', call', todo')
      BY <3>1, UsersChange
    <3> QED BY <3>2 DEF UsersMoved
  <2>3. Net(heap', o) + Runtime(up, o) + UsesIn(refs[c], call[c].locals, todo[c], o)
          = Net(heap, o) + Runtime(up', o) + UsesIn(refs'[c], call'[c].locals, todo'[c], o)
    BY DEF Moves
  <2>4. Runtime(up, o) + Users(refs, call, todo, o) + Fields(heap, o) = Counted(heap, o)
    BY CoreFacts
  <2>5. /\ Counted(heap, o) \in Int /\ Fields(heap, o) \in Nat
        /\ Counted(heap', o) \in Int /\ Fields(heap', o) \in Nat
    BY <1>2, <1>3, NetType
  <2>6. Users(refs, call, todo, o) \in Nat /\ Users(refs', call', todo', o) \in Nat
    BY <1>1, <1>3, UsersType
  <2>7. Runtime(up, o) \in Nat /\ Runtime(up', o) \in Nat
    BY RuntimeType
  <2>8. /\ UsesIn(refs[c], call[c].locals, todo[c], o) \in Nat
        /\ UsesIn(refs'[c], call'[c].locals, todo'[c], o) \in Nat
    <3>1. /\ refs[c] \in [Cells -> Nat] /\ call[c] \in CallType /\ todo[c] \in Seq(Cells)
          /\ refs'[c] \in [Cells -> Nat] /\ call'[c] \in CallType /\ todo'[c] \in Seq(Cells)
      BY <1>1, <1>3
    <3>2. call[c].locals \in Seq(Cells) /\ call'[c].locals \in Seq(Cells)
      BY <3>1, SMT DEF CallType
    <3> QED BY <3>1, <3>2, UsesType
  <2>9. Runtime(up', o) + Users(refs', call', todo', o) + Fields(heap', o) = Counted(heap', o)
    <3> DEFINE n == Counted(heap, o)
               n2 == Counted(heap', o)
               f == Fields(heap, o)
               f2 == Fields(heap', o)
               a == Users(refs, call, todo, o)
               a2 == Users(refs', call', todo', o)
               r == Runtime(up, o)
               r2 == Runtime(up', o)
               s == UsesIn(refs[c], call[c].locals, todo[c], o)
               s2 == UsesIn(refs'[c], call'[c].locals, todo'[c], o)
    <3>1. a2 + s = a + s2 /\ (n2 - f2) + r + s = (n - f) + r2 + s2 /\ r + a + f = n
      BY <2>2, <2>3, <2>4 DEF Net
    <3>2. /\ n \in Int /\ n2 \in Int /\ f \in Nat /\ f2 \in Nat /\ a \in Nat /\ a2 \in Nat
          /\ r \in Nat /\ r2 \in Nat /\ s \in Nat /\ s2 \in Nat
      BY <2>5, <2>6, <2>7, <2>8
    <3> HIDE DEF n, n2, f, f2, a, a2, r, r2, s, s2
    <3>3. r2 + a2 + f2 = n2
      BY <3>1, <3>2, SMT
    <3> QED BY <3>3 DEF r2, a2, f2, n2
  <2> QED BY <2>1, <2>9
<1>6. Balanced'
  BY <1>5 DEF Balanced, Counted
<1>7. Typed'
  BY <1>1, <1>2 DEF Typed
<1>8. HeapSound(heap)'
  BY <1>2 DEF HeapSound, Sound
<1>9. \A d \in Clients :
          (CallSound(heap, call[d], todo[d], refs[d]) /\ HandlesSound(heap, refs[d]))'
  BY <1>4 DEF CallSound, HandlesSound
<1> QED BY <1>6, <1>7, <1>8, <1>9 DEF Core

(***************************************************************************)
(* What is referred to is alive.                                           *)
(***************************************************************************)
\* A cell that a client uses or that is in a field exists and is counted.
LEMMA Referenced ==
    ASSUME Counting, Core, NEW o \in Cells
    PROVE  /\ \A c \in Clients : UsesIn(refs[c], call[c].locals, todo[c], o) # 0
                                   => o \in DOMAIN heap /\ heap[o].count > 0
           /\ Fields(heap, o) # 0 => o \in DOMAIN heap /\ heap[o].count > 0
<1>1. Runtime(up, o) + Users(refs, call, todo, o) + Fields(heap, o) = Counted(heap, o)
  BY CoreFacts
<1>2. heap \in Seq(CellType)
  BY CoreFacts, HeapFacts
<1>3. Fields(heap, o) \in Nat
  BY <1>2, FieldsType
<1>4. /\ Users(refs, call, todo, o) \in Nat
      /\ \A c \in Clients : UsesIn(refs[c], call[c].locals, todo[c], o) <= Users(refs, call, todo, o)
  BY CoreFacts, UsersType
<1>5. Runtime(up, o) \in Nat
  BY RuntimeType
<1>6. \A c \in Clients : UsesIn(refs[c], call[c].locals, todo[c], o) \in Nat
  BY CoreFacts, UsesType
<1>7. Counted(heap, o) > 0 => o \in DOMAIN heap /\ heap[o].count > 0
  <2>1. CASE o \in DOMAIN heap
    <3>1. heap[o].count \in Nat /\ heap[o].lost \in Nat
      BY <2>1, <1>2, HeapDomain, CellFields
    <3>2. Counted(heap, o) = heap[o].count - heap[o].lost
      BY <2>1 DEF Counted
    <3> QED BY <2>1, <3>1, <3>2, SMT
  <2>2. CASE o \notin DOMAIN heap
    BY <2>2, SMT DEF Counted
  <2> QED BY <2>1, <2>2
<1>8. Fields(heap, o) # 0 => Counted(heap, o) > 0
  BY <1>1, <1>3, <1>4, <1>5, SMT
<1>9. ASSUME NEW c \in Clients, UsesIn(refs[c], call[c].locals, todo[c], o) # 0
      PROVE  Counted(heap, o) > 0
  <2>1. UsesIn(refs[c], call[c].locals, todo[c], o) > 0
    BY <1>6, <1>9, SMT
  <2>2. Users(refs, call, todo, o) > 0
    BY <2>1, <1>4, <1>6, SMT
  <2> QED BY <2>2, <1>1, <1>3, <1>4, <1>5, SMT
<1> QED BY <1>7, <1>8, <1>9

\* A handle of a client is alive, and no range.
LEMMA HandleLive ==
    ASSUME Counting, Core, NEW c \in Clients, NEW o \in Cells, refs[c][o] > 0
    PROVE  Retainable(heap, o)
<1>1. /\ refs[c] \in [Cells -> Nat] /\ call[c].locals \in Seq(Cells) /\ todo[c] \in Seq(Cells)
      /\ HandlesSound(heap, refs[c])
  BY CoreFacts
<1>2. /\ HeldIn(refs[c], o) \in Nat /\ refs[c][o] <= HeldIn(refs[c], o)
      /\ Occurrences(call[c].locals, o) \in Nat /\ Occurrences(todo[c], o) \in Nat
  BY <1>1, UsesType
<1>3. refs[c][o] \in Nat
  BY <1>1
<1>4. UsesIn(refs[c], call[c].locals, todo[c], o) # 0
  BY <1>2, <1>3, SMT DEF UsesIn
<1> QED BY <1>1, <1>4, Referenced DEF HandlesSound, Retainable

\* A local of a constructor is alive, and not private.
LEMMA LocalLive ==
    ASSUME Counting, Core, NEW c \in Clients, NEW i \in DOMAIN call[c].locals
    PROVE  /\ call[c].locals[i] \in Cells /\ Retainable(heap, call[c].locals[i])
           /\ heap[call[c].locals[i]].kind \notin Private
<1> DEFINE o == call[c].locals[i]
<1>1. /\ refs[c] \in [Cells -> Nat] /\ call[c].locals \in Seq(Cells) /\ todo[c] \in Seq(Cells)
      /\ CallSound(heap, call[c], todo[c], refs[c])
  BY CoreFacts
<1>2. o \in Cells
  BY <1>1, SMT
<1>3. /\ HeldIn(refs[c], o) \in Nat
      /\ Occurrences(call[c].locals, o) \in Nat /\ Occurrences(todo[c], o) \in Nat
  BY <1>1, <1>2, UsesType
<1>4. Occurrences(call[c].locals, o) >= 1
  BY <1>1, OccIn
<1>5. UsesIn(refs[c], call[c].locals, todo[c], o) # 0
  <2> HIDE DEF o
  <2> QED BY <1>3, <1>4, SMT DEF UsesIn
<1>6. call[c] # NoCall
  <2>1. NoCall.locals = <<>> /\ DOMAIN <<>> = {}
    BY SMT DEF NoCall
  <2> QED BY <2>1
<1>7. heap[o].kind \notin Private
  BY <1>1, <1>6 DEF CallSound
<1>8. o \in DOMAIN heap /\ heap[o].count > 0
  BY <1>2, <1>5, Referenced
<1> QED BY <1>2, <1>7, <1>8 DEF Retainable, Private

\* What an object owns is alive.
LEMMA FieldLive ==
    ASSUME Counting, Core, NEW p \in DOMAIN heap, NEW i \in DOMAIN heap[p].own
    PROVE  /\ heap[p].own[i] \in Cells /\ heap[p].own[i] \in DOMAIN heap
           /\ heap[heap[p].own[i]].count > 0
<1> DEFINE o == heap[p].own[i]
<1>1. heap \in Seq(CellType) /\ heap[p] \in CellType
  BY CoreFacts, HeapFacts
<1>2. heap[p].own \in Seq(Cells)
  BY <1>1, CellFields
<1>3. o \in Cells
  BY <1>2, SMT
<1>4. Occurrences(heap[p].own, o) >= 1
  BY <1>2, OccIn
<1>5. /\ Fields(heap, o) \in Nat /\ Occurrences(heap[p].own, o) <= Fields(heap, o)
      /\ Occurrences(heap[p].own, o) \in Nat
  BY <1>1, <1>2, FieldsType, OccType
<1>6. Fields(heap, o) # 0
  <2> HIDE DEF o
  <2> QED BY <1>4, <1>5, SMT
<1> QED BY <1>3, <1>6, Referenced

\* What is to be released next is alive.
LEMMA TodoLive ==
    ASSUME Counting, Core, NEW c \in Clients, todo[c] # <<>>
    PROVE  /\ Head(todo[c]) \in DOMAIN heap /\ heap[Head(todo[c])].count > 0
           /\ Tail(todo[c]) \in Seq(Cells) /\ call[c] = NoCall
<1> DEFINE o == Head(todo[c])
<1>1. /\ refs[c] \in [Cells -> Nat] /\ call[c].locals \in Seq(Cells) /\ todo[c] \in Seq(Cells)
      /\ CallSound(heap, call[c], todo[c], refs[c])
  BY CoreFacts
<1>2. o \in Cells /\ o = todo[c][1] /\ 1 \in DOMAIN todo[c] /\ Tail(todo[c]) \in Seq(Cells)
  BY <1>1, SMT
<1>3. /\ HeldIn(refs[c], o) \in Nat
      /\ Occurrences(call[c].locals, o) \in Nat /\ Occurrences(todo[c], o) \in Nat
  BY <1>1, <1>2, UsesType
<1>4. Occurrences(todo[c], o) >= 1
  BY <1>1, <1>2, OccIn
<1>5. UsesIn(refs[c], call[c].locals, todo[c], o) # 0
  <2> HIDE DEF o
  <2> QED BY <1>3, <1>4, SMT DEF UsesIn
<1>6. o \in DOMAIN heap /\ heap[o].count > 0
  BY <1>2, <1>5, Referenced
<1> QED BY <1>1, <1>2, <1>6 DEF CallSound

\* Whoever holds the device keeps its allocator and its group alive.
LEMMA DeviceHeld ==
    ASSUME Counting, Core, NEW c \in Clients, refs[c][Device] > 0
    PROVE  /\ Retainable(heap, Device) /\ Retainable(heap, HalAllocator)
           /\ Retainable(heap, HalDeviceGroup)
<1>1. Retainable(heap, Device)
  BY FixedCells, HandleLive
<1>2. /\ HeapOK(heap) /\ heap[Device].kind = "device" /\ Sound(heap, heap[Device])
      /\ heap[HalAllocator].kind = "hal_allocator" /\ heap[HalDeviceGroup].kind = "hal_device_group"
      /\ Device \in DOMAIN heap
  BY CoreFacts, HeapFacts DEF HeapOK, HeapSound
<1>3. heap[Device].own = HrxDeviceS
  BY <1>1, <1>2 DEF Sound, Retainable
<1>4. /\ 1 \in DOMAIN HrxDeviceS /\ 2 \in DOMAIN HrxDeviceS
      /\ HrxDeviceS[1] = HalAllocator /\ HrxDeviceS[2] = HalDeviceGroup
  BY SMT DEF HrxDeviceS
<1>5. /\ HalAllocator \in DOMAIN heap /\ heap[HalAllocator].count > 0
      /\ HalDeviceGroup \in DOMAIN heap /\ heap[HalDeviceGroup].count > 0
  BY <1>2, <1>3, <1>4, FieldLive
<1>6. "hal_allocator" # "mapped_range" /\ "hal_device_group" # "mapped_range"
  BY SMT
<1> QED BY <1>1, <1>2, <1>5, <1>6 DEF Retainable

(***************************************************************************)
(* The parts of a step.                                                    *)
(***************************************************************************)
\* Retaining, by the library or by an IREE object, adds a reference for every element.
LEMMA RetainedMore ==
    ASSUME Counting, Core, NEW s \in Seq(Cells)
    PROVE  More(heap, s, Retained(s)) /\ More(heap, s, Lent(s))
<1> DEFINE reach == Range(s) \cup UNION {Range(heap[p].own) : p \in Range(s)}
           x(p) == [heap[p] EXCEPT !.count = heap[p].count + Occurrences(s, p)]
           y(p) == [heap[p] EXCEPT !.count = heap[p].count + Occurrences(s, p),
                                   !.lent = heap[p].lent \/ p \in reach]
<1>1. heap \in Seq(CellType) /\ DOMAIN heap = 1 .. Len(heap) /\ Len(heap) \in Nat
  BY CoreFacts, HeapFacts
<1>2. ASSUME NEW p \in DOMAIN heap
      PROVE  /\ x(p) \in CellType /\ x(p).kind = heap[p].kind /\ x(p).own = heap[p].own
             /\ x(p).lost = heap[p].lost /\ x(p).ends = heap[p].ends
             /\ x(p).count = heap[p].count + Occurrences(s, p)
             /\ y(p) \in CellType /\ y(p).kind = heap[p].kind /\ y(p).own = heap[p].own
             /\ y(p).lost = heap[p].lost /\ y(p).ends = heap[p].ends
             /\ y(p).count = heap[p].count + Occurrences(s, p)
  <2>1. heap[p] \in CellType /\ Occurrences(s, p) \in Nat
    BY <1>1, HeapDomain, OccType
  <2>2. (heap[p].lent \/ p \in reach) \in BOOLEAN
    OBVIOUS
  <2>3. ASSUME NEW z \in CellType, NEW n \in Nat, NEW b \in BOOLEAN
        PROVE  /\ [z EXCEPT !.count = n] \in CellType
               /\ [z EXCEPT !.count = n, !.lent = b] \in CellType
    BY DEF CellType
  <2>4. heap[p].count + Occurrences(s, p) \in Nat
    BY <2>1, CellFields, SMT
  <2>5. x(p) \in CellType /\ y(p) \in CellType
    BY <2>1, <2>2, <2>3, <2>4
  <2> HIDE DEF reach
  <2>6. /\ x(p).kind = heap[p].kind /\ x(p).own = heap[p].own
        /\ x(p).lost = heap[p].lost /\ x(p).ends = heap[p].ends
        /\ x(p).count = heap[p].count + Occurrences(s, p)
    BY <2>1, SMT DEF CellType
  <2>7. /\ y(p).kind = heap[p].kind /\ y(p).own = heap[p].own
        /\ y(p).lost = heap[p].lost /\ y(p).ends = heap[p].ends
        /\ y(p).count = heap[p].count + Occurrences(s, p)
    BY <2>1, SMT DEF CellType
  <2> QED BY <2>5, <2>6, <2>7
<1>3. Retained(s) = [p \in 1 .. Len(heap) |-> x(p)] /\ Lent(s) = [p \in 1 .. Len(heap) |-> y(p)]
  BY <1>1 DEF Retained, Lent
<1> HIDE DEF x, y
<1>4. /\ Retained(s) \in Seq(CellType) /\ Len(Retained(s)) = Len(heap)
      /\ Lent(s) \in Seq(CellType) /\ Len(Lent(s)) = Len(heap)
  <2>1. ASSUME NEW n \in Nat, NEW f \in [1 .. n -> CellType]
        PROVE  f \in Seq(CellType) /\ Len(f) = n
    BY SMT
  <2>2. Retained(s) \in [1 .. Len(heap) -> CellType] /\ Lent(s) \in [1 .. Len(heap) -> CellType]
    <3>1. \A p \in 1 .. Len(heap) : x(p) \in CellType /\ y(p) \in CellType
      BY <1>1, <1>2
    <3>2. /\ [p \in 1 .. Len(heap) |-> x(p)] \in [1 .. Len(heap) -> CellType]
          /\ [p \in 1 .. Len(heap) |-> y(p)] \in [1 .. Len(heap) -> CellType]
      BY <3>1
    <3> QED BY <1>3, <3>2
  <2> QED BY <1>1, <2>1, <2>2
<1>5. /\ DOMAIN Retained(s) = DOMAIN heap /\ \A p \in DOMAIN heap : Retained(s)[p] = x(p)
      /\ DOMAIN Lent(s) = DOMAIN heap /\ \A p \in DOMAIN heap : Lent(s)[p] = y(p)
  BY <1>1, <1>3
<1> QED BY <1>1, <1>2, <1>4, <1>5 DEF More

\* Client c's references are r before and q after: one more on x.
Bump(r, q, x) ==
    /\ r \in [Cells -> Nat] /\ q \in [Cells -> Nat] /\ x \in Cells
    /\ q[x] = r[x] + 1 /\ \A y \in Cells : y # x => q[y] = r[y]

HeldUp(r, q, x) == \A o \in Cells : HeldIn(q, o) = HeldIn(r, o) + One(x, o)

\* One more reference on a handle.
LEMMA HeldBump ==
    ASSUME NEW r, NEW q, NEW x, Bump(r, q, x), x # HalAllocator
    PROVE  HeldUp(r, q, x)
<1> SUFFICES ASSUME NEW o \in Cells PROVE HeldIn(q, o) = HeldIn(r, o) + One(x, o)
  BY DEF HeldUp
<1>1. q[HalAllocator] = r[HalAllocator] /\ r[HalAllocator] \in Nat /\ r[o] \in Nat
  BY FixedCells DEF Bump
<1>2. CASE o = x
  <2>1. q[o] = r[o] + 1
    BY <1>2 DEF Bump
  <2> QED BY <1>1, <1>2, <2>1, SMT DEF HeldIn, One
<1>3. CASE o # x
  <2>1. q[o] = r[o]
    BY <1>3 DEF Bump
  <2> QED BY <1>1, <1>3, <2>1, SMT DEF HeldIn, One
<1> QED BY <1>2, <1>3

\* The handles stay sound when one that exists, and is no range, is retained or released.
LEMMA HandlesBump ==
    ASSUME NEW h, NEW r, NEW q, NEW x, Bump(r, q, x) \/ Bump(q, r, x), HandlesSound(h, r),
           x \in DOMAIN h, h[x].kind # "mapped_range"
    PROVE  HandlesSound(h, q)
<1>1. \A y \in Cells : y # x => q[y] = r[y]
  BY DEF Bump
<1> QED BY <1>1 DEF HandlesSound

\* The references of client c after it retains, or releases, one on x.
LEMMA RefsBump ==
    ASSUME Core, NEW c \in Clients, NEW x \in Cells
    PROVE  /\ refs' = [refs EXCEPT ![c][x] = refs[c][x] + 1] =>
                 Bump(refs[c], refs'[c], x) /\ refs' \in [Clients -> [Cells -> Nat]]
           /\ refs' = [refs EXCEPT ![c][x] = 1] /\ refs[c][x] = 0 =>
                 Bump(refs[c], refs'[c], x) /\ refs' \in [Clients -> [Cells -> Nat]]
           /\ refs' = [refs EXCEPT ![c][x] = refs[c][x] - 1] /\ refs[c][x] > 0 =>
                 Bump(refs'[c], refs[c], x) /\ refs' \in [Clients -> [Cells -> Nat]]
<1>1. refs \in [Clients -> [Cells -> Nat]] /\ refs[c] \in [Cells -> Nat] /\ refs[c][x] \in Nat
  BY CoreFacts
<1>2. ASSUME NEW n \in Nat, refs' = [refs EXCEPT ![c][x] = n]
      PROVE  /\ refs' \in [Clients -> [Cells -> Nat]] /\ refs'[c] \in [Cells -> Nat]
             /\ refs'[c][x] = n /\ \A y \in Cells : y # x => refs'[c][y] = refs[c][y]
  BY <1>1, <1>2
<1>3. refs[c][x] + 1 \in Nat /\ 1 \in Nat /\ (refs[c][x] = 0 => 1 = refs[c][x] + 1)
  BY <1>1, SMT
<1>4. refs[c][x] > 0 => refs[c][x] - 1 \in Nat /\ refs[c][x] = (refs[c][x] - 1) + 1
  BY <1>1, SMT
<1>5. refs' = [refs EXCEPT ![c][x] = refs[c][x] + 1] =>
                 Bump(refs[c], refs'[c], x) /\ refs' \in [Clients -> [Cells -> Nat]]
  BY <1>1, <1>2, <1>3 DEF Bump
<1>6. refs' = [refs EXCEPT ![c][x] = 1] /\ refs[c][x] = 0 =>
                 Bump(refs[c], refs'[c], x) /\ refs' \in [Clients -> [Cells -> Nat]]
  BY <1>1, <1>2, <1>3 DEF Bump
<1>7. refs' = [refs EXCEPT ![c][x] = refs[c][x] - 1] /\ refs[c][x] > 0 =>
                 Bump(refs'[c], refs[c], x) /\ refs' \in [Clients -> [Cells -> Nat]]
  BY <1>1, <1>2, <1>4 DEF Bump
<1> QED BY <1>5, <1>6, <1>7

\* The numbers of a step of client c.
LEMMA StepTypes ==
    ASSUME Counting, Core, NEW c \in Clients, Alone(c), HeapOK(heap'), NEW o \in Cells
    PROVE  /\ Net(heap, o) \in Int /\ Net(heap', o) \in Int
           /\ HeldIn(refs[c], o) \in Nat /\ HeldIn(refs'[c], o) \in Nat
           /\ Occurrences(call[c].locals, o) \in Nat /\ Occurrences(call'[c].locals, o) \in Nat
           /\ Occurrences(todo[c], o) \in Nat /\ Occurrences(todo'[c], o) \in Nat
<1>1. Net(heap, o) \in Int /\ Net(heap', o) \in Int
  BY CoreFacts, HeapFacts, NetType
<1>2. /\ refs[c] \in [Cells -> Nat] /\ call[c].locals \in Seq(Cells) /\ todo[c] \in Seq(Cells)
      /\ refs'[c] \in [Cells -> Nat] /\ call'[c] \in CallType /\ todo'[c] \in Seq(Cells)
  BY CoreFacts DEF Alone
<1>3. call'[c].locals \in Seq(Cells)
  BY <1>2, SMT DEF CallType
<1> QED BY <1>1, <1>2, <1>3, UsesType

\* The references the heap counts move as those of client c do.
Settles(c) ==
    \A o \in Cells :
        Net(heap', o) + (HeldIn(refs[c], o) + Occurrences(call[c].locals, o) + Occurrences(todo[c], o))
          = Net(heap, o) + (HeldIn(refs'[c], o) + Occurrences(call'[c].locals, o)
                              + Occurrences(todo'[c], o))

\* A step that does not concern the runtime's reference.
LEMMA ClientStep ==
    ASSUME Counting, Core, NEW c \in Clients, Alone(c), Settles(c), up' = up,
           HeapOK(heap'), KindsKept(heap, heap'),
           CallSound(heap', call'[c], todo'[c], refs'[c]), HandlesSound(heap', refs'[c])
    PROVE  Core'
<1>1. ASSUME NEW o \in Cells
      PROVE  Net(heap', o) + Runtime(up, o) + UsesIn(refs[c], call[c].locals, todo[c], o)
               = Net(heap, o) + Runtime(up', o) + UsesIn(refs'[c], call'[c].locals, todo'[c], o)
  <2> DEFINE n == Net(heap, o)
             n2 == Net(heap', o)
             a == UsesIn(refs[c], call[c].locals, todo[c], o)
             a2 == UsesIn(refs'[c], call'[c].locals, todo'[c], o)
             r == Runtime(up, o)
  <2>1. n2 + a = n + a2
    BY DEF Settles, UsesIn
  <2>2. n \in Int /\ n2 \in Int /\ r \in Nat
    BY StepTypes, RuntimeType
  <2>3. a \in Nat /\ a2 \in Nat
    BY StepTypes, SMT DEF UsesIn
  <2>4. Runtime(up', o) = r
    OBVIOUS
  <2> HIDE DEF n, n2, a, a2, r
  <2>5. n2 + r + a = n + r + a2
    BY <2>1, <2>2, <2>3, SMT
  <2> QED BY <2>4, <2>5 DEF n, n2, a, a2, r
<1>2. Moves(c)
  BY <1>1 DEF Moves
<1> QED BY <1>2, Assemble

\* Outside of a call a client has only its handles.
LEMMA IdleFacts ==
    ASSUME Counting, Core, NEW c \in Clients, Idle(c)
    PROVE  /\ call[c] = NoCall /\ todo[c] = <<>>
           /\ \A o : Occurrences(call[c].locals, o) = 0 /\ Occurrences(todo[c], o) = 0
BY NoCallType, OccEmpty DEF Idle

\* A step that leaves the heap alone keeps it sound.
LEMMA SameHeap ==
    ASSUME Core, heap' = heap
    PROVE  /\ HeapOK(heap') /\ KindsKept(heap, heap')
           /\ \A o : Net(heap', o) = Net(heap, o)
BY CoreFacts DEF KindsKept

\* A list of one element, and of two.
LEMMA OneElement ==
    ASSUME NEW S, NEW x \in S
    PROVE  <<x>> \in Seq(S) /\ \A i \in DOMAIN <<x>> : <<x>>[i] = x
BY SMT

\* A list of two.
LEMMA TwoElements ==
    ASSUME NEW S, NEW x \in S, NEW y \in S
    PROVE  /\ <<x, y>> \in Seq(S)
           /\ \A i \in DOMAIN <<x, y>> : <<x, y>>[i] = x \/ <<x, y>>[i] = y
BY SMT

(***************************************************************************)
(* Retain and release.                                                     *)
(***************************************************************************)
HeldUpTwice(r, q, x, y) == \A o \in Cells : HeldIn(q, o) = HeldIn(r, o) + One(x, o) + One(y, o)

\* Retaining and releasing a handle, the allocator and the runtime preserve Core.
LEMMA HandleSteps ==
    ASSUME Counting
    PROVE  \A c \in Clients :
               Core /\ (\/ handle_retain(c) \/ handle_release(c) \/ shutdown(c)
                        \/ hrx_allocator_retain(c) \/ hrx_allocator_release(c)) => Core'
\* One more on the inline allocator is one on the HAL allocator and one on the device.
<1>HeldBumpAllocator.
    ASSUME NEW r, NEW q, Bump(r, q, HalAllocator)
    PROVE  HeldUpTwice(r, q, HalAllocator, Device)
  <2> USE <1>HeldBumpAllocator
  <2> SUFFICES ASSUME NEW o \in Cells
               PROVE  HeldIn(q, o) = HeldIn(r, o) + One(HalAllocator, o) + One(Device, o)
    BY DEF HeldUpTwice
  <2>1. q[HalAllocator] = r[HalAllocator] + 1 /\ r[HalAllocator] \in Nat /\ r[o] \in Nat
    BY FixedCells DEF Bump
  <2>2. o # HalAllocator => q[o] = r[o]
    BY DEF Bump
  <2> QED BY <2>1, <2>2, FixedCells, SMT DEF HeldIn, One
\* A call that is under way keeps the device while more is retained.
<1>CallBump.
    ASSUME NEW h, NEW k, NEW t, NEW r, NEW q, NEW x, Bump(r, q, x), CallSound(h, k, t, r)
    PROVE  CallSound(h, k, t, q)
  <2> USE <1>CallBump
  <2>1. r[Device] > 0 => q[Device] > 0
    <3>1. r[Device] \in Nat /\ (q[Device] = r[Device] \/ q[Device] = r[Device] + 1)
      BY FixedCells DEF Bump
    <3> QED BY <3>1, SMT
  <2> QED BY <2>1 DEF CallSound
\* Retaining o, for any client.
<1>RetainStep.
    ASSUME Core, NEW c \in Clients, handle_retain(c)
    PROVE  Core'
  <2> USE <1>RetainStep
  <2>1. PICK o \in DOMAIN heap, e \in Clients :
            /\ refs[c][o] > 0 /\ o # HalAllocator
            /\ heap' = Retained(<<o>>) /\ refs' = [refs EXCEPT ![e][o] = refs[e][o] + 1]
            /\ call' = call /\ todo' = todo /\ up' = up /\ crashed' = crashed
    BY DEF handle_retain
  <2>2. o \in Cells /\ Retainable(heap, o) /\ HeapOK(heap)
    BY <2>1, CoreFacts, HeapFacts, HandleLive
  <2>3. <<o>> \in Seq(Cells) /\ \A i \in DOMAIN <<o>> : Retainable(heap, <<o>>[i])
    BY <2>2, OneElement
  <2>4. More(heap, <<o>>, heap')
    BY <2>1, <2>3, RetainedMore
  <2>5. /\ HeapOK(heap') /\ KindsKept(heap, heap') /\ DOMAIN heap' = DOMAIN heap
        /\ \A x \in Cells : Net(heap', x) = Net(heap, x) + Occurrences(<<o>>, x)
    BY <2>2, <2>3, <2>4, MoreReferences
  <2>6. Bump(refs[e], refs'[e], o) /\ refs' \in [Clients -> [Cells -> Nat]]
    BY <2>1, <2>2, RefsBump
  <2>7. Alone(e)
    BY <2>1, <2>6, CoreFacts DEF Alone
  <2>8. CallSound(heap', call'[e], todo'[e], refs'[e])
    BY <2>1, <2>5, <2>6, CoreFacts, ClientKept, <1>CallBump
  <2>9. HandlesSound(heap', refs'[e])
    <3>1. HandlesSound(heap', refs[e])
      BY <2>5, CoreFacts, ClientKept
    <3>2. o \in DOMAIN heap' /\ heap'[o].kind # "mapped_range"
      BY <2>2, <2>5 DEF KindsKept, Retainable
    <3> QED BY <2>6, <3>1, <3>2, HandlesBump
  <2>10. Settles(e)
    <3> SUFFICES ASSUME NEW x \in Cells
        PROVE Net(heap', x) + (HeldIn(refs[e], x) + Occurrences(call[e].locals, x) + Occurrences(todo[e], x))
                = Net(heap, x) + (HeldIn(refs'[e], x) + Occurrences(call'[e].locals, x)
                                    + Occurrences(todo'[e], x))
      BY DEF Settles
    <3>1. Net(heap', x) = Net(heap, x) + One(o, x)
      BY <2>5, OccOne
    <3>2. HeldIn(refs'[e], x) = HeldIn(refs[e], x) + One(o, x)
      <4>1. HeldUp(refs[e], refs'[e], o)
        BY <2>1, <2>6, HeldBump
      <4> QED BY <4>1 DEF HeldUp
    <3>3. call'[e] = call[e] /\ todo'[e] = todo[e]
      BY <2>1
    <3>4. One(o, x) \in Nat
      BY SMT DEF One
    <3> QED BY <3>1, <3>2, <3>3, <3>4, <2>5, <2>7, StepTypes, SMT
  <2> QED BY <2>1, <2>5, <2>7, <2>8, <2>9, <2>10, ClientStep
\* Client c gives up a reference, which its call is to release.
<1>ReleaseStep.
    ASSUME Core, NEW c \in Clients, handle_release(c)
    PROVE  Core'
  <2> USE <1>ReleaseStep
  <2>1. PICK o \in DOMAIN heap :
            /\ Idle(c) /\ refs[c][o] > 0 /\ o # HalAllocator
            /\ refs' = [refs EXCEPT ![c][o] = refs[c][o] - 1]
            /\ todo' = [todo EXCEPT ![c] = <<o>>]
            /\ heap' = heap /\ call' = call /\ up' = up /\ crashed' = crashed
    BY DEF handle_release
  <2>2. o \in Cells /\ Retainable(heap, o) /\ todo \in [Clients -> Seq(Cells)]
    BY <2>1, CoreFacts, HeapFacts, HandleLive
  <2>3. Bump(refs'[c], refs[c], o) /\ refs' \in [Clients -> [Cells -> Nat]]
    BY <2>1, <2>2, RefsBump
  <2>4. todo' \in [Clients -> Seq(Cells)] /\ todo'[c] = <<o>>
    <3>1. <<o>> \in Seq(Cells)
      BY <2>2, OneElement
    <3> QED BY <2>1, <2>2, <3>1
  <2>5. Alone(c)
    BY <2>1, <2>3, <2>4, CoreFacts DEF Alone
  <2>6. CallSound(heap', call'[c], todo'[c], refs'[c])
    BY <2>1, IdleFacts DEF CallSound
  <2>7. HandlesSound(heap', refs'[c])
    BY <2>1, <2>2, <2>3, CoreFacts, HandlesBump DEF Retainable
  <2>8. HeapOK(heap') /\ KindsKept(heap, heap') /\ \A x : Net(heap', x) = Net(heap, x)
    BY <2>1, SameHeap
  <2>9. Settles(c)
    <3> SUFFICES ASSUME NEW x \in Cells
        PROVE Net(heap', x) + (HeldIn(refs[c], x) + Occurrences(call[c].locals, x) + Occurrences(todo[c], x))
                = Net(heap, x) + (HeldIn(refs'[c], x) + Occurrences(call'[c].locals, x)
                                    + Occurrences(todo'[c], x))
      BY DEF Settles
    <3>1. HeldUp(refs'[c], refs[c], o)
      BY <2>1, <2>3, HeldBump
    <3>2. HeldIn(refs[c], x) = HeldIn(refs'[c], x) + One(o, x)
      BY <3>1 DEF HeldUp
    <3>3. Occurrences(todo'[c], x) = One(o, x) /\ Occurrences(todo[c], x) = 0 /\ call'[c] = call[c]
      BY <2>1, <2>4, OccOne, IdleFacts
    <3>4. Net(heap', x) = Net(heap, x)
      BY <2>8
    <3> QED BY <3>2, <3>3, <3>4, <2>5, <2>8, StepTypes, SMT
  <2> QED BY <2>1, <2>5, <2>6, <2>7, <2>8, <2>9, ClientStep
\* The same for the inline allocator: the HAL allocator and the device.
<1>AllocatorReleaseStep.
    ASSUME Core, NEW c \in Clients, hrx_allocator_release(c)
    PROVE  Core'
  <2> USE <1>AllocatorReleaseStep
  <2>1. /\ Idle(c) /\ refs[c][HalAllocator] > 0
        /\ refs' = [refs EXCEPT ![c][HalAllocator] = refs[c][HalAllocator] - 1]
        /\ todo' = [todo EXCEPT ![c] = <<HalAllocator, Device>>]
        /\ heap' = heap /\ call' = call /\ up' = up /\ crashed' = crashed
    BY DEF hrx_allocator_release
  <2>2. HalAllocator \in Cells /\ Device \in Cells /\ todo \in [Clients -> Seq(Cells)]
    BY CoreFacts, FixedCells
  <2>3. Retainable(heap, HalAllocator)
    BY <2>1, <2>2, HandleLive
  <2>4. Bump(refs'[c], refs[c], HalAllocator) /\ refs' \in [Clients -> [Cells -> Nat]]
    BY <2>1, <2>2, RefsBump
  <2>5. todo' \in [Clients -> Seq(Cells)] /\ todo'[c] = <<HalAllocator, Device>>
    <3>1. <<HalAllocator, Device>> \in Seq(Cells)
      BY <2>2, TwoElements
    <3> QED BY <2>1, <2>2, <3>1
  <2>6. Alone(c)
    BY <2>1, <2>4, <2>5, CoreFacts DEF Alone
  <2>7. CallSound(heap', call'[c], todo'[c], refs'[c])
    BY <2>1, IdleFacts DEF CallSound
  <2>8. HandlesSound(heap', refs'[c])
    BY <2>1, <2>3, <2>4, CoreFacts, HandlesBump DEF Retainable
  <2>9. HeapOK(heap') /\ KindsKept(heap, heap') /\ \A x : Net(heap', x) = Net(heap, x)
    BY <2>1, SameHeap
  <2>10. Settles(c)
    <3> SUFFICES ASSUME NEW x \in Cells
        PROVE Net(heap', x) + (HeldIn(refs[c], x) + Occurrences(call[c].locals, x) + Occurrences(todo[c], x))
                = Net(heap, x) + (HeldIn(refs'[c], x) + Occurrences(call'[c].locals, x)
                                    + Occurrences(todo'[c], x))
      BY DEF Settles
    <3>1. HeldUpTwice(refs'[c], refs[c], HalAllocator, Device)
      BY <2>4, <1>HeldBumpAllocator
    <3>2. HeldIn(refs[c], x) = HeldIn(refs'[c], x) + One(HalAllocator, x) + One(Device, x)
      BY <3>1 DEF HeldUpTwice
    <3>3. /\ Occurrences(todo'[c], x) = One(HalAllocator, x) + One(Device, x)
          /\ Occurrences(todo[c], x) = 0 /\ call'[c] = call[c]
      BY <2>1, <2>5, OccTwo, IdleFacts
    <3>4. Net(heap', x) = Net(heap, x)
      BY <2>9
    <3>5. One(HalAllocator, x) \in Nat /\ One(Device, x) \in Nat
      BY SMT DEF One
    <3> QED BY <3>2, <3>3, <3>4, <3>5, <2>6, <2>9, StepTypes, SMT
  <2> QED BY <2>1, <2>6, <2>7, <2>8, <2>9, <2>10, ClientStep
\* The runtime's reference becomes the client's to release.
<1>ShutdownStep.
    ASSUME Core, NEW c \in Clients, shutdown(c)
    PROVE  Core'
  <2> USE <1>ShutdownStep
  <2>1. /\ Idle(c) /\ up /\ up' = FALSE /\ todo' = [todo EXCEPT ![c] = <<Device>>]
        /\ heap' = heap /\ refs' = refs /\ call' = call /\ crashed' = crashed
    BY DEF shutdown
  <2>2. Device \in Cells /\ todo \in [Clients -> Seq(Cells)]
    BY CoreFacts, FixedCells
  <2>3. todo' \in [Clients -> Seq(Cells)] /\ todo'[c] = <<Device>>
    <3>1. <<Device>> \in Seq(Cells)
      BY <2>2, OneElement
    <3> QED BY <2>1, <2>2, <3>1
  <2>4. Alone(c)
    BY <2>1, <2>3, CoreFacts DEF Alone
  <2>5. CallSound(heap', call'[c], todo'[c], refs'[c])
    BY <2>1, IdleFacts DEF CallSound
  <2>6. HandlesSound(heap', refs'[c])
    BY <2>1, CoreFacts
  <2>7. HeapOK(heap') /\ KindsKept(heap, heap') /\ \A x : Net(heap', x) = Net(heap, x)
    BY <2>1, SameHeap
  <2>8. Moves(c)
    <3> SUFFICES ASSUME NEW x \in Cells
        PROVE Net(heap', x) + Runtime(up, x) + UsesIn(refs[c], call[c].locals, todo[c], x)
                = Net(heap, x) + Runtime(up', x) + UsesIn(refs'[c], call'[c].locals, todo'[c], x)
      BY DEF Moves
    <3>1. /\ Occurrences(todo'[c], x) = One(Device, x) /\ Occurrences(todo[c], x) = 0
          /\ call'[c] = call[c] /\ refs'[c] = refs[c]
      BY <2>1, <2>3, OccOne, IdleFacts
    <3>2. Runtime(up, x) = One(Device, x) /\ Runtime(up', x) = 0 /\ One(Device, x) \in Nat
      BY <2>1, SMT DEF Runtime, One
    <3>3. Net(heap', x) = Net(heap, x)
      BY <2>7
    <3>4. UsesIn(refs'[c], call'[c].locals, todo'[c], x)
            = UsesIn(refs[c], call[c].locals, todo[c], x) + One(Device, x)
      BY <3>1, <3>2, <2>4, <2>7, StepTypes, SMT DEF UsesIn
    <3>5. UsesIn(refs[c], call[c].locals, todo[c], x) \in Nat /\ Net(heap, x) \in Int
      BY <2>4, <2>7, StepTypes, SMT DEF UsesIn
    <3> HIDE DEF UsesIn
    <3> QED BY <3>2, <3>3, <3>4, <3>5, SMT
  <2> QED BY <2>4, <2>5, <2>6, <2>7, <2>8, Assemble
\* Retaining the inline allocator.
<1>AllocatorRetainStep.
    ASSUME Core, NEW c \in Clients, hrx_allocator_retain(c)
    PROVE  Core'
  <2> USE <1>AllocatorRetainStep
  <2>1. /\ refs[c][Device] > 0 /\ heap' = Retained(<<HalAllocator, Device>>)
        /\ refs' = [refs EXCEPT ![c][HalAllocator] = refs[c][HalAllocator] + 1]
        /\ call' = call /\ todo' = todo /\ up' = up /\ crashed' = crashed
    BY DEF hrx_allocator_retain
  <2>2. HalAllocator \in Cells /\ Device \in Cells /\ HeapOK(heap)
    BY CoreFacts, FixedCells
  <2>3. Retainable(heap, HalAllocator) /\ Retainable(heap, Device)
    BY <2>1, DeviceHeld
  <2>4. /\ <<HalAllocator, Device>> \in Seq(Cells)
        /\ \A i \in DOMAIN <<HalAllocator, Device>> : Retainable(heap, <<HalAllocator, Device>>[i])
    <3>1. ASSUME NEW i \in DOMAIN <<HalAllocator, Device>>
          PROVE  <<HalAllocator, Device>>[i] = HalAllocator \/ <<HalAllocator, Device>>[i] = Device
      BY <2>2, TwoElements
    <3> QED BY <2>2, <2>3, <3>1, TwoElements
  <2>5. More(heap, <<HalAllocator, Device>>, heap')
    BY <2>1, <2>4, RetainedMore
  <2>6. /\ HeapOK(heap') /\ KindsKept(heap, heap')
        /\ \A x \in Cells : Net(heap', x) = Net(heap, x) + Occurrences(<<HalAllocator, Device>>, x)
    BY <2>2, <2>4, <2>5, MoreReferences
  <2>7. Bump(refs[c], refs'[c], HalAllocator) /\ refs' \in [Clients -> [Cells -> Nat]]
    BY <2>1, <2>2, RefsBump
  <2>8. Alone(c)
    BY <2>1, <2>7, CoreFacts DEF Alone
  <2>9. CallSound(heap', call'[c], todo'[c], refs'[c])
    BY <2>1, <2>6, <2>7, CoreFacts, ClientKept, <1>CallBump
  <2>10. HandlesSound(heap', refs'[c])
    <3>1. HandlesSound(heap', refs[c])
      BY <2>6, CoreFacts, ClientKept
    <3>2. HalAllocator \in DOMAIN heap' /\ heap'[HalAllocator].kind # "mapped_range"
      BY <2>3, <2>6 DEF KindsKept, Retainable
    <3> QED BY <2>7, <3>1, <3>2, HandlesBump
  <2>11. Settles(c)
    <3> SUFFICES ASSUME NEW x \in Cells
        PROVE Net(heap', x) + (HeldIn(refs[c], x) + Occurrences(call[c].locals, x) + Occurrences(todo[c], x))
                = Net(heap, x) + (HeldIn(refs'[c], x) + Occurrences(call'[c].locals, x)
                                    + Occurrences(todo'[c], x))
      BY DEF Settles
    <3>1. HeldUpTwice(refs[c], refs'[c], HalAllocator, Device)
      BY <2>7, <1>HeldBumpAllocator
    <3>2. HeldIn(refs'[c], x) = HeldIn(refs[c], x) + One(HalAllocator, x) + One(Device, x)
      BY <3>1 DEF HeldUpTwice
    <3>3. Net(heap', x) = Net(heap, x) + (One(HalAllocator, x) + One(Device, x))
      BY <2>6, OccTwo
    <3>4. call'[c] = call[c] /\ todo'[c] = todo[c]
      BY <2>1
    <3>5. One(HalAllocator, x) \in Nat /\ One(Device, x) \in Nat
      BY SMT DEF One
    <3> QED BY <3>2, <3>3, <3>4, <3>5, <2>6, <2>8, StepTypes, SMT
  <2> QED BY <2>1, <2>6, <2>8, <2>9, <2>10, <2>11, ClientStep
<1> SUFFICES ASSUME Core, NEW c \in Clients,
                    \/ handle_retain(c) \/ handle_release(c) \/ shutdown(c)
                    \/ hrx_allocator_retain(c) \/ hrx_allocator_release(c)
             PROVE  Core'
  OBVIOUS
<1> QED BY <1>RetainStep, <1>ReleaseStep, <1>AllocatorReleaseStep, <1>ShutdownStep, <1>AllocatorRetainStep

(***************************************************************************)
(* Teardown.                                                               *)
(***************************************************************************)
\* A handle of a kind that a client may pass.
LEMMA HoldsFacts ==
    ASSUME Counting, Core, NEW c \in Clients, NEW kind, NEW b \in Holds(c, kind)
    PROVE  /\ b \in DOMAIN heap /\ b \in Cells /\ refs[c][b] > 0 /\ heap[b].kind = kind
           /\ Retainable(heap, b) /\ heap[b].count > 0
           /\ heap[b] \in CellType /\ Sound(heap, heap[b]) /\ HeapOK(heap)
<1>1. b \in DOMAIN heap /\ refs[c][b] > 0 /\ heap[b].kind = kind
  BY DEF Holds
<1>2. /\ b \in Cells /\ heap[b] \in CellType /\ Sound(heap, heap[b]) /\ HeapOK(heap)
  BY <1>1, CoreFacts, HeapFacts
<1>3. Retainable(heap, b)
  BY <1>1, <1>2, HandleLive
<1> QED BY <1>1, <1>2, <1>3 DEF Retainable

\* The references a cell gives back when one on it is dropped.
Freed(x) == IF x.count <= 1 THEN x.own ELSE <<>>

\* x is y after one reference on it was dropped.
Dropped(y, x) ==
    /\ x \in CellType /\ x.kind = y.kind /\ x.lost = y.lost /\ x.count = y.count - 1
    /\ x.ends = (IF y.count <= 1 THEN y.ends + 1 ELSE y.ends)
    /\ x.own = (IF y.count <= 1 THEN <<>> ELSE y.own)

NetDropped(h, g, o) ==
    \A q \in Cells : Net(g, q) + One(o, q) = Net(h, q) + Occurrences(Freed(h[o]), q)

\* Releasing the next reference of a teardown, and taking a buffer apart, preserve Core.
LEMMA TeardownSteps ==
    ASSUME Counting
    PROVE  \A c \in Clients :
               Core /\ (\/ DropOne(c) \/ hrx_allocator_virtual_memory_release(c)) => Core'
\* Dropping a reference: the cell has one less, and gives back its fields with the last.
<1>DropCell.
    ASSUME NEW h, HeapOK(h), NEW o \in DOMAIN h, NEW x, h[o].count > 0, Dropped(h[o], x),
           NEW g, g = [h EXCEPT ![o] = x]
    PROVE  HeapOK(g) /\ KindsKept(h, g) /\ Freed(h[o]) \in Seq(Cells) /\ NetDropped(h, g, o)
  <2> USE <1>DropCell
  <2>1. /\ x \in CellType /\ x.kind = h[o].kind /\ x.lost = h[o].lost /\ x.count = h[o].count - 1
        /\ h[o] \in CellType /\ Sound(h, h[o])
    BY HeapFacts DEF Dropped
  <2>2. h[o].count \in Nat /\ h[o].lost \in Nat /\ h[o].own \in Seq(Cells) /\ h[o].ends \in Nat
    BY <2>1, CellFields
  <2>3. Edited(h, g, o) /\ g[o] = x
    BY <2>1, ExceptEdits
  <2>4. Sound(h, x)
    <3>1. CASE h[o].count <= 1
      <4>1. x.count = 0 /\ x.own = <<>> /\ x.ends = h[o].ends + 1
        BY <2>1, <2>2, <3>1, SMT DEF Dropped
      <4>2. h[o].ends = 0
        BY <2>1 DEF Sound
      <4>3. ~(x.count > 0) /\ x.ends = 1 /\ x.count <= 1
        BY <4>1, <4>2, SMT
      <4>4. DOMAIN x.own = {}
        BY <4>1, SMT
      <4> QED BY <2>1, <4>1, <4>3, <4>4 DEF Sound
    <3>2. CASE ~(h[o].count <= 1)
      <4>1. x.own = h[o].own /\ x.ends = h[o].ends
        BY <3>2 DEF Dropped
      <4>2. x.count > 0
        BY <2>1, <2>2, <3>2, SMT
      <4>3. x.kind = "mapped_range" => x.count <= 1
        BY <2>1, <3>2 DEF Sound
      <4> QED BY <2>1, <4>1, <4>2, <4>3 DEF Sound
    <3> QED BY <3>1, <3>2
  <2>5. HeapOK(g) /\ KindsKept(h, g) /\ NetEdited(h, g, o)
    BY <2>1, <2>3, <2>4, EditCell
  <2>6. Freed(h[o]) \in Seq(Cells)
    BY <2>2, FixedCells DEF Freed
  <2>7. ASSUME NEW q \in Cells
        PROVE  Net(g, q) + One(o, q) = Net(h, q) + Occurrences(Freed(h[o]), q)
    <3> DEFINE d == IF q = o THEN (x.count - x.lost) - (h[o].count - h[o].lost) ELSE 0
    <3>1. Net(g, q) = Net(h, q) + d + Occurrences(h[o].own, q) - Occurrences(x.own, q)
      BY <2>3, <2>5 DEF NetEdited
    <3>2. d = 0 - One(o, q) /\ One(o, q) \in Nat
      BY <2>1, <2>2, SMT DEF One
    <3>3. Net(h, q) \in Int /\ Occurrences(h[o].own, q) \in Nat
      BY <2>2, HeapFacts, NetType, OccType
    <3> HIDE DEF d
    <3>4. CASE h[o].count <= 1
      <4>1. Occurrences(x.own, q) = 0 /\ Freed(h[o]) = h[o].own
        BY <3>4, OccEmpty DEF Dropped, Freed
      <4> QED BY <3>1, <3>2, <3>3, <4>1, SMT
    <3>5. CASE ~(h[o].count <= 1)
      <4>1. x.own = h[o].own /\ Occurrences(Freed(h[o]), q) = 0
        BY <3>5, OccEmpty DEF Dropped, Freed
      <4> QED BY <3>1, <3>2, <3>3, <4>1, SMT
    <3> QED BY <3>4, <3>5
  <2> QED BY <2>5, <2>6, <2>7 DEF NetDropped
\* Releasing the next reference of a teardown.
<1>DropStep.
    ASSUME Core, NEW c \in Clients, DropOne(c)
    PROVE  Core'
  <2> USE <1>DropStep
  <2> DEFINE o == Head(todo[c])
             x == [heap[o] EXCEPT !.count = heap[o].count - 1,
                                  !.ends = IF heap[o].count <= 1 THEN heap[o].ends + 1 ELSE heap[o].ends,
                                  !.own = IF heap[o].count <= 1 THEN <<>> ELSE heap[o].own]
             t == Freed(heap[o]) \o Tail(todo[c])
  <2>1. /\ todo[c] # <<>> /\ heap' = [heap EXCEPT ![o] = x] /\ todo' = [todo EXCEPT ![c] = t]
        /\ refs' = refs /\ call' = call /\ up' = up /\ crashed' = crashed
    BY DEF DropOne, Freed
  <2>2. /\ o \in DOMAIN heap /\ heap[o].count > 0 /\ Tail(todo[c]) \in Seq(Cells) /\ call[c] = NoCall
        /\ HeapOK(heap) /\ heap[o] \in CellType /\ todo \in [Clients -> Seq(Cells)]
        /\ todo[c] \in Seq(Cells)
    BY <2>1, TodoLive, CoreFacts, HeapFacts
  <2> HIDE DEF o
  <2>3. Dropped(heap[o], x)
    <3>1. heap[o].count \in Nat /\ heap[o].ends \in Nat /\ heap[o].own \in Seq(Cells)
      BY <2>2, CellFields
    <3>2. /\ heap[o].count - 1 \in Nat
          /\ (IF heap[o].count <= 1 THEN heap[o].ends + 1 ELSE heap[o].ends) \in Nat
      BY <2>2, <3>1, SMT
    <3>3. (IF heap[o].count <= 1 THEN <<>> ELSE heap[o].own) \in Seq(Cells)
      BY <3>1, FixedCells
    <3>4. /\ x \in CellType /\ x.kind = heap[o].kind /\ x.lost = heap[o].lost
          /\ x.count = heap[o].count - 1
          /\ x.ends = (IF heap[o].count <= 1 THEN heap[o].ends + 1 ELSE heap[o].ends)
          /\ x.own = (IF heap[o].count <= 1 THEN <<>> ELSE heap[o].own)
      <4> DEFINE n == heap[o].count - 1
                 e == IF heap[o].count <= 1 THEN heap[o].ends + 1 ELSE heap[o].ends
                 s == IF heap[o].count <= 1 THEN <<>> ELSE heap[o].own
      <4>1. x = [heap[o] EXCEPT !.count = n, !.ends = e, !.own = s]
        BY SMT
      <4>2. n \in Nat /\ e \in Nat /\ s \in Seq(Cells)
        BY <3>2, <3>3
      <4> HIDE DEF n, e, s, x
      <4>3. /\ x \in CellType /\ x.kind = heap[o].kind /\ x.lost = heap[o].lost
            /\ x.count = n /\ x.ends = e /\ x.own = s
        BY <2>2, <4>1, <4>2 DEF CellType
      <4> QED BY <4>3 DEF n, e, s
    <3> HIDE DEF x
    <3> QED BY <3>4 DEF Dropped
  <2> HIDE DEF x
  <2>4. /\ HeapOK(heap') /\ KindsKept(heap, heap') /\ Freed(heap[o]) \in Seq(Cells)
        /\ NetDropped(heap, heap', o)
    BY <2>1, <2>2, <2>3, <1>DropCell
  <2>5. t \in Seq(Cells) /\ todo' \in [Clients -> Seq(Cells)] /\ todo'[c] = t
    <3>1. ASSUME NEW p \in Seq(Cells), NEW q \in Seq(Cells) PROVE p \o q \in Seq(Cells)
      BY SMT
    <3>2. t \in Seq(Cells)
      BY <2>2, <2>4, <3>1
    <3> HIDE DEF t
    <3> QED BY <2>1, <2>2, <3>2
  <2>6. Alone(c)
    BY <2>1, <2>5, CoreFacts DEF Alone
  <2>7. CallSound(heap', call'[c], todo'[c], refs'[c])
    BY <2>1, <2>2 DEF CallSound
  <2>8. HandlesSound(heap', refs'[c])
    BY <2>1, <2>4, CoreFacts, ClientKept
  <2>9. Settles(c)
    <3> SUFFICES ASSUME NEW q \in Cells
        PROVE Net(heap', q) + (HeldIn(refs[c], q) + Occurrences(call[c].locals, q) + Occurrences(todo[c], q))
                = Net(heap, q) + (HeldIn(refs'[c], q) + Occurrences(call'[c].locals, q)
                                    + Occurrences(todo'[c], q))
      BY DEF Settles
    <3>1. Net(heap', q) + One(o, q) = Net(heap, q) + Occurrences(Freed(heap[o]), q)
      BY <2>4 DEF NetDropped
    <3>2. Occurrences(todo'[c], q) = Occurrences(Freed(heap[o]), q) + Occurrences(Tail(todo[c]), q)
      <4>1. Occurrences(Freed(heap[o]) \o Tail(todo[c]), q)
              = Occurrences(Freed(heap[o]), q) + Occurrences(Tail(todo[c]), q)
        BY <2>2, <2>4, OccJoin DEF CountsJoin
      <4> QED BY <2>5, <4>1
    <3>3. Occurrences(todo[c], q) = One(o, q) + Occurrences(Tail(todo[c]), q)
      BY <2>1, <2>2, OccHeadTail DEF o
    <3>4. refs'[c] = refs[c] /\ call'[c] = call[c]
      BY <2>1
    <3>5. /\ One(o, q) \in Nat /\ Occurrences(Freed(heap[o]), q) \in Nat
          /\ Occurrences(Tail(todo[c]), q) \in Nat
      <4>1. One(o, q) \in Nat
        BY SMT DEF One
      <4> QED BY <4>1, <2>2, <2>4, OccType
    <3> DEFINE n == Net(heap, q)
               n2 == Net(heap', q)
               u == HeldIn(refs[c], q) + Occurrences(call[c].locals, q)
               f == Occurrences(Freed(heap[o]), q)
               r == Occurrences(Tail(todo[c]), q)
    <3>6. n \in Int /\ n2 \in Int /\ u \in Nat
      BY <2>4, <2>6, StepTypes, SMT
    <3> HIDE DEF n, n2, u, f, r
    <3>7. n2 + (u + (One(o, q) + r)) = n + (u + (f + r))
      BY <3>1, <3>5, <3>6, SMT DEF n, n2, f, r
    <3> QED BY <3>2, <3>3, <3>4, <3>7 DEF n, n2, u, f, r
  <2> QED BY <2>1, <2>4, <2>6, <2>7, <2>8, <2>9, ClientStep
\* Taking a buffer apart, or dropping the reference and aborting.
<1>VirtualMemoryReleaseStep.
    ASSUME Core, NEW c \in Clients, hrx_allocator_virtual_memory_release(c)
    PROVE  Core'
  <2> USE <1>VirtualMemoryReleaseStep
  <2>1. PICK b \in Holds(c, "buffer") :
            /\ Idle(c) /\ refs' = [refs EXCEPT ![c][b] = refs[c][b] - 1]
            /\ IF heap[b].count = 1
                 THEN /\ todo' = [todo EXCEPT ![c] = heap[b].own]
                      /\ heap' = [heap EXCEPT ![b] = [heap[b] EXCEPT !.count = 0,
                                                        !.ends = heap[b].ends + 1, !.own = <<>>]]
                      /\ crashed' = crashed
                 ELSE /\ heap' = [heap EXCEPT ![b] = [heap[b] EXCEPT !.count = heap[b].count - 1]]
                      /\ crashed' = TRUE
                      /\ todo' = todo
            /\ call' = call /\ up' = up
    BY DEF hrx_allocator_virtual_memory_release
  <2>2. /\ b \in DOMAIN heap /\ b \in Cells /\ refs[c][b] > 0 /\ heap[b].kind = "buffer"
        /\ heap[b].count > 0 /\ heap[b] \in CellType /\ HeapOK(heap)
    BY HoldsFacts
  <2>3. b # HalAllocator
    <3>1. heap[HalAllocator].kind = "hal_allocator" /\ "hal_allocator" # "buffer"
      BY <2>2, SMT DEF HeapOK, HeapSound
    <3> QED BY <2>2, <3>1
  <2>4. /\ heap[b].count \in Nat /\ heap[b].ends \in Nat /\ heap[b].own \in Seq(Cells)
        /\ todo \in [Clients -> Seq(Cells)] /\ todo[c] = <<>> /\ call[c] = NoCall
        /\ crashed \in BOOLEAN
    BY <2>1, <2>2, CellFields, CoreFacts, IdleFacts
  <2>5. /\ todo' = [todo EXCEPT ![c] = Freed(heap[b])] /\ crashed' \in BOOLEAN
        /\ \E x : Dropped(heap[b], x) /\ heap' = [heap EXCEPT ![b] = x]
    <3>1. CASE heap[b].count = 1
      <4> DEFINE e == heap[b].ends + 1
                 s == <<>>
                 x == [heap[b] EXCEPT !.count = 0, !.ends = e, !.own = s]
      <4>1. heap' = [heap EXCEPT ![b] = x] /\ todo' = [todo EXCEPT ![c] = heap[b].own]
            /\ crashed' = crashed
        BY <2>1, <3>1
      <4>2. 0 \in Nat /\ e \in Nat /\ heap[b].count <= 1 /\ 0 = heap[b].count - 1
        BY <2>4, <3>1, SMT
      <4>3. s \in Seq(Cells)
        BY FixedCells
      <4> HIDE DEF e, s
      <4>4. /\ x \in CellType /\ x.kind = heap[b].kind /\ x.lost = heap[b].lost
            /\ x.count = 0 /\ x.ends = e /\ x.own = s
        BY <2>2, <4>2, <4>3 DEF CellType
      <4> HIDE DEF x
      <4>5. Dropped(heap[b], x)
        BY <4>2, <4>4 DEF Dropped, e, s
      <4>6. Freed(heap[b]) = heap[b].own
        BY <4>2 DEF Freed
      <4> QED BY <2>4, <4>1, <4>5, <4>6
    <3>2. CASE heap[b].count # 1
      <4> DEFINE n == heap[b].count - 1
                 x == [heap[b] EXCEPT !.count = n]
      <4>1. heap' = [heap EXCEPT ![b] = x] /\ todo' = todo /\ crashed' = TRUE
        BY <2>1, <3>2
      <4>2. n \in Nat /\ ~(heap[b].count <= 1)
        BY <2>2, <2>4, <3>2, SMT
      <4> HIDE DEF n
      <4>3. /\ x \in CellType /\ x.kind = heap[b].kind /\ x.lost = heap[b].lost
            /\ x.count = n /\ x.ends = heap[b].ends /\ x.own = heap[b].own
        BY <2>2, <4>2 DEF CellType
      <4> HIDE DEF x
      <4>4. Dropped(heap[b], x)
        BY <4>2, <4>3 DEF Dropped, n
      <4>5. todo = [todo EXCEPT ![c] = Freed(heap[b])]
        <5>1. Freed(heap[b]) = todo[c]
          BY <2>4, <4>2 DEF Freed
        <5> QED BY <2>4, <5>1
      <4> QED BY <2>4, <4>1, <4>4, <4>5
    <3> QED BY <3>1, <3>2
  <2>6. /\ HeapOK(heap') /\ KindsKept(heap, heap') /\ Freed(heap[b]) \in Seq(Cells)
        /\ NetDropped(heap, heap', b)
    <3>1. PICK x : Dropped(heap[b], x) /\ heap' = [heap EXCEPT ![b] = x]
      BY <2>5
    <3> QED BY <2>2, <3>1, <1>DropCell
  <2>7. Bump(refs'[c], refs[c], b) /\ refs' \in [Clients -> [Cells -> Nat]]
    BY <2>1, <2>2, RefsBump
  <2>8. todo' \in [Clients -> Seq(Cells)] /\ todo'[c] = Freed(heap[b])
    BY <2>4, <2>5, <2>6
  <2>9. Alone(c)
    BY <2>1, <2>5, <2>7, <2>8, CoreFacts DEF Alone
  <2>10. CallSound(heap', call'[c], todo'[c], refs'[c])
    BY <2>1, <2>4 DEF CallSound
  <2>11. HandlesSound(heap', refs'[c])
    <3>1. HandlesSound(heap', refs[c])
      BY <2>6, CoreFacts, ClientKept
    <3>2. b \in DOMAIN heap' /\ heap'[b].kind = "buffer" /\ "buffer" # "mapped_range"
      BY <2>2, <2>6, SMT DEF KindsKept
    <3> QED BY <2>7, <3>1, <3>2, HandlesBump
  <2>12. Settles(c)
    <3> SUFFICES ASSUME NEW q \in Cells
        PROVE Net(heap', q) + (HeldIn(refs[c], q) + Occurrences(call[c].locals, q) + Occurrences(todo[c], q))
                = Net(heap, q) + (HeldIn(refs'[c], q) + Occurrences(call'[c].locals, q)
                                    + Occurrences(todo'[c], q))
      BY DEF Settles
    <3>1. Net(heap', q) + One(b, q) = Net(heap, q) + Occurrences(todo'[c], q)
      BY <2>6, <2>8 DEF NetDropped
    <3>2. HeldUp(refs'[c], refs[c], b)
      BY <2>3, <2>7, HeldBump
    <3>3. HeldIn(refs[c], q) = HeldIn(refs'[c], q) + One(b, q)
      BY <3>2 DEF HeldUp
    <3>4. Occurrences(todo[c], q) = 0 /\ call'[c] = call[c]
      BY <2>1, IdleFacts
    <3>5. One(b, q) \in Nat
      BY SMT DEF One
    <3> DEFINE n == Net(heap, q)
               n2 == Net(heap', q)
               r == HeldIn(refs'[c], q)
               l == Occurrences(call[c].locals, q)
               t == Occurrences(todo'[c], q)
    <3>6. n \in Int /\ n2 \in Int /\ r \in Nat /\ l \in Nat /\ t \in Nat
      BY <2>6, <2>9, StepTypes
    <3>7. n2 + One(b, q) = n + t
      BY <3>1
    <3> HIDE DEF n, n2, r, l, t
    <3>8. n2 + ((r + One(b, q)) + l + 0) = n + (r + l + t)
      BY <3>5, <3>6, <3>7, SMT
    <3> QED BY <3>3, <3>4, <3>8 DEF n, n2, r, l, t
  <2> QED BY <2>1, <2>6, <2>9, <2>10, <2>11, <2>12, ClientStep
<1> SUFFICES ASSUME Core, NEW c \in Clients,
                    \/ DropOne(c) \/ hrx_allocator_virtual_memory_release(c)
             PROVE  Core'
  OBVIOUS
<1> QED BY <1>DropStep, <1>VirtualMemoryReleaseStep

(***************************************************************************)
(* The HAL object of a handle, and new cells.                              *)
(***************************************************************************)
\* Cells keep what they are.
LEMMA KindsKeptTwice ==
    ASSUME NEW f, NEW g, NEW h, KindsKept(f, g), KindsKept(g, h)
    PROVE  KindsKept(f, h)
BY DEF KindsKept

\* The HAL object of a live handle is alive, and not private.
LEMMA HalLive ==
    ASSUME Counting, Core, NEW b \in DOMAIN heap, heap[b].count > 0,
           heap[b].kind \in {"buffer", "semaphore", "fence", "view", "list"}
    PROVE  /\ Hal(b) \in Cells /\ Retainable(heap, Hal(b)) /\ heap[Hal(b)].kind \notin Private
           /\ heap[b].kind \in {"fence", "list"} => heap[Hal(b)].kind \in {"hal_fence", "vm_list"}
<1> DEFINE own == heap[b].own
<1>1. heap[b] \in CellType /\ Sound(heap, heap[b])
  BY CoreFacts, HeapFacts
<1>2. own \in Seq(Cells) /\ own # <<>>
  BY <1>1, CellFields DEF Sound
<1>3. 1 \in DOMAIN own /\ Len(own) \in Nat
  BY <1>2, FirstField
<1>4. CASE heap[own[1]].kind = "mapped_range"
  <2>1. heap[own[1]].kind \in Private
    BY <1>4 DEF Private
  <2>2. Len(own) >= 2 /\ heap[b].kind = "buffer"
    BY <1>1, <1>3, <2>1 DEF Sound
  <2>3. 2 \in DOMAIN own /\ 2 # 1
    BY <1>2, <2>2, SMT
  <2>4. Hal(b) = own[2]
    BY <1>4 DEF Hal
  <2>5. heap[own[2]].kind \notin Private
    BY <1>1, <2>3 DEF Sound
  <2>6. "buffer" # "fence" /\ "buffer" # "list"
    BY SMT
  <2> QED BY <2>2, <2>3, <2>4, <2>5, <2>6, FieldLive DEF Retainable, Private
<1>5. CASE heap[own[1]].kind # "mapped_range"
  <2>1. Hal(b) = own[1]
    BY <1>5 DEF Hal
  <2>2. heap[own[1]].kind \notin Private
    BY <1>1, <1>3, <1>5 DEF Sound
  <2>3. heap[b].kind \in {"fence", "list"} => heap[own[1]].kind \in {"hal_fence", "vm_list"}
    BY <1>1 DEF Sound
  <2>4. own[1] \in Cells /\ own[1] \in DOMAIN heap /\ heap[own[1]].count > 0
    BY <1>3, FieldLive
  <2>5. Retainable(heap, own[1])
    BY <1>5, <2>4 DEF Retainable
  <2> QED BY <2>1, <2>2, <2>3, <2>4, <2>5
<1> QED BY <1>4, <1>5

\* What an object may own that is not a buffer handle.
Ownable(h, o) == o \in DOMAIN h /\ h[o].kind \notin Private

\* The HAL object of a handle a client may pass.
LEMMA HoldsHal ==
    ASSUME Counting, Core, NEW c \in Clients, NEW kind \in {"buffer", "semaphore", "fence", "view", "list"},
           NEW b \in Holds(c, kind)
    PROVE  /\ Hal(b) \in Cells /\ Hal(b) \in DOMAIN heap
           /\ Retainable(heap, Hal(b)) /\ Ownable(heap, Hal(b))
           /\ kind \in {"fence", "list"} => heap[Hal(b)].kind \in {"hal_fence", "vm_list"}
<1>1. b \in DOMAIN heap /\ heap[b].count > 0 /\ heap[b].kind = kind
  BY HoldsFacts
<1>2. heap[b].kind \in {"buffer", "semaphore", "fence", "view", "list"}
  BY <1>1
<1>3. /\ Hal(b) \in Cells /\ Retainable(heap, Hal(b)) /\ heap[Hal(b)].kind \notin Private
      /\ heap[b].kind \in {"fence", "list"} => heap[Hal(b)].kind \in {"hal_fence", "vm_list"}
  BY <1>1, <1>2, HalLive
<1> QED BY <1>1, <1>3 DEF Retainable, Ownable

\* A new object that owns nothing private is sound.
LEMMA CellSound ==
    ASSUME NEW h, NEW kind \in Kinds, kind # "device", NEW own \in Seq(Cells),
           NEW needs \in SUBSET Cells, \A i \in DOMAIN own : Ownable(h, own[i]),
           kind \in {"buffer", "semaphore", "fence", "view", "list"} => own # <<>>,
           kind \in {"fence", "list"} => h[own[1]].kind \in {"hal_fence", "vm_list"},
           own = <<>> \/ kind # "mapped_range"
    PROVE  Cell(kind, own, needs) \in CellType /\ Sound(h, Cell(kind, own, needs))
<1> DEFINE x == Cell(kind, own, needs)
<1>1. x \in CellType /\ x.kind = kind /\ x.own = own /\ x.count = 1 /\ x.lost = 0 /\ x.ends = 0
  BY SMT DEF Cell, CellType
<1> HIDE DEF x
<1>2. x.count > 0 /\ x.count <= 1
  BY <1>1, SMT
<1>3. Sound(h, x)
  BY <1>1, <1>2 DEF Sound, Ownable
<1> QED BY <1>1, <1>3 DEF x

\* g is h and the new object x, which nobody accounts for yet but for its fields.
Created(h, x, g) ==
    LET n == Len(h) + 1 IN
    /\ HeapOK(g) /\ KindsKept(h, g)
    /\ Len(g) = n /\ n \in Cells /\ n \notin DOMAIN h
    /\ n \in DOMAIN g /\ g[n] = x /\ \A p \in DOMAIN h : p \in DOMAIN g /\ g[p] = h[p]
    /\ \A q \in Cells : Net(g, q) + Occurrences(x.own, q) = Net(h, q) + One(n, q)

\* A new cell at the end of a heap, with one reference.
LEMMA Creation ==
    ASSUME Counting, NEW h, HeapOK(h), Len(h) < MaxCells, NEW x \in CellType, Sound(h, x),
           x.count = 1, x.lost = 0
    PROVE  Created(h, x, Append(h, x))
<1> DEFINE g == Append(h, x)
           n == Len(h) + 1
<1>1. /\ Extended(h, g, n) /\ Len(g) = n /\ n \in 4 .. MaxCells /\ n \in Cells /\ g[n] = x
  BY AppendExtends
<1> HIDE DEF g
<1>2. HeapOK(g) /\ KindsKept(h, g) /\ NetAdded(h, g, n)
  <2> HIDE DEF n
  <2> QED BY <1>1, AddCell
<1>3. /\ n \notin DOMAIN h /\ n \in DOMAIN g /\ \A p \in DOMAIN h : p \in DOMAIN g /\ g[p] = h[p]
  <2> HIDE DEF n
  <2> QED BY <1>1 DEF Extended
<1>4. ASSUME NEW q \in Cells PROVE Net(g, q) + Occurrences(x.own, q) = Net(h, q) + One(n, q)
  <2> HIDE DEF n
  <2> DEFINE d == IF q = n THEN x.count - x.lost ELSE 0
             m == Net(h, q)
             a == Occurrences(x.own, q)
  <2>1. Net(g, q) = m + d - a
    BY <1>1, <1>2 DEF NetAdded
  <2>2. d = One(n, q) /\ One(n, q) \in Nat
    BY SMT DEF One
  <2>3. m \in Int /\ a \in Nat
    BY HeapFacts, NetType, CellFields, OccType
  <2> HIDE DEF d, m, a
  <2>4. (m + One(n, q) - a) + a = m + One(n, q)
    BY <2>2, <2>3, SMT
  <2> QED BY <2>1, <2>2, <2>4 DEF m, a
<1> QED BY <1>1, <1>2, <1>3, <1>4 DEF Created, g

\* Lists are the same if their elements are.
LEMMA SameList ==
    ASSUME NEW S, NEW s \in Seq(S), NEW z \in Seq(S), Len(s) = Len(z),
           \A i \in 1 .. Len(s) : s[i] = z[i]
    PROVE  s = z
<1>1. s = [i \in 1 .. Len(s) |-> s[i]] /\ z = [i \in 1 .. Len(z) |-> z[i]]
  BY SMT
<1>2. [i \in 1 .. Len(s) |-> s[i]] = [i \in 1 .. Len(s) |-> z[i]]
  OBVIOUS
<1> QED BY <1>1, <1>2

\* The bound on the objects.
LEMMA Room ==
    ASSUME Counting, Core, New <= MaxCells
    PROVE  Len(heap) < MaxCells
<1>1. Len(heap) \in Nat /\ MaxCells \in Nat
  BY CoreFacts, HeapFacts, FixedCells
<1> QED BY <1>1, SMT DEF New

(***************************************************************************)
(* New objects.                                                            *)
(***************************************************************************)
\* A new cell.
LEMMA CellNew ==
    ASSUME NEW kind \in Kinds, NEW own \in Seq(Cells), NEW needs \in SUBSET Cells
    PROVE  /\ Cell(kind, own, needs) \in CellType
           /\ Cell(kind, own, needs).kind = kind /\ Cell(kind, own, needs).own = own
           /\ Cell(kind, own, needs).count = 1 /\ Cell(kind, own, needs).lost = 0
           /\ Cell(kind, own, needs).ends = 0
BY SMT DEF Cell, CellType

\* Cells are appended one at a time.
LEMMA ConcatCells ==
    ASSUME NEW h \in Seq(CellType), NEW x \in CellType, NEW y \in CellType
    PROVE  /\ h \o <<>> = h /\ h \o <<x>> = Append(h, x)
           /\ h \o <<x, y>> = Append(Append(h, x), y)
<1> DEFINE a == Append(h, x)
           b == Append(a, y)
           k == h \o <<x, y>>
<1>1. ASSUME NEW s \in Seq(CellType), NEW z \in CellType
      PROVE  /\ Append(s, z) \in Seq(CellType) /\ Len(Append(s, z)) = Len(s) + 1 /\ Len(s) \in Nat
             /\ \A i \in 1 .. (Len(s) + 1) : Append(s, z)[i] = IF i = Len(s) + 1 THEN z ELSE s[i]
  BY SMT
<1>2. ASSUME NEW s \in Seq(CellType), NEW z \in Seq(CellType)
      PROVE  /\ s \o z \in Seq(CellType) /\ Len(s \o z) = Len(s) + Len(z)
             /\ \A i \in 1 .. (Len(s) + Len(z)) : (s \o z)[i] = IF i <= Len(s) THEN s[i] ELSE z[i - Len(s)]
  BY SMT
<1>3. /\ <<>> \in Seq(CellType) /\ Len(<<>>) = 0
      /\ <<x>> \in Seq(CellType) /\ Len(<<x>>) = 1 /\ <<x>>[1] = x
      /\ <<x, y>> \in Seq(CellType) /\ Len(<<x, y>>) = 2 /\ <<x, y>>[1] = x /\ <<x, y>>[2] = y
  BY SMT
<1>4. h \o <<>> = h
  <2>1. /\ h \o <<>> \in Seq(CellType) /\ Len(h \o <<>>) = Len(h) + 0 /\ Len(h) \in Nat
        /\ \A i \in 1 .. (Len(h) + 0) : (h \o <<>>)[i] = IF i <= Len(h) THEN h[i] ELSE <<>>[i - Len(h)]
    BY <1>1, <1>2, <1>3, SMT
  <2>2. Len(h \o <<>>) = Len(h) /\ \A i \in 1 .. Len(h \o <<>>) : (h \o <<>>)[i] = h[i]
    BY <2>1, SMT
  <2> QED BY <2>1, <2>2, SameList, SMT
<1>5. h \o <<x>> = a
  <2>1. /\ h \o <<x>> \in Seq(CellType) /\ Len(h \o <<x>>) = Len(h) + 1 /\ Len(h) \in Nat
        /\ \A i \in 1 .. (Len(h) + 1) : (h \o <<x>>)[i] = IF i <= Len(h) THEN h[i] ELSE <<x>>[i - Len(h)]
    BY <1>1, <1>2, <1>3, SMT
  <2>2. a \in Seq(CellType) /\ Len(a) = Len(h) + 1
        /\ \A i \in 1 .. (Len(h) + 1) : a[i] = IF i = Len(h) + 1 THEN x ELSE h[i]
    BY <1>1, SMT
  <2>3. ASSUME NEW i \in 1 .. (Len(h) + 1)
        PROVE  (i <= Len(h) /\ i # Len(h) + 1) \/ (~(i <= Len(h)) /\ i = Len(h) + 1 /\ i - Len(h) = 1)
    BY <2>1, SMT
  <2> HIDE DEF a
  <2>4. \A i \in 1 .. (Len(h) + 1) : (h \o <<x>>)[i] = a[i]
    BY <2>1, <2>2, <2>3, <1>3
  <2>5. Len(h \o <<x>>) = Len(a)
    BY <2>1, <2>2
  <2> QED BY <2>1, <2>2, <2>4, <2>5, SameList, SMT
<1>6. k = b
  <2>1. /\ k \in Seq(CellType) /\ Len(k) = Len(h) + 2 /\ Len(h) \in Nat
        /\ \A i \in 1 .. (Len(h) + 2) : k[i] = IF i <= Len(h) THEN h[i] ELSE <<x, y>>[i - Len(h)]
    BY <1>1, <1>2, <1>3, SMT
  <2>2. a \in Seq(CellType) /\ Len(a) = Len(h) + 1
        /\ \A i \in 1 .. (Len(h) + 1) : a[i] = IF i = Len(h) + 1 THEN x ELSE h[i]
    BY <1>1, SMT
  <2>3. b \in Seq(CellType) /\ Len(b) = Len(a) + 1
        /\ \A i \in 1 .. (Len(a) + 1) : b[i] = IF i = Len(a) + 1 THEN y ELSE a[i]
    <3> HIDE DEF a
    <3> QED BY <2>2, <1>1, SMT
  <2> HIDE DEF a, b, k
  <2>4. Len(b) = Len(h) + 2 /\ Len(a) + 1 = Len(h) + 2
    BY <2>1, <2>2, <2>3, SMT
  <2>5. ASSUME NEW i \in 1 .. (Len(h) + 2) PROVE k[i] = b[i]
    <3>1. CASE i = Len(h) + 2
      <4>1. ~(i <= Len(h)) /\ i - Len(h) = 2
        BY <2>1, <3>1, SMT
      <4> QED BY <4>1, <3>1, <2>1, <2>3, <2>4, <1>3
    <3>2. CASE i = Len(h) + 1
      <4>1. ~(i <= Len(h)) /\ i - Len(h) = 1 /\ i # Len(h) + 2 /\ i \in 1 .. (Len(h) + 1)
        BY <2>1, <3>2, SMT
      <4> QED BY <4>1, <3>2, <2>1, <2>2, <2>3, <2>4, <1>3
    <3>3. CASE i # Len(h) + 2 /\ i # Len(h) + 1
      <4>1. i <= Len(h) /\ i \in 1 .. (Len(h) + 1)
        BY <2>1, <3>3, SMT
      <4> QED BY <4>1, <3>3, <2>1, <2>2, <2>3, <2>4
    <3> QED BY <3>1, <3>2, <3>3
  <2> QED BY <2>1, <2>3, <2>4, <2>5, SameList, SMT
<1> QED BY <1>4, <1>5, <1>6

\* The fields of a buffer, without and with a pool.
LEMMA BufferFields ==
    ASSUME NEW i \in Nat, NEW p \in Nat
    PROVE  HrxBufferS(i, <<>>) = <<i, Device>> /\ HrxBufferS(i, <<p>>) = <<i, p, Device>>
<1>1. Device \in Nat
  BY SMT DEF Device
<1>2. <<i>> \o <<>> = <<i>>
  <2>1. /\ <<i>> \o <<>> \in Seq(Nat) /\ <<i>> \in Seq(Nat) /\ Len(<<i>> \o <<>>) = Len(<<i>>)
        /\ \A j \in 1 .. Len(<<i>> \o <<>>) : (<<i>> \o <<>>)[j] = <<i>>[j]
    BY SMT
  <2> QED BY <2>1, SameList
<1>3. ASSUME NEW d \in Nat PROVE <<i>> \o <<d>> = <<i, d>>
  <2>1. /\ <<i>> \o <<d>> \in Seq(Nat) /\ <<i, d>> \in Seq(Nat)
        /\ Len(<<i>> \o <<d>>) = Len(<<i, d>>)
        /\ \A j \in 1 .. Len(<<i>> \o <<d>>) : (<<i>> \o <<d>>)[j] = <<i, d>>[j]
    BY SMT
  <2> QED BY <2>1, SameList
<1>4. ASSUME NEW d \in Nat PROVE <<i, p>> \o <<d>> = <<i, p, d>>
  <2>1. /\ <<i, p>> \o <<d>> \in Seq(Nat) /\ <<i, p, d>> \in Seq(Nat)
        /\ Len(<<i, p>> \o <<d>>) = Len(<<i, p, d>>)
        /\ \A j \in 1 .. Len(<<i, p>> \o <<d>>) : (<<i, p>> \o <<d>>)[j] = <<i, p, d>>[j]
    BY SMT
  <2> QED BY <2>1, SameList
<1>5. HrxBufferS(i, <<>>) = <<i, Device>>
  BY <1>1, <1>2, <1>3 DEF HrxBufferS
<1>6. HrxBufferS(i, <<p>>) = <<i, p, Device>>
  BY <1>1, <1>3, <1>4 DEF HrxBufferS
<1> QED BY <1>5, <1>6

\* Nothing retained leaves the heap as it is.
LEMMA MoreNothing ==
    ASSUME Counting, Core
    PROVE  More(heap, <<>>, heap)
<1>1. heap \in Seq(CellType) /\ \A p \in DOMAIN heap : heap[p] \in CellType
  BY CoreFacts, HeapFacts
<1>2. ASSUME NEW p \in DOMAIN heap PROVE heap[p].count = heap[p].count + Occurrences(<<>>, p)
  <2>1. heap[p].count \in Nat /\ Occurrences(<<>>, p) = 0
    BY <1>1, CellFields, OccEmpty
  <2> QED BY <2>1, SMT
<1> QED BY <1>1, <1>2, FixedCells DEF More

\* The references client c's call had, those the heap h has to account for included, are
\* in the list s, the fields of a new handle, or still to be released.
HandsOver(c, h, s) ==
    \A q \in Cells :
        Net(h, q) + (Occurrences(call[c].locals, q) + Occurrences(todo[c], q))
          = Net(heap, q) + (Occurrences(s, q) + Occurrences(todo'[c], q))

\* g is h and a handle n with fields s.
NetMade(h, g, s, n) ==
    \A q \in Cells : Net(g, q) + Occurrences(s, q) = Net(h, q) + One(n, q)

\* The client that gets a handle accounts for every reference.
LEMMA HandleSettles ==
    ASSUME Counting, Core, NEW c \in Clients, NEW h, HeapOK(h), NEW s \in Seq(Cells), NEW n, Alone(c),
           HeapOK(heap'), HeldUp(refs[c], refs'[c], n), call'[c] = NoCall, HandsOver(c, h, s),
           NetMade(h, heap', s, n)
    PROVE  Settles(c)
<1> SUFFICES ASSUME NEW q \in Cells
    PROVE Net(heap', q) + (HeldIn(refs[c], q) + Occurrences(call[c].locals, q) + Occurrences(todo[c], q))
            = Net(heap, q) + (HeldIn(refs'[c], q) + Occurrences(call'[c].locals, q)
                                + Occurrences(todo'[c], q))
  BY DEF Settles
<1> DEFINE a == Net(heap', q)
           d == Net(heap, q)
           m == Net(h, q)
           o == One(n, q)
           w == Occurrences(s, q)
           r == HeldIn(refs[c], q)
           l == Occurrences(call[c].locals, q)
           t == Occurrences(todo[c], q)
           u == Occurrences(todo'[c], q)
<1>1. a + w = m + o /\ m + (l + t) = d + (w + u)
  BY DEF HandsOver, NetMade
<1>2. HeldIn(refs'[c], q) = r + o /\ Occurrences(call'[c].locals, q) = 0
  BY NoCallType, OccEmpty DEF HeldUp
<1>3. a \in Int /\ d \in Int /\ r \in Nat /\ l \in Nat /\ t \in Nat /\ u \in Nat
  BY StepTypes
<1>4. m \in Int /\ w \in Nat /\ o \in Nat
  <2>1. m \in Int /\ w \in Nat
    BY HeapFacts, NetType, OccType
  <2> QED BY <2>1, SMT DEF One
<1>5. a + (r + l + t) = d + ((r + o) + 0 + u)
  <2> DEFINE b == l + t
  <2>1. b \in Nat /\ m + b = d + (w + u) /\ r + l + t = r + b
    <3> HIDE DEF a, d, m, o, w, r, l, t, u
    <3> QED BY <1>1, <1>3, SMT
  <2> HIDE DEF a, b, d, m, o, w, r, l, t, u
  <2>2. a + b = d + (o + u)
    BY <1>1, <1>3, <1>4, <2>1, SMT
  <2>3. a + (r + b) = d + ((r + o) + 0 + u)
    BY <1>3, <1>4, <2>1, <2>2, SMT
  <2> QED BY <2>1, <2>3
<1> QED BY <1>2, <1>5

\* A call that returns a new handle.
LEMMA HandleStep ==
    ASSUME Counting, Core, NEW c \in Clients, NEW h, HeapOK(h), KindsKept(heap, h), Len(h) < MaxCells,
           NEW n, n = Len(h) + 1, n \notin DOMAIN heap,
           NEW y \in CellType, Sound(h, y), y.count = 1, y.lost = 0, y.kind # "mapped_range",
           heap' = Append(h, y), refs' = [refs EXCEPT ![c][n] = 1],
           call' \in [Clients -> CallType], call'[c] = NoCall, todo' \in [Clients -> Seq(Cells)],
           \A d \in Clients : d # c => call'[d] = call[d] /\ todo'[d] = todo[d],
           up' = up, crashed' = crashed,
           HandsOver(c, h, y.own)
    PROVE  Core'
<1>1. Created(h, y, heap')
  BY Creation
<1>2. /\ HeapOK(heap') /\ KindsKept(h, heap') /\ n \in Cells /\ n \in DOMAIN heap' /\ heap'[n] = y
      /\ \A q \in Cells : Net(heap', q) + Occurrences(y.own, q) = Net(h, q) + One(n, q)
  BY <1>1 DEF Created
<1>3. KindsKept(heap, heap')
  BY <1>2, KindsKeptTwice
<1>4. refs[c][n] = 0
  <2>1. refs[c][n] \in Nat /\ ~(refs[c][n] > 0)
    BY <1>2, CoreFacts DEF HandlesSound
  <2> QED BY <2>1, SMT
<1>5. Bump(refs[c], refs'[c], n) /\ refs' \in [Clients -> [Cells -> Nat]]
  BY <1>2, <1>4, RefsBump
<1>6. \A d \in Clients : d # c => refs'[d] = refs[d]
  BY CoreFacts
<1>7. Alone(c)
  BY <1>5, <1>6, CoreFacts DEF Alone
<1>8. CallSound(heap', call'[c], todo'[c], refs'[c])
  BY DEF CallSound
<1>9. HandlesSound(heap', refs'[c])
  <2>1. HandlesSound(heap', refs[c])
    BY <1>3, CoreFacts, ClientKept
  <2> QED BY <1>2, <1>5, <2>1, HandlesBump
<1>10. HeldUp(refs[c], refs'[c], n)
  <2>1. Len(h) \in Nat /\ Len(h) >= 4
    BY HeapFacts
  <2>2. n # HalAllocator
    BY <2>1, SMT DEF HalAllocator
  <2> QED BY <1>5, <2>2, HeldBump
<1>11. Settles(c)
  <2>1. NetMade(h, heap', y.own, n) /\ y.own \in Seq(Cells)
    BY <1>2, CellFields DEF NetMade
  <2> QED BY <2>1, <1>2, <1>7, <1>10, HandleSettles
<1> QED BY <1>2, <1>3, <1>7, <1>8, <1>9, <1>11, ClientStep

\* The references s that the call retains, and those it has, become the fields own of the
\* handle, or are still to be released.
Returns(c, s, own) ==
    \A q \in Cells :
        Occurrences(s, q) + (Occurrences(call[c].locals, q) + Occurrences(todo[c], q))
          = Occurrences(own, q) + Occurrences(todo'[c], q)

\* The fields of a returned handle take over the locals and what was retained.
LEMMA ReturnHandsOver ==
    ASSUME Counting, Core, NEW c \in Clients, NEW h, HeapOK(h), todo' \in [Clients -> Seq(Cells)],
           NEW s \in Seq(Cells), NEW own \in Seq(Cells), Returns(c, s, own),
           \A q \in Cells : Net(h, q) = Net(heap, q) + Occurrences(s, q)
    PROVE  HandsOver(c, h, own)
<1> SUFFICES ASSUME NEW q \in Cells
    PROVE Net(h, q) + (Occurrences(call[c].locals, q) + Occurrences(todo[c], q))
            = Net(heap, q) + (Occurrences(own, q) + Occurrences(todo'[c], q))
  BY DEF HandsOver
<1> DEFINE d == Net(heap, q)
           l == Occurrences(call[c].locals, q) + Occurrences(todo[c], q)
           r == Occurrences(s, q)
           w == Occurrences(own, q) + Occurrences(todo'[c], q)
<1>1. Net(h, q) = d + r /\ r + l = w
  BY DEF Returns
<1>2. d \in Int /\ r \in Nat
  BY CoreFacts, HeapFacts, NetType, OccType
<1>3. l \in Nat
  <2>1. Occurrences(call[c].locals, q) \in Nat /\ Occurrences(todo[c], q) \in Nat
    BY CoreFacts, OccType
  <2> QED BY <2>1, SMT
<1> HIDE DEF d, l, r, w
<1>4. (d + r) + l = d + w
  BY <1>1, <1>2, <1>3, SMT
<1> QED BY <1>1, <1>4 DEF d, l, w

\* A call returns a handle of one new cell.
LEMMA ReturnStep ==
    ASSUME Counting, Core, NEW c \in Clients, New <= MaxCells,
           NEW s \in Seq(Cells), \A i \in DOMAIN s : Retainable(heap, s[i]),
           NEW kind \in {"buffer", "module", "function", "executable"},
           NEW own \in Seq(Cells), own # <<>>, \A i \in DOMAIN own : Ownable(heap, own[i]),
           heap' = Append(Retained(s), Cell(kind, own, {})), refs' = [refs EXCEPT ![c][New] = 1],
           call' \in [Clients -> CallType], call'[c] = NoCall, todo' \in [Clients -> Seq(Cells)],
           \A d \in Clients : d # c => call'[d] = call[d] /\ todo'[d] = todo[d],
           up' = up, crashed' = crashed, Returns(c, s, own)
    PROVE  Core'
<1> DEFINE h == Retained(s)
           y == Cell(kind, own, {})
           n == New
<1>1. HeapOK(heap) /\ Len(heap) < MaxCells /\ Len(heap) \in Nat /\ DOMAIN heap = 1 .. Len(heap)
  BY CoreFacts, HeapFacts, Room
<1>2. More(heap, s, h)
  BY RetainedMore
<1> HIDE DEF h
<1>3. /\ HeapOK(h) /\ KindsKept(heap, h) /\ Len(h) = Len(heap) /\ DOMAIN h = DOMAIN heap
      /\ \A q \in Cells : Net(h, q) = Net(heap, q) + Occurrences(s, q)
  BY <1>1, <1>2, MoreReferences
<1>4. y.count = 1 /\ y.lost = 0 /\ y.own = own /\ y.kind = kind
  BY DEF Cell
<1>5. y \in CellType /\ Sound(h, y)
  <2>1. /\ kind \in Kinds /\ kind # "device" /\ kind \notin {"fence", "list"} /\ {} \in SUBSET Cells
        /\ kind # "mapped_range"
    BY SMT DEF Kinds
  <2>2. \A i \in DOMAIN own : Ownable(h, own[i])
    BY <1>3 DEF Ownable, KindsKept
  <2> QED BY <2>1, <2>2, CellSound
<1>6. y.kind # "mapped_range"
  BY <1>4, SMT
<1> HIDE DEF y
<1>7. HandsOver(c, h, y.own)
  BY <1>3, <1>4, ReturnHandsOver
<1>8. n = Len(h) + 1 /\ n \notin DOMAIN heap
  <2>1. n = Len(heap) + 1
    BY DEF New
  <2> HIDE DEF n
  <2>2. n \notin DOMAIN heap
    BY <1>1, <2>1, SMT
  <2> QED BY <1>3, <2>1, <2>2
<1>9. heap' = Append(h, y) /\ refs' = [refs EXCEPT ![c][n] = 1] /\ Len(h) < MaxCells
  BY <1>1, <1>3 DEF h, y
<1> HIDE DEF n
<1> QED BY <1>3, <1>4, <1>5, <1>6, <1>7, <1>8, <1>9, HandleStep

Inner == {"hal_semaphore", "hal_fence", "hal_buffer", "virtual_memory", "hal_buffer_view", "vm_list"}

Outer == {"semaphore", "fence", "buffer", "view", "list"}

\* The fields ox of the object and oy of the handle take over the references s and the
\* reference on the object.
TakesOver(s, ox, oy) ==
    \A q \in Cells : Occurrences(ox, q) + Occurrences(oy, q) = Occurrences(s, q) + One(Len(heap) + 1, q)

\* A handle that owns the new cell n and what may be owned anyway.
OwnsNew(n, oy) ==
    oy \in Seq(Cells) /\ oy # <<>> /\ \A i \in DOMAIN oy : oy[i] = n \/ Ownable(heap, oy[i])

\* The constructors of one step preserve Core.
LEMMA CreateSteps ==
    ASSUME Counting
    PROVE  \A c \in Clients :
               Core /\ (\/ hrx_semaphore_create(c) \/ hrx_fence_create(c) \/ hrx_fence_create_at(c)
                        \/ hrx_allocator_allocate_buffer(c) \/ hrx_allocator_import_buffer(c)
                        \/ hrx_allocator_virtual_memory_reserve(c)
                        \/ hrx_module_lookup_function(c) \/ hrx_buffer_view_create(c) \/ hrx_value_list_create(c)) => Core'
\* The references of an idle client that are in the fields of the new handle.
<1>PairHandsOver.
    ASSUME Core, NEW c \in Clients, Idle(c), todo' = todo, NEW h, NEW g, HeapOK(h), HeapOK(g),
           NEW s \in Seq(Cells), NEW ox \in Seq(Cells), NEW oy \in Seq(Cells), TakesOver(s, ox, oy),
           NetMade(h, g, ox, Len(heap) + 1),
           \A q \in Cells : Net(h, q) = Net(heap, q) + Occurrences(s, q)
    PROVE  HandsOver(c, g, oy)
  <2> USE <1>PairHandsOver
  <2> SUFFICES ASSUME NEW q \in Cells
      PROVE Net(g, q) + (Occurrences(call[c].locals, q) + Occurrences(todo[c], q))
              = Net(heap, q) + (Occurrences(oy, q) + Occurrences(todo'[c], q))
    BY DEF HandsOver
  <2> DEFINE a == Net(g, q)
             d == Net(heap, q)
             m == Net(h, q)
             o == One(Len(heap) + 1, q)
             v == Occurrences(ox, q)
             w == Occurrences(oy, q)
             r == Occurrences(s, q)
  <2>1. a + v = m + o /\ v + w = r + o /\ m = d + r
    BY DEF NetMade, TakesOver
  <2>2. a \in Int /\ d \in Int /\ m \in Int
    BY CoreFacts, HeapFacts, NetType
  <2>3. v \in Nat /\ w \in Nat /\ r \in Nat /\ o \in Nat
    <3>1. v \in Nat /\ w \in Nat /\ r \in Nat
      BY OccType
    <3> QED BY <3>1, SMT DEF One
  <2>4. Occurrences(call[c].locals, q) = 0 /\ Occurrences(todo[c], q) = 0 /\ Occurrences(todo'[c], q) = 0
    BY IdleFacts
  <2>5. a + (0 + 0) = d + (w + 0)
    <3> HIDE DEF a, d, m, o, v, w, r
    <3>1. a = d + w
      BY <2>1, <2>2, <2>3, SMT
    <3> QED BY <3>1, <2>2, <2>3, SMT
  <2> QED BY <2>4, <2>5
\* An IREE object over ox and the handle over oy that owns it, given to the client.
<1>PairStep.
    ASSUME Core, NEW c \in Clients, Idle(c),
           NEW s, NEW h, More(heap, s, h), \A i \in DOMAIN s : Retainable(heap, s[i]),
           NEW kx \in Inner, NEW ox \in Seq(Cells), \A i \in DOMAIN ox : Ownable(heap, ox[i]),
           NEW nx \in SUBSET Cells,
           NEW ky \in Outer, NEW oy, OwnsNew(Len(heap) + 1, oy),
           ky \in {"fence", "list"} => oy[1] = Len(heap) + 1 /\ kx \in {"hal_fence", "vm_list"},
           TakesOver(s, ox, oy),
           into_handle(c, h, << Cell(kx, ox, nx), Cell(ky, oy, {}) >>),
           call' = call, todo' = todo, up' = up, crashed' = crashed
    PROVE  Core'
  <2> USE <1>PairStep
  <2> DEFINE n == Len(heap) + 1
             x == Cell(kx, ox, nx)
             y == Cell(ky, oy, {})
             g == Append(h, x)
  <2>1. HeapOK(heap) /\ s \in Seq(Cells) /\ h \in Seq(CellType)
    BY CoreFacts DEF More
  <2>2. /\ HeapOK(h) /\ KindsKept(heap, h) /\ Len(h) = Len(heap) /\ DOMAIN h = DOMAIN heap
        /\ \A q \in Cells : Net(h, q) = Net(heap, q) + Occurrences(s, q)
    BY <2>1, MoreReferences
  <2>3. x.count = 1 /\ x.lost = 0 /\ x.own = ox /\ x.kind = kx
    BY DEF Cell
  <2>4. y.count = 1 /\ y.lost = 0 /\ y.own = oy /\ y.kind = ky
    BY DEF Cell
  <2>5. x \in CellType /\ Sound(heap, x)
    <3>1. /\ kx \in Kinds /\ kx # "device" /\ kx \notin {"buffer", "semaphore", "fence", "view", "list"}
          /\ kx \notin {"fence", "list"} /\ kx # "mapped_range"
      BY SMT DEF Inner, Kinds
    <3> QED BY <3>1, CellSound
  <2>6. {} \in SUBSET Cells /\ ky \in Kinds /\ ky # "device" /\ ky # "mapped_range" /\ kx \notin Private
    BY SMT DEF Outer, Inner, Kinds, Private
  <2>7. oy \in Seq(Cells) /\ oy # <<>> /\ \A i \in DOMAIN oy : oy[i] = n \/ Ownable(heap, oy[i])
    BY DEF OwnsNew
  <2>8. y \in CellType
    BY <2>6, <2>7, CellNew, SMT
  <2> HIDE DEF x
  <2>9. /\ Len(h) + Len(<<x, y>>) <= MaxCells /\ heap' = h \o <<x, y>>
        /\ refs' = [refs EXCEPT ![c][Len(h) + Len(<<x, y>>)] = 1]
    BY DEF into_handle, x
  <2>10. Sound(h, x)
    BY <2>2, <2>5, SoundKept
  <2>11. /\ Len(<<x, y>>) = 2 /\ Len(h) + Len(<<x, y>>) = n + 1 /\ Len(h) < MaxCells /\ n < MaxCells
         /\ n + 1 \notin DOMAIN heap /\ n \in Cells
    <3>1. Len(<<x, y>>) = 2 /\ Len(heap) \in Nat /\ MaxCells \in Nat /\ DOMAIN heap = 1 .. Len(heap)
      BY <2>1, HeapFacts, FixedCells, SMTT(30)
    <3>2. Len(heap) + 2 <= MaxCells
      BY <2>2, <2>9, <3>1, SMT
    <3> QED BY <2>2, <3>1, <3>2, SMTT(30) DEF Cells
  <2>12. heap' = Append(g, y)
    BY <2>1, <2>5, <2>8, <2>9, ConcatCells
  <2>13. Created(h, x, g)
    BY <2>2, <2>3, <2>5, <2>10, <2>11, Creation
  <2>14. /\ HeapOK(g) /\ KindsKept(h, g) /\ Len(g) = n /\ n \in DOMAIN g /\ g[n] = x
         /\ NetMade(h, g, ox, n)
    BY <2>2, <2>3, <2>13 DEF Created, NetMade
  <2>15. KindsKept(heap, g)
    BY <2>2, <2>14, KindsKeptTwice
  <2> HIDE DEF g
  <2>16. Sound(g, y)
    <3>1. ASSUME NEW i \in DOMAIN oy PROVE Ownable(g, oy[i])
      BY <2>3, <2>6, <2>7, <2>14, <2>15 DEF Ownable, KindsKept
    <3>2. ky \in {"fence", "list"} => g[oy[1]].kind \in {"hal_fence", "vm_list"}
      BY <2>3, <2>14
    <3> QED BY <2>6, <2>7, <3>1, <3>2, CellSound
  <2> HIDE DEF y
  <2>17. HandsOver(c, g, y.own)
    BY <2>1, <2>2, <2>4, <2>7, <2>14, <1>PairHandsOver
  <2>18. refs' = [refs EXCEPT ![c][n + 1] = 1]
    BY <2>9, <2>11
  <2>19. call' \in [Clients -> CallType] /\ todo' \in [Clients -> Seq(Cells)] /\ call'[c] = NoCall
    BY CoreFacts, IdleFacts
  <2>20. Len(g) < MaxCells /\ n + 1 = Len(g) + 1 /\ y.kind # "mapped_range"
    BY <2>4, <2>6, <2>11, <2>14
  <2> DEFINE k == n + 1
  <2>21. /\ k = Len(g) + 1 /\ k \notin DOMAIN heap /\ refs' = [refs EXCEPT ![c][k] = 1]
    BY <2>11, <2>18, <2>20
  <2> HIDE DEF k, n
  <2> QED BY <2>4, <2>8, <2>12, <2>14, <2>15, <2>16, <2>17, <2>19, <2>20, <2>21, HandleStep
\* An object that owns s, and a handle that owns the object.
<1>WrapStep.
    ASSUME Core, NEW c \in Clients, Idle(c), NEW s, NEW h, More(heap, s, h),
           \A i \in DOMAIN s : Retainable(heap, s[i]) /\ Ownable(heap, s[i]),
           NEW kx \in Inner, NEW ky \in Outer, ky \in {"fence", "list"} => kx \in {"hal_fence", "vm_list"},
           into_handle(c, h, << Cell(kx, s, {}), Cell(ky, <<New>>, {}) >>),
           call' = call, todo' = todo, up' = up, crashed' = crashed
    PROVE  Core'
  <2> USE <1>WrapStep
  <2> DEFINE n == Len(heap) + 1
  <2>1. Len(h) = Len(heap) /\ s \in Seq(Cells) /\ Len(heap) \in Nat /\ MaxCells \in Nat
    BY CoreFacts, HeapFacts, FixedCells DEF More
  <2>2. n \in Cells
    <3>1. Len(h) + Len(<< Cell(kx, s, {}), Cell(ky, <<New>>, {}) >>) <= MaxCells
      BY DEF into_handle
    <3>2. Len(<< Cell(kx, s, {}), Cell(ky, <<New>>, {}) >>) = 2
      BY SMT
    <3> QED BY <2>1, <3>1, <3>2, SMT DEF Cells
  <2>3. OwnsNew(n, <<n>>) /\ <<n>>[1] = n
    <3>1. <<n>> # <<>> /\ <<n>>[1] = n
      BY SMT
    <3> QED BY <2>2, <3>1, OneElement DEF OwnsNew
  <2>4. TakesOver(s, s, <<n>>)
    BY OccOne DEF TakesOver
  <2>5. into_handle(c, h, << Cell(kx, s, {}), Cell(ky, <<n>>, {}) >>)
    BY DEF New
  <2>6. {} \in SUBSET Cells
    BY SMT
  <2> HIDE DEF n
  <2> DEFINE t == <<n>>
  <2>7. /\ OwnsNew(Len(heap) + 1, t) /\ t[1] = Len(heap) + 1 /\ TakesOver(s, s, t)
        /\ into_handle(c, h, << Cell(kx, s, {}), Cell(ky, t, {}) >>)
    BY <2>3, <2>4, <2>5 DEF n
  <2>8. /\ Core /\ c \in Clients /\ Idle(c) /\ More(heap, s, h)
        /\ \A i \in DOMAIN s : Retainable(heap, s[i]) /\ Ownable(heap, s[i])
        /\ kx \in Inner /\ ky \in Outer /\ (ky \in {"fence", "list"} => kx \in {"hal_fence", "vm_list"})
        /\ call' = call /\ todo' = todo /\ up' = up /\ crashed' = crashed
    OBVIOUS
  <2> HIDE DEF t
  <2> QED BY ONLY <2>1, <2>6, <2>7, <2>8, <1>PairStep, ZenonT(30)
\* An object of the device, and a handle that owns it and keeps the device.
<1>DevicePairStep.
    ASSUME Core, NEW c \in Clients, Idle(c), refs[c][Device] > 0,
           NEW kx \in Inner, NEW ky \in {"semaphore", "buffer"},
           into_handle(c, Retained(<<Device>>), << Cell(kx, <<>>, {HalDevice}), Cell(ky, <<New, Device>>, {}) >>),
           call' = call, todo' = todo, up' = up, crashed' = crashed
    PROVE  Core'
  <2> USE <1>DevicePairStep
  <2> DEFINE n == Len(heap) + 1
             h == Retained(<<Device>>)
             s == <<Device>>
             e == <<>>
             t == <<n, Device>>
  <2>1. Retainable(heap, Device) /\ Device \in Cells /\ Len(heap) \in Nat /\ MaxCells \in Nat
    BY DeviceHeld, CoreFacts, HeapFacts, FixedCells
  <2>2. s \in Seq(Cells) /\ \A i \in DOMAIN s : Retainable(heap, s[i])
    BY <2>1, OneElement
  <2>3. More(heap, s, h)
    BY <2>2, RetainedMore
  <2>4. n \in Cells
    <3>1. Len(h) + Len(<< Cell(kx, <<>>, {HalDevice}), Cell(ky, <<New, Device>>, {}) >>) <= MaxCells
      BY DEF into_handle
    <3>2. Len(<< Cell(kx, <<>>, {HalDevice}), Cell(ky, <<New, Device>>, {}) >>) = 2
      BY SMT
    <3>3. Len(h) = Len(heap)
      BY <2>3 DEF More
    <3> HIDE DEF h
    <3> QED BY <2>1, <3>1, <3>2, <3>3, SMT DEF Cells
  <2>5. Ownable(heap, Device)
    <3>1. heap[Device].kind = "device" /\ Device \in DOMAIN heap
      BY CoreFacts, HeapFacts DEF HeapOK, HeapSound
    <3> QED BY <3>1, SMT DEF Ownable, Private
  <2>6. OwnsNew(n, t)
    <3>1. t # <<>>
      BY SMT
    <3>2. t \in Seq(Cells) /\ \A i \in DOMAIN t : t[i] = n \/ t[i] = Device
      <4> HIDE DEF n
      <4> QED BY <2>1, <2>4, TwoElements, SMT
    <3> HIDE DEF t
    <3> QED BY <2>5, <3>1, <3>2 DEF OwnsNew
  <2>7. TakesOver(s, e, t)
    <3> SUFFICES ASSUME NEW q \in Cells
                 PROVE  Occurrences(e, q) + Occurrences(t, q) = Occurrences(s, q) + One(n, q)
      BY DEF TakesOver
    <3>1. Occurrences(e, q) = 0 /\ Occurrences(t, q) = One(n, q) + One(Device, q)
          /\ Occurrences(s, q) = One(Device, q)
      <4>1. Occurrences(e, q) = 0
        BY OccEmpty
      <4>2. Occurrences(t, q) = One(n, q) + One(Device, q)
        BY OccTwo
      <4>3. Occurrences(s, q) = One(Device, q)
        BY OccOne
      <4> QED BY <4>1, <4>2, <4>3
    <3>2. One(n, q) \in Nat /\ One(Device, q) \in Nat
      BY SMT DEF One
    <3>3. 0 + (One(n, q) + One(Device, q)) = One(Device, q) + One(n, q)
      BY <3>2, SMT
    <3> QED BY <3>1, <3>3
  <2>8. into_handle(c, h, << Cell(kx, e, {HalDevice}), Cell(ky, t, {}) >>)
    BY DEF New
  <2>9. /\ e \in Seq(Cells) /\ {HalDevice} \in SUBSET Cells /\ \A i \in DOMAIN e : Ownable(heap, e[i])
        /\ ky \in Outer /\ ky \notin {"fence", "list"}
    <3>1. e \in Seq(Cells) /\ DOMAIN e = {}
      BY FixedCells, SMT
    <3>2. {HalDevice} \in SUBSET Cells
      BY FixedCells
    <3>3. ky \in Outer /\ ky \notin {"fence", "list"}
      BY SMT DEF Outer
    <3> QED BY <3>1, <3>2, <3>3
  <2> HIDE DEF h, s, e, t
  <2>10. OwnsNew(Len(heap) + 1, t)
    BY <2>6
  <2> HIDE DEF n
  <2> QED BY <2>2, <2>3, <2>7, <2>8, <2>9, <2>10, <1>PairStep
\* hrx_semaphore_create.
<1>SemaphoreCreateStep.
    ASSUME Core, NEW c \in Clients, hrx_semaphore_create(c)
    PROVE  Core'
  <2> USE <1>SemaphoreCreateStep
  <2>1. /\ Idle(c) /\ refs[c][Device] > 0
        /\ into_handle(c, Retained(<<Device>>), << Cell("hal_semaphore", <<>>, {HalDevice}),
                                                   Cell("semaphore", <<New, Device>>, {}) >>)
        /\ call' = call /\ todo' = todo /\ up' = up /\ crashed' = crashed
    BY DEF hrx_semaphore_create, Ready, HrxSemaphoreS
  <2>2. "hal_semaphore" \in Inner /\ "semaphore" \in {"semaphore", "buffer"}
    BY SMT DEF Inner
  <2> QED BY <2>1, <2>2, <1>DevicePairStep
\* The three ways to get a buffer from the allocator.
<1>NewBufferStep.
    ASSUME Core, NEW c \in Clients,
           \/ hrx_allocator_allocate_buffer(c) \/ hrx_allocator_import_buffer(c)
           \/ hrx_allocator_virtual_memory_reserve(c)
    PROVE  Core'
  <2> USE <1>NewBufferStep
  <2>1. HrxBufferS(New, <<>>) = <<New, Device>>
    <3>1. Len(heap) \in Nat
      BY CoreFacts, HeapFacts
    <3>2. New \in Nat
      BY <3>1, SMT DEF New
    <3> QED BY <3>2, BufferFields
  <2>2. PICK kx \in {"hal_buffer", "virtual_memory"} :
            /\ Idle(c) /\ refs[c][Device] > 0
            /\ into_handle(c, Retained(<<Device>>), << Cell(kx, <<>>, {HalDevice}),
                                                       Cell("buffer", HrxBufferS(New, <<>>), {}) >>)
            /\ call' = call /\ todo' = todo /\ up' = up /\ crashed' = crashed
    BY DEF hrx_allocator_allocate_buffer, hrx_allocator_import_buffer,
                 hrx_allocator_virtual_memory_reserve, NewBuffer, Ready
  <2>3. into_handle(c, Retained(<<Device>>), << Cell(kx, <<>>, {HalDevice}),
                                                Cell("buffer", <<New, Device>>, {}) >>)
    BY <2>1, <2>2
  <2>4. kx \in Inner /\ "buffer" \in {"semaphore", "buffer"}
    BY SMT DEF Inner
  <2> QED BY <2>2, <2>3, <2>4, <1>DevicePairStep
\* A fence over any list of live semaphores.
<1>FenceOverStep.
    ASSUME Core, NEW c \in Clients, Idle(c), NEW s \in Seq(Cells),
           \A i \in DOMAIN s : Retainable(heap, s[i]) /\ Ownable(heap, s[i]), FenceOver(c, s)
    PROVE  Core'
  <2> USE <1>FenceOverStep
  <2>1. /\ into_handle(c, Lent(s), << Cell("hal_fence", s, {}), Cell("fence", <<New>>, {}) >>)
        /\ call' = call /\ todo' = todo /\ up' = up /\ crashed' = crashed
    BY DEF FenceOver
  <2>2. More(heap, s, Lent(s))
    BY RetainedMore
  <2>3. "hal_fence" \in Inner /\ "fence" \in Outer /\ "hal_fence" \in {"hal_fence", "vm_list"}
    BY SMT DEF Inner, Outer
  <2> QED BY <2>1, <2>2, <2>3, <1>WrapStep, SMTT(30)
\* hrx_fence_create and hrx_fence_create_at.
<1>FenceCreateStep.
    ASSUME Core, NEW c \in Clients, hrx_fence_create(c) \/ hrx_fence_create_at(c)
    PROVE  Core'
  <2> USE <1>FenceCreateStep
  <2>1. Idle(c)
    BY DEF hrx_fence_create, hrx_fence_create_at, Ready
  <2>2. CASE hrx_fence_create(c)
    <3>1. <<>> \in Seq(Cells) /\ DOMAIN <<>> = {}
      BY FixedCells, SMT
    <3>2. FenceOver(c, <<>>)
      BY <2>2 DEF hrx_fence_create
    <3> QED BY <2>1, <3>1, <3>2, <1>FenceOverStep
  <2>3. CASE hrx_fence_create_at(c)
    <3>1. PICK s \in Holds(c, "semaphore") : FenceOver(c, <<Hal(s)>>)
      BY <2>3 DEF hrx_fence_create_at
    <3>2. Hal(s) \in Cells /\ Retainable(heap, Hal(s)) /\ Ownable(heap, Hal(s))
      BY HoldsHal
    <3>3. /\ <<Hal(s)>> \in Seq(Cells)
          /\ \A i \in DOMAIN <<Hal(s)>> : Retainable(heap, <<Hal(s)>>[i]) /\ Ownable(heap, <<Hal(s)>>[i])
      BY <3>2, OneElement
    <3> QED BY <2>1, <3>1, <3>3, <1>FenceOverStep
  <2> QED BY <2>2, <2>3
\* hrx_buffer_view_create.
<1>ViewCreateStep.
    ASSUME Core, NEW c \in Clients, hrx_buffer_view_create(c)
    PROVE  Core'
  <2> USE <1>ViewCreateStep
  <2>1. PICK b \in Holds(c, "buffer") :
            /\ Idle(c)
            /\ into_handle(c, Lent(<<Hal(b)>>), << Cell("hal_buffer_view", <<Hal(b)>>, {}),
                                                   Cell("view", <<New>>, {}) >>)
            /\ call' = call /\ todo' = todo /\ up' = up /\ crashed' = crashed
    BY DEF hrx_buffer_view_create, Ready
  <2>2. Hal(b) \in Cells /\ Retainable(heap, Hal(b)) /\ Ownable(heap, Hal(b))
    BY HoldsHal
  <2>3. /\ <<Hal(b)>> \in Seq(Cells)
        /\ \A i \in DOMAIN <<Hal(b)>> : Retainable(heap, <<Hal(b)>>[i]) /\ Ownable(heap, <<Hal(b)>>[i])
    BY <2>2, OneElement
  <2>4. More(heap, <<Hal(b)>>, Lent(<<Hal(b)>>))
    BY <2>3, RetainedMore
  <2>5. "hal_buffer_view" \in Inner /\ "view" \in Outer /\ "view" \notin {"fence", "list"}
    BY SMT DEF Inner, Outer
  <2> QED BY <2>1, <2>3, <2>4, <2>5, <1>WrapStep, SMTT(30)
\* hrx_value_list_create.
<1>ListCreateStep.
    ASSUME Core, NEW c \in Clients, hrx_value_list_create(c)
    PROVE  Core'
  <2> USE <1>ListCreateStep
  <2>1. /\ Idle(c)
        /\ into_handle(c, heap, << Cell("vm_list", <<>>, {}), Cell("list", <<New>>, {}) >>)
        /\ call' = call /\ todo' = todo /\ up' = up /\ crashed' = crashed
    BY DEF hrx_value_list_create, Ready
  <2>2. "vm_list" \in Inner /\ "list" \in Outer /\ "vm_list" \in {"hal_fence", "vm_list"} /\ DOMAIN <<>> = {}
    BY SMT DEF Inner, Outer
  <2>3. More(heap, <<>>, heap)
    BY MoreNothing
  <2> QED BY <2>1, <2>2, <2>3, <1>WrapStep, SMTT(30)
\* A function and the reference on its module.
<1>LookupStep.
    ASSUME Core, NEW c \in Clients, hrx_module_lookup_function(c)
    PROVE  Core'
  <2> USE <1>LookupStep
  <2>1. PICK m \in Holds(c, "module") :
            /\ Idle(c) /\ into_handle(c, Retained(<<m>>), <<Cell("function", <<m>>, {})>>)
            /\ call' = call /\ todo' = todo /\ up' = up /\ crashed' = crashed
    BY DEF hrx_module_lookup_function, Ready
  <2> DEFINE s == <<m>>
             h == Retained(s)
             y == Cell("function", s, {})
  <2>2. m \in Cells /\ Retainable(heap, m) /\ m \in DOMAIN heap /\ heap[m].kind = "module" /\ HeapOK(heap)
    BY HoldsFacts
  <2>3. Ownable(heap, m)
    BY <2>2, SMT DEF Ownable, Private
  <2>4. /\ s \in Seq(Cells) /\ \A i \in DOMAIN s : Retainable(heap, s[i]) /\ Ownable(heap, s[i])
    BY <2>2, <2>3, OneElement
  <2>5. s # <<>>
    BY SMT
  <2>6. /\ Len(h) + Len(<<y>>) <= MaxCells /\ heap' = h \o <<y>>
        /\ refs' = [refs EXCEPT ![c][Len(h) + Len(<<y>>)] = 1]
    BY <2>1 DEF into_handle
  <2>7. Len(h) = Len(heap) /\ h \in Seq(CellType)
    BY <2>4, RetainedMore DEF More
  <2>8. y \in CellType
    <3>1. "function" \in Kinds /\ {} \in SUBSET Cells
      BY SMT DEF Kinds
    <3> QED BY <2>4, <3>1, CellNew
  <2> HIDE DEF s, h
  <2>9. Len(<<y>>) = 1
    BY SMT
  <2> HIDE DEF y
  <2>10. heap' = Append(h, y)
    BY <2>6, <2>7, <2>8, ConcatCells, SMT
  <2>11. New <= MaxCells /\ refs' = [refs EXCEPT ![c][New] = 1]
    BY <2>6, <2>7, <2>9 DEF New
  <2>12. /\ call' \in [Clients -> CallType] /\ call'[c] = NoCall /\ todo' \in [Clients -> Seq(Cells)]
         /\ \A d \in Clients : d # c => call'[d] = call[d] /\ todo'[d] = todo[d]
    BY <2>1, CoreFacts, IdleFacts
  <2>13. Returns(c, s, s)
    <3>1. ASSUME NEW q \in Cells
          PROVE  Occurrences(s, q) + (Occurrences(call[c].locals, q) + Occurrences(todo[c], q))
                   = Occurrences(s, q) + Occurrences(todo'[c], q)
      <4>1. Occurrences(call[c].locals, q) = 0 /\ Occurrences(todo[c], q) = 0 /\ todo' = todo
        BY <2>1, IdleFacts
      <4>2. 0 + 0 = 0
        BY SMT
      <4> QED BY <4>1, <4>2
    <3> QED BY <3>1 DEF Returns
  <2>14. heap' = Append(Retained(s), Cell("function", s, {})) /\ "function" \in {"buffer", "module", "function", "executable"}
    BY <2>10 DEF h, y
  <2> QED BY <2>1, <2>4, <2>5, <2>11, <2>12, <2>13, <2>14, ReturnStep
<1> SUFFICES ASSUME Core, NEW c \in Clients,
                    \/ hrx_semaphore_create(c) \/ hrx_fence_create(c) \/ hrx_fence_create_at(c)
                    \/ hrx_allocator_allocate_buffer(c) \/ hrx_allocator_import_buffer(c)
                    \/ hrx_allocator_virtual_memory_reserve(c)
                    \/ hrx_module_lookup_function(c) \/ hrx_buffer_view_create(c) \/ hrx_value_list_create(c)
             PROVE  Core'
  OBVIOUS
<1> QED BY <1>SemaphoreCreateStep, <1>NewBufferStep, <1>FenceCreateStep, <1>ViewCreateStep, <1>ListCreateStep, <1>LookupStep

(***************************************************************************)
(* Constructors that take several steps, and the handle they return.       *)
(***************************************************************************)
\* What a step of a constructor makes, beyond handles.
Plain == {"notification", "hal_pool", "hal_buffer", "reserved_block", "bytecode_module", "hal_module",
          "vm_context", "executable_cache", "hal_executable", "file_data"}

\* The locals l after step n of op.
NextLocals(h, op, n, l) ==
    /\ n \in 1 .. 3 /\ l \in Seq(Cells) /\ Len(l) = LocalsAt(op, n + 1)
    /\ op = "hrx_buffer_allocate" /\ n = 1 => l = <<HalAllocator>>
    /\ \A i \in DOMAIN l : Ownable(h, l[i])

\* Two objects: the references on them and on what the call owned are in the fields of
\* the second or in the locals.
TwoMade(c, x, oy, l) ==
    \A q \in Cells :
        (IF q = Len(heap) + 1 THEN x.count ELSE 0) + (One(Len(heap) + 2, q) + Occurrences(call[c].locals, q))
          = Occurrences(oy, q) + Occurrences(l, q)

NetFirst(g, x) ==
    \A q \in Cells : Net(g, q) = Net(heap, q) + (IF q = Len(heap) + 1 THEN x.count ELSE 0)

\* The locals become l.
LocalsMove(c, l) ==
    \A q \in Cells : Net(heap', q) + Occurrences(call[c].locals, q) = Net(heap, q) + Occurrences(l, q)

\* The handle takes over the device reference and the locals, but for spare.
Finishes(c, own, spare) ==
    \A q \in Cells :
        One(Device, q) + Occurrences(call[c].locals, q) = Occurrences(own, q) + Occurrences(spare, q)

\* So does every step of the others, the failing ones included.
LEMMA ConstructorSteps ==
    ASSUME Counting
    PROVE  \A c \in Clients :
               Core /\ (\/ hrx_buffer_allocate(c) \/ hrx_module_load_vmfb(c)
                        \/ hrx_executable_load_data(c) \/ hrx_executable_load_file(c)) => Core'
\* How often an object occurs in a list of four.
<1>OccFour.
    ASSUME NEW w, NEW x, NEW y, NEW z, NEW o
    PROVE  Occurrences(<<w, x, y, z>>, o) = One(w, o) + (One(x, o) + (One(y, o) + One(z, o)))
  <2> USE <1>OccFour
  <2> DEFINE S == {w, x, y, z}
             s == <<x, y, z>>
             t == <<w, x, y, z>>
  <2>1. s \in Seq(S)
    BY SMT
  <2>2. w \in S
    OBVIOUS
  <2>3. t = <<w>> \o s
    BY SMT
  <2>4. Occurrences(s, o) = One(x, o) + (One(y, o) + One(z, o))
    BY OccThree, SMT
  <2> HIDE DEF S, s, t
  <2>5. CountsCons(w, s, t)
    BY <2>1, <2>2, <2>3, OccCons DEF Cons
  <2> QED BY <2>4, <2>5 DEF t, CountsCons
\* Where a client inside a constructor is.
<1>AtFacts.
    ASSUME Core, NEW c \in Clients, NEW op \in Constructors, NEW n, At(c, op, n)
    PROVE  /\ call[c].op = op /\ call[c].at = n /\ n \in 1 .. 4 /\ todo[c] = <<>> /\ refs[c][Device] > 0
           /\ call[c].locals \in Seq(Cells) /\ Len(call[c].locals) = LocalsAt(op, n)
           /\ op = "hrx_buffer_allocate" /\ n = 2 => call[c].locals = <<HalAllocator>>
           /\ \A i \in DOMAIN call[c].locals :
                 /\ call[c].locals[i] \in Cells
                 /\ Retainable(heap, call[c].locals[i]) /\ Ownable(heap, call[c].locals[i])
  <2> USE <1>AtFacts
  <2>1. call[c].op = op /\ call[c].at = n
    BY DEF At
  <2>2. call[c] # NoCall
    <3>1. NoCall.op = "none" /\ op # "none"
      BY SMT DEF NoCall, Constructors
    <3> QED BY <2>1, <3>1
  <2>3. CallSound(heap, call[c], todo[c], refs[c]) /\ call[c].locals \in Seq(Cells)
    BY CoreFacts
  <2>4. /\ n \in 1 .. 4 /\ todo[c] = <<>> /\ refs[c][Device] > 0 /\ Len(call[c].locals) = LocalsAt(op, n)
        /\ op = "hrx_buffer_allocate" /\ n = 2 => call[c].locals = <<HalAllocator>>
    BY <2>1, <2>2, <2>3 DEF CallSound
  <2>5. ASSUME NEW i \in DOMAIN call[c].locals
        PROVE  /\ call[c].locals[i] \in Cells
               /\ Retainable(heap, call[c].locals[i]) /\ Ownable(heap, call[c].locals[i])
    BY LocalLive DEF Ownable, Retainable
  <2> QED BY <2>1, <2>3, <2>4, <2>5
\* A call record of a constructor.
<1>CallRecord.
    ASSUME Core, NEW c \in Clients, NEW op \in Constructors, NEW n \in 0 .. 4, NEW l \in Seq(Cells),
           call' = [call EXCEPT ![c] = [op |-> op, at |-> n, locals |-> l]]
    PROVE  /\ call' \in [Clients -> CallType] /\ call'[c] = [op |-> op, at |-> n, locals |-> l]
           /\ call'[c].op = op /\ call'[c].at = n /\ call'[c].locals = l
           /\ \A d \in Clients : d # c => call'[d] = call[d]
  <2> USE <1>CallRecord
  <2> DEFINE k == [op |-> op, at |-> n, locals |-> l]
  <2>1. k \in CallType /\ k.op = op /\ k.at = n /\ k.locals = l
    BY DEF CallType
  <2> HIDE DEF k
  <2>2. call' = [call EXCEPT ![c] = k]
    BY DEF k
  <2>3. /\ call' \in [Clients -> CallType] /\ call'[c] = k /\ \A d \in Clients : d # c => call'[d] = call[d]
    BY <2>1, <2>2, CoreFacts
  <2> QED BY <2>1, <2>3 DEF k
\* A step of a client's call that moves references between the heap and its locals.
<1>CallStep.
    ASSUME Core, NEW c \in Clients, HeapOK(heap'), KindsKept(heap, heap'),
           refs' = refs, todo' = todo, up' = up, crashed' = crashed,
           call' \in [Clients -> CallType], \A d \in Clients : d # c => call'[d] = call[d],
           CallSound(heap', call'[c], todo[c], refs[c]),
           \A q \in Cells : Net(heap', q) + Occurrences(call[c].locals, q)
                              = Net(heap, q) + Occurrences(call'[c].locals, q)
    PROVE  Core'
  <2> USE <1>CallStep
  <2>1. Alone(c)
    BY CoreFacts DEF Alone
  <2>2. HandlesSound(heap', refs'[c]) /\ CallSound(heap', call'[c], todo'[c], refs'[c])
    BY CoreFacts, ClientKept
  <2>3. Settles(c)
    <3> SUFFICES ASSUME NEW q \in Cells
        PROVE Net(heap', q) + (HeldIn(refs[c], q) + Occurrences(call[c].locals, q) + Occurrences(todo[c], q))
                = Net(heap, q) + (HeldIn(refs'[c], q) + Occurrences(call'[c].locals, q)
                                    + Occurrences(todo'[c], q))
      BY DEF Settles
    <3> DEFINE a == Net(heap', q)
               d == Net(heap, q)
               r == HeldIn(refs[c], q)
               l == Occurrences(call[c].locals, q)
               m == Occurrences(call'[c].locals, q)
               t == Occurrences(todo[c], q)
    <3>1. a \in Int /\ d \in Int /\ r \in Nat /\ l \in Nat /\ m \in Nat /\ t \in Nat
      BY <2>1, StepTypes
    <3>2. a + l = d + m
      OBVIOUS
    <3> HIDE DEF a, d, r, l, m, t
    <3>3. a + (r + l + t) = d + (r + m + t)
      BY <3>1, <3>2, SMT
    <3> QED BY <3>3 DEF a, d, r, l, m, t
  <2> QED BY <2>1, <2>2, <2>3, ClientStep
\* A constructor is entered with no references.
<1>EnterStep.
    ASSUME Core, NEW c \in Clients, NEW op \in Constructors, Enter(c, op)
    PROVE  Core'
  <2> USE <1>EnterStep
  <2>1. /\ Idle(c) /\ refs[c][Device] > 0
        /\ call' = [call EXCEPT ![c] = [op |-> op, at |-> 1, locals |-> <<>>]]
        /\ heap' = heap /\ refs' = refs /\ todo' = todo /\ up' = up /\ crashed' = crashed
    BY DEF Enter, Ready
  <2>2. 1 \in 0 .. 4 /\ 1 \in 1 .. 4 /\ <<>> \in Seq(Cells) /\ Len(<<>>) = 0 /\ DOMAIN <<>> = {}
        /\ LocalsAt(op, 1) = 0 /\ 1 # 2
    BY FixedCells, SMT DEF LocalsAt
  <2>3. /\ call' \in [Clients -> CallType] /\ call'[c].op = op /\ call'[c].at = 1
        /\ call'[c].locals = <<>> /\ \A d \in Clients : d # c => call'[d] = call[d]
    BY <2>1, <2>2, <1>CallRecord
  <2>4. CallSound(heap', call'[c], todo[c], refs[c])
    BY <2>1, <2>2, <2>3, IdleFacts DEF CallSound
  <2>5. HeapOK(heap') /\ KindsKept(heap, heap') /\ \A q : Net(heap', q) = Net(heap, q)
    BY <2>1, SameHeap
  <2>6. ASSUME NEW q \in Cells
        PROVE  Net(heap', q) + Occurrences(call[c].locals, q) = Net(heap, q) + Occurrences(call'[c].locals, q)
    BY <2>1, <2>3, <2>5, IdleFacts, OccEmpty
  <2> QED BY <2>1, <2>3, <2>4, <2>5, <2>6, <1>CallStep
\* A failure: the locals are to be released.
<1>UnwindStep.
    ASSUME Core, NEW c \in Clients, NEW op \in Constructors, NEW n, Unwind(c, op, n)
    PROVE  Core'
  <2> USE <1>UnwindStep
  <2> DEFINE t == LastFirst(call[c].locals)
  <2>1. /\ At(c, op, n) /\ todo' = [todo EXCEPT ![c] = t] /\ call' = [call EXCEPT ![c] = NoCall]
        /\ heap' = heap /\ refs' = refs /\ up' = up /\ crashed' = crashed
    BY DEF Unwind, Locals
  <2>2. call[c].locals \in Seq(Cells) /\ todo[c] = <<>>
    BY <2>1, <1>AtFacts
  <2>3. t \in Seq(Cells) /\ \A q : Occurrences(t, q) = Occurrences(call[c].locals, q)
    BY <2>2, OccLastFirst
  <2> HIDE DEF t
  <2>4. /\ todo' \in [Clients -> Seq(Cells)] /\ todo'[c] = t
        /\ \A d \in Clients : d # c => todo'[d] = todo[d]
    BY <2>1, <2>3, CoreFacts
  <2>5. /\ call' \in [Clients -> CallType] /\ call'[c] = NoCall
        /\ \A d \in Clients : d # c => call'[d] = call[d]
    BY <2>1, NoCallType, CoreFacts
  <2>6. Alone(c)
    BY <2>1, <2>4, <2>5, CoreFacts DEF Alone
  <2>7. HeapOK(heap') /\ KindsKept(heap, heap') /\ \A q : Net(heap', q) = Net(heap, q)
    BY <2>1, SameHeap
  <2>8. CallSound(heap', call'[c], todo'[c], refs'[c]) /\ HandlesSound(heap', refs'[c])
    BY <2>1, <2>5, CoreFacts DEF CallSound
  <2>9. Settles(c)
    <3> SUFFICES ASSUME NEW q \in Cells
        PROVE Net(heap', q) + (HeldIn(refs[c], q) + Occurrences(call[c].locals, q) + Occurrences(todo[c], q))
                = Net(heap, q) + (HeldIn(refs'[c], q) + Occurrences(call'[c].locals, q)
                                    + Occurrences(todo'[c], q))
      BY DEF Settles
    <3> DEFINE r == HeldIn(refs[c], q)
               l == Occurrences(call[c].locals, q)
    <3>1. r \in Nat /\ l \in Nat
      BY <2>6, <2>7, StepTypes
    <3>2. /\ Occurrences(todo[c], q) = 0 /\ Occurrences(call'[c].locals, q) = 0
          /\ Occurrences(todo'[c], q) = l /\ refs'[c] = refs[c] /\ Net(heap', q) = Net(heap, q)
      BY <2>1, <2>2, <2>3, <2>4, <2>5, <2>7, NoCallType, OccEmpty
    <3> HIDE DEF r, l
    <3>3. r + l + 0 = r + 0 + l
      BY <3>1, SMT
    <3> QED BY <3>2, <3>3 DEF r, l
  <2> QED BY <2>1, <2>6, <2>7, <2>8, <2>9, ClientStep
\* A successful step moves references between the heap and the locals.
<1>ConstructorStep.
    ASSUME Core, NEW c \in Clients, NEW op \in Constructors, NEW n, NEW h, NEW cells, NEW l,
           Step(c, op, n, h, cells, l), HeapOK(heap'), KindsKept(heap, heap'),
           NextLocals(heap', op, n, l), LocalsMove(c, l)
    PROVE  Core'
  <2> USE <1>ConstructorStep
  <2>1. /\ At(c, op, n) /\ call' = [call EXCEPT ![c] = [op |-> op, at |-> n + 1, locals |-> l]]
        /\ refs' = refs /\ todo' = todo /\ up' = up /\ crashed' = crashed
    BY DEF Step
  <2>2. /\ n \in 1 .. 3 /\ l \in Seq(Cells) /\ Len(l) = LocalsAt(op, n + 1)
        /\ op = "hrx_buffer_allocate" /\ n = 1 => l = <<HalAllocator>>
        /\ \A i \in DOMAIN l : Ownable(heap', l[i])
    BY DEF NextLocals
  <2>3. n + 1 \in 0 .. 4 /\ n + 1 \in 1 .. 4 /\ (n + 1 = 2 => n = 1)
    BY <2>2, SMT
  <2>4. /\ call' \in [Clients -> CallType] /\ call'[c].op = op /\ call'[c].at = n + 1
        /\ call'[c].locals = l /\ \A d \in Clients : d # c => call'[d] = call[d]
    BY <2>1, <2>2, <2>3, <1>CallRecord
  <2>5. todo[c] = <<>> /\ refs[c][Device] > 0
    BY <2>1, <1>AtFacts
  <2>6. CallSound(heap', call'[c], todo[c], refs[c])
    BY <2>2, <2>3, <2>4, <2>5 DEF CallSound, Ownable
  <2>7. ASSUME NEW q \in Cells
        PROVE  Net(heap', q) + Occurrences(call[c].locals, q) = Net(heap, q) + Occurrences(call'[c].locals, q)
    BY <2>4 DEF LocalsMove
  <2> QED BY <2>1, <2>4, <2>6, <2>7, <1>CallStep
\* One more local.
<1>OneMore.
    ASSUME NEW s \in Seq(Cells), NEW n \in Cells
    PROVE  /\ Append(s, n) \in Seq(Cells) /\ Len(Append(s, n)) = Len(s) + 1 /\ Len(s) \in Nat
           /\ \A i \in DOMAIN Append(s, n) : Append(s, n)[i] = n \/ (i \in DOMAIN s /\ Append(s, n)[i] = s[i])
           /\ \A o : Occurrences(Append(s, n), o) = Occurrences(s, o) + One(n, o)
  <2> USE <1>OneMore
  <2>1. /\ Append(s, n) \in Seq(Cells) /\ Len(Append(s, n)) = Len(s) + 1 /\ Len(s) \in Nat
        /\ \A i \in DOMAIN Append(s, n) : Append(s, n)[i] = n \/ (i \in DOMAIN s /\ Append(s, n)[i] = s[i])
    BY SMT
  <2>2. Append(s, n) = s \o <<n>>
    BY SMT
  <2>3. <<n>> \in Seq(Cells)
    BY SMT
  <2>4. ASSUME NEW o PROVE Occurrences(Append(s, n), o) = Occurrences(s, o) + One(n, o)
    <3>1. Occurrences(s \o <<n>>, o) = Occurrences(s, o) + Occurrences(<<n>>, o)
      BY <2>3, OccJoin DEF CountsJoin
    <3> QED BY <2>2, <3>1, OccOne
  <2> QED BY <2>1, <2>4
\* Step n of op makes an object, which owns the references s just retained.
<1>ObjectStep.
    ASSUME Core, NEW c \in Clients, NEW op \in Constructors, NEW n \in 1 .. 3,
           op # "hrx_buffer_allocate" \/ n = 3,
           NEW s, NEW h, More(heap, s, h), \A i \in DOMAIN s : Retainable(heap, s[i]) /\ Ownable(heap, s[i]),
           NEW kind \in Plain, NEW needs \in SUBSET Cells, NEW l, l = Append(call[c].locals, New),
           Step(c, op, n, h, <<Cell(kind, s, needs)>>, l)
    PROVE  Core'
  <2> USE <1>ObjectStep
  <2> DEFINE x == Cell(kind, s, needs)
             p == Len(heap) + 1
  <2>1. HeapOK(heap) /\ s \in Seq(Cells) /\ h \in Seq(CellType) /\ Len(heap) \in Nat /\ MaxCells \in Nat
    BY CoreFacts, HeapFacts, FixedCells DEF More
  <2>2. /\ HeapOK(h) /\ KindsKept(heap, h) /\ Len(h) = Len(heap) /\ DOMAIN h = DOMAIN heap
        /\ \A q \in Cells : Net(h, q) = Net(heap, q) + Occurrences(s, q)
    BY <2>1, MoreReferences
  <2>3. x.count = 1 /\ x.lost = 0 /\ x.own = s /\ x.kind = kind
    BY DEF Cell
  <2>4. x \in CellType /\ Sound(heap, x) /\ kind \notin Private
    <3>1. /\ kind \in Kinds /\ kind # "device" /\ kind \notin {"buffer", "semaphore", "fence", "view", "list"}
          /\ kind \notin {"fence", "list"} /\ kind \notin Private /\ kind # "mapped_range"
      BY SMT DEF Plain, Kinds, Private
    <3> QED BY <2>1, <3>1, CellSound
  <2> HIDE DEF x
  <2>5. Sound(h, x)
    BY <2>2, <2>4, SoundKept
  <2>6. Len(h) + Len(<<x>>) <= MaxCells /\ heap' = h \o <<x>> /\ At(c, op, n)
    BY DEF Step, x
  <2>7. Len(h) < MaxCells /\ heap' = Append(h, x)
    <3>1. Len(<<x>>) = 1
      BY SMT
    <3>2. Len(h) < MaxCells
      BY <2>1, <2>2, <2>6, <3>1, SMTT(30)
    <3> QED BY <2>1, <2>4, <2>6, <3>2, ConcatCells, SMTT(30)
  <2>8. Created(h, x, heap')
    BY <2>2, <2>3, <2>4, <2>5, <2>7, Creation
  <2>9. /\ HeapOK(heap') /\ KindsKept(h, heap') /\ p \in Cells /\ p \in DOMAIN heap' /\ heap'[p] = x
        /\ \A q \in Cells : Net(heap', q) + Occurrences(s, q) = Net(h, q) + One(p, q)
    BY <2>2, <2>3, <2>8 DEF Created
  <2>10. KindsKept(heap, heap')
    BY <2>2, <2>9, KindsKeptTwice
  <2>11. /\ call[c].locals \in Seq(Cells) /\ Len(call[c].locals) = LocalsAt(op, n)
         /\ \A i \in DOMAIN call[c].locals : Ownable(heap, call[c].locals[i])
    BY <2>6, <1>AtFacts
  <2>12. l = Append(call[c].locals, p)
    BY DEF New
  <2> HIDE DEF p
  <2>13. /\ l \in Seq(Cells) /\ Len(l) = Len(call[c].locals) + 1
         /\ \A i \in DOMAIN l : l[i] = p \/ (i \in DOMAIN call[c].locals /\ l[i] = call[c].locals[i])
         /\ \A o : Occurrences(l, o) = Occurrences(call[c].locals, o) + One(p, o)
    <3> DEFINE m == Append(call[c].locals, p)
    <3>1. /\ m \in Seq(Cells) /\ Len(m) = Len(call[c].locals) + 1
          /\ \A i \in DOMAIN m : m[i] = p \/ (i \in DOMAIN call[c].locals /\ m[i] = call[c].locals[i])
          /\ \A o : Occurrences(m, o) = Occurrences(call[c].locals, o) + One(p, o)
      BY <2>9, <2>11, <1>OneMore, SMT
    <3> QED BY <2>12, <3>1
  <2>14. NextLocals(heap', op, n, l)
    <3>1. LocalsAt(op, n) + 1 = LocalsAt(op, n + 1) /\ ~(op = "hrx_buffer_allocate" /\ n = 1)
      BY SMT DEF LocalsAt
    <3>2. ASSUME NEW i \in DOMAIN l PROVE Ownable(heap', l[i])
      <4>1. Ownable(heap', p)
        BY <2>3, <2>4, <2>9 DEF Ownable
      <4>2. \A j \in DOMAIN call[c].locals : Ownable(heap', call[c].locals[j])
        BY <2>10, <2>11 DEF Ownable, KindsKept
      <4>3. l[i] = p \/ (i \in DOMAIN call[c].locals /\ l[i] = call[c].locals[i])
        BY <2>13
      <4> QED BY <4>1, <4>2, <4>3
    <3> QED BY <2>11, <2>13, <3>1, <3>2 DEF NextLocals
  <2>15. ASSUME NEW q \in Cells
         PROVE  Net(heap', q) + Occurrences(call[c].locals, q) = Net(heap, q) + Occurrences(l, q)
    <3> DEFINE a == Net(heap', q)
               d == Net(heap, q)
               w == Occurrences(s, q)
               k == Occurrences(call[c].locals, q)
               o == One(p, q)
    <3>1. a + w = (d + w) + o /\ Occurrences(l, q) = k + o
      BY <2>2, <2>9, <2>13
    <3>2. a \in Int /\ d \in Int /\ w \in Nat /\ k \in Nat
      BY <2>1, <2>9, <2>11, HeapFacts, NetType, OccType
    <3>3. o \in Nat
      BY SMT DEF One
    <3> HIDE DEF a, d, w, k, o
    <3>4. a = d + o
      BY <3>1, <3>2, <3>3, SMTT(30)
    <3>5. a + k = d + (k + o)
      BY <3>2, <3>3, <3>4, SMTT(30)
    <3> QED BY <3>1, <3>5 DEF a, d, k
  <2> HIDE DEF x
  <2> DEFINE made == <<x>>
  <2>16. Step(c, op, n, h, made, l)
    BY DEF x
  <2>17. LocalsMove(c, l)
    BY <2>15 DEF LocalsMove
  <2>18. Core /\ c \in Clients /\ op \in Constructors
    OBVIOUS
  <2> HIDE DEF made
  <2> QED BY ONLY <2>9, <2>10, <2>14, <2>16, <2>17, <2>18, <1>ConstructorStep, ZenonT(30)
\* exact_pool_create retains the HAL allocator.
<1>PoolRetainStep.
    ASSUME Core, NEW c \in Clients, NEW op, op = "hrx_buffer_allocate",
           Step(c, op, 1, Retained(<<HalAllocator>>), <<>>, <<HalAllocator>>)
    PROVE  Core'
  <2> USE <1>PoolRetainStep
  <2> DEFINE s == <<HalAllocator>>
             h == Retained(s)
  <2>1. At(c, op, 1) /\ heap' = h \o <<>> /\ op \in Constructors
    BY SMT DEF Step, Constructors
  <2>2. /\ HeapOK(heap) /\ Retainable(heap, HalAllocator) /\ HalAllocator \in Cells
        /\ call[c].locals \in Seq(Cells) /\ Len(call[c].locals) = LocalsAt(op, 1)
    BY <2>1, CoreFacts, <1>AtFacts, DeviceHeld, FixedCells
  <2>3. s \in Seq(Cells) /\ (\A i \in DOMAIN s : s[i] = HalAllocator)
    BY <2>2, OneElement
  <2>4. More(heap, s, h) /\ h \in Seq(CellType)
    BY <2>3, RetainedMore DEF More
  <2>5. heap' = h
    <3>1. ASSUME NEW g \in Seq(CellType) PROVE g \o <<>> = g
      <4>1. 4 \in DOMAIN heap /\ heap[4] \in CellType
        BY <2>2, HeapFacts DEF HalDevice
      <4> QED BY <4>1, ConcatCells
    <3> HIDE DEF h
    <3> QED BY <2>1, <2>4, <3>1
  <2>6. /\ HeapOK(h) /\ KindsKept(heap, h)
        /\ \A q \in Cells : Net(h, q) = Net(heap, q) + Occurrences(s, q)
    BY <2>2, <2>3, <2>4, MoreReferences
  <2>7. LocalsAt(op, 1) = 0 /\ LocalsAt(op, 1 + 1) = 1 /\ 1 \in 1 .. 3 /\ Len(s) = 1
    BY SMT DEF LocalsAt
  <2>8. call[c].locals = <<>>
    BY <2>2, <2>7, SMT
  <2>9. NextLocals(heap', op, 1, s)
    <3>1. Ownable(heap, HalAllocator)
      <4>1. heap[HalAllocator].kind = "hal_allocator" /\ HalAllocator \in DOMAIN heap
        BY <2>2, HeapFacts DEF HeapOK, HeapSound
      <4> QED BY <4>1, SMT DEF Ownable, Private
    <3>2. \A i \in DOMAIN s : Ownable(heap', s[i])
      BY <2>3, <2>5, <2>6, <3>1 DEF Ownable, KindsKept
    <3>3. 1 \in 1 .. 3 /\ s \in Seq(Cells) /\ Len(s) = LocalsAt(op, 1 + 1) /\ s = <<HalAllocator>>
      BY <2>3, <2>7
    <3> HIDE DEF s
    <3> QED BY <3>2, <3>3 DEF NextLocals
  <2>10. ASSUME NEW q \in Cells
         PROVE  Net(heap', q) + Occurrences(call[c].locals, q) = Net(heap, q) + Occurrences(s, q)
    <3>1. Net(heap', q) = Net(heap, q) + Occurrences(s, q) /\ Occurrences(call[c].locals, q) = 0
      BY <2>5, <2>6, <2>8, OccEmpty
    <3>2. Net(heap, q) \in Int /\ Occurrences(s, q) \in Nat
      BY <2>2, <2>3, HeapFacts, NetType, OccType
    <3> DEFINE a == Net(heap, q)
               b == Occurrences(s, q)
    <3>3. a \in Int /\ b \in Nat
      BY <3>2
    <3> HIDE DEF a, b
    <3>4. (a + b) + 0 = a + b
      BY <3>3, SMT
    <3> QED BY <3>1, <3>4 DEF a, b
  <2> HIDE DEF h
  <2> DEFINE made == <<>>
  <2>11. HeapOK(heap') /\ KindsKept(heap, heap') /\ Step(c, op, 1, h, made, s)
    BY <2>5, <2>6 DEF h
  <2>12. LocalsMove(c, s)
    BY <2>10 DEF LocalsMove
  <2>13. Core /\ c \in Clients
    OBVIOUS
  <2> HIDE DEF s, made
  <2> QED BY ONLY <2>1, <2>9, <2>11, <2>12, <2>13, <1>ConstructorStep, ZenonT(30)
\* Two new objects: what the second owns and what becomes a local is accounted for.
<1>TwoMadeNet.
    ASSUME Core, NEW c \in Clients, NEW g, HeapOK(g), HeapOK(heap'), NEW x, x.count \in Nat,
           NEW oy \in Seq(Cells), NEW l \in Seq(Cells), TwoMade(c, x, oy, l),
           NetMade(g, heap', oy, Len(heap) + 2), NetFirst(g, x)
    PROVE  LocalsMove(c, l)
  <2> USE <1>TwoMadeNet
  <2> SUFFICES ASSUME NEW q \in Cells
      PROVE Net(heap', q) + Occurrences(call[c].locals, q) = Net(heap, q) + Occurrences(l, q)
    BY DEF LocalsMove
  <2> DEFINE a == Net(heap', q)
             d == Net(heap, q)
             b == IF q = Len(heap) + 1 THEN x.count ELSE 0
             o == One(Len(heap) + 2, q)
             w == Occurrences(oy, q)
             k == Occurrences(call[c].locals, q)
             m == Occurrences(l, q)
  <2>1. b + (o + k) = w + m /\ a + w = (d + b) + o
    BY DEF TwoMade, NetMade, NetFirst
  <2>2. a \in Int /\ d \in Int
    BY CoreFacts, HeapFacts, NetType
  <2>3. w \in Nat /\ k \in Nat /\ m \in Nat
    BY CoreFacts, OccType
  <2>4. b \in Nat /\ o \in Nat
    BY SMT DEF One
  <2> HIDE DEF a, d, b, o, w, k, m
  <2>5. a + k = d + m
    BY ONLY <2>1, <2>2, <2>3, <2>4, SMTT(30)
  <2> QED BY <2>5 DEF a, d, k, m
\* A step that makes two objects, the second owning the first.
<1>TwoObjectsStep.
    ASSUME Core, NEW c \in Clients, NEW op \in Constructors, NEW n \in 2 .. 3,
           NEW x \in CellType, Sound(heap, x), x.lost = 0, x.own = <<>>, x.kind \notin Private,
           NEW ky \in Plain, NEW oy, OwnsNew(Len(heap) + 1, oy), NEW ny \in SUBSET Cells,
           NEW l \in Seq(Cells), Len(l) = LocalsAt(op, n + 1),
           \A i \in DOMAIN l : l[i] = Len(heap) + 2 \/ Ownable(heap, l[i]),
           TwoMade(c, x, oy, l), Step(c, op, n, heap, <<x, Cell(ky, oy, ny)>>, l)
    PROVE  Core'
  <2> USE <1>TwoObjectsStep
  <2> DEFINE p == Len(heap) + 1
             r == Len(heap) + 2
             y == Cell(ky, oy, ny)
             g == Append(heap, x)
  <2>1. /\ HeapOK(heap) /\ Len(heap) \in Nat /\ MaxCells \in Nat /\ heap \in Seq(CellType)
    BY CoreFacts, HeapFacts, FixedCells
  <2>2. y.count = 1 /\ y.lost = 0 /\ y.own = oy /\ y.kind = ky
    BY DEF Cell
  <2>3. oy \in Seq(Cells) /\ oy # <<>> /\ \A i \in DOMAIN oy : oy[i] = p \/ Ownable(heap, oy[i])
    BY DEF OwnsNew
  <2>4. /\ ky \in Kinds /\ ky # "device" /\ ky \notin {"buffer", "semaphore", "fence", "view", "list"}
        /\ ky \notin {"fence", "list"} /\ ky \notin Private /\ ky # "mapped_range"
    BY ONLY ky \in Plain, SMTT(30) DEF Plain, Kinds, Private
  <2>5. y \in CellType
    BY <2>3, <2>4, CellNew, SMT
  <2>6. Len(heap) + Len(<<x, y>>) <= MaxCells /\ heap' = heap \o <<x, y>> /\ At(c, op, n)
    BY DEF Step
  <2>7. Len(heap) < MaxCells /\ p < MaxCells /\ p + 1 = r /\ p \in Nat
    <3>1. Len(<<x, y>>) = 2
      BY ONLY SMT
    <3>2. Len(heap) + 2 <= MaxCells
      BY <2>6, <3>1
    <3> QED BY ONLY <2>1, <3>2, SMT DEF p, r
  <2>8. heap' = Append(g, y)
    BY <2>1, <2>5, <2>6, ConcatCells
  <2>9. Extended(heap, g, p) /\ Len(g) = p /\ p \in 4 .. MaxCells /\ p \in Cells /\ g[p] = x
    BY <2>1, <2>7, AppendExtends
  <2> HIDE DEF g, p, r, y
  <2>10. HeapOK(g) /\ KindsKept(heap, g) /\ NetAdded(heap, g, p)
    BY <2>1, <2>9, AddCell
  <2>11. Ownable(g, p)
    BY <2>9 DEF Ownable, Extended
  <2>12. \A i \in DOMAIN oy : Ownable(g, oy[i])
    <3>1. \A o : Ownable(heap, o) => Ownable(g, o)
      BY <2>10 DEF Ownable, KindsKept
    <3> QED BY <2>3, <2>11, <3>1
  <2>13. Sound(g, y)
    BY <2>3, <2>4, <2>12, CellSound DEF y
  <2>14. Len(g) < MaxCells /\ Len(g) + 1 = r
    BY <2>7, <2>9
  <2>15. Created(g, y, heap')
    BY <2>2, <2>5, <2>8, <2>10, <2>13, <2>14, Creation
  <2>16. /\ HeapOK(heap') /\ KindsKept(g, heap') /\ r \in DOMAIN heap' /\ heap'[r] = y
         /\ NetMade(g, heap', oy, r)
    BY <2>2, <2>14, <2>15 DEF Created, NetMade
  <2>17. KindsKept(heap, heap')
    BY <2>10, <2>16, KindsKeptTwice
  <2>18. NextLocals(heap', op, n, l)
    <3>1. Ownable(heap', r)
      BY <2>2, <2>4, <2>16 DEF Ownable
    <3>2. \A o : Ownable(heap, o) => Ownable(heap', o)
      BY <2>17 DEF Ownable, KindsKept
    <3>3. \A i \in DOMAIN l : Ownable(heap', l[i])
      BY <3>1, <3>2 DEF r
    <3>4. n \in 1 .. 3 /\ n # 1
      BY SMT
    <3> QED BY <3>3, <3>4 DEF NextLocals
  <2>19. x.count \in Nat
    BY CellFields
  <2>20. ASSUME NEW q \in Cells PROVE Net(g, q) = Net(heap, q) + (IF q = p THEN x.count ELSE 0)
    <3>1. Net(g, q) = Net(heap, q) + (IF q = p THEN x.count - 0 ELSE 0) - 0
      <4>1. Occurrences(g[p].own, q) = 0
        BY <2>9, OccEmpty
      <4> QED BY <2>9, <2>10, <4>1 DEF NetAdded
    <3> DEFINE d == Net(heap, q)
               b == IF q = p THEN x.count - 0 ELSE 0
    <3>2. d \in Int
      BY <2>1, HeapFacts, NetType
    <3>3. b = (IF q = p THEN x.count ELSE 0) /\ b \in Nat
      BY ONLY <2>19, SMTT(30) DEF b
    <3> HIDE DEF d, b
    <3>4. d + b - 0 = d + b
      BY <3>2, <3>3, SMT
    <3> QED BY <3>1, <3>3, <3>4 DEF d, b
  <2>21. LocalsMove(c, l)
    <3>1. NetMade(g, heap', oy, Len(heap) + 2) /\ NetFirst(g, x)
      BY <2>16, <2>20 DEF p, r, NetFirst
    <3> QED BY <2>3, <2>10, <2>16, <2>19, <3>1, <1>TwoMadeNet
  <2> DEFINE made == <<x, y>>
  <2>22. Step(c, op, n, heap, made, l)
    BY DEF y
  <2>23. Core /\ c \in Clients /\ op \in Constructors
    OBVIOUS
  <2> HIDE DEF made
  <2> QED BY ONLY <2>16, <2>17, <2>18, <2>21, <2>22, <2>23, <1>ConstructorStep, ZenonT(30)
\* Lists of one, two and three locals.
<1>ShortLists.
    ASSUME NEW s \in Seq(Cells)
    PROVE  /\ Len(s) = 1 => s = <<s[1]>> /\ DOMAIN s = {1}
           /\ Len(s) = 2 => s = <<s[1], s[2]>> /\ DOMAIN s = {1, 2}
           /\ Len(s) = 3 => s = <<s[1], s[2], s[3]>> /\ DOMAIN s = {1, 2, 3}
  <2> USE <1>ShortLists
  <2>1. DOMAIN s = 1 .. Len(s) /\ \A i \in DOMAIN s : s[i] \in Cells
    BY SMT
  <2>2. ASSUME Len(s) = 1 PROVE s = <<s[1]>> /\ DOMAIN s = {1}
    <3>1. DOMAIN s = {1}
      BY <2>1, <2>2, SMT
    <3>2. <<s[1]>> \in Seq(Cells) /\ Len(<<s[1]>>) = 1 /\ <<s[1]>>[1] = s[1] /\ \A j \in 1 .. 1 : j = 1
      BY <2>1, <3>1, SMT
    <3> QED BY <2>2, <3>1, <3>2, SameList, SMTT(30)
  <2>3. ASSUME Len(s) = 2 PROVE s = <<s[1], s[2]>> /\ DOMAIN s = {1, 2}
    <3>1. DOMAIN s = {1, 2}
      BY <2>1, <2>3, SMT
    <3>2. /\ <<s[1], s[2]>> \in Seq(Cells) /\ Len(<<s[1], s[2]>>) = 2 /\ <<s[1], s[2]>>[1] = s[1]
          /\ <<s[1], s[2]>>[2] = s[2] /\ \A j \in 1 .. 2 : j = 1 \/ j = 2
      BY <2>1, <3>1, SMT
    <3> QED BY <2>3, <3>1, <3>2, SameList, SMTT(30)
  <2>4. ASSUME Len(s) = 3 PROVE s = <<s[1], s[2], s[3]>> /\ DOMAIN s = {1, 2, 3}
    <3>1. DOMAIN s = {1, 2, 3}
      BY <2>1, <2>4, SMT
    <3> DEFINE t == <<s[1], s[2], s[3]>>
    <3>2. /\ t \in Seq(Cells) /\ Len(t) = 3 /\ t[1] = s[1]
          /\ t[2] = s[2] /\ t[3] = s[3] /\ \A j \in 1 .. 3 : j = 1 \/ j = 2 \/ j = 3
      <4>1. ASSUME NEW a \in Cells, NEW b \in Cells, NEW d \in Cells
            PROVE  /\ <<a, b, d>> \in Seq(Cells) /\ Len(<<a, b, d>>) = 3
                   /\ <<a, b, d>>[1] = a /\ <<a, b, d>>[2] = b /\ <<a, b, d>>[3] = d
        BY SMT
      <4>2. s[1] \in Cells /\ s[2] \in Cells /\ s[3] \in Cells
        <5>1. 1 \in DOMAIN s /\ 2 \in DOMAIN s /\ 3 \in DOMAIN s
          BY <3>1
        <5> QED BY <2>1, <5>1
      <4>3. \A j \in 1 .. 3 : j = 1 \/ j = 2 \/ j = 3
        BY SMT
      <4> QED BY <4>1, <4>2, <4>3
    <3> HIDE DEF t
    <3>3. \A j \in 1 .. 3 : s[j] = t[j]
      BY <3>2
    <3>4. s = t
      BY <2>4, <3>2, <3>3, SameList, SMTT(30)
    <3> QED BY <3>1, <3>4 DEF t
  <2> QED BY <2>2, <2>3, <2>4
\* The last step of a constructor.
<1>FinishStep.
    ASSUME Core, NEW c \in Clients, NEW op \in Constructors, NEW n,
           NEW kind \in {"buffer", "module", "executable"}, NEW own \in Seq(Cells), own # <<>>,
           \A i \in DOMAIN own : Ownable(heap, own[i]), NEW spare \in Seq(Cells),
           Finishes(c, own, spare), Finish(c, op, n, <<Device>>, kind, own, spare)
    PROVE  Core'
  <2> USE <1>FinishStep
  <2> DEFINE s == <<Device>>
  <2>1. /\ At(c, op, n) /\ New <= MaxCells /\ heap' = Append(Retained(s), Cell(kind, own, {}))
        /\ refs' = [refs EXCEPT ![c][New] = 1] /\ todo' = [todo EXCEPT ![c] = spare]
        /\ call' = [call EXCEPT ![c] = NoCall] /\ up' = up /\ crashed' = crashed
    BY DEF Finish
  <2>2. todo[c] = <<>> /\ refs[c][Device] > 0 /\ call[c].locals \in Seq(Cells)
    BY <2>1, <1>AtFacts
  <2>3. Retainable(heap, Device) /\ Device \in Cells
    BY <2>2, DeviceHeld, FixedCells
  <2>4. s \in Seq(Cells) /\ \A i \in DOMAIN s : Retainable(heap, s[i])
    BY <2>3, OneElement
  <2>5. /\ todo' \in [Clients -> Seq(Cells)] /\ todo'[c] = spare
        /\ call' \in [Clients -> CallType] /\ call'[c] = NoCall
        /\ \A d \in Clients : d # c => call'[d] = call[d] /\ todo'[d] = todo[d]
    BY <2>1, NoCallType, CoreFacts
  <2>6. ASSUME NEW q \in Cells
        PROVE  Occurrences(s, q) + (Occurrences(call[c].locals, q) + Occurrences(todo[c], q))
                 = Occurrences(own, q) + Occurrences(todo'[c], q)
    <3>1. /\ Occurrences(s, q) = One(Device, q) /\ Occurrences(todo[c], q) = 0
          /\ One(Device, q) + Occurrences(call[c].locals, q) = Occurrences(own, q) + Occurrences(todo'[c], q)
      BY <2>2, <2>5, OccOne, OccEmpty DEF Finishes
    <3>2. Occurrences(call[c].locals, q) \in Nat
      BY <2>2, OccType
    <3>3. Occurrences(call[c].locals, q) + 0 = Occurrences(call[c].locals, q)
      BY <3>2, SMT
    <3> QED BY <3>1, <3>3
  <2>7. Returns(c, s, own)
    BY <2>6 DEF Returns
  <2>8. kind \in {"buffer", "module", "function", "executable"}
    BY SMT
  <2> HIDE DEF s
  <2> QED BY <2>1, <2>4, <2>5, <2>7, <2>8, ReturnStep
\* A constructor's handle is sound: what it owns are the device and locals.
<1>DeviceOwnable.
    ASSUME Core
    PROVE  Ownable(heap, Device) /\ Ownable(heap, HalAllocator) /\ Ownable(heap, HalDeviceGroup)
  <2> USE <1>DeviceOwnable
  <2>1. /\ heap[Device].kind = "device" /\ heap[HalAllocator].kind = "hal_allocator"
        /\ heap[HalDeviceGroup].kind = "hal_device_group"
        /\ Device \in DOMAIN heap /\ HalAllocator \in DOMAIN heap /\ HalDeviceGroup \in DOMAIN heap
    BY CoreFacts, HeapFacts DEF HeapOK, HeapSound
  <2> QED BY <2>1, SMT DEF Ownable, Private
\* A list of three, and of four, of which each may be owned.
<1>OwnThree.
    ASSUME NEW a \in Cells, NEW b \in Cells, NEW d \in Cells,
           Ownable(heap, a), Ownable(heap, b), Ownable(heap, d)
    PROVE  /\ <<a, b, d>> \in Seq(Cells) /\ <<a, b, d>> # <<>>
           /\ \A i \in DOMAIN <<a, b, d>> : Ownable(heap, <<a, b, d>>[i])
  <2> USE <1>OwnThree
  <2> DEFINE t == <<a, b, d>>
  <2>1. t \in Seq(Cells) /\ t # <<>> /\ \A i \in DOMAIN t : t[i] = a \/ t[i] = b \/ t[i] = d
    BY SMT
  <2> HIDE DEF t
  <2>2. t \in Seq(Cells) /\ t # <<>> /\ \A i \in DOMAIN t : Ownable(heap, t[i])
    BY <2>1
  <2> QED BY <2>2 DEF t
\* Four fields that may be owned.
<1>OwnFour.
    ASSUME NEW a \in Cells, NEW b \in Cells, NEW d \in Cells, NEW e \in Cells,
           Ownable(heap, a), Ownable(heap, b), Ownable(heap, d), Ownable(heap, e)
    PROVE  /\ <<a, b, d, e>> \in Seq(Cells) /\ <<a, b, d, e>> # <<>>
           /\ \A i \in DOMAIN <<a, b, d, e>> : Ownable(heap, <<a, b, d, e>>[i])
  <2> USE <1>OwnFour
  <2> DEFINE t == <<a, b, d, e>>
  <2>1. t \in Seq(Cells) /\ t # <<>> /\ \A i \in DOMAIN t : t[i] = a \/ t[i] = b \/ t[i] = d \/ t[i] = e
    BY SMT
  <2> HIDE DEF t
  <2>2. t \in Seq(Cells) /\ t # <<>> /\ \A i \in DOMAIN t : Ownable(heap, t[i])
    BY <2>1
  <2> QED BY <2>2 DEF t
\* Two locals end in a handle, with the device.
<1>FinishTwo.
    ASSUME Core, NEW c \in Clients, NEW op \in Constructors, NEW n, LocalsAt(op, n) = 2,
           NEW kind \in {"buffer", "module", "executable"},
           NEW own, own = <<call[c].locals[2], call[c].locals[1], Device>>,
           Finish(c, op, n, <<Device>>, kind, own, <<>>)
    PROVE  Core'
  <2> USE <1>FinishTwo
  <2> DEFINE l == call[c].locals
             a == l[1]
             b == l[2]
  <2>1. At(c, op, n)
    BY DEF Finish
  <2>2. /\ l \in Seq(Cells) /\ Len(l) = 2 /\ \A i \in DOMAIN l : l[i] \in Cells /\ Ownable(heap, l[i])
    BY <2>1, <1>AtFacts
  <2>3. l = <<a, b>> /\ 1 \in DOMAIN l /\ 2 \in DOMAIN l
    <3> HIDE DEF l
    <3>1. l = <<a, b>> /\ DOMAIN l = {1, 2}
      BY <2>2, <1>ShortLists
    <3> QED BY <3>1, SMT
  <2>4. a \in Cells /\ Ownable(heap, a) /\ b \in Cells /\ Ownable(heap, b)
    BY <2>2, <2>3
  <2>5. Device \in Cells /\ Ownable(heap, Device) /\ <<>> \in Seq(Cells)
    BY FixedCells, <1>DeviceOwnable
  <2> HIDE DEF a, b
  <2>6. /\ <<b, a, Device>> \in Seq(Cells) /\ <<b, a, Device>> # <<>>
        /\ \A i \in DOMAIN <<b, a, Device>> : Ownable(heap, <<b, a, Device>>[i])
    BY <2>4, <2>5, <1>OwnThree, SMTT(30)
  <2>7. own = <<b, a, Device>>
    BY DEF a, b
  <2>8. Finishes(c, own, <<>>)
    <3> SUFFICES ASSUME NEW q \in Cells
                 PROVE  One(Device, q) + Occurrences(l, q) = Occurrences(own, q) + Occurrences(<<>>, q)
      BY DEF Finishes
    <3>1. /\ Occurrences(l, q) = One(a, q) + One(b, q) /\ Occurrences(<<>>, q) = 0
          /\ Occurrences(own, q) = One(b, q) + (One(a, q) + One(Device, q))
      <4>1. Occurrences(<<a, b>>, q) = One(a, q) + One(b, q)
        BY OccTwo
      <4>3. Occurrences(<<b, a, Device>>, q) = One(b, q) + (One(a, q) + One(Device, q))
        BY OccThree, SMT
      <4>2. l = <<a, b>>
        BY <2>3
      <4> HIDE DEF l
      <4> QED BY <2>7, <4>1, <4>2, <4>3, OccEmpty
    <3>2. One(a, q) \in Nat /\ One(b, q) \in Nat /\ One(Device, q) \in Nat
      BY SMT DEF One
    <3>3. One(Device, q) + (One(a, q) + One(b, q)) = (One(b, q) + (One(a, q) + One(Device, q))) + 0
      BY <3>2, SMT
    <3> QED BY <3>1, <3>3
  <2>9. own \in Seq(Cells) /\ own # <<>> /\ \A i \in DOMAIN own : Ownable(heap, own[i])
    BY <2>6, <2>7
  <2> QED BY <2>5, <2>8, <2>9, <1>FinishStep
\* Three locals end in a handle, with the device; or two do and the first is released.
<1>FinishThree.
    ASSUME Core, NEW c \in Clients, NEW op \in Constructors, NEW n, LocalsAt(op, n) = 3,
           NEW kind \in {"buffer", "module", "executable"}, NEW own, NEW spare,
           \/ /\ own = <<call[c].locals[3], call[c].locals[2], call[c].locals[1], Device>>
              /\ spare = <<>>
           \/ /\ own = <<call[c].locals[3], call[c].locals[2], Device>>
              /\ spare = <<call[c].locals[1]>>,
           Finish(c, op, n, <<Device>>, kind, own, spare)
    PROVE  Core'
  <2> USE <1>FinishThree
  <2> DEFINE l == call[c].locals
             a == l[1]
             b == l[2]
             d == l[3]
  <2>1. At(c, op, n)
    BY DEF Finish
  <2>2. /\ l \in Seq(Cells) /\ Len(l) = 3 /\ \A i \in DOMAIN l : l[i] \in Cells /\ Ownable(heap, l[i])
    BY <2>1, <1>AtFacts
  <2>3. l = <<a, b, d>> /\ 1 \in DOMAIN l /\ 2 \in DOMAIN l /\ 3 \in DOMAIN l
    <3> HIDE DEF l
    <3>1. l = <<a, b, d>> /\ DOMAIN l = {1, 2, 3}
      BY <2>2, <1>ShortLists
    <3> QED BY <3>1, SMT
  <2>4. /\ a \in Cells /\ Ownable(heap, a) /\ b \in Cells /\ Ownable(heap, b)
        /\ d \in Cells /\ Ownable(heap, d)
    BY <2>2, <2>3
  <2>5. Device \in Cells /\ Ownable(heap, Device) /\ <<>> \in Seq(Cells)
    BY FixedCells, <1>DeviceOwnable
  <2>6. \/ own = <<d, b, a, Device>> /\ spare = <<>>
        \/ own = <<d, b, Device>> /\ spare = <<a>>
    OBVIOUS
  <2> HIDE DEF a, b, d
  <2>7. ASSUME NEW q \in Cells
        PROVE  /\ Occurrences(l, q) = One(a, q) + (One(b, q) + One(d, q))
               /\ One(a, q) \in Nat /\ One(b, q) \in Nat /\ One(d, q) \in Nat /\ One(Device, q) \in Nat
    <3>1. Occurrences(<<a, b, d>>, q) = One(a, q) + (One(b, q) + One(d, q))
      BY OccThree, SMTT(30)
    <3>2. One(a, q) \in Nat /\ One(b, q) \in Nat /\ One(d, q) \in Nat /\ One(Device, q) \in Nat
      BY SMT DEF One
    <3>3. l = <<a, b, d>>
      BY <2>3
    <3> HIDE DEF l
    <3> QED BY <3>1, <3>2, <3>3
  <2>8. CASE own = <<d, b, a, Device>> /\ spare = <<>>
    <3>1. own \in Seq(Cells) /\ own # <<>> /\ \A i \in DOMAIN own : Ownable(heap, own[i])
      <4>1. /\ <<d, b, a, Device>> \in Seq(Cells) /\ <<d, b, a, Device>> # <<>>
            /\ \A i \in DOMAIN <<d, b, a, Device>> : Ownable(heap, <<d, b, a, Device>>[i])
        BY <2>4, <2>5, <1>OwnFour, SMTT(30)
      <4> QED BY <2>8, <4>1
    <3>2. Finishes(c, own, spare)
      <4> SUFFICES ASSUME NEW q \in Cells
                   PROVE  One(Device, q) + Occurrences(l, q) = Occurrences(own, q) + Occurrences(spare, q)
        BY DEF Finishes
      <4>1. Occurrences(<<d, b, a, Device>>, q) = One(d, q) + (One(b, q) + (One(a, q) + One(Device, q)))
        BY ONLY <1>OccFour, SMTT(30)
      <4>2. One(Device, q) + (One(a, q) + (One(b, q) + One(d, q)))
              = (One(d, q) + (One(b, q) + (One(a, q) + One(Device, q)))) + 0
        BY <2>7, SMT
      <4>3. Occurrences(<<>>, q) = 0
        BY OccEmpty
      <4> QED BY <2>7, <2>8, <4>1, <4>2, <4>3
    <3>3. spare \in Seq(Cells)
      BY <2>5, <2>8
    <3> QED BY <3>1, <3>2, <3>3, <1>FinishStep
  <2>9. CASE own = <<d, b, Device>> /\ spare = <<a>>
    <3>1. own \in Seq(Cells) /\ own # <<>> /\ \A i \in DOMAIN own : Ownable(heap, own[i])
      <4>1. /\ <<d, b, Device>> \in Seq(Cells) /\ <<d, b, Device>> # <<>>
            /\ \A i \in DOMAIN <<d, b, Device>> : Ownable(heap, <<d, b, Device>>[i])
        BY <2>4, <2>5, <1>OwnThree, SMTT(30)
      <4> QED BY <2>9, <4>1
    <3>2. Finishes(c, own, spare)
      <4> SUFFICES ASSUME NEW q \in Cells
                   PROVE  One(Device, q) + Occurrences(l, q) = Occurrences(own, q) + Occurrences(spare, q)
        BY DEF Finishes
      <4>1. Occurrences(<<d, b, Device>>, q) = One(d, q) + (One(b, q) + One(Device, q))
        BY ONLY Counting, OccThree, SMTT(30)
      <4>2. One(Device, q) + (One(a, q) + (One(b, q) + One(d, q)))
              = (One(d, q) + (One(b, q) + One(Device, q))) + One(a, q)
        BY <2>7, SMT
      <4>3. Occurrences(<<a>>, q) = One(a, q)
        BY OccOne
      <4> QED BY <2>7, <2>9, <4>1, <4>2, <4>3
    <3>3. spare \in Seq(Cells)
      BY ONLY <2>4, <2>9, OneElement, ZenonT(30)
    <3> QED BY <3>1, <3>2, <3>3, <1>FinishStep
  <2> QED BY <2>6, <2>8, <2>9
\* The second step of exact_pool_create: the notification and the pool.
<1>PoolMakeStep.
    ASSUME Core, NEW c \in Clients, NEW op, op = "hrx_buffer_allocate",
           Step(c, op, 2, heap, << Cell("notification", <<>>, {}),
                                   Cell("hal_pool", <<New, HalAllocator>>, {HalDevice}) >>, <<New + 1>>)
    PROVE  Core'
  <2> USE <1>PoolMakeStep
  <2> DEFINE p == Len(heap) + 1
             r == Len(heap) + 2
             x == Cell("notification", <<>>, {})
             oy == <<p, HalAllocator>>
             l == <<r>>
  <2>1. op \in Constructors /\ LocalsAt(op, 2 + 1) = 1 /\ 2 \in 2 .. 3
    BY SMT DEF Constructors, LocalsAt
  <2>2. /\ Len(heap) \in Nat /\ MaxCells \in Nat /\ HalAllocator \in Cells /\ HalDevice \in Cells
        /\ <<>> \in Seq(Cells) /\ Ownable(heap, HalAllocator)
    BY CoreFacts, HeapFacts, FixedCells, <1>DeviceOwnable
  <2>3. New = p /\ New + 1 = r
    BY <2>2, SMT DEF New
  <2>4. Step(c, op, 2, heap, <<x, Cell("hal_pool", oy, {HalDevice})>>, l)
    BY <2>3
  <2>5. Len(heap) + Len(<<x, Cell("hal_pool", oy, {HalDevice})>>) <= MaxCells /\ At(c, op, 2)
    BY <2>4 DEF Step
  <2>6. p \in Cells /\ r \in Cells
    <3>1. Len(<<x, Cell("hal_pool", oy, {HalDevice})>>) = 2
      BY SMT
    <3> QED BY <2>2, <2>5, <3>1, SMTT(30) DEF Cells
  <2>7. call[c].locals = <<HalAllocator>>
    BY <2>1, <2>5, <1>AtFacts
  <2>8. x.count = 1 /\ x.lost = 0 /\ x.own = <<>> /\ x.kind = "notification"
    BY DEF Cell
  <2>9. x \in CellType /\ Sound(heap, x) /\ x.kind \notin Private
    <3>1. /\ "notification" \in Kinds /\ {} \in SUBSET Cells /\ DOMAIN <<>> = {}
      BY SMT DEF Kinds
    <3>2. x \in CellType /\ Sound(heap, x)
      BY <2>2, <3>1, CellSound
    <3> HIDE DEF x
    <3>3. x.kind \notin Private
      BY <2>8, SMT DEF Private
    <3> QED BY <3>2, <3>3
  <2> HIDE DEF x, p, r
  <2>10. OwnsNew(Len(heap) + 1, oy)
    <3>1. oy \in Seq(Cells) /\ oy # <<>> /\ \A i \in DOMAIN oy : oy[i] = p \/ oy[i] = HalAllocator
      BY <2>2, <2>6, SMT
    <3> HIDE DEF oy
    <3> QED BY <2>2, <3>1 DEF OwnsNew, p
  <2>11. l \in Seq(Cells) /\ Len(l) = 1 /\ \A i \in DOMAIN l : l[i] = r
    BY <2>6, SMT
  <2>12. TwoMade(c, x, oy, l)
    <3> SUFFICES ASSUME NEW q \in Cells
        PROVE  (IF q = p THEN x.count ELSE 0) + (One(r, q) + Occurrences(call[c].locals, q))
                 = Occurrences(oy, q) + Occurrences(l, q)
      BY DEF TwoMade, p, r
    <3>1. (IF q = p THEN x.count ELSE 0) = One(p, q)
      BY <2>8, SMT DEF One
    <3>2. One(p, q) \in Nat /\ One(r, q) \in Nat /\ One(HalAllocator, q) \in Nat
      BY SMT DEF One
    <3>3. Occurrences(call[c].locals, q) = One(HalAllocator, q) /\ Occurrences(l, q) = One(r, q)
      BY <2>7, OccOne
    <3>4. Occurrences(oy, q) = One(p, q) + One(HalAllocator, q)
      BY OccTwo
    <3>5. One(p, q) + (One(r, q) + One(HalAllocator, q)) = (One(p, q) + One(HalAllocator, q)) + One(r, q)
      BY <3>2, SMT
    <3> QED BY <3>1, <3>3, <3>4, <3>5
  <2>13. "hal_pool" \in Plain /\ {HalDevice} \in SUBSET Cells
    BY <2>2, SMT DEF Plain
  <2> HIDE DEF oy, l
  <2>14. \A i \in DOMAIN l : l[i] = Len(heap) + 2 \/ Ownable(heap, l[i])
    BY <2>11 DEF r
  <2>15. Len(l) = LocalsAt(op, 2 + 1)
    BY <2>1, <2>11
  <2> DEFINE ky == "hal_pool"
             ny == {HalDevice}
  <2>16. Core /\ c \in Clients /\ Step(c, op, 2, heap, <<x, Cell(ky, oy, ny)>>, l)
    BY <2>4 DEF oy, l
  <2>17. ky \in Plain /\ ny \in SUBSET Cells
    BY <2>13
  <2> HIDE DEF ky, ny
  <2> QED BY ONLY <2>1, <2>8, <2>9, <2>10, <2>11, <2>12, <2>14, <2>15, <2>16, <2>17, <1>TwoObjectsStep,
               ZenonT(30)
\* queue_alloca, when the block of the reservation stays under a buffer of the device.
<1>ReservedStep.
    ASSUME Core, NEW c \in Clients, NEW op, op = "hrx_buffer_allocate", NEW pool, pool = call[c].locals[1],
           Step(c, op, 3, heap,
                << [Cell("reserved_block", <<>>, {HalDevice, pool}) EXCEPT !.count = 2],
                   Cell("hal_buffer", <<New, New>>, {HalDevice, pool}) >>, <<pool, New + 1>>)
    PROVE  Core'
  <2> USE <1>ReservedStep
  <2> DEFINE p == Len(heap) + 1
             r == Len(heap) + 2
             x == [Cell("reserved_block", <<>>, {HalDevice, pool}) EXCEPT !.count = 2]
             oy == <<p, p>>
             l == <<pool, r>>
  <2>1. op \in Constructors /\ LocalsAt(op, 3 + 1) = 2 /\ LocalsAt(op, 3) = 1 /\ 3 \in 2 .. 3
    BY SMT DEF Constructors, LocalsAt
  <2>2. /\ Len(heap) \in Nat /\ MaxCells \in Nat /\ HalDevice \in Cells /\ <<>> \in Seq(Cells)
    BY CoreFacts, HeapFacts, FixedCells
  <2>3. New = p /\ New + 1 = r
    BY <2>2, SMT DEF New
  <2>4. Step(c, op, 3, heap, <<x, Cell("hal_buffer", oy, {HalDevice, pool})>>, l)
    BY <2>3
  <2>5. Len(heap) + Len(<<x, Cell("hal_buffer", oy, {HalDevice, pool})>>) <= MaxCells /\ At(c, op, 3)
    BY <2>4 DEF Step
  <2>6. p \in Cells /\ r \in Cells
    <3>1. Len(<<x, Cell("hal_buffer", oy, {HalDevice, pool})>>) = 2
      BY SMT
    <3> QED BY <2>2, <2>5, <3>1, SMTT(30) DEF Cells
  <2>7. /\ call[c].locals \in Seq(Cells) /\ Len(call[c].locals) = 1
        /\ \A i \in DOMAIN call[c].locals : call[c].locals[i] \in Cells /\ Ownable(heap, call[c].locals[i])
    <3>1. /\ call[c].locals \in Seq(Cells) /\ Len(call[c].locals) = LocalsAt(op, 3)
          /\ \A i \in DOMAIN call[c].locals : call[c].locals[i] \in Cells /\ Ownable(heap, call[c].locals[i])
      BY <2>1, <2>5, <1>AtFacts, SMT
    <3> QED BY <2>1, <3>1
  <2>8. call[c].locals = <<pool>> /\ pool \in Cells /\ Ownable(heap, pool)
    <3>1. call[c].locals = <<call[c].locals[1]>> /\ DOMAIN call[c].locals = {1}
      BY <2>7, <1>ShortLists
    <3> QED BY <2>7, <3>1
  <2>9. /\ x \in CellType /\ x.count = 2 /\ x.lost = 0 /\ x.own = <<>> /\ x.kind = "reserved_block"
        /\ x.ends = 0
    <3> DEFINE z == Cell("reserved_block", <<>>, {HalDevice, pool})
    <3>1. "reserved_block" \in Kinds /\ {HalDevice, pool} \in SUBSET Cells
      BY <2>2, <2>8, SMT DEF Kinds
    <3>2. z \in CellType /\ z.kind = "reserved_block" /\ z.own = <<>> /\ z.count = 1 /\ z.lost = 0 /\ z.ends = 0
      BY <2>2, <3>1, SMT DEF Cell, CellType
    <3> HIDE DEF z
    <3>3. x = [z EXCEPT !.count = 2] /\ 2 \in Nat
      BY DEF z
    <3> QED BY <3>2, <3>3 DEF CellType
  <2> HIDE DEF x, p, r
  <2>10. Sound(heap, x) /\ x.kind \notin Private
    <3>1. /\ DOMAIN x.own = {} /\ x.count > 0 /\ x.kind \notin Private /\ x.kind # "mapped_range"
          /\ x.kind \notin {"buffer", "semaphore", "fence", "view", "list"} /\ x.kind # "device"
          /\ x.kind \notin {"fence", "list"}
      BY <2>9, SMT DEF Private
    <3> QED BY <2>9, <3>1 DEF Sound
  <2>11. OwnsNew(Len(heap) + 1, oy)
    <3>1. oy \in Seq(Cells) /\ oy # <<>> /\ \A i \in DOMAIN oy : oy[i] = p
      BY <2>6, SMT
    <3> HIDE DEF oy
    <3> QED BY <3>1 DEF OwnsNew, p
  <2>12. l \in Seq(Cells) /\ Len(l) = 2 /\ \A i \in DOMAIN l : l[i] = pool \/ l[i] = r
    BY <2>6, <2>8, SMT
  <2>13. TwoMade(c, x, oy, l)
    <3> SUFFICES ASSUME NEW q \in Cells
        PROVE  (IF q = p THEN x.count ELSE 0) + (One(r, q) + Occurrences(call[c].locals, q))
                 = Occurrences(oy, q) + Occurrences(l, q)
      BY DEF TwoMade, p, r
    <3>1. (IF q = p THEN x.count ELSE 0) = One(p, q) + One(p, q)
      BY <2>9, SMT DEF One
    <3>2. One(p, q) \in Nat /\ One(r, q) \in Nat /\ One(pool, q) \in Nat
      BY SMT DEF One
    <3>3. Occurrences(call[c].locals, q) = One(pool, q)
      BY <2>8, OccOne
    <3>4. Occurrences(oy, q) = One(p, q) + One(p, q) /\ Occurrences(l, q) = One(pool, q) + One(r, q)
      BY OccTwo
    <3>5. (One(p, q) + One(p, q)) + (One(r, q) + One(pool, q))
            = (One(p, q) + One(p, q)) + (One(pool, q) + One(r, q))
      BY <3>2, SMT
    <3> QED BY <3>1, <3>3, <3>4, <3>5
  <2>14. "hal_buffer" \in Plain /\ {HalDevice, pool} \in SUBSET Cells
    BY <2>2, <2>8, SMT DEF Plain
  <2> HIDE DEF oy, l
  <2>15. \A i \in DOMAIN l : l[i] = Len(heap) + 2 \/ Ownable(heap, l[i])
    BY <2>8, <2>12 DEF r
  <2>16. Len(l) = LocalsAt(op, 3 + 1)
    BY <2>1, <2>12
  <2> QED BY <2>1, <2>4, <2>9, <2>10, <2>11, <2>12, <2>13, <2>14, <2>15, <2>16, <1>TwoObjectsStep
\* The object of a step that retains nothing.
<1>FreshStep.
    ASSUME Core, NEW c \in Clients, NEW op \in Constructors, NEW n \in 1 .. 3,
           op # "hrx_buffer_allocate" \/ n = 3,
           NEW kind \in Plain, NEW needs \in SUBSET Cells, NEW l, l = Append(call[c].locals, New),
           Step(c, op, n, heap, <<Cell(kind, <<>>, needs)>>, l)
    PROVE  Core'
  <2> USE <1>FreshStep
  <2> DEFINE e == <<>>
  <2>1. More(heap, e, heap) /\ DOMAIN e = {}
    <3>1. DOMAIN e = {}
      BY SMT
    <3> QED BY <3>1, MoreNothing
  <2>2. Step(c, op, n, heap, <<Cell(kind, e, needs)>>, l)
    OBVIOUS
  <2> HIDE DEF e
  <2>3. \A i \in DOMAIN e : Retainable(heap, e[i]) /\ Ownable(heap, e[i])
    BY <2>1
  <2> QED BY <2>1, <2>2, <2>3, <1>ObjectStep
\* The first local, when there is none yet.
<1>FirstLocal.
    ASSUME Core, NEW c \in Clients, NEW op \in Constructors, At(c, op, 1)
    PROVE  <<New>> = Append(call[c].locals, New)
  <2> USE <1>FirstLocal
  <2>1. call[c].locals \in Seq(Cells) /\ Len(call[c].locals) = LocalsAt(op, 1)
    BY <1>AtFacts
  <2>2. LocalsAt(op, 1) = 0
    BY SMT DEF LocalsAt
  <2>3. call[c].locals = <<>>
    BY <2>1, <2>2, SMT
  <2>4. Append(<<>>, New) = <<New>>
    BY SMT
  <2> QED BY <2>3, <2>4
\* Stream-ordered allocation.
<1>BufferAllocateStep.
    ASSUME Core, NEW c \in Clients, hrx_buffer_allocate(c)
    PROVE  Core'
  <2> USE <1>BufferAllocateStep
  <2> DEFINE op == "hrx_buffer_allocate"
             l == call[c].locals
             pool == l[1]
  <2>0. ASSUME NEW n, At(c, op, n)
        PROVE  l \in Seq(Cells) /\ Len(l) = LocalsAt(op, n) /\ \A i \in DOMAIN l : l[i] \in Cells
    <3>1. op \in Constructors
      BY SMT DEF Constructors
    <3> HIDE DEF op
    <3> QED BY <2>0, <3>1, <1>AtFacts
  <2>1. op \in Constructors /\ LocalsAt(op, 3) = 1 /\ LocalsAt(op, 4) = 2 /\ 3 \in 1 .. 3
    BY SMT DEF Constructors, LocalsAt
  <2>2. \/ Enter(c, op) \/ \E n \in 1 .. 4 : Unwind(c, op, n)
        \/ Step(c, op, 1, Retained(<<HalAllocator>>), <<>>, <<HalAllocator>>)
        \/ Step(c, op, 2, heap, << Cell("notification", <<>>, {}),
                                   Cell("hal_pool", <<New, HalAllocator>>, {HalDevice}) >>, <<New + 1>>)
        \/ At(c, op, 3) /\ Step(c, op, 3, heap, << Cell("hal_buffer", <<>>, {HalDevice, pool}) >>, <<pool, New>>)
        \/ Step(c, op, 3, heap, << [Cell("reserved_block", <<>>, {HalDevice, pool}) EXCEPT !.count = 2],
                                   Cell("hal_buffer", <<New, New>>, {HalDevice, pool}) >>, <<pool, New + 1>>)
        \/ At(c, op, 4) /\ Finish(c, op, 4, <<Device>>, "buffer", HrxBufferS(l[2], <<l[1]>>), <<>>)
    <3>1. 1 \in 1 .. 4 /\ 2 \in 1 .. 4 /\ 3 \in 1 .. 4 /\ 4 \in 1 .. 4
      BY SMT
    <3> QED BY <3>1 DEF hrx_buffer_allocate, exact_pool_create, queue_alloca, Locals
  <2>3. CASE Enter(c, op)
    BY <2>1, <2>3, <1>EnterStep
  <2>4. ASSUME NEW n \in 1 .. 4, Unwind(c, op, n) PROVE Core'
    BY <2>1, <2>4, <1>UnwindStep
  <2>5. CASE Step(c, op, 1, Retained(<<HalAllocator>>), <<>>, <<HalAllocator>>)
    BY <2>5, <1>PoolRetainStep, SMT
  <2>6. CASE Step(c, op, 2, heap, << Cell("notification", <<>>, {}),
                                     Cell("hal_pool", <<New, HalAllocator>>, {HalDevice}) >>, <<New + 1>>)
    BY <2>6, <1>PoolMakeStep, SMT
  <2>7. CASE At(c, op, 3) /\ Step(c, op, 3, heap, << Cell("hal_buffer", <<>>, {HalDevice, pool}) >>, <<pool, New>>)
    <3>1. l \in Seq(Cells) /\ Len(l) = 1 /\ \A i \in DOMAIN l : l[i] \in Cells
      BY <2>0, <2>1, <2>7
    <3>2. l = <<pool>> /\ pool \in Cells
      <4> HIDE DEF l
      <4> QED BY <3>1, <1>ShortLists, SMT
    <3>3. ASSUME NEW a \in Nat, NEW b \in Nat PROVE Append(<<a>>, b) = <<a, b>>
      <4>1. /\ Append(<<a>>, b) \in Seq(Nat) /\ <<a, b>> \in Seq(Nat)
            /\ Len(Append(<<a>>, b)) = Len(<<a, b>>)
            /\ \A j \in 1 .. Len(Append(<<a>>, b)) : Append(<<a>>, b)[j] = <<a, b>>[j]
        BY SMT
      <4> QED BY <4>1, SameList
    <3>4. <<pool, New>> = Append(l, New)
      <4> HIDE DEF l
      <4>1. Append(<<pool>>, New) = <<pool, New>>
        <5>1. Len(heap) \in Nat
          BY CoreFacts, HeapFacts
        <5>2. pool \in Nat /\ New \in Nat
          BY <3>2, <5>1, SMT DEF Cells, New
        <5> QED BY <3>3, <5>2
      <4> QED BY <3>2, <4>1
    <3>5. "hal_buffer" \in Plain /\ {HalDevice, pool} \in SUBSET Cells
      <4>1. "hal_buffer" \in Plain
        BY SMT DEF Plain
      <4>2. HalDevice \in Cells
        BY FixedCells
      <4> QED BY <3>2, <4>1, <4>2
    <3>6. Step(c, op, 3, heap, << Cell("hal_buffer", <<>>, {HalDevice, pool}) >>, <<pool, New>>)
      BY <2>7
    <3> QED BY <2>1, <3>4, <3>5, <3>6, <1>FreshStep
  <2>8. CASE Step(c, op, 3, heap, << [Cell("reserved_block", <<>>, {HalDevice, pool}) EXCEPT !.count = 2],
                                     Cell("hal_buffer", <<New, New>>, {HalDevice, pool}) >>, <<pool, New + 1>>)
    BY <2>8, <1>ReservedStep
  <2>9. CASE At(c, op, 4) /\ Finish(c, op, 4, <<Device>>, "buffer", HrxBufferS(l[2], <<l[1]>>), <<>>)
    <3>1. l \in Seq(Cells) /\ Len(l) = 2 /\ \A i \in DOMAIN l : l[i] \in Cells
      BY <2>0, <2>1, <2>9
    <3>2. l[1] \in Nat /\ l[2] \in Nat
      <4> HIDE DEF l
      <4>1. 1 \in DOMAIN l /\ 2 \in DOMAIN l
        BY <3>1, SMT
      <4>2. l[1] \in Cells /\ l[2] \in Cells
        BY <3>1, <4>1
      <4> QED BY <4>2, SMT DEF Cells
    <3>3. HrxBufferS(l[2], <<l[1]>>) = <<l[2], l[1], Device>>
      BY <3>2, BufferFields
    <3>4. "buffer" \in {"buffer", "module", "executable"}
      BY SMT
    <3> DEFINE own == HrxBufferS(l[2], <<l[1]>>)
    <3>5. Core /\ c \in Clients /\ Finish(c, op, 4, <<Device>>, "buffer", own, <<>>)
      BY <2>9
    <3>6. own = <<l[2], l[1], Device>>
      BY <3>3
    <3> HIDE DEF op, own
    <3> QED BY ONLY <2>1, <3>4, <3>5, <3>6, <1>FinishTwo, SMTT(30)
  <2> QED BY <2>2, <2>3, <2>4, <2>5, <2>6, <2>7, <2>8, <2>9
\* The three other constructors: each step makes one object.
<1>ModuleLoadStep.
    ASSUME Core, NEW c \in Clients, hrx_module_load_vmfb(c)
    PROVE  Core'
  <2> USE <1>ModuleLoadStep
  <2> DEFINE op == "hrx_module_load_vmfb"
             l == call[c].locals
  <2>1. /\ op \in Constructors /\ op # "hrx_buffer_allocate" /\ 1 \in 1 .. 3 /\ 2 \in 1 .. 3 /\ 3 \in 1 .. 3
        /\ LocalsAt(op, 3) = 2 /\ LocalsAt(op, 4) = 3
    BY SMT DEF Constructors, LocalsAt
  <2>2. HalDevice \in Cells /\ HalDeviceGroup \in Cells
    BY FixedCells
  <2>3. \/ Enter(c, op) \/ \E n \in 1 .. 3 : Unwind(c, op, n)
        \/ Step(c, op, 1, heap, <<Cell("bytecode_module", <<>>, {})>>, <<New>>)
        \/ Step(c, op, 2, Retained(<<HalDeviceGroup>>),
                <<Cell("hal_module", <<HalDeviceGroup>>, {HalDevice})>>, Append(l, New))
        \/ Step(c, op, 3, Retained(<<l[2], l[1]>>),
                <<Cell("vm_context", <<l[2], l[1]>>, {HalDevice})>>, Append(l, New))
        \/ At(c, op, 4) /\ Finish(c, op, 4, <<Device>>, "module", HrxModuleS(l), <<>>)
    BY DEF hrx_module_load_vmfb, Locals
  <2>4. CASE Enter(c, op)
    BY <2>1, <2>4, <1>EnterStep
  <2>5. ASSUME NEW n \in 1 .. 3, Unwind(c, op, n) PROVE Core'
    BY <2>1, <2>5, <1>UnwindStep
  <2>6. CASE Step(c, op, 1, heap, <<Cell("bytecode_module", <<>>, {})>>, <<New>>)
    <3>1. At(c, op, 1)
      BY <2>6 DEF Step
    <3>2. <<New>> = Append(l, New)
      BY <2>1, <3>1, <1>FirstLocal
    <3>3. "bytecode_module" \in Plain /\ {} \in SUBSET Cells
      BY SMT DEF Plain
    <3> QED BY <2>1, <2>6, <3>2, <3>3, <1>FreshStep
  <2>7. CASE Step(c, op, 2, Retained(<<HalDeviceGroup>>),
                  <<Cell("hal_module", <<HalDeviceGroup>>, {HalDevice})>>, Append(l, New))
    <3> DEFINE s == <<HalDeviceGroup>>
               m == Append(l, New)
    <3>1. At(c, op, 2)
      BY <2>7 DEF Step
    <3>2. refs[c][Device] > 0
      BY <2>1, <3>1, <1>AtFacts, SMT
    <3>3. Retainable(heap, HalDeviceGroup) /\ Ownable(heap, HalDeviceGroup)
      BY <3>2, DeviceHeld, <1>DeviceOwnable
    <3>4. s \in Seq(Cells) /\ \A i \in DOMAIN s : Retainable(heap, s[i]) /\ Ownable(heap, s[i])
      BY <2>2, <3>3, OneElement
    <3>5. More(heap, s, Retained(s))
      BY <3>4, RetainedMore
    <3>6. "hal_module" \in Plain /\ {HalDevice} \in SUBSET Cells
      BY <2>2, SMT DEF Plain
    <3>7. Step(c, op, 2, Retained(s), <<Cell("hal_module", s, {HalDevice})>>, m) /\ m = Append(call[c].locals, New)
      BY <2>7
    <3> HIDE DEF s, m
    <3> QED BY <2>1, <3>4, <3>5, <3>6, <3>7, <1>ObjectStep
  <2>8. CASE Step(c, op, 3, Retained(<<l[2], l[1]>>),
                  <<Cell("vm_context", <<l[2], l[1]>>, {HalDevice})>>, Append(l, New))
    <3> DEFINE s == <<l[2], l[1]>>
               m == Append(l, New)
    <3>1. At(c, op, 3)
      BY <2>8 DEF Step
    <3>2. /\ l \in Seq(Cells) /\ Len(l) = LocalsAt(op, 3)
          /\ \A i \in DOMAIN l : l[i] \in Cells /\ Retainable(heap, l[i]) /\ Ownable(heap, l[i])
      BY <2>1, <3>1, <1>AtFacts, SMTT(30)
    <3>3. 1 \in DOMAIN l /\ 2 \in DOMAIN l
      <4> HIDE DEF l
      <4> QED BY <2>1, <3>2, SMT
    <3>4. s \in Seq(Cells) /\ \A i \in DOMAIN s : Retainable(heap, s[i]) /\ Ownable(heap, s[i])
      <4> DEFINE a == l[2]
                 b == l[1]
      <4>1. /\ a \in Cells /\ Retainable(heap, a) /\ Ownable(heap, a)
            /\ b \in Cells /\ Retainable(heap, b) /\ Ownable(heap, b)
        BY <3>2, <3>3
      <4>2. s = <<a, b>>
        BY SMT
      <4> HIDE DEF a, b, s
      <4>3. <<a, b>> \in Seq(Cells) /\ \A i \in DOMAIN <<a, b>> : <<a, b>>[i] = a \/ <<a, b>>[i] = b
        BY <4>1, TwoElements, SMT
      <4>4. s \in Seq(Cells) /\ \A i \in DOMAIN s : s[i] = a \/ s[i] = b
        BY <4>2, <4>3
      <4> QED BY <4>1, <4>4
    <3>5. More(heap, s, Retained(s))
      BY <3>4, RetainedMore
    <3>6. "vm_context" \in Plain /\ {HalDevice} \in SUBSET Cells
      BY <2>2, SMT DEF Plain
    <3>7. Step(c, op, 3, Retained(s), <<Cell("vm_context", s, {HalDevice})>>, m) /\ m = Append(call[c].locals, New)
      BY <2>8
    <3> HIDE DEF s, m
    <3> QED BY <2>1, <3>4, <3>5, <3>6, <3>7, <1>ObjectStep
  <2>9. CASE At(c, op, 4) /\ Finish(c, op, 4, <<Device>>, "module", HrxModuleS(l), <<>>)
    <3>1. HrxModuleS(l) = <<l[3], l[2], l[1], Device>>
      BY DEF HrxModuleS
    <3>2. "module" \in {"buffer", "module", "executable"}
      BY SMT
    <3> QED BY <2>1, <2>9, <3>1, <3>2, <1>FinishThree, SMTT(30)
  <2> QED BY <2>3, <2>4, <2>5, <2>6, <2>7, <2>8, <2>9
\* hrx_executable_load_data.
<1>ExecutableDataStep.
    ASSUME Core, NEW c \in Clients, hrx_executable_load_data(c)
    PROVE  Core'
  <2> USE <1>ExecutableDataStep
  <2> DEFINE op == "hrx_executable_load_data"
             l == call[c].locals
  <2>1. /\ op \in Constructors /\ op # "hrx_buffer_allocate" /\ 1 \in 1 .. 3 /\ 2 \in 1 .. 3
        /\ LocalsAt(op, 2) = 1 /\ LocalsAt(op, 3) = 2
    BY SMT DEF Constructors, LocalsAt
  <2>2. HalDevice \in Cells
    BY FixedCells
  <2>3. \/ Enter(c, op) \/ \E n \in 1 .. 2 : Unwind(c, op, n)
        \/ Step(c, op, 1, heap, <<Cell("executable_cache", <<>>, {HalDevice})>>, <<New>>)
        \/ Step(c, op, 2, heap, <<Cell("hal_executable", <<>>, {HalDevice, l[1]})>>, Append(l, New))
        \/ Finish(c, op, 3, <<Device>>, "executable", HrxExecutableS(l[1], l[2]), <<>>)
    BY DEF hrx_executable_load_data, Locals
  <2>4. CASE Enter(c, op)
    BY <2>1, <2>4, <1>EnterStep
  <2>5. ASSUME NEW n \in 1 .. 2, Unwind(c, op, n) PROVE Core'
    BY <2>1, <2>5, <1>UnwindStep
  <2>6. CASE Step(c, op, 1, heap, <<Cell("executable_cache", <<>>, {HalDevice})>>, <<New>>)
    <3>1. At(c, op, 1)
      BY <2>6 DEF Step
    <3>2. <<New>> = Append(l, New)
      BY <2>1, <3>1, <1>FirstLocal
    <3>3. "executable_cache" \in Plain /\ {HalDevice} \in SUBSET Cells
      BY <2>2, SMT DEF Plain
    <3> QED BY <2>1, <2>6, <3>2, <3>3, <1>FreshStep
  <2>7. CASE Step(c, op, 2, heap, <<Cell("hal_executable", <<>>, {HalDevice, l[1]})>>, Append(l, New))
    <3>1. At(c, op, 2)
      BY <2>7 DEF Step
    <3>2. l \in Seq(Cells) /\ Len(l) = LocalsAt(op, 2) /\ \A i \in DOMAIN l : l[i] \in Cells
      BY <2>1, <3>1, <1>AtFacts, SMTT(30)
    <3>3. 1 \in DOMAIN l
      <4> HIDE DEF l
      <4> QED BY <2>1, <3>2, SMT
    <3>4. "hal_executable" \in Plain /\ {HalDevice, l[1]} \in SUBSET Cells
      <4>1. "hal_executable" \in Plain
        BY ONLY SMT DEF Plain
      <4> QED BY <2>2, <3>2, <3>3, <4>1
    <3> QED BY <2>1, <2>7, <3>4, <1>FreshStep
  <2>8. CASE Finish(c, op, 3, <<Device>>, "executable", HrxExecutableS(l[1], l[2]), <<>>)
    <3>1. HrxExecutableS(l[1], l[2]) = <<l[2], l[1], Device>>
      BY DEF HrxExecutableS
    <3>2. "executable" \in {"buffer", "module", "executable"}
      BY SMT
    <3> QED BY <2>1, <2>8, <3>1, <3>2, <1>FinishTwo, SMTT(30)
  <2> QED BY <2>3, <2>4, <2>5, <2>6, <2>7, <2>8
\* hrx_executable_load_file.
<1>ExecutableFileStep.
    ASSUME Core, NEW c \in Clients, hrx_executable_load_file(c)
    PROVE  Core'
  <2> USE <1>ExecutableFileStep
  <2> DEFINE op == "hrx_executable_load_file"
             l == call[c].locals
  <2>1. /\ op \in Constructors /\ op # "hrx_buffer_allocate" /\ 1 \in 1 .. 3 /\ 2 \in 1 .. 3 /\ 3 \in 1 .. 3
        /\ LocalsAt(op, 3) = 2 /\ LocalsAt(op, 4) = 3
    BY SMT DEF Constructors, LocalsAt
  <2>2. HalDevice \in Cells
    BY FixedCells
  <2>3. \/ Enter(c, op) \/ \E n \in 1 .. 3 : Unwind(c, op, n)
        \/ Step(c, op, 1, heap, <<Cell("file_data", <<>>, {})>>, <<New>>)
        \/ Step(c, op, 2, heap, <<Cell("executable_cache", <<>>, {HalDevice})>>, Append(l, New))
        \/ Step(c, op, 3, heap, <<Cell("hal_executable", <<>>, {HalDevice, l[2]})>>, Append(l, New))
        \/ Finish(c, op, 4, <<Device>>, "executable", HrxExecutableS(l[2], l[3]), <<l[1]>>)
    BY DEF hrx_executable_load_file, Locals
  <2>4. CASE Enter(c, op)
    BY <2>1, <2>4, <1>EnterStep
  <2>5. ASSUME NEW n \in 1 .. 3, Unwind(c, op, n) PROVE Core'
    BY <2>1, <2>5, <1>UnwindStep
  <2>6. CASE Step(c, op, 1, heap, <<Cell("file_data", <<>>, {})>>, <<New>>)
    <3>1. At(c, op, 1)
      BY <2>6 DEF Step
    <3>2. <<New>> = Append(l, New)
      BY <2>1, <3>1, <1>FirstLocal
    <3>3. "file_data" \in Plain /\ {} \in SUBSET Cells
      BY SMT DEF Plain
    <3> QED BY <2>1, <2>6, <3>2, <3>3, <1>FreshStep
  <2>7. CASE Step(c, op, 2, heap, <<Cell("executable_cache", <<>>, {HalDevice})>>, Append(l, New))
    <3>1. "executable_cache" \in Plain /\ {HalDevice} \in SUBSET Cells
      BY <2>2, SMT DEF Plain
    <3> QED BY <2>1, <2>7, <3>1, <1>FreshStep
  <2>8. CASE Step(c, op, 3, heap, <<Cell("hal_executable", <<>>, {HalDevice, l[2]})>>, Append(l, New))
    <3>1. At(c, op, 3)
      BY <2>8 DEF Step
    <3>2. l \in Seq(Cells) /\ Len(l) = LocalsAt(op, 3) /\ \A i \in DOMAIN l : l[i] \in Cells
      BY <2>1, <3>1, <1>AtFacts, SMTT(30)
    <3>3. 2 \in DOMAIN l
      <4> HIDE DEF l
      <4> QED BY <2>1, <3>2, SMT
    <3>4. "hal_executable" \in Plain /\ {HalDevice, l[2]} \in SUBSET Cells
      <4>1. "hal_executable" \in Plain
        BY SMTT(30) DEF Plain
      <4> QED BY <2>2, <3>2, <3>3, <4>1
    <3> QED BY <2>1, <2>8, <3>4, <1>FreshStep
  <2>9. CASE Finish(c, op, 4, <<Device>>, "executable", HrxExecutableS(l[2], l[3]), <<l[1]>>)
    <3>1. HrxExecutableS(l[2], l[3]) = <<l[3], l[2], Device>>
      BY DEF HrxExecutableS
    <3>2. "executable" \in {"buffer", "module", "executable"}
      BY SMT
    <3> QED BY <2>1, <2>9, <3>1, <3>2, <1>FinishThree, SMTT(30)
  <2> QED BY <2>3, <2>4, <2>5, <2>6, <2>7, <2>8, <2>9
<1> SUFFICES ASSUME Core, NEW c \in Clients,
                    \/ hrx_buffer_allocate(c) \/ hrx_module_load_vmfb(c)
                    \/ hrx_executable_load_data(c) \/ hrx_executable_load_file(c)
             PROVE  Core'
  OBVIOUS
<1> QED BY <1>BufferAllocateStep, <1>ModuleLoadStep, <1>ExecutableDataStep, <1>ExecutableFileStep

=============================================================================
