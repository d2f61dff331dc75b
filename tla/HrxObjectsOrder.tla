-------------------------- MODULE HrxObjectsOrder ---------------------------
(***************************************************************************)
(* The order in which the objects of HrxObjects end: what an object points *)
(* to without owning it is kept by something that is dropped later.        *)
(***************************************************************************)
EXTENDS HrxObjectsInv, TLAPS

\* Zenon proves what needs no arithmetic; the other leaves name SMT.
USE Zenon

(***************************************************************************)
(* What the objects and the calls look like.                               *)
(***************************************************************************)
\* How far an object is from the objects that own nothing: it owns only lower ones.
Rank(kind) ==
    CASE kind \in {"list", "function"} -> 4
      [] kind \in {"view", "fence", "vm_list", "module"} -> 3
      [] kind \in {"semaphore", "buffer", "executable", "vm_context", "hal_buffer_view",
                   "hal_fence"} -> 2
      [] kind \in {"device", "hal_pool", "hal_module", "hal_buffer"} -> 1
      [] OTHER -> 0

\* The kinds that point to an object they own no reference on.
Dependent == {"hal_allocator", "hal_device_group", "hal_semaphore", "hal_buffer",
              "virtual_memory", "mapped_range", "hal_pool", "reserved_block", "hal_module",
              "vm_context", "executable_cache", "hal_executable"}

\* The handles whose fields keep what the others point to.
Anchors == {"device", "semaphore", "buffer", "module", "function", "executable"}

\* A reference on x keeps p alive: that on the device also keeps the HAL device.
Keeps(x, p) == x = p \/ (x = Device /\ p = HalDevice)

\* Object o of heap h may point to others, and no view, list or fence has it.
Strict(h, o) == h[o].kind \in Dependent /\ ~h[o].lent

\* What element i of the references l points to is kept by a later one, or is the HAL
\* device and n other references on the device are held.
Covered(h, l, n, i) ==
    \A p \in h[l[i]].needs :
        \/ \E j \in DOMAIN l : j > i /\ Keeps(l[j], p)
        \/ n > 0 /\ p = HalDevice

\* The references l may be dropped in this order.
Ordered(h, l, n) == \A i \in DOMAIN l : Strict(h, l[i]) => Covered(h, l, n, i)

\* What the objects that are handles around one IREE object contain.
Wrapped == [view |-> "hal_buffer_view", fence |-> "hal_fence", list |-> "vm_list"]

\* Object q of heap h owns a reference on e.
Owns(h, q, e) ==
    /\ Rank(h[e].kind) < Rank(h[q].kind)
    /\ Strict(h, e) => Strict(h, q) \/ h[q].kind \in Anchors
    /\ Strict(h, q) /\ Strict(h, e) => h[e].needs \subseteq h[q].needs
    /\ h[q].kind \in DOMAIN Wrapped => h[e].kind = Wrapped[h[q].kind]

CellShape(h, q) ==
    /\ h[q].kind \notin Dependent => h[q].needs = {}
    /\ Strict(h, q) => h[q].lost = 0
    /\ \A i \in DOMAIN h[q].own : Owns(h, q, h[q].own[i])
    /\ h[q].kind \in Anchors => Ordered(h, h[q].own, 0)

\* What local i of call k is and points to.
LocalShape(h, k, i) ==
    LET l == k.locals IN
    /\ Rank(h[l[i]].kind) < IF k.op = "hrx_module_load_vmfb" /\ i = 3 THEN 3 ELSE 2
    /\ \A p \in h[l[i]].needs :
          \/ p = HalDevice
          \/ \E j \in DOMAIN l : j < i /\ l[j] = p /\ (k.op = "hrx_executable_load_file" => j # 1)
    /\ k.op = "hrx_module_load_vmfb" => h[l[i]].needs \subseteq {HalDevice}
    /\ k.op = "hrx_executable_load_file" => ~Strict(h, l[1])

CallShape(h, k) == \A i \in DOMAIN k.locals : LocalShape(h, k, i)

\* The only handle that points to something is the inline allocator.
HandleShape(h, r) == \A o \in Cells : r[o] > 0 /\ h[o].kind \in Dependent => o = HalAllocator

ClientShape(h, r, k, t) ==
    CallShape(h, k) /\ HandleShape(h, r) /\ Ordered(h, t, r[Device])

HeapShape(h) ==
    /\ h[HalAllocator].needs = {HalDevice} /\ h[HalDeviceGroup].needs = {HalDevice}
    /\ \A q \in DOMAIN h : CellShape(h, q)

Shape ==
    /\ HeapShape(heap)
    /\ \A c \in Clients : ClientShape(heap, refs[c], call[c], todo[c])

(***************************************************************************)
(* Cells, heaps and sequences.                                             *)
(***************************************************************************)
\* The fixed cells are among the cells.
LEMMA CellsFixed ==
    /\ MaxCells \in Nat /\ MaxCells >= 4
    /\ Device \in Cells /\ HalAllocator \in Cells /\ HalDeviceGroup \in Cells
    /\ HalDevice \in Cells /\ Device # HalAllocator
    /\ <<>> \in Seq(Cells)
<1>1. MaxCells \in Nat /\ MaxCells >= 4
  BY ObjectBounds
<1>2. <<>> \in Seq(Cells)
  BY SMT
<1> QED BY <1>1, <1>2, SMT DEF Cells, Device, HalAllocator, HalDeviceGroup, HalDevice

\* What a sound heap says of its cells and of the fixed ones.
LEMMA HeapTypes ==
    ASSUME NEW h, HeapOK(h)
    PROVE  /\ h \in Seq(CellType) /\ Len(h) \in Nat /\ Len(h) >= 4 /\ Len(h) <= MaxCells
           /\ DOMAIN h = 1 .. Len(h) /\ DOMAIN h \subseteq Cells
           /\ Device \in DOMAIN h /\ HalAllocator \in DOMAIN h /\ HalDeviceGroup \in DOMAIN h
           /\ HalDevice \in DOMAIN h
           /\ \A p \in DOMAIN h : h[p] \in CellType /\ Sound(h, h[p])
<1>1. h \in Seq(CellType) /\ Len(h) \in 4 .. MaxCells
  BY DEF HeapOK
<1>2. DOMAIN h = 1 .. Len(h) /\ \A p \in DOMAIN h : h[p] \in CellType
  BY <1>1, SMT
<1>3. MaxCells \in Nat
  BY CellsFixed
<1>4. Len(h) \in Nat /\ Len(h) >= 4 /\ Len(h) <= MaxCells
  BY <1>1, <1>3, SMT
<1>5. 1 .. Len(h) \subseteq Cells
  BY <1>3, <1>4, SMT DEF Cells
<1>6. /\ Device \in 1 .. Len(h) /\ HalAllocator \in 1 .. Len(h) /\ HalDeviceGroup \in 1 .. Len(h)
      /\ HalDevice \in 1 .. Len(h)
  BY <1>4, SMT DEF Device, HalAllocator, HalDeviceGroup, HalDevice
<1>7. \A p \in DOMAIN h : Sound(h, h[p])
  BY DEF HeapOK, HeapSound
<1> QED BY <1>1, <1>2, <1>4, <1>5, <1>6, <1>7

\* The elements of l are cells of h.
Within(h, l) == \A i \in DOMAIN l : l[i] \in DOMAIN h

\* What a grounded state says of the types.
LEMMA GroundedFacts ==
    ASSUME Grounded
    PROVE  /\ HeapOK(heap)
           /\ \A q \in DOMAIN heap : heap[q].own \in Seq(Cells) /\ Within(heap, heap[q].own)
           /\ \A c \in Clients :
                 /\ refs[c] \in [Cells -> Nat] /\ call[c] \in CallType
                 /\ call[c].locals \in Seq(Cells) /\ todo[c] \in Seq(Cells)
                 /\ Within(heap, call[c].locals) /\ Within(heap, todo[c])
                 /\ CallSound(heap, call[c], todo[c], refs[c])
                 /\ \A o \in Cells :
                       refs[c][o] > 0 => /\ o \in DOMAIN heap /\ heap[o].count > 0
                                         /\ heap[o].kind # "mapped_range"
\* The fields of a cell.
<1>FieldTypes.
    ASSUME NEW x \in CellType
    PROVE  /\ x.kind \in Kinds /\ x.count \in Nat /\ x.own \in Seq(Cells)
           /\ x.needs \in SUBSET Cells /\ x.lent \in BOOLEAN /\ x.lost \in Nat /\ x.ends \in Nat
  BY <1>FieldTypes, SMT DEF CellType
<1>1. HeapOK(heap)
  BY DEF Grounded, Typed, HeapOK
<1>2. ASSUME NEW q \in DOMAIN heap PROVE heap[q].own \in Seq(Cells) /\ Within(heap, heap[q].own)
  <2>1. heap[q] \in CellType /\ Sound(heap, heap[q])
    BY <1>1, HeapTypes
  <2>2. heap[q].own \in Seq(Cells)
    BY <2>1, <1>FieldTypes
  <2> QED BY <2>1, <2>2 DEF Sound, Within
<1>3. ASSUME NEW c \in Clients
      PROVE  /\ refs[c] \in [Cells -> Nat] /\ call[c] \in CallType
             /\ call[c].locals \in Seq(Cells) /\ todo[c] \in Seq(Cells)
  <2>1. refs[c] \in [Cells -> Nat] /\ call[c] \in CallType /\ todo[c] \in Seq(Cells)
    BY DEF Grounded, Typed
  <2>2. call[c].locals \in Seq(Cells)
    BY <2>1, SMT DEF CallType
  <2> QED BY <2>1, <2>2
<1>4. ASSUME NEW c \in Clients
      PROVE  /\ CallSound(heap, call[c], todo[c], refs[c]) /\ Within(heap, todo[c])
             /\ \A o \in Cells :
                   refs[c][o] > 0 => /\ o \in DOMAIN heap /\ heap[o].count > 0
                                     /\ heap[o].kind # "mapped_range"
  BY DEF Grounded, HandlesSound, Within
<1>5. ASSUME NEW c \in Clients PROVE Within(heap, call[c].locals)
  <2>1. CASE call[c] = NoCall
    <3>1. DOMAIN call[c].locals = {}
      BY <2>1, SMT DEF NoCall
    <3> QED BY <3>1 DEF Within
  <2>2. CASE call[c] # NoCall
    BY <1>4, <2>2 DEF CallSound, Within
  <2> QED BY <2>1, <2>2
<1> QED BY <1>1, <1>2, <1>3, <1>4, <1>5

\* A cell has the ranks its kind says, the kinds that matter spelled out.
LEMMA Ranks ==
    /\ \A kind : Rank(kind) \in 0 .. 4
    /\ Rank("list") = 4 /\ Rank("function") = 4
    /\ Rank("view") = 3 /\ Rank("fence") = 3 /\ Rank("vm_list") = 3 /\ Rank("module") = 3
    /\ Rank("semaphore") = 2 /\ Rank("buffer") = 2 /\ Rank("executable") = 2
    /\ Rank("vm_context") = 2 /\ Rank("hal_buffer_view") = 2 /\ Rank("hal_fence") = 2
    /\ Rank("device") = 1 /\ Rank("hal_pool") = 1 /\ Rank("hal_module") = 1
    /\ Rank("hal_buffer") = 1
    /\ Rank("hal_allocator") = 0 /\ Rank("hal_device_group") = 0 /\ Rank("hal_semaphore") = 0
    /\ Rank("virtual_memory") = 0 /\ Rank("mapped_range") = 0 /\ Rank("notification") = 0
    /\ Rank("reserved_block") = 0 /\ Rank("bytecode_module") = 0 /\ Rank("executable_cache") = 0
    /\ Rank("hal_executable") = 0 /\ Rank("file_data") = 0
BY SMT DEF Rank

\* Nothing has to be said of the order of an empty list.
LEMMA OrderedEmpty ==
    ASSUME NEW h, NEW n PROVE Ordered(h, <<>>, n)
<1>1. DOMAIN <<>> = {}
  BY SMT
<1> QED BY <1>1 DEF Ordered

\* An object that owns nothing.
LEMMA LeafShape ==
    ASSUME NEW g, NEW q, g[q].own = <<>>, g[q].lost = 0,
           g[q].kind \in Dependent \/ g[q].needs = {}
    PROVE  CellShape(g, q)
<1>1. DOMAIN <<>> = {}
  BY SMT
<1> QED BY <1>1, OrderedEmpty DEF CellShape

\* The handles that keep what others point to, once their fields are ordered.
LEMMA AnchorShape ==
    ASSUME NEW g, NEW q, g[q].needs = {}, g[q].kind \in Anchors,
           \A i \in DOMAIN g[q].own : Rank(g[g[q].own[i]].kind) < Rank(g[q].kind),
           Ordered(g, g[q].own, 0)
    PROVE  CellShape(g, q)
<1>1. g[q].kind \notin Dependent /\ g[q].kind \notin DOMAIN Wrapped
  BY SMT DEF Anchors, Dependent, Wrapped
<1>2. ~Strict(g, q)
  BY <1>1 DEF Strict
<1>3. \A i \in DOMAIN g[q].own : Owns(g, q, g[q].own[i])
  BY <1>1, <1>2 DEF Owns
<1> QED BY <1>2, <1>3 DEF CellShape

(***************************************************************************)
(* The order is an invariant.                                              *)
(***************************************************************************)
\* The device, its three HAL objects and idle clients have the shape.
LEMMA OrderInit ==
    Init => Shape
<1> SUFFICES ASSUME Init PROVE Shape
  OBVIOUS
<1> DEFINE n == 1 + Cardinality(Clients)
           d == [Cell("device", HrxDeviceS, {}) EXCEPT !.count = n]
           a == Cell("hal_allocator", <<>>, {HalDevice})
           g == Cell("hal_device_group", <<>>, {HalDevice})
           v == Cell("hal_device", <<>>, {})
<1>1. heap = <<d, a, g, v>>
  BY DEF Init
<1>2. d.kind = "device" /\ d.own = HrxDeviceS /\ d.needs = {} /\ d.lost = 0
  <2> HIDE DEF n
  <2> QED BY SMT DEF Cell
<1>3. /\ a.kind = "hal_allocator" /\ a.own = <<>> /\ a.needs = {HalDevice} /\ a.lost = 0
      /\ g.kind = "hal_device_group" /\ g.own = <<>> /\ g.needs = {HalDevice} /\ g.lost = 0
      /\ v.kind = "hal_device" /\ v.own = <<>> /\ v.needs = {} /\ v.lost = 0
  BY DEF Cell
<1> HIDE DEF d, a, g, v
<1>4. /\ DOMAIN heap = {Device, HalAllocator, HalDeviceGroup, HalDevice}
      /\ heap[Device] = d /\ heap[HalAllocator] = a /\ heap[HalDeviceGroup] = g /\ heap[HalDevice] = v
  BY <1>1, SMT DEF Device, HalAllocator, HalDeviceGroup, HalDevice
<1>5. /\ "hal_allocator" \in Dependent /\ "hal_device_group" \in Dependent /\ "device" \in Anchors
      /\ "hal_device" \notin Dependent
  BY SMT DEF Dependent, Anchors
<1>6. /\ DOMAIN HrxDeviceS = {1, 2, 3} /\ HrxDeviceS[1] = HalAllocator /\ HrxDeviceS[2] = HalDeviceGroup
      /\ HrxDeviceS[3] = HalDevice /\ 3 > 1 /\ 3 > 2
  BY SMT DEF HrxDeviceS
<1>7. CellShape(heap, HalAllocator) /\ CellShape(heap, HalDeviceGroup) /\ CellShape(heap, HalDevice)
  <2>1. CellShape(heap, HalAllocator)
    <3>1. /\ heap[HalAllocator].own = <<>> /\ heap[HalAllocator].lost = 0
          /\ heap[HalAllocator].kind \in Dependent
      BY <1>3, <1>4, <1>5
    <3> QED BY <3>1, LeafShape
  <2>2. CellShape(heap, HalDeviceGroup)
    <3>1. /\ heap[HalDeviceGroup].own = <<>> /\ heap[HalDeviceGroup].lost = 0
          /\ heap[HalDeviceGroup].kind \in Dependent
      BY <1>3, <1>4, <1>5
    <3> QED BY <3>1, LeafShape
  <2>3. CellShape(heap, HalDevice)
    BY <1>3, <1>4, LeafShape
  <2> QED BY <2>1, <2>2, <2>3
<1>8. CellShape(heap, Device)
  <2>1. ~Strict(heap, HalDevice)
    BY <1>3, <1>4, <1>5 DEF Strict
  <2>2. Ordered(heap, HrxDeviceS, 0)
    <3>1. ASSUME NEW i \in DOMAIN HrxDeviceS, Strict(heap, HrxDeviceS[i]) PROVE Covered(heap, HrxDeviceS, 0, i)
      <4>1. i = 1 \/ i = 2
        BY <1>6, <2>1, <3>1
      <4>2. 3 \in DOMAIN HrxDeviceS /\ 3 > i /\ Keeps(HrxDeviceS[3], HalDevice)
        BY <1>6, <4>1 DEF Keeps
      <4>3. heap[HrxDeviceS[i]].needs = {HalDevice}
        BY <1>3, <1>4, <1>6, <4>1
      <4> QED BY <4>2, <4>3 DEF Covered
    <3> QED BY <3>1 DEF Ordered
  <2>3. \A i \in DOMAIN HrxDeviceS : Rank(heap[HrxDeviceS[i]].kind) < Rank("device")
    <3>1. Rank("hal_allocator") < Rank("device") /\ Rank("hal_device_group") < Rank("device")
          /\ Rank("hal_device") < Rank("device")
      BY SMT DEF Rank
    <3> QED BY <1>3, <1>4, <1>6, <3>1
  <2> QED BY <1>2, <1>4, <1>5, <2>2, <2>3, AnchorShape
<1>9. HeapShape(heap)
  BY <1>3, <1>4, <1>7, <1>8 DEF HeapShape
<1>10. ASSUME NEW c \in Clients PROVE ClientShape(heap, refs[c], call[c], todo[c])
  <2>1. call[c] = NoCall /\ todo[c] = <<>>
    BY DEF Init
  <2>2. DOMAIN NoCall.locals = {}
    BY SMT DEF NoCall
  <2>3. CallShape(heap, call[c])
    BY <2>1, <2>2 DEF CallShape
  <2>4. ASSUME NEW o \in Cells, refs[c][o] > 0 PROVE o = Device
    <3>1. refs[c][o] = IF o = Device THEN 1 ELSE 0
      BY DEF Init
    <3> QED BY <2>4, <3>1, SMT
  <2>5. "device" \notin Dependent
    BY SMT DEF Dependent
  <2>6. HandleShape(heap, refs[c])
    BY <1>2, <1>4, <2>4, <2>5 DEF HandleShape
  <2> QED BY <2>1, <2>3, <2>6, OrderedEmpty DEF ClientShape
<1> QED BY <1>9, <1>10 DEF Shape

\* A cell keeps its kind and what it points to; once lent it stays so.
Later(h, g) ==
    \A o \in DOMAIN h : /\ o \in DOMAIN g
                        /\ g[o].kind = h[o].kind /\ g[o].needs = h[o].needs
                        /\ h[o].lent => g[o].lent

\* Cell q of h becomes that of g: it keeps its fields or has dropped them all, and if
\* it is strict no more, neither are they.
CellLater(h, g, q) ==
    /\ g[q].own = h[q].own \/ g[q].own = <<>>
    /\ Strict(g, q) => g[q].lost = h[q].lost
    /\ Strict(h, q) => Strict(g, q) \/ \A i \in DOMAIN h[q].own : ~Strict(g, h[q].own[i])

\* Heap h becomes g, with no new cells.
Successor(h, g) ==
    DOMAIN g = DOMAIN h /\ Later(h, g) /\ \A q \in DOMAIN h : CellLater(h, g, q)

\* The cells of k, and others.
Grows(k, g) == \A i \in DOMAIN k : i \in DOMAIN g /\ g[i] = k[i]

\* What an IREE object may take a reference on without pulling a strict object along.
Shareable(x) ==
    /\ x \in DOMAIN heap
    /\ Rank(heap[x].kind) < 2 \/ (heap[x].kind \notin Dependent /\ heap[x].kind \notin Anchors)

\* A heap with as many cells to which new ones are added.
Base(k) ==
    /\ Successor(heap, k) /\ Len(k) = Len(heap)
    /\ \E S : k \in Seq(S) /\ CellType \subseteq S

GrowsByTwo(k, g, x, y) ==
    /\ Grows(k, g) /\ DOMAIN g = DOMAIN heap \cup {New, New + 1}
    /\ g[New] = x /\ g[New + 1] = y

\* A cell with other fields, one that has lost a reference, one that was taken apart.
Owning(z, l) == [z EXCEPT !.own = l]

LostOne(z) == [z EXCEPT !.lost = 1]

Gone(z, n) == [z EXCEPT !.ends = n, !.count = 0]

\* Heap h with z for cell x.
Put(h, x, z) == [h EXCEPT ![x] = z]

\* A part of an interval has as many elements as a natural number says.
FiniteParts == \A n \in Nat : \A S \in SUBSET (1 .. n) : Cardinality(S) \in Nat

\* A call of op after step n, with the locals l.
Record(op, n, l) == [op |-> op, at |-> n + 1, locals |-> l]

\* The list l is o and x.
Extends(l, o, x) ==
    /\ DOMAIN l = DOMAIN o \cup {Len(o) + 1}
    /\ \A i \in DOMAIN o : l[i] = o[i]
    /\ l[Len(o) + 1] = x

\* Every step preserves it.
LEMMA OrderNext ==
    FiniteParts /\ Grounded /\ Shape /\ [Next]_vars => Shape'
\* A new cell.
<1>NewCellType.
    ASSUME NEW kind \in Kinds, NEW own \in Seq(Cells), NEW needs \in SUBSET Cells
    PROVE  /\ Cell(kind, own, needs) \in CellType
           /\ Cell(kind, own, needs).kind = kind /\ Cell(kind, own, needs).own = own
           /\ Cell(kind, own, needs).count = 1 /\ Cell(kind, own, needs).lost = 0
           /\ Cell(kind, own, needs).ends = 0 /\ Cell(kind, own, needs).needs = needs
           /\ ~Cell(kind, own, needs).lent
  BY <1>NewCellType, SMT DEF Cell, CellType
\* Sequences with the same elements are the same.
<1>ListsEqual.
    ASSUME NEW S, NEW s \in Seq(S), NEW z \in Seq(S), Len(s) = Len(z),
           \A i \in 1 .. Len(s) : s[i] = z[i]
    PROVE  s = z
  <2> USE <1>ListsEqual
  <2>1. s = [i \in 1 .. Len(s) |-> s[i]] /\ z = [i \in 1 .. Len(z) |-> z[i]]
    BY SMT
  <2>2. [i \in 1 .. Len(s) |-> s[i]] = [i \in 1 .. Len(s) |-> z[i]]
    OBVIOUS
  <2> QED BY <2>1, <2>2
\* The fields of a buffer, without and with a pool.
<1>FieldsOfBuffer.
    ASSUME NEW i \in Nat, NEW p \in Nat
    PROVE  HrxBufferS(i, <<>>) = <<i, Device>> /\ HrxBufferS(i, <<p>>) = <<i, p, Device>>
  <2> USE <1>FieldsOfBuffer
  <2>1. Device \in Nat
    BY SMT DEF Device
  <2>2. <<i>> \o <<>> = <<i>>
    <3>1. /\ <<i>> \o <<>> \in Seq(Nat) /\ <<i>> \in Seq(Nat) /\ Len(<<i>> \o <<>>) = Len(<<i>>)
          /\ \A j \in 1 .. Len(<<i>> \o <<>>) : (<<i>> \o <<>>)[j] = <<i>>[j]
      BY SMT
    <3> QED BY <3>1, <1>ListsEqual
  <2>3. ASSUME NEW d \in Nat PROVE <<i>> \o <<d>> = <<i, d>>
    <3>1. /\ <<i>> \o <<d>> \in Seq(Nat) /\ <<i, d>> \in Seq(Nat)
          /\ Len(<<i>> \o <<d>>) = Len(<<i, d>>)
          /\ \A j \in 1 .. Len(<<i>> \o <<d>>) : (<<i>> \o <<d>>)[j] = <<i, d>>[j]
      BY SMT
    <3> QED BY <3>1, <1>ListsEqual
  <2>4. ASSUME NEW d \in Nat PROVE <<i, p>> \o <<d>> = <<i, p, d>>
    <3>1. /\ <<i, p>> \o <<d>> \in Seq(Nat) /\ <<i, p, d>> \in Seq(Nat)
          /\ Len(<<i, p>> \o <<d>>) = Len(<<i, p, d>>)
          /\ \A j \in 1 .. Len(<<i, p>> \o <<d>>) : (<<i, p>> \o <<d>>)[j] = <<i, p, d>>[j]
      BY SMT
    <3> QED BY <3>1, <1>ListsEqual
  <2>5. HrxBufferS(i, <<>>) = <<i, Device>>
    BY <2>1, <2>2, <2>3 DEF HrxBufferS
  <2>6. HrxBufferS(i, <<p>>) = <<i, p, Device>>
    BY <2>1, <2>3, <2>4 DEF HrxBufferS
  <2> QED BY <2>5, <2>6
(***************************************************************************)
(* What later states keep.                                                 *)
(***************************************************************************)
\* Fewer objects are strict, so an order stays one.
<1>OrderedLater.
    ASSUME NEW h, NEW g, Later(h, g), NEW l, Within(h, l), NEW n \in Nat, NEW m \in Nat, n <= m,
           Ordered(h, l, n)
    PROVE  Ordered(g, l, m)
  <2> USE <1>OrderedLater
  <2>1. n > 0 => m > 0
    BY SMT
  <2>2. ASSUME NEW i \in DOMAIN l, Strict(g, l[i]) PROVE Covered(g, l, m, i)
    <3>1. l[i] \in DOMAIN h
      BY DEF Within
    <3>2. Strict(h, l[i]) /\ g[l[i]].needs = h[l[i]].needs
      BY <2>2, <3>1 DEF Later, Strict
    <3>3. Covered(h, l, n, i)
      BY <3>2 DEF Ordered
    <3> QED BY <2>1, <3>2, <3>3 DEF Covered
  <2> QED BY <2>2 DEF Ordered
\* So does what a client has.
<1>ClientLater.
    ASSUME NEW h, NEW g, Later(h, g), NEW r, r[Device] \in Nat, NEW k, k.locals \in Seq(Cells),
           NEW t, ClientShape(h, r, k, t), Within(h, k.locals), Within(h, t),
           \A o \in Cells : r[o] > 0 => o \in DOMAIN h
    PROVE  ClientShape(g, r, k, t)
  <2> USE <1>ClientLater
  <2>1. CallShape(h, k) /\ HandleShape(h, r) /\ Ordered(h, t, r[Device])
    BY DEF ClientShape
  <2>2. ASSUME NEW i \in DOMAIN k.locals PROVE LocalShape(g, k, i)
    <3> DEFINE l == k.locals
    <3>0. 1 \in DOMAIN l
      BY SMT
    <3>1. l[i] \in DOMAIN h /\ LocalShape(h, k, i) /\ l[1] \in DOMAIN h
      BY <2>1, <3>0 DEF CallShape, Within
    <3>2. /\ g[l[i]].kind = h[l[i]].kind /\ g[l[i]].needs = h[l[i]].needs
          /\ Strict(g, l[i]) => Strict(h, l[i])
      BY <3>1 DEF Later, Strict
    <3>3. Strict(g, l[1]) => Strict(h, l[1])
      BY <3>1 DEF Later, Strict
    <3> QED BY <3>1, <3>2, <3>3 DEF LocalShape
  <2>3. CallShape(g, k)
    BY <2>2 DEF CallShape
  <2>4. HandleShape(g, r)
    BY <2>1 DEF HandleShape, Later
  <2>5. Ordered(g, t, r[Device])
    <3>1. r[Device] <= r[Device]
      BY SMT
    <3> QED BY <2>1, <3>1, <1>OrderedLater
  <2> QED BY <2>3, <2>4, <2>5 DEF ClientShape
\* What such a cell owns.
<1>OwnsLater.
    ASSUME NEW h, NEW g, Later(h, g), NEW q \in DOMAIN h, NEW e \in DOMAIN h, Owns(h, q, e),
           Strict(h, q) => Strict(g, q) \/ ~Strict(g, e)
    PROVE  Owns(g, q, e)
  <2> USE <1>OwnsLater
  <2>1. /\ g[q].kind = h[q].kind /\ g[e].kind = h[e].kind
        /\ g[q].needs = h[q].needs /\ g[e].needs = h[e].needs
        /\ Strict(g, e) => Strict(h, e)
        /\ Strict(g, q) => Strict(h, q)
    BY DEF Later, Strict
  <2> QED BY <2>1 DEF Owns
\* Such a cell keeps its shape.
<1>CellShapeLater.
    ASSUME NEW h, NEW g, Later(h, g), NEW q \in DOMAIN h, CellLater(h, g, q),
           Within(h, h[q].own), CellShape(h, q)
    PROVE  CellShape(g, q)
  <2> USE <1>CellShapeLater
  <2>1. g[q].kind = h[q].kind /\ g[q].needs = h[q].needs /\ (Strict(g, q) => Strict(h, q))
    BY DEF Later, Strict
  <2>2. DOMAIN <<>> = {} /\ 0 \in Nat /\ 0 <= 0
    BY SMT
  <2>3. ASSUME NEW i \in DOMAIN g[q].own PROVE Owns(g, q, g[q].own[i])
    <3>1. g[q].own = h[q].own
      BY <2>2 DEF CellLater
    <3>2. h[q].own[i] \in DOMAIN h /\ Owns(h, q, h[q].own[i])
      BY <3>1 DEF CellShape, Within
    <3>3. Strict(h, q) => Strict(g, q) \/ ~Strict(g, h[q].own[i])
      BY <3>1 DEF CellLater
    <3> QED BY <3>1, <3>2, <3>3, <1>OwnsLater
  <2>4. g[q].kind \in Anchors => Ordered(g, g[q].own, 0)
    <3>1. CASE g[q].own = h[q].own
      BY <2>1, <2>2, <3>1, <1>OrderedLater DEF CellShape
    <3>2. CASE g[q].own = <<>>
      BY <2>2, <3>2 DEF Ordered
    <3> QED BY <3>1, <3>2 DEF CellLater
  <2>5. g[q].kind \notin Dependent => g[q].needs = {}
    BY <2>1 DEF CellShape
  <2>6. Strict(g, q) => g[q].lost = 0
    BY <2>1 DEF CellShape, CellLater
  <2> QED BY <2>3, <2>4, <2>5, <2>6 DEF CellShape
\* In a later heap every client has what it had.
<1>ClientsLater.
    ASSUME Grounded, Shape, NEW g, Later(heap, g), NEW d \in Clients
    PROVE  ClientShape(g, refs[d], call[d], todo[d])
  <2> USE <1>ClientsLater
  <2>1. refs[d][Device] \in Nat
    BY CellsFixed, GroundedFacts
  <2>2. ClientShape(heap, refs[d], call[d], todo[d])
    BY DEF Shape
  <2>3. /\ call[d].locals \in Seq(Cells) /\ Within(heap, call[d].locals) /\ Within(heap, todo[d])
        /\ \A o \in Cells : refs[d][o] > 0 => o \in DOMAIN heap
    BY GroundedFacts
  <2> QED BY <2>1, <2>2, <2>3, <1>ClientLater
\* The step of client c: the others have what they had, and every cell has its shape.
<1>ShapeStep.
    ASSUME Grounded, Shape, NEW c \in Clients, Later(heap, heap'),
           \A q \in DOMAIN heap' : CellShape(heap', q),
           \A d \in Clients : d # c => /\ refs'[d] = refs[d] /\ call'[d] = call[d]
                                       /\ todo'[d] = todo[d],
           ClientShape(heap', refs'[c], call'[c], todo'[c])
    PROVE  Shape'
  <2> USE <1>ShapeStep
  <2>1. HalAllocator \in DOMAIN heap /\ HalDeviceGroup \in DOMAIN heap
    BY GroundedFacts, HeapTypes
  <2>2. heap'[HalAllocator].needs = {HalDevice} /\ heap'[HalDeviceGroup].needs = {HalDevice}
    BY <2>1 DEF Shape, HeapShape, Later
  <2>3. \A d \in Clients : ClientShape(heap', refs'[d], call'[d], todo'[d])
    BY <1>ClientsLater
  <2>4. HeapShape(heap')
    BY <2>2 DEF HeapShape
  <2> QED BY <2>3, <2>4 DEF Shape
\* The shape of the new cells is all there is to show.
<1>GrownShape.
    ASSUME Grounded, Shape, NEW k, Successor(heap, k), NEW g, Grows(k, g),
           \A q \in DOMAIN g : q \notin DOMAIN heap => CellShape(g, q)
    PROVE  Later(heap, g) /\ \A q \in DOMAIN g : CellShape(g, q)
  <2> USE <1>GrownShape
  <2>1. Later(heap, g)
    BY DEF Successor, Grows, Later
  <2>2. ASSUME NEW q \in DOMAIN heap PROVE CellShape(g, q)
    <3>1. CellLater(heap, k, q) /\ g[q] = k[q]
      BY DEF Successor, Grows
    <3>2. Within(heap, heap[q].own) /\ CellShape(heap, q)
      BY GroundedFacts DEF Shape, HeapShape
    <3>3. \A i \in DOMAIN heap[q].own : g[heap[q].own[i]] = k[heap[q].own[i]]
      BY <3>2 DEF Within, Successor, Grows
    <3>4. CellLater(heap, g, q)
      BY <3>1, <3>3 DEF CellLater, Strict
    <3> QED BY <2>1, <3>2, <3>4, <1>CellShapeLater
  <2> QED BY <2>1, <2>2
\* Leaving the heap alone, or changing counts and ends.
<1>SameShape.
    ASSUME Grounded, NEW g, DOMAIN g = DOMAIN heap,
           \A q \in DOMAIN heap :
              /\ g[q].kind = heap[q].kind /\ g[q].needs = heap[q].needs
              /\ g[q].lent = heap[q].lent /\ g[q].lost = heap[q].lost
              /\ g[q].own = heap[q].own \/ g[q].own = <<>>
    PROVE  Successor(heap, g)
  <2> USE <1>SameShape
  <2>1. Later(heap, g)
    BY DEF Later
  <2>2. \A q \in DOMAIN heap : Strict(heap, q) => Strict(g, q)
    BY DEF Strict
  <2> QED BY <2>1, <2>2 DEF Successor, CellLater
\* The cells after references are taken.
<1>RetainedCells.
    ASSUME Grounded, NEW s
    PROVE  /\ DOMAIN Retained(s) = DOMAIN heap /\ Len(Retained(s)) = Len(heap)
           /\ \E S : Retained(s) \in Seq(S) /\ CellType \subseteq S
           /\ \A q \in DOMAIN heap :
                 /\ Retained(s)[q].kind = heap[q].kind /\ Retained(s)[q].needs = heap[q].needs
                 /\ Retained(s)[q].lent = heap[q].lent /\ Retained(s)[q].lost = heap[q].lost
                 /\ Retained(s)[q].own = heap[q].own
  <2> USE <1>RetainedCells
  <2> DEFINE y(z, n) == [z EXCEPT !.count = n]
             x(p) == y(heap[p], heap[p].count + Occurrences(s, p))
             S == CellType \cup {x(p) : p \in DOMAIN heap}
  <2>1. DOMAIN heap = 1 .. Len(heap) /\ Len(heap) \in Nat /\ \A p \in DOMAIN heap : heap[p] \in CellType
    BY GroundedFacts, HeapTypes
  <2>2. ASSUME NEW z \in CellType, NEW n
        PROVE  /\ y(z, n).kind = z.kind /\ y(z, n).needs = z.needs /\ y(z, n).lent = z.lent
               /\ y(z, n).lost = z.lost /\ y(z, n).own = z.own
    BY SMT DEF CellType
  <2>3. Retained(s) = [p \in 1 .. Len(heap) |-> x(p)]
    BY <2>1 DEF Retained
  <2> HIDE DEF y
  <2>4. ASSUME NEW T, NEW n \in Nat, NEW f \in [1 .. n -> T] PROVE f \in Seq(T) /\ Len(f) = n
    BY SMT
  <2>5. Retained(s) \in [1 .. Len(heap) -> S]
    <3>1. \A p \in 1 .. Len(heap) : x(p) \in S
      BY <2>1
    <3> HIDE DEF x, S
    <3> QED BY <2>3, <3>1
  <2>6. DOMAIN Retained(s) = DOMAIN heap /\ \A p \in DOMAIN heap : Retained(s)[p] = x(p)
    BY <2>1, <2>3
  <2>7. CellType \subseteq S
    OBVIOUS
  <2> HIDE DEF S
  <2>8. Retained(s) \in Seq(S) /\ Len(Retained(s)) = Len(heap)
    BY <2>1, <2>4, <2>5
  <2>9. ASSUME NEW q \in DOMAIN heap
        PROVE  /\ Retained(s)[q].kind = heap[q].kind /\ Retained(s)[q].needs = heap[q].needs
               /\ Retained(s)[q].lent = heap[q].lent /\ Retained(s)[q].lost = heap[q].lost
               /\ Retained(s)[q].own = heap[q].own
    <3>1. heap[q] \in CellType /\ Retained(s)[q] = x(q)
      BY <2>1, <2>6
    <3>2. /\ x(q).kind = heap[q].kind /\ x(q).needs = heap[q].needs /\ x(q).lent = heap[q].lent
          /\ x(q).lost = heap[q].lost /\ x(q).own = heap[q].own
      BY <2>2, <3>1
    <3> HIDE DEF x
    <3> QED BY <3>1, <3>2
  <2> HIDE DEF x
  <2> QED BY <2>6, <2>7, <2>8, <2>9
\* The cells after an IREE object took references.
<1>LentCells.
    ASSUME Grounded, NEW s
    PROVE  /\ DOMAIN Lent(s) = DOMAIN heap /\ Len(Lent(s)) = Len(heap)
           /\ \E S : Lent(s) \in Seq(S) /\ CellType \subseteq S
           /\ \A q \in DOMAIN heap :
                 /\ Lent(s)[q].kind = heap[q].kind /\ Lent(s)[q].needs = heap[q].needs
                 /\ Lent(s)[q].lost = heap[q].lost /\ Lent(s)[q].own = heap[q].own
                 /\ Lent(s)[q].lent <=>
                       \/ heap[q].lent \/ q \in Range(s)
                       \/ \E x \in Range(s) : q \in Range(heap[x].own)
  <2> USE <1>LentCells
  <2> DEFINE reach == Range(s) \cup UNION {Range(heap[p].own) : p \in Range(s)}
             y(z, n, b) == [z EXCEPT !.count = n, !.lent = b]
             m(p) == heap[p].lent \/ p \in reach
             x(p) == y(heap[p], heap[p].count + Occurrences(s, p), m(p))
             S == CellType \cup {x(p) : p \in DOMAIN heap}
  <2>1. DOMAIN heap = 1 .. Len(heap) /\ Len(heap) \in Nat /\ \A p \in DOMAIN heap : heap[p] \in CellType
    BY GroundedFacts, HeapTypes
  <2>2. ASSUME NEW z \in CellType, NEW n, NEW b \in BOOLEAN
        PROVE  /\ y(z, n, b).kind = z.kind /\ y(z, n, b).needs = z.needs
               /\ y(z, n, b).lost = z.lost /\ y(z, n, b).own = z.own /\ y(z, n, b).lent = b
    BY SMT DEF CellType
  <2>3. Lent(s) = [p \in 1 .. Len(heap) |-> x(p)]
    BY <2>1 DEF Lent
  <2> HIDE DEF y
  <2>4. ASSUME NEW T, NEW n \in Nat, NEW f \in [1 .. n -> T] PROVE f \in Seq(T) /\ Len(f) = n
    BY SMT
  <2>5. Lent(s) \in [1 .. Len(heap) -> S]
    <3>1. \A p \in 1 .. Len(heap) : x(p) \in S
      BY <2>1
    <3> HIDE DEF x, S
    <3> QED BY <2>3, <3>1
  <2>6. DOMAIN Lent(s) = DOMAIN heap /\ \A p \in DOMAIN heap : Lent(s)[p] = x(p)
    BY <2>1, <2>3
  <2>7. CellType \subseteq S
    OBVIOUS
  <2> HIDE DEF S
  <2>8. Lent(s) \in Seq(S) /\ Len(Lent(s)) = Len(heap)
    BY <2>1, <2>4, <2>5
  <2>9. ASSUME NEW q \in DOMAIN heap
        PROVE  /\ Lent(s)[q].kind = heap[q].kind /\ Lent(s)[q].needs = heap[q].needs
               /\ Lent(s)[q].lost = heap[q].lost /\ Lent(s)[q].own = heap[q].own
               /\ Lent(s)[q].lent = m(q)
    <3>1. m(q) \in BOOLEAN
      OBVIOUS
    <3> HIDE DEF m
    <3>2. heap[q] \in CellType /\ Lent(s)[q] = x(q)
      BY <2>1, <2>6
    <3>3. /\ x(q).kind = heap[q].kind /\ x(q).needs = heap[q].needs
          /\ x(q).lost = heap[q].lost /\ x(q).own = heap[q].own
          /\ x(q).lent = m(q)
      BY <2>2, <3>1, <3>2, SMT
    <3> HIDE DEF x
    <3> QED BY <3>2, <3>3
  <2>10. \A q : q \in reach <=> q \in Range(s) \/ \E p \in Range(s) : q \in Range(heap[p].own)
    OBVIOUS
  <2> HIDE DEF reach, x
  <2> QED BY <2>6, <2>7, <2>8, <2>9, <2>10
\* Taking references changes no shape.
<1>RetainedSuccessor.
    ASSUME Grounded, NEW s
    PROVE  Successor(heap, Retained(s))
  <2> USE <1>RetainedSuccessor
  <2>1. /\ DOMAIN Retained(s) = DOMAIN heap
        /\ \A q \in DOMAIN heap :
              /\ Retained(s)[q].kind = heap[q].kind /\ Retained(s)[q].needs = heap[q].needs
              /\ Retained(s)[q].lent = heap[q].lent /\ Retained(s)[q].lost = heap[q].lost
              /\ Retained(s)[q].own = heap[q].own \/ Retained(s)[q].own = <<>>
    BY <1>RetainedCells
  <2> QED BY <2>1, <1>SameShape
\* Nor does lending what may be shared; what is lent is strict no more.
<1>LentSuccessor.
    ASSUME Grounded, Shape, NEW s, \A x \in Range(s) : Shareable(x)
    PROVE  Successor(heap, Lent(s)) /\ \A x \in Range(s) : ~Strict(Lent(s), x)
  <2> USE <1>LentSuccessor
  <2> DEFINE g == Lent(s)
  <2>1. /\ DOMAIN g = DOMAIN heap
        /\ \A q \in DOMAIN heap :
              /\ g[q].kind = heap[q].kind /\ g[q].needs = heap[q].needs
              /\ g[q].lost = heap[q].lost /\ g[q].own = heap[q].own
              /\ g[q].lent <=> \/ heap[q].lent \/ q \in Range(s)
                               \/ \E x \in Range(s) : q \in Range(heap[x].own)
    BY <1>LentCells
  <2> HIDE DEF g
  <2>2. Later(heap, g)
    BY <2>1 DEF Later
  <2>3. ASSUME NEW x \in Range(s) PROVE ~Strict(g, x)
    BY <2>1 DEF Shareable, Strict
  <2>4. ASSUME NEW q \in DOMAIN heap, Strict(heap, q), ~Strict(g, q), NEW i \in DOMAIN heap[q].own
        PROVE  ~Strict(g, heap[q].own[i])
    <3> DEFINE e == heap[q].own[i]
    <3>1. e \in Range(heap[q].own) /\ e \in DOMAIN heap /\ Owns(heap, q, e)
      <4>1. Within(heap, heap[q].own) /\ CellShape(heap, q)
        BY GroundedFacts DEF Shape, HeapShape
      <4> QED BY <4>1 DEF Within, CellShape, Range
    <3>2. CASE q \in Range(s)
      BY <2>1, <3>1, <3>2 DEF Strict
    <3>3. CASE \E x \in Range(s) : q \in Range(heap[x].own)
      <4>1. PICK x \in Range(s) : q \in Range(heap[x].own)
        BY <3>3
      <4>2. PICK j \in DOMAIN heap[x].own : heap[x].own[j] = q
        BY <4>1 DEF Range
      <4>3. Shareable(x) /\ x \in DOMAIN heap
        BY DEF Shareable
      <4>4. Owns(heap, x, q)
        BY <4>2, <4>3 DEF Shape, HeapShape, CellShape
      <4>5. Rank(heap[e].kind) < Rank(heap[q].kind) /\ Rank(heap[q].kind) < Rank(heap[x].kind)
        BY <3>1, <4>4 DEF Owns
      <4>6. ~(Rank(heap[x].kind) < 2)
        <5>1. \A a, b, d \in 0 .. 4 : a < b /\ b < d => ~(d < 2)
          BY SMT
        <5> QED BY <4>5, <5>1, Ranks
      <4>7. ~Strict(heap, x) /\ heap[x].kind \notin Anchors
        BY <4>3, <4>6 DEF Shareable, Strict
      <4>8. ~Strict(heap, q)
        BY <4>4, <4>7 DEF Owns
      <4> QED BY <2>4, <4>8
    <3>4. g[q].lent /\ ~heap[q].lent
      BY <2>1, <2>4 DEF Strict
    <3> QED BY <2>1, <3>2, <3>3, <3>4
  <2>5. ASSUME NEW q \in DOMAIN heap PROVE CellLater(heap, g, q)
    BY <2>1, <2>4 DEF CellLater
  <2> QED BY <2>1, <2>2, <2>3, <2>5 DEF g, Successor
(***************************************************************************)
(* The shape of single cells.                                              *)
(***************************************************************************)
\* Nor of one where nothing is strict.
<1>OrderedLoose.
    ASSUME NEW h, NEW l, NEW n, \A i \in DOMAIN l : ~Strict(h, l[i]) PROVE Ordered(h, l, n)
  BY <1>OrderedLoose DEF Ordered
\* An object that points to nothing and owns only what is not strict.
<1>LooseShape.
    ASSUME NEW g, NEW q, g[q].needs = {}, g[q].kind \notin Dependent,
           \A i \in DOMAIN g[q].own :
              /\ ~Strict(g, g[q].own[i]) /\ Rank(g[g[q].own[i]].kind) < Rank(g[q].kind)
              /\ g[q].kind \in DOMAIN Wrapped => g[g[q].own[i]].kind = Wrapped[g[q].kind]
    PROVE  CellShape(g, q)
  <2> USE <1>LooseShape
  <2>1. ~Strict(g, q)
    BY DEF Strict
  <2>2. \A i \in DOMAIN g[q].own : Owns(g, q, g[q].own[i])
    BY <2>1 DEF Owns
  <2> QED BY <2>1, <2>2, <1>OrderedLoose DEF CellShape
\* An object that points to something and owns what points to no more.
<1>StrictShape.
    ASSUME NEW g, NEW q, g[q].kind \in Dependent, ~g[q].lent, g[q].lost = 0,
           \A i \in DOMAIN g[q].own :
              /\ Rank(g[g[q].own[i]].kind) < Rank(g[q].kind)
              /\ Strict(g, g[q].own[i]) => g[g[q].own[i]].needs \subseteq g[q].needs
    PROVE  CellShape(g, q)
  <2> USE <1>StrictShape
  <2>1. g[q].kind \notin Anchors /\ g[q].kind \notin DOMAIN Wrapped
    BY SMT DEF Anchors, Dependent, Wrapped
  <2>2. Strict(g, q)
    BY DEF Strict
  <2>3. \A i \in DOMAIN g[q].own : Owns(g, q, g[q].own[i])
    BY <2>1, <2>2 DEF Owns
  <2> QED BY <2>1, <2>3 DEF CellShape
\* What ends with a reference on the device keeps the HAL device.
<1>OrderedDevice.
    ASSUME NEW g, NEW n, NEW l, l # <<>>, NEW S, l \in Seq(S), l[Len(l)] = Device,
           g[Device].kind = "device",
           \A i \in DOMAIN l : Strict(g, l[i]) =>
              \A p \in g[l[i]].needs : p = HalDevice \/ (\E j \in DOMAIN l : j > i /\ l[j] = p)
    PROVE  Ordered(g, l, n)
  <2> USE <1>OrderedDevice
  <2>1. ~Strict(g, Device)
    BY SMT DEF Strict, Dependent
  <2>2. Len(l) \in DOMAIN l /\ \A i \in DOMAIN l : i # Len(l) => Len(l) > i
    BY SMT
  <2>3. ASSUME NEW i \in DOMAIN l, Strict(g, l[i]) PROVE Covered(g, l, n, i)
    <3>1. i # Len(l)
      BY <2>1, <2>3
    <3>2. Len(l) > i /\ \A p : p = HalDevice => Keeps(l[Len(l)], p)
      BY <2>2, <3>1 DEF Keeps
    <3>3. \A j \in DOMAIN l : \A p : l[j] = p => Keeps(l[j], p)
      BY DEF Keeps
    <3> QED BY <2>2, <2>3, <3>2, <3>3 DEF Covered
  <2> QED BY <2>3 DEF Ordered
(***************************************************************************)
(* The parts of a step.                                                    *)
(***************************************************************************)
\* The heap itself, and the heap after references are taken.
<1>Bases.
    ASSUME Grounded, Shape, NEW s
    PROVE  /\ Base(heap) /\ Base(Retained(s))
           /\ (\A x \in Range(s) : Shareable(x)) => Base(Lent(s))
  <2> USE <1>Bases
  <2>1. heap \in Seq(CellType)
    BY GroundedFacts, HeapTypes
  <2>2. Successor(heap, heap)
    BY <1>SameShape
  <2>3. Base(heap)
    BY <2>1, <2>2 DEF Base
  <2>4. Base(Retained(s))
    BY <1>RetainedCells, <1>RetainedSuccessor DEF Base
  <2>5. (\A x \in Range(s) : Shareable(x)) => Base(Lent(s))
    BY <1>LentCells, <1>LentSuccessor DEF Base
  <2> QED BY <2>3, <2>4, <2>5
\* The cells of g are those of k and the ones added, none, one or two.
<1>MadeNone.
    ASSUME Grounded, NEW k, Base(k), NEW g, g = k \o <<>>
    PROVE  Grows(k, g) /\ DOMAIN g = DOMAIN heap
  <2> USE <1>MadeNone
  <2>1. PICK S : k \in Seq(S)
    BY DEF Base
  <2>2. Grows(k, k \o <<>>) /\ DOMAIN (k \o <<>>) = DOMAIN k
    BY <2>1, SMT DEF Grows
  <2>3. DOMAIN k = DOMAIN heap
    BY DEF Base, Successor
  <2> QED BY <2>2, <2>3
<1>MadeOne.
    ASSUME Grounded, NEW k, Base(k), NEW x \in CellType, NEW g, g = Append(k, x) \/ g = k \o <<x>>
    PROVE  Grows(k, g) /\ DOMAIN g = DOMAIN heap \cup {New} /\ g[New] = x
  <2> USE <1>MadeOne
  <2>1. PICK S : k \in Seq(S) /\ CellType \subseteq S
    BY DEF Base
  <2>2. x \in S
    BY <2>1
  <2>3. Len(k) = Len(heap) /\ DOMAIN k = DOMAIN heap
    BY DEF Base, Successor
  <2>4. Append(k, x) = k \o <<x>>
    BY <2>1, <2>2, SMT
  <2>5. g = Append(k, x)
    BY <2>4
  <2>6. Grows(k, g) /\ DOMAIN g = DOMAIN k \cup {Len(k) + 1} /\ g[Len(k) + 1] = x
    BY <2>1, <2>2, <2>5, SMT DEF Grows
  <2> QED BY <2>3, <2>6 DEF New
<1>MadeTwo.
    ASSUME Grounded, NEW k, Base(k), NEW x \in CellType, NEW y \in CellType, NEW g,
           g = k \o <<x, y>>
    PROVE  GrowsByTwo(k, g, x, y)
  <2> USE <1>MadeTwo
  <2>1. PICK S : k \in Seq(S) /\ CellType \subseteq S
    BY DEF Base
  <2>2. x \in S /\ y \in S
    BY <2>1
  <2>3. Len(k) = Len(heap) /\ DOMAIN k = DOMAIN heap
    BY DEF Base, Successor
  <2>4. /\ Grows(k, k \o <<x, y>>)
        /\ DOMAIN (k \o <<x, y>>) = DOMAIN k \cup {Len(k) + 1, (Len(k) + 1) + 1}
    BY <2>1, <2>2, SMT DEF Grows
  <2>5. (k \o <<x, y>>)[Len(k) + 1] = x /\ (k \o <<x, y>>)[(Len(k) + 1) + 1] = y
    BY <2>1, <2>2, SMT
  <2> QED BY <2>3, <2>4, <2>5 DEF New, GrowsByTwo
\* The places of new cells.
<1>NewPlaces.
    ASSUME Grounded
    PROVE  /\ New \notin DOMAIN heap /\ New + 1 \notin DOMAIN heap /\ New \in Nat /\ New # New + 1
           /\ New # Device /\ New + 1 # Device
           /\ New <= MaxCells => New \in Cells
           /\ New + 1 <= MaxCells => New \in Cells /\ New + 1 \in Cells
  <2> USE <1>NewPlaces
  <2>1. DOMAIN heap = 1 .. Len(heap) /\ Len(heap) \in Nat /\ Len(heap) >= 4
    BY GroundedFacts, HeapTypes
  <2>2. MaxCells \in Nat
    BY CellsFixed
  <2> QED BY <2>1, <2>2, SMT DEF New, Device, Cells
\* A client outside of a call has nothing to show.
<1>IdleShape.
    ASSUME NEW c \in Clients, Idle(c)
    PROVE  /\ call[c] = NoCall /\ todo[c] = <<>>
           /\ \A h : CallShape(h, NoCall) /\ CallShape(h, call[c])
           /\ \A h, n : Ordered(h, todo[c], n)
  <2> USE <1>IdleShape
  <2>1. call[c] = NoCall /\ todo[c] = <<>>
    BY DEF Idle
  <2>2. DOMAIN NoCall.locals = {}
    BY SMT DEF NoCall
  <2> QED BY <2>1, <2>2, OrderedEmpty DEF CallShape
\* The handles of client e after it got references on x.
<1>HandleTaken.
    ASSUME Grounded, Shape, NEW g, Later(heap, g), NEW e \in Clients, NEW x \in Cells, NEW v \in Nat,
           v >= refs[e][x], refs' = [refs EXCEPT ![e][x] = v],
           g[x].kind \notin Dependent \/ x = HalAllocator
    PROVE  /\ HandleShape(g, refs'[e]) /\ \A d \in Clients : d # e => refs'[d] = refs[d]
           /\ refs[e][Device] \in Nat /\ refs'[e][Device] \in Nat
           /\ refs[e][Device] <= refs'[e][Device]
  <2> USE <1>HandleTaken
  <2>1. refs \in [Clients -> [Cells -> Nat]] /\ Device \in Cells
    BY CellsFixed DEF Grounded, Typed
  <2>2. HandleShape(g, refs[e])
    BY <1>ClientsLater DEF ClientShape
  <2>3. /\ refs'[e][x] = v /\ \A y \in Cells : y # x => refs'[e][y] = refs[e][y]
        /\ \A d \in Clients : d # e => refs'[d] = refs[d]
    BY <2>1
  <2>4. HandleShape(g, refs'[e])
    BY <2>2, <2>3 DEF HandleShape
  <2>5. \A y \in Cells : refs[e][y] \in Nat
    BY <2>1
  <2>6. \A y \in Cells : refs'[e][y] \in Nat /\ refs[e][y] <= refs'[e][y]
    <3>1. \A n \in Nat : n <= n
      BY SMT
    <3>2. refs[e][x] <= v
      BY <2>5, SMT
    <3> QED BY <2>3, <2>5, <3>1, <3>2
  <2> QED BY <2>1, <2>3, <2>4, <2>5, <2>6
\* The handles of client c after it gave a reference on x away.
<1>HandleGiven.
    ASSUME Grounded, Shape, NEW g, Later(heap, g), NEW c \in Clients, NEW x \in Cells,
           refs[c][x] > 0, refs' = [refs EXCEPT ![c][x] = refs[c][x] - 1]
    PROVE  /\ HandleShape(g, refs'[c]) /\ refs'[c][Device] \in Nat
           /\ \A d \in Clients : d # c => refs'[d] = refs[d]
  <2> USE <1>HandleGiven
  <2>1. refs \in [Clients -> [Cells -> Nat]] /\ Device \in Cells
    BY CellsFixed DEF Grounded, Typed
  <2>2. HandleShape(g, refs[c])
    BY <1>ClientsLater DEF ClientShape
  <2>3. /\ refs'[c][x] = refs[c][x] - 1 /\ \A y \in Cells : y # x => refs'[c][y] = refs[c][y]
        /\ \A d \in Clients : d # c => refs'[d] = refs[d]
    BY <2>1
  <2>4. HandleShape(g, refs'[c])
    BY <2>2, <2>3 DEF HandleShape
  <2>5. \A n \in Nat : n > 0 => n - 1 \in Nat
    BY SMT
  <2> QED BY <2>1, <2>3, <2>4, <2>5
\* A handle is not something that points to others, but for the inline allocator.
<1>HandleKinds.
    ASSUME Grounded, Shape, NEW c \in Clients, NEW o \in DOMAIN heap, refs[c][o] > 0,
           o # HalAllocator
    PROVE  heap[o].kind \notin Dependent /\ \A h : Later(heap, h) => h[o].kind \notin Dependent
  <2> USE <1>HandleKinds
  <2>1. o \in Cells
    BY GroundedFacts, HeapTypes
  <2>2. HandleShape(heap, refs[c])
    BY DEF Shape, ClientShape
  <2>3. heap[o].kind \notin Dependent
    BY <2>1, <2>2 DEF HandleShape
  <2> QED BY <2>3 DEF Later
(***************************************************************************)
(* Retain, release and teardown.                                           *)
(***************************************************************************)
\* Retaining and releasing a handle, the allocator and the runtime preserve the order.
<1>HandleOrder.
    \A c \in Clients :
        Grounded /\ Shape /\ (\/ handle_retain(c) \/ handle_release(c) \/ shutdown(c)
                              \/ hrx_allocator_retain(c) \/ hrx_allocator_release(c)) => Shape'
\* The heap after references are taken has its shape.
  <2>Taken.
      ASSUME Grounded, Shape, NEW k, Base(k), heap' = k
      PROVE  Later(heap, heap') /\ \A q \in DOMAIN heap' : CellShape(heap', q)
    <3> USE <2>Taken
    <3>1. Grows(k, k) /\ DOMAIN k = DOMAIN heap /\ Successor(heap, k)
      BY DEF Grows, Base, Successor
    <3> QED BY <3>1, <1>GrownShape
  \* A client gets a reference on a handle or on the allocator.
  <2>Taking.
      ASSUME Grounded, Shape, NEW e \in Clients, NEW x \in Cells, NEW s, heap' = Retained(s),
             heap'[x].kind \notin Dependent \/ x = HalAllocator,
             refs' = [refs EXCEPT ![e][x] = refs[e][x] + 1], call' = call, todo' = todo
      PROVE  Shape'
    <3> USE <2>Taking
    <3>1. Later(heap, heap') /\ \A q \in DOMAIN heap' : CellShape(heap', q)
      BY <1>Bases, <2>Taken
    <3>2. refs[e][x] \in Nat
      BY GroundedFacts
    <3>3. refs[e][x] + 1 \in Nat /\ refs[e][x] + 1 >= refs[e][x]
      BY <3>2, SMT
    <3>4. /\ HandleShape(heap', refs'[e]) /\ \A d \in Clients : d # e => refs'[d] = refs[d]
          /\ refs[e][Device] \in Nat /\ refs'[e][Device] \in Nat
          /\ refs[e][Device] <= refs'[e][Device]
      BY <3>1, <3>3, <1>HandleTaken
    <3>5. CallShape(heap', call[e])
      BY <3>1, <1>ClientsLater DEF ClientShape
    <3>6. Ordered(heap', todo[e], refs'[e][Device])
      <4>1. Ordered(heap, todo[e], refs[e][Device]) /\ Within(heap, todo[e])
        BY GroundedFacts DEF Shape, ClientShape
      <4> QED BY <3>1, <3>4, <4>1, <1>OrderedLater
    <3>7. ClientShape(heap', refs'[e], call'[e], todo'[e])
      BY <3>4, <3>5, <3>6 DEF ClientShape
    <3> QED BY <3>1, <3>4, <3>7, <1>ShapeStep
  \* A client that is in no call has references l to release.
  <2>Releasing.
      ASSUME Grounded, Shape, NEW c \in Clients, Idle(c), heap' = heap, call' = call,
             NEW l, todo' = [todo EXCEPT ![c] = l], \A n : Ordered(heap, l, n),
             HandleShape(heap, refs'[c]), \A d \in Clients : d # c => refs'[d] = refs[d]
      PROVE  Shape'
    <3> USE <2>Releasing
    <3>1. Later(heap, heap') /\ \A q \in DOMAIN heap' : CellShape(heap', q)
      BY <1>Bases, <2>Taken
    <3>2. todo \in [Clients -> Seq(Cells)]
      BY DEF Grounded, Typed
    <3>3. todo'[c] = l /\ \A d \in Clients : d # c => todo'[d] = todo[d]
      BY <3>2
    <3>4. CallShape(heap', call'[c])
      BY <1>IdleShape
    <3>5. ClientShape(heap', refs'[c], call'[c], todo'[c])
      BY <3>3, <3>4 DEF ClientShape
    <3> QED BY <3>1, <3>3, <3>5, <1>ShapeStep
  \* One element that is not strict.
  <2>One.
      ASSUME NEW o, ~Strict(heap, o)
      PROVE  \A n : Ordered(heap, <<o>>, n)
    <3>1. \A i \in DOMAIN <<o>> : <<o>>[i] = o
      BY SMT
    <3> QED BY <2>One, <3>1, <1>OrderedLoose
  <2> SUFFICES ASSUME NEW c \in Clients, Grounded, Shape,
                      \/ handle_retain(c) \/ handle_release(c) \/ shutdown(c)
                      \/ hrx_allocator_retain(c) \/ hrx_allocator_release(c)
               PROVE  Shape'
    OBVIOUS
  <2>0. /\ heap[Device].kind = "device" /\ ~Strict(heap, Device) /\ Device \in DOMAIN heap
        /\ HalAllocator \in DOMAIN heap /\ DOMAIN heap \subseteq Cells
        /\ HalAllocator \in Cells
    <3>1. heap[Device].kind = "device"
      BY DEF Grounded, HeapSound
    <3>2. ~Strict(heap, Device)
      BY <3>1 DEF Strict, Dependent
    <3> QED BY <3>1, <3>2, GroundedFacts, HeapTypes
  <2>1. CASE handle_retain(c)
    <3>1. PICK o \in DOMAIN heap, e \in Clients :
             /\ Idle(c) /\ refs[c][o] > 0 /\ o # HalAllocator
             /\ heap' = Retained(<<o>>) /\ refs' = [refs EXCEPT ![e][o] = refs[e][o] + 1]
             /\ call' = call /\ todo' = todo
      BY <2>1 DEF handle_retain
    <3>2. Later(heap, heap')
      BY <3>1, <1>Bases, <2>Taken
    <3>3. heap'[o].kind \notin Dependent
      BY <3>1, <3>2, <1>HandleKinds
    <3> QED BY <2>0, <3>1, <3>3, <2>Taking
  <2>2. CASE handle_release(c)
    <3>1. PICK o \in DOMAIN heap :
             /\ Idle(c) /\ refs[c][o] > 0 /\ o # HalAllocator
             /\ refs' = [refs EXCEPT ![c][o] = refs[c][o] - 1]
             /\ todo' = [todo EXCEPT ![c] = <<o>>]
             /\ heap' = heap /\ call' = call
      BY <2>2 DEF handle_release
    <3>2. Later(heap, heap)
      BY <1>Bases DEF Base, Successor
    <3>3. ~Strict(heap, o)
      BY <3>1, <1>HandleKinds DEF Strict
    <3>4. HandleShape(heap, refs'[c]) /\ \A d \in Clients : d # c => refs'[d] = refs[d]
      BY <2>0, <3>1, <3>2, <1>HandleGiven
    <3> QED BY <3>1, <3>3, <3>4, <2>One, <2>Releasing
  <2>3. CASE shutdown(c)
    <3>1. /\ Idle(c) /\ todo' = [todo EXCEPT ![c] = <<Device>>]
          /\ heap' = heap /\ call' = call /\ refs' = refs
      BY <2>3 DEF shutdown
    <3>2. HandleShape(heap, refs'[c])
      BY <3>1 DEF Shape, ClientShape
    <3> QED BY <2>0, <3>1, <3>2, <2>One, <2>Releasing
  <2>4. CASE hrx_allocator_retain(c)
    <3>1. /\ heap' = Retained(<<HalAllocator, Device>>)
          /\ refs' = [refs EXCEPT ![c][HalAllocator] = refs[c][HalAllocator] + 1]
          /\ call' = call /\ todo' = todo
      BY <2>4 DEF hrx_allocator_retain
    <3> QED BY <2>0, <3>1, <2>Taking
  <2>5. CASE hrx_allocator_release(c)
    <3>1. /\ Idle(c) /\ refs[c][HalAllocator] > 0
          /\ refs' = [refs EXCEPT ![c][HalAllocator] = refs[c][HalAllocator] - 1]
          /\ todo' = [todo EXCEPT ![c] = <<HalAllocator, Device>>]
          /\ heap' = heap /\ call' = call
      BY <2>5 DEF hrx_allocator_release
    <3>2. Later(heap, heap)
      BY <1>Bases DEF Base, Successor
    <3>3. HandleShape(heap, refs'[c]) /\ \A d \in Clients : d # c => refs'[d] = refs[d]
      BY <2>0, <3>1, <3>2, <1>HandleGiven
    <3>4. ASSUME NEW n PROVE Ordered(heap, <<HalAllocator, Device>>, n)
      <4> DEFINE l == <<HalAllocator, Device>>
      <4>1. /\ l # <<>> /\ l \in Seq({HalAllocator, Device}) /\ l[Len(l)] = Device
            /\ \A i \in DOMAIN l : l[i] = HalAllocator \/ l[i] = Device
        BY SMT
      <4>2. \A p \in heap[HalAllocator].needs : p = HalDevice
        BY DEF Shape, HeapShape
      <4> HIDE DEF l
      <4>3. \A i \in DOMAIN l : Strict(heap, l[i]) => \A p \in heap[l[i]].needs : p = HalDevice
        BY <2>0, <4>1, <4>2
      <4>4. Ordered(heap, l, n)
        BY <2>0, <4>1, <4>3, <1>OrderedDevice
      <4> QED BY <4>4 DEF l
    <3> QED BY <3>1, <3>3, <3>4, <2>Releasing
  <2> QED BY <2>1, <2>2, <2>3, <2>4, <2>5
\* Releasing the next reference of a teardown and a reserved range of virtual memory
\* preserve the order.
<1>TeardownOrder.
    \A c \in Clients :
        Grounded /\ Shape /\ (\/ DropOne(c) \/ hrx_allocator_virtual_memory_release(c)) => Shape'
\* The fields of an object that ends take its place among what is to be released.
  <2>Dropped.
      ASSUME Grounded, Shape, NEW c \in Clients, todo[c] # <<>>
      PROVE  LET o == Head(todo[c])
                 n == refs[c][Device]
             IN  /\ o \in DOMAIN heap
                 /\ Ordered(heap, heap[o].own \o Tail(todo[c]), n)
                 /\ Ordered(heap, <<>> \o Tail(todo[c]), n)
                 /\ Within(heap, heap[o].own \o Tail(todo[c]))
                 /\ Within(heap, <<>> \o Tail(todo[c]))
    <3> USE <2>Dropped
    <3> DEFINE t == todo[c]
               o == Head(t)
               n == refs[c][Device]
    <3>1. t \in Seq(Cells) /\ t # <<>> /\ Within(heap, t) /\ Ordered(heap, t, n)
      BY GroundedFacts DEF Shape, ClientShape
    <3> HIDE DEF t, n
    <3>2. Head(t) = t[1] /\ 1 \in DOMAIN t
      BY <3>1, SMT
    <3>3. o \in DOMAIN heap
      BY <3>1, <3>2 DEF Within
    <3> HIDE DEF o
    <3>4. /\ heap[o].own \in Seq(Cells) /\ Within(heap, heap[o].own) /\ CellShape(heap, o)
      BY <3>3, GroundedFacts DEF Shape, HeapShape
    <3>5. ASSUME NEW own \in Seq(Cells), Within(heap, own),
                 \A i \in DOMAIN own : Strict(heap, own[i]) =>
                    \/ Covered(heap, own, 0, i)
                    \/ Strict(heap, t[1]) /\ heap[own[i]].needs \subseteq heap[t[1]].needs
          PROVE  Ordered(heap, own \o Tail(t), n) /\ Within(heap, own \o Tail(t))
      <4> DEFINE w == own \o Tail(t)
                 m == Len(own)
      <4>1. /\ m \in Nat /\ DOMAIN own = 1 .. m
            /\ \A i \in DOMAIN own : i \in DOMAIN w /\ w[i] = own[i] /\ i \in Nat /\ i <= m
            /\ \A i \in DOMAIN w : i \in Nat /\ (i \in DOMAIN own \/ i > m)
        BY <3>1, SMT
      <4>2. ASSUME NEW i \in DOMAIN w, i > m
            PROVE  /\ (i - m) + 1 \in DOMAIN t /\ w[i] = t[(i - m) + 1]
        BY <3>1, <4>1, <4>2, SMT
      <4>3. ASSUME NEW j \in DOMAIN t, j > 1
            PROVE  /\ (j + m) - 1 \in DOMAIN w /\ w[(j + m) - 1] = t[j]
                   /\ \A i \in Nat : i <= m => (j + m) - 1 > i
                   /\ \A i \in Nat : i > m /\ j > (i - m) + 1 => (j + m) - 1 > i
        BY <3>1, <4>1, <4>3, SMTT(30)
      <4> HIDE DEF w, m
      <4>4. Within(heap, w)
        <5>1. \A i \in DOMAIN own : own[i] \in DOMAIN heap
          BY <3>5 DEF Within
        <5>2. \A i \in DOMAIN t : t[i] \in DOMAIN heap
          BY <3>1 DEF Within
        <5> QED BY <4>1, <4>2, <5>1, <5>2 DEF Within
      <4>5. ASSUME NEW i \in DOMAIN w, Strict(heap, w[i]) PROVE Covered(heap, w, n, i)
        <5>1. CASE i \in DOMAIN own /\ Covered(heap, own, 0, i)
          <6>1. w[i] = own[i] /\ ~(0 > 0)
            BY <4>1, <5>1, SMT
          <6>2. \A p \in heap[own[i]].needs : \E j \in DOMAIN own : j > i /\ Keeps(own[j], p)
            BY <5>1, <6>1 DEF Covered
          <6>3. \A p \in heap[w[i]].needs : \E j \in DOMAIN w : j > i /\ Keeps(w[j], p)
            BY <4>1, <6>1, <6>2
          <6> QED BY <6>3 DEF Covered
        <5>2. CASE i \in DOMAIN own /\ ~Covered(heap, own, 0, i)
          <6>1. w[i] = own[i] /\ i <= m /\ i \in Nat
            BY <4>1, <5>2
          <6>2. Strict(heap, t[1]) /\ heap[w[i]].needs \subseteq heap[t[1]].needs
            BY <3>5, <4>5, <5>2, <6>1
          <6>3. Covered(heap, t, n, 1)
            BY <3>1, <3>2, <6>2 DEF Ordered
          <6>4. ASSUME NEW p \in heap[w[i]].needs
                PROVE  (\E j \in DOMAIN w : j > i /\ Keeps(w[j], p)) \/ (n > 0 /\ p = HalDevice)
            <7>1. (\E j \in DOMAIN t : j > 1 /\ Keeps(t[j], p)) \/ (n > 0 /\ p = HalDevice)
              BY <6>2, <6>3 DEF Covered
            <7> QED BY <4>3, <6>1, <7>1
          <6> QED BY <6>4 DEF Covered
        <5>3. CASE i \notin DOMAIN own
          <6>1. i > m /\ i \in Nat
            BY <4>1, <5>3
          <6>2. (i - m) + 1 \in DOMAIN t /\ w[i] = t[(i - m) + 1]
            BY <4>2, <6>1
          <6>3. Covered(heap, t, n, (i - m) + 1)
            BY <3>1, <4>5, <6>2 DEF Ordered
          <6>4. ASSUME NEW p \in heap[w[i]].needs
                PROVE  (\E j \in DOMAIN w : j > i /\ Keeps(w[j], p)) \/ (n > 0 /\ p = HalDevice)
            <7>1. \/ \E j \in DOMAIN t : j > (i - m) + 1 /\ Keeps(t[j], p)
                  \/ n > 0 /\ p = HalDevice
              BY <6>2, <6>3 DEF Covered
            <7>2. \A j \in DOMAIN t : j > (i - m) + 1 => j > 1
              BY <3>1, <4>1, <6>1, SMT
            <7> QED BY <4>3, <6>1, <7>1, <7>2
          <6> QED BY <6>4 DEF Covered
        <5> QED BY <5>1, <5>2, <5>3
      <4> QED BY <4>4, <4>5 DEF Ordered, w
    <3>6. Ordered(heap, heap[o].own \o Tail(t), n) /\ Within(heap, heap[o].own \o Tail(t))
      <4>1. ASSUME NEW i \in DOMAIN heap[o].own, Strict(heap, heap[o].own[i])
            PROVE  \/ Covered(heap, heap[o].own, 0, i)
                   \/ Strict(heap, t[1]) /\ heap[heap[o].own[i]].needs \subseteq heap[t[1]].needs
        <5>1. Owns(heap, o, heap[o].own[i]) /\ (heap[o].kind \in Anchors => Ordered(heap, heap[o].own, 0))
          BY <3>4 DEF CellShape
        <5>2. CASE heap[o].kind \in Anchors
          BY <4>1, <5>1, <5>2 DEF Ordered
        <5>3. CASE Strict(heap, o)
          BY <3>2, <4>1, <5>1, <5>3 DEF Owns, o
        <5> QED BY <4>1, <5>1, <5>2, <5>3 DEF Owns
      <4> QED BY <3>4, <3>5, <4>1
    <3>7. Ordered(heap, <<>> \o Tail(t), n) /\ Within(heap, <<>> \o Tail(t))
      <4>1. <<>> \in Seq(Cells) /\ DOMAIN <<>> = {}
        BY SMT
      <4>2. Within(heap, <<>>)
        BY <4>1 DEF Within
      <4> QED BY <3>5, <4>1, <4>2
    <3> QED BY <3>3, <3>6, <3>7 DEF t, o, n
  \* One cell changes its count and its ends, and may lose its fields.
  <2>Ended.
      ASSUME Grounded, Shape, NEW o \in DOMAIN heap, NEW x, heap' = [heap EXCEPT ![o] = x],
             x.kind = heap[o].kind, x.needs = heap[o].needs, x.lent = heap[o].lent,
             x.lost = heap[o].lost, x.own = heap[o].own \/ x.own = <<>>
      PROVE  Later(heap, heap') /\ \A q \in DOMAIN heap' : CellShape(heap', q)
    <3> USE <2>Ended
    <3>1. DOMAIN heap' = DOMAIN heap /\ heap'[o] = x /\ \A q \in DOMAIN heap : q # o => heap'[q] = heap[q]
      <4>1. heap \in [DOMAIN heap -> CellType]
        <5>1. heap \in Seq(CellType)
          BY GroundedFacts, HeapTypes
        <5> QED BY <5>1, SMT
      <4> QED BY <4>1
    <3>2. \A q \in DOMAIN heap :
             /\ heap'[q].kind = heap[q].kind /\ heap'[q].needs = heap[q].needs
             /\ heap'[q].lent = heap[q].lent /\ heap'[q].lost = heap[q].lost
             /\ heap'[q].own = heap[q].own \/ heap'[q].own = <<>>
      BY <3>1
    <3>3. Successor(heap, heap')
      BY <3>1, <3>2, <1>SameShape
    <3>4. Grows(heap', heap')
      BY DEF Grows
    <3> QED BY <3>1, <3>3, <3>4, <1>GrownShape
  <2> DEFINE Ended(z, a, b, d) == [z EXCEPT !.count = a, !.ends = b, !.own = d]
             Fewer(z, a) == [z EXCEPT !.count = a]
             SameBut(x, z) == /\ x.kind = z.kind /\ x.needs = z.needs /\ x.lent = z.lent
                              /\ x.lost = z.lost /\ (x.own = z.own \/ x.own = <<>>)
  \* What a change to count, ends and own leaves.
  <2>Edits.
      ASSUME NEW z \in CellType, NEW a, NEW b, NEW d, d = z.own \/ d = <<>>
      PROVE  SameBut(Ended(z, a, b, d), z) /\ SameBut(Fewer(z, a), z)
    <3>1. /\ Ended(z, a, b, d).kind = z.kind /\ Ended(z, a, b, d).needs = z.needs
          /\ Ended(z, a, b, d).lent = z.lent /\ Ended(z, a, b, d).lost = z.lost
          /\ Ended(z, a, b, d).own = d
      BY <2>Edits, SMT DEF CellType
    <3>2. /\ Fewer(z, a).kind = z.kind /\ Fewer(z, a).needs = z.needs
          /\ Fewer(z, a).lent = z.lent /\ Fewer(z, a).lost = z.lost /\ Fewer(z, a).own = z.own
      BY <2>Edits, SMT DEF CellType
    <3> HIDE DEF Ended, Fewer
    <3> QED BY <2>Edits, <3>1, <3>2
  <2> SUFFICES ASSUME NEW c \in Clients, Grounded, Shape,
                      DropOne(c) \/ hrx_allocator_virtual_memory_release(c)
               PROVE  Shape'
    OBVIOUS
  <2>0. \A q \in DOMAIN heap : heap[q] \in CellType /\ q \in Cells
    BY GroundedFacts, HeapTypes
  <2>1. todo \in [Clients -> Seq(Cells)] /\ refs[c][Device] \in Nat
    BY GroundedFacts, CellsFixed DEF Grounded, Typed
  <2>2. CASE DropOne(c)
    <3> DEFINE o == Head(todo[c])
               last == heap[o].count <= 1
               x == Ended(heap[o], heap[o].count - 1, IF last THEN heap[o].ends + 1 ELSE heap[o].ends,
                          IF last THEN <<>> ELSE heap[o].own)
               l == (IF last THEN heap[o].own ELSE <<>>) \o Tail(todo[c])
    <3>1. /\ todo[c] # <<>> /\ heap' = [heap EXCEPT ![o] = x] /\ todo' = [todo EXCEPT ![c] = l]
          /\ refs' = refs /\ call' = call
      BY <2>2 DEF DropOne
    <3>2. /\ o \in DOMAIN heap /\ Ordered(heap, l, refs[c][Device]) /\ Within(heap, l)
      BY <3>1, <2>Dropped
    <3>3. SameBut(x, heap[o])
      <4>1. heap[o] \in CellType
        BY <2>0, <3>2
      <4> HIDE DEF o, Ended, Fewer, SameBut
      <4> QED BY <4>1, <2>Edits
    <3> HIDE DEF x, l, o
    <3>4. Later(heap, heap') /\ \A q \in DOMAIN heap' : CellShape(heap', q)
      BY <3>1, <3>2, <3>3, <2>Ended
    <3>5. todo'[c] = l /\ \A d \in Clients : d # c => todo'[d] = todo[d]
      BY <2>1, <3>1
    <3>6. CallShape(heap', call'[c]) /\ HandleShape(heap', refs'[c])
      BY <3>1, <3>4, <1>ClientsLater DEF ClientShape
    <3>7. Ordered(heap', todo'[c], refs'[c][Device])
      <4>1. refs[c][Device] <= refs[c][Device]
        BY <2>1, SMT
      <4> QED BY <2>1, <3>1, <3>2, <3>4, <3>5, <4>1, <1>OrderedLater
    <3>8. ClientShape(heap', refs'[c], call'[c], todo'[c])
      BY <3>6, <3>7 DEF ClientShape
    <3> QED BY <3>1, <3>4, <3>5, <3>8, <1>ShapeStep
  <2>3. CASE hrx_allocator_virtual_memory_release(c)
    <3>1. PICK b \in Holds(c, "buffer") :
             /\ Idle(c)
             /\ refs' = [refs EXCEPT ![c][b] = refs[c][b] - 1]
             /\ IF heap[b].count = 1
                  THEN /\ todo' = [todo EXCEPT ![c] = heap[b].own]
                       /\ heap' = [heap EXCEPT ![b] =
                                     [heap[b] EXCEPT !.count = 0, !.ends = heap[b].ends + 1, !.own = <<>>]]
                  ELSE /\ heap' = [heap EXCEPT ![b] = [heap[b] EXCEPT !.count = heap[b].count - 1]]
                       /\ todo' = todo
             /\ call' = call
      BY <2>3 DEF hrx_allocator_virtual_memory_release
    <3>2. b \in DOMAIN heap /\ b \in Cells /\ refs[c][b] > 0 /\ heap[b].kind = "buffer"
      BY <2>0 DEF Holds
    <3>3. Later(heap, heap') /\ \A q \in DOMAIN heap' : CellShape(heap', q)
      <4>1. CASE heap[b].count = 1
        <5> DEFINE x == Ended(heap[b], 0, heap[b].ends + 1, <<>>)
        <5>1. SameBut(x, heap[b])
          <6> HIDE DEF Ended, Fewer, SameBut
          <6> QED BY <2>0, <3>2, <2>Edits
        <5>2. heap' = [heap EXCEPT ![b] = x]
          BY <3>1, <4>1
        <5> HIDE DEF x
        <5> QED BY <3>2, <5>1, <5>2, <2>Ended
      <4>2. CASE heap[b].count # 1
        <5> DEFINE x == Fewer(heap[b], heap[b].count - 1)
        <5>1. SameBut(x, heap[b])
          <6> HIDE DEF Ended, Fewer, SameBut
          <6> QED BY <2>0, <3>2, <2>Edits
        <5>2. heap' = [heap EXCEPT ![b] = x]
          BY <3>1, <4>2
        <5> HIDE DEF x
        <5> QED BY <3>2, <5>1, <5>2, <2>Ended
      <4> QED BY <4>1, <4>2
    <3>4. /\ HandleShape(heap', refs'[c]) /\ refs'[c][Device] \in Nat
          /\ \A d \in Clients : d # c => refs'[d] = refs[d]
      BY <3>1, <3>2, <3>3, <1>HandleGiven
    <3>5. /\ todo'[c] = heap[b].own \/ todo'[c] = <<>>
          /\ \A d \in Clients : d # c => todo'[d] = todo[d]
      BY <2>1, <3>1 DEF Idle
    <3>6. Ordered(heap', todo'[c], refs'[c][Device])
      <4>1. Ordered(heap, heap[b].own, 0) /\ Within(heap, heap[b].own)
        BY <3>2, GroundedFacts DEF Shape, HeapShape, CellShape, Anchors
      <4>2. 0 \in Nat /\ 0 <= refs'[c][Device]
        BY <3>4, SMT
      <4>3. Ordered(heap', heap[b].own, refs'[c][Device])
        BY <3>3, <3>4, <4>1, <4>2, <1>OrderedLater
      <4> QED BY <3>5, <4>3, OrderedEmpty
    <3>7. ClientShape(heap', refs'[c], call'[c], todo'[c])
      BY <3>1, <3>4, <3>6, <1>IdleShape DEF ClientShape
    <3> QED BY <3>1, <3>3, <3>4, <3>5, <3>7, <1>ShapeStep
  <2> QED BY <2>2, <2>3
(***************************************************************************)
(* Steps that change the fields of an object.                              *)
(***************************************************************************)
\* The HAL object of a handle is one of its fields.
<1>HalShape.
    ASSUME Grounded, Shape, NEW c \in Clients,
           NEW kind \in {"buffer", "semaphore", "fence", "view", "list"}, NEW b \in Holds(c, kind)
    PROVE  /\ b \in DOMAIN heap /\ heap[b].kind = kind /\ CellShape(heap, b)
           /\ heap[b].own \in Seq(Cells) /\ 1 \in DOMAIN heap[b].own /\ Sound(heap, heap[b])
           /\ Hal(b) \in DOMAIN heap /\ Hal(b) \in Cells /\ Shareable(Hal(b))
           /\ Rank(heap[Hal(b)].kind) < Rank(kind)
           /\ kind \in DOMAIN Wrapped => heap[Hal(b)].kind = Wrapped[kind]
  <2> USE <1>HalShape
  <2> DEFINE own == heap[b].own
  <2>1. b \in DOMAIN heap /\ heap[b].kind = kind /\ refs[c][b] > 0 /\ DOMAIN heap \subseteq Cells
    BY GroundedFacts, HeapTypes DEF Holds
  <2>2. heap[b].count > 0 /\ heap[b] \in CellType /\ Sound(heap, heap[b])
    BY <2>1, GroundedFacts, HeapTypes
  <2>3. own \in Seq(Cells) /\ own # <<>> /\ Within(heap, own) /\ CellShape(heap, b)
    BY <2>1, <2>2, GroundedFacts DEF Sound, Shape, HeapShape
  <2>4. 1 \in DOMAIN own /\ (Len(own) >= 2 => 2 \in DOMAIN own)
    <3> HIDE DEF own
    <3> QED BY <2>3, SMT
  <2>5. \E i \in DOMAIN own : Hal(b) = own[i]
    <3>1. CASE heap[own[1]].kind = "mapped_range"
      <4>1. Len(own) >= 2
        BY <2>2, <2>4, <3>1 DEF Sound, Private
      <4> QED BY <2>4, <3>1, <4>1 DEF Hal
    <3>2. CASE heap[own[1]].kind # "mapped_range"
      BY <2>4, <3>2 DEF Hal
    <3> QED BY <3>1, <3>2
  <2>6. Hal(b) \in DOMAIN heap /\ Owns(heap, b, Hal(b))
    BY <2>3, <2>5 DEF Within, CellShape
  <2>7. /\ Rank(heap[Hal(b)].kind) < Rank(kind)
        /\ kind \in DOMAIN Wrapped => heap[Hal(b)].kind = Wrapped[kind]
    BY <2>1, <2>6 DEF Owns
  <2>8. Shareable(Hal(b))
    <3>1. CASE kind \in {"buffer", "semaphore"}
      <4>1. Rank(kind) = 2
        BY <3>1, Ranks
      <4> QED BY <2>6, <2>7, <4>1 DEF Shareable
    <3>2. CASE kind \notin {"buffer", "semaphore"}
      <4>1. kind \in DOMAIN Wrapped
            /\ Wrapped[kind] \in {"hal_buffer_view", "hal_fence", "vm_list"}
        BY <3>2, SMT DEF Wrapped
      <4>2. heap[Hal(b)].kind \in {"hal_buffer_view", "hal_fence", "vm_list"}
        BY <2>7, <4>1
      <4>3. heap[Hal(b)].kind \notin Dependent /\ heap[Hal(b)].kind \notin Anchors
        BY <4>2, SMT DEF Dependent, Anchors
      <4> QED BY <2>6, <4>3 DEF Shareable
    <3> QED BY <3>1, <3>2
  <2> QED BY <2>1, <2>2, <2>3, <2>4, <2>6, <2>7, <2>8
\* The shape of new cells and of one that changes is all there is to show.
<1>TweakedShape.
    ASSUME Grounded, Shape, NEW h, Successor(heap, h), NEW g, NEW x \in DOMAIN heap,
           \A q \in DOMAIN heap :
              /\ q \in DOMAIN g /\ g[q].kind = h[q].kind /\ g[q].needs = h[q].needs
              /\ g[q].lent = h[q].lent
              /\ q # x => g[q].own = h[q].own /\ g[q].lost = h[q].lost,
           \A q \in DOMAIN g : q \notin DOMAIN heap \/ q = x => CellShape(g, q)
    PROVE  Later(heap, g) /\ \A q \in DOMAIN g : CellShape(g, q)
  <2> USE <1>TweakedShape
  <2>1. \A q \in DOMAIN heap : Strict(g, q) <=> Strict(h, q)
    BY DEF Strict
  <2>2. Later(heap, g)
    BY DEF Successor, Later
  <2>3. ASSUME NEW q \in DOMAIN heap, q # x PROVE CellShape(g, q)
    <3>1. CellLater(heap, h, q) /\ g[q].own = h[q].own /\ g[q].lost = h[q].lost
      BY <2>3 DEF Successor
    <3>2. Within(heap, heap[q].own) /\ CellShape(heap, q)
      BY GroundedFacts DEF Shape, HeapShape
    <3>3. \A i \in DOMAIN heap[q].own : Strict(g, heap[q].own[i]) <=> Strict(h, heap[q].own[i])
      BY <2>1, <3>2 DEF Within
    <3>4. CellLater(heap, g, q)
      BY <2>1, <3>1, <3>3 DEF CellLater
    <3> QED BY <2>2, <3>2, <3>4, <1>CellShapeLater
  <2> QED BY <2>2, <2>3
\* What an IREE list or fence owns is not strict.
<1>LooseFields.
    ASSUME Grounded, Shape, NEW x \in DOMAIN heap, heap[x].kind \in {"hal_fence", "vm_list"}
    PROVE  /\ heap[x].own \in Seq(Cells) /\ heap[x].needs = {} /\ heap[x].kind \notin Dependent
           /\ heap[x].kind \notin DOMAIN Wrapped
           /\ \A i \in DOMAIN heap[x].own :
                 /\ heap[x].own[i] \in DOMAIN heap /\ ~Strict(heap, heap[x].own[i])
                 /\ Rank(heap[heap[x].own[i]].kind) < Rank(heap[x].kind)
  <2> USE <1>LooseFields
  <2>1. heap[x].kind \notin Dependent /\ heap[x].kind \notin Anchors /\ heap[x].kind \notin DOMAIN Wrapped
    BY SMT DEF Dependent, Anchors, Wrapped
  <2>2. ~Strict(heap, x)
    BY <2>1 DEF Strict
  <2>3. Within(heap, heap[x].own) /\ CellShape(heap, x) /\ heap[x].own \in Seq(Cells)
    BY GroundedFacts DEF Shape, HeapShape
  <2>4. \A i \in DOMAIN heap[x].own : Owns(heap, x, heap[x].own[i])
    BY <2>3 DEF CellShape
  <2>5. heap[x].needs = {}
    BY <2>1, <2>3 DEF CellShape
  <2> QED BY <2>1, <2>2, <2>3, <2>4, <2>5 DEF Owns, Within
\* A step that changes the heap only.
<1>HeapStep.
    ASSUME Grounded, Shape, NEW c \in Clients, Later(heap, heap'),
           \A q \in DOMAIN heap' : CellShape(heap', q),
           refs' = refs, call' = call, todo' = todo
    PROVE  Shape'
  BY <1>HeapStep, <1>ClientsLater, <1>ShapeStep
\* More fields in front of ordered ones.
<1>OrderedCons.
    ASSUME NEW g, NEW l \in Seq(Cells), Ordered(g, l, 0), NEW x \in Cells,
           \A p \in g[x].needs : \E j \in DOMAIN l : Keeps(l[j], p)
    PROVE  Ordered(g, <<x>> \o l, 0)
  <2> USE <1>OrderedCons
  <2> DEFINE w == <<x>> \o l
  <2>1. /\ 1 \in DOMAIN w /\ w[1] = x
        /\ \A i \in DOMAIN l : i + 1 \in DOMAIN w /\ w[i + 1] = l[i] /\ i + 1 > 1
        /\ \A i, j \in DOMAIN l : j > i => j + 1 > i + 1
        /\ \A i \in DOMAIN w : i = 1 \/ \E j \in DOMAIN l : i = j + 1
    <3>1. Len(l) \in Nat /\ DOMAIN l = 1 .. Len(l) /\ DOMAIN w = 1 .. Len(l) + 1
      BY SMT
    <3>2. w[1] = x
      BY SMT
    <3>3. \A i \in DOMAIN l : w[i + 1] = l[i]
      BY SMT
    <3> HIDE DEF w
    <3>4. /\ 1 \in DOMAIN w
          /\ \A i \in DOMAIN l : i + 1 \in DOMAIN w /\ i + 1 > 1
          /\ \A i, j \in DOMAIN l : j > i => j + 1 > i + 1
      BY <3>1, SMT
    <3>5. ASSUME NEW i \in DOMAIN w, i # 1 PROVE \E j \in DOMAIN l : i = j + 1
      <4>1. i - 1 \in DOMAIN l /\ i = (i - 1) + 1
        BY <3>1, <3>5, SMT
      <4> QED BY <4>1
    <3> QED BY <3>2, <3>3, <3>4, <3>5
  <2> HIDE DEF w
  <2>2. ~(0 > 0)
    BY SMT
  <2>3. Covered(g, w, 0, 1)
    <3>1. \A p \in g[w[1]].needs : \E j \in DOMAIN w : j > 1 /\ Keeps(w[j], p)
      BY <2>1
    <3> QED BY <3>1 DEF Covered
  <2>4. ASSUME NEW i \in DOMAIN l, Strict(g, l[i]) PROVE Covered(g, w, 0, i + 1)
    <3>1. \A p \in g[l[i]].needs : \E j \in DOMAIN l : j > i /\ Keeps(l[j], p)
      BY <2>2, <2>4 DEF Ordered, Covered
    <3>2. \A p \in g[w[i + 1]].needs : \E j \in DOMAIN w : j > i + 1 /\ Keeps(w[j], p)
      BY <2>1, <3>1
    <3> QED BY <3>2 DEF Covered
  <2>5. Ordered(g, w, 0)
    BY <2>1, <2>3, <2>4 DEF Ordered
  <2> QED BY <2>5 DEF w
\* The first field taken away.
<1>OrderedTail.
    ASSUME NEW g, NEW l \in Seq(Cells), l # <<>>, Ordered(g, l, 0)
    PROVE  Ordered(g, Tail(l), 0)
  <2> USE <1>OrderedTail
  <2> DEFINE w == Tail(l)
  <2>1. /\ \A i \in DOMAIN w : i + 1 \in DOMAIN l /\ w[i] = l[i + 1]
        /\ \A i \in DOMAIN w, j \in DOMAIN l : j > i + 1 => j - 1 \in DOMAIN w /\ w[j - 1] = l[j] /\ j - 1 > i
    BY SMT
  <2> HIDE DEF w
  <2>2. ASSUME NEW i \in DOMAIN w, Strict(g, w[i]) PROVE Covered(g, w, 0, i)
    <3>1. Covered(g, l, 0, i + 1)
      BY <2>1, <2>2 DEF Ordered
    <3> QED BY <2>1, <3>1 DEF Covered
  <2>3. Ordered(g, w, 0)
    BY <2>2 DEF Ordered
  <2> QED BY <2>3 DEF w
\* What a fence or a list takes up, and mapping and unmapping a buffer, preserve the order.
<1>FieldOrder.
    \A c \in Clients :
        FiniteParts /\ Grounded /\ Shape
        /\ (\/ hrx_fence_insert(c) \/ hrx_fence_extend(c)
            \/ hrx_value_list_push(c) \/ hrx_function_invoke(c)
            \/ hrx_buffer_map(c) \/ hrx_buffer_get_device_ptr(c) \/ hrx_buffer_unmap(c))
        => Shape'
\* What a change to one field leaves.
  <2>Edits.
      ASSUME NEW z \in CellType, NEW s, NEW n
      PROVE  /\ Owning(z, s).kind = z.kind /\ Owning(z, s).needs = z.needs
             /\ Owning(z, s).lent = z.lent /\ Owning(z, s).lost = z.lost /\ Owning(z, s).own = s
             /\ Gone(z, n).kind = z.kind /\ Gone(z, n).needs = z.needs
             /\ Gone(z, n).lent = z.lent /\ Gone(z, n).lost = z.lost /\ Gone(z, n).own = z.own
    <3>1. /\ Owning(z, s).kind = z.kind /\ Owning(z, s).needs = z.needs
          /\ Owning(z, s).lent = z.lent /\ Owning(z, s).lost = z.lost /\ Owning(z, s).own = s
      BY <2>Edits, SMT DEF CellType, Owning
    <3>2. /\ Gone(z, n).kind = z.kind /\ Gone(z, n).needs = z.needs
          /\ Gone(z, n).lent = z.lent /\ Gone(z, n).lost = z.lost /\ Gone(z, n).own = z.own
      BY <2>Edits, SMT DEF CellType, Gone
    <3> QED BY <3>1, <3>2
  \* A heap where one cell is replaced.
  <2>Replaced.
      ASSUME Grounded, NEW h, Base(h), NEW x \in DOMAIN heap, NEW z
      PROVE  /\ DOMAIN Put(h, x, z) = DOMAIN heap /\ Put(h, x, z)[x] = z
             /\ \A q \in DOMAIN heap : q # x => Put(h, x, z)[q] = h[q]
    <3> USE <2>Replaced
    <3>1. PICK S : h \in Seq(S)
      BY DEF Base
    <3>2. DOMAIN h = DOMAIN heap
      BY DEF Base, Successor
    <3>3. h \in [DOMAIN h -> S]
      BY <3>1, SMT
    <3> QED BY <3>2, <3>3 DEF Put
  \* The cells after references are lent, and with other fields or a lost reference.
  <2>LentFields.
      ASSUME Grounded, Shape, NEW s, \A y \in Range(s) : Shareable(y), NEW x \in DOMAIN heap
      PROVE  /\ Base(Lent(s)) /\ Successor(heap, Lent(s)) /\ \A y \in Range(s) : ~Strict(Lent(s), y)
             /\ Lent(s)[x].kind = heap[x].kind /\ Lent(s)[x].needs = heap[x].needs
             /\ Lent(s)[x].own = heap[x].own
    BY <2>LentFields, <1>Bases, <1>LentSuccessor, <1>LentCells
  <2>LentEdits.
      ASSUME Grounded, NEW s, NEW x \in DOMAIN heap, NEW t
      PROVE  /\ Owning(Lent(s)[x], t).kind = Lent(s)[x].kind
             /\ Owning(Lent(s)[x], t).needs = Lent(s)[x].needs
             /\ Owning(Lent(s)[x], t).lent = Lent(s)[x].lent
             /\ Owning(Lent(s)[x], t).own = t
             /\ LostOne(Lent(s)[x]).kind = Lent(s)[x].kind /\ LostOne(Lent(s)[x]).needs = Lent(s)[x].needs
             /\ LostOne(Lent(s)[x]).lent = Lent(s)[x].lent /\ LostOne(Lent(s)[x]).own = Lent(s)[x].own
    <3> USE <2>LentEdits
    <3>1. \E a, b : Lent(s)[x] = [heap[x] EXCEPT !.count = a, !.lent = b]
      BY DEF Lent
    <3>2. PICK a, b : Lent(s)[x] = [heap[x] EXCEPT !.count = a, !.lent = b]
      BY <3>1
    <3>3. heap[x] \in CellType
      BY GroundedFacts, HeapTypes
    <3>4. ASSUME NEW z \in CellType, NEW y, y = [z EXCEPT !.count = a, !.lent = b]
          PROVE  /\ Owning(y, t).kind = y.kind /\ Owning(y, t).needs = y.needs
                 /\ Owning(y, t).lent = y.lent /\ Owning(y, t).own = t
                 /\ LostOne(y).kind = y.kind /\ LostOne(y).needs = y.needs
                 /\ LostOne(y).lent = y.lent /\ LostOne(y).own = y.own
      BY <3>4, SMT DEF CellType, Owning, LostOne
    <3> QED BY <3>2, <3>3, <3>4
  \* A fence or a list takes up s.
  <2>Absorbed.
      ASSUME Grounded, Shape, NEW c \in Clients, NEW x \in DOMAIN heap,
             heap[x].kind \in {"hal_fence", "vm_list"}, NEW s \in Seq(Cells),
             \A y \in Range(s) : Shareable(y) /\ Rank(heap[y].kind) < Rank(heap[x].kind),
             Absorb(x, s)
      PROVE  Shape'
    <3> USE <2>Absorbed
    <3> DEFINE h == Lent(s)
               z == Owning(h[x], heap[x].own \o s)
    <3>1. /\ Base(h) /\ Successor(heap, h) /\ \A y \in Range(s) : ~Strict(h, y)
          /\ h[x].kind = heap[x].kind /\ h[x].needs = heap[x].needs /\ h[x].own = heap[x].own
          /\ z.kind = heap[x].kind /\ z.needs = heap[x].needs /\ z.lent = h[x].lent
          /\ z.own = heap[x].own \o s
      <4>1. \A y \in Range(s) : Shareable(y)
        OBVIOUS
      <4> DEFINE w == heap[x].own \o s
      <4> HIDE DEF w
      <4>0. Grounded /\ Shape
        OBVIOUS
      <4>2. /\ Base(h) /\ Successor(heap, h) /\ \A y \in Range(s) : ~Strict(h, y)
            /\ h[x].kind = heap[x].kind /\ h[x].needs = heap[x].needs /\ h[x].own = heap[x].own
        BY <4>0, <4>1, <2>LentFields
      <4>3. /\ Owning(h[x], w).kind = heap[x].kind /\ Owning(h[x], w).needs = heap[x].needs
            /\ Owning(h[x], w).lent = h[x].lent /\ Owning(h[x], w).own = w
        <5>1. ASSUME NEW t
              PROVE  /\ Owning(h[x], t).kind = h[x].kind /\ Owning(h[x], t).needs = h[x].needs
                     /\ Owning(h[x], t).lent = h[x].lent /\ Owning(h[x], t).own = t
          BY ONLY <4>0, <2>LentEdits, x \in DOMAIN heap
        <5> QED BY <4>2, <5>1
      <4> HIDE DEF h
      <4> QED BY <4>2, <4>3 DEF w
    <3>2. /\ heap' = Put(h, x, z) /\ refs' = refs /\ call' = call /\ todo' = todo
      BY <3>1 DEF Absorb, Put, Owning
    <3> HIDE DEF h, z
    <3>3. /\ DOMAIN heap' = DOMAIN heap /\ heap'[x] = z
          /\ \A q \in DOMAIN heap : q # x => heap'[q] = h[q]
      <4>1. /\ DOMAIN Put(h, x, z) = DOMAIN heap /\ Put(h, x, z)[x] = z
            /\ \A q \in DOMAIN heap : q # x => Put(h, x, z)[q] = h[q]
        BY <3>1, <2>Replaced, SMT
      <4> QED BY <3>2, <4>1, SMT
    <3>4. \A q \in DOMAIN heap :
             /\ q \in DOMAIN heap' /\ heap'[q].kind = h[q].kind /\ heap'[q].needs = h[q].needs
             /\ heap'[q].lent = h[q].lent
             /\ q # x => heap'[q].own = h[q].own /\ heap'[q].lost = h[q].lost
      BY <3>1, <3>3
    <3>5. \A q \in DOMAIN heap : /\ Strict(heap', q) => Strict(h, q)
                                 /\ Strict(heap', q) => Strict(heap, q)
                                 /\ heap'[q].kind = heap[q].kind
      <4>1. \A q \in DOMAIN heap : Strict(h, q) => Strict(heap, q)
        BY <3>1 DEF Successor, Later, Strict
      <4>2. \A q \in DOMAIN heap : h[q].kind = heap[q].kind
        BY <3>1 DEF Successor, Later
      <4>3. \A q \in DOMAIN heap : Strict(heap', q) => Strict(h, q)
        BY <3>4 DEF Strict
      <4> QED BY <3>4, <4>1, <4>2, <4>3
    <3>6. CellShape(heap', x)
      <4>1. /\ heap[x].own \in Seq(Cells) /\ heap[x].needs = {} /\ heap[x].kind \notin Dependent
            /\ heap[x].kind \notin DOMAIN Wrapped
            /\ \A i \in DOMAIN heap[x].own :
                  /\ heap[x].own[i] \in DOMAIN heap /\ ~Strict(heap, heap[x].own[i])
                  /\ Rank(heap[heap[x].own[i]].kind) < Rank(heap[x].kind)
        BY <1>LooseFields
      <4>2. ASSUME NEW i \in DOMAIN heap'[x].own
            PROVE  /\ ~Strict(heap', heap'[x].own[i])
                   /\ Rank(heap'[heap'[x].own[i]].kind) < Rank(heap'[x].kind)
        <5> DEFINE own == heap[x].own
                   w == own \o s
        <5>1. \/ i \in DOMAIN own /\ w[i] = own[i]
              \/ \E j \in DOMAIN s : w[i] = s[j]
          <6>1. i \in DOMAIN w
            BY <3>1, <3>3, <4>2
          <6> HIDE DEF own
          <6>2. own \in Seq(Cells)
            BY <4>1 DEF own
          <6>3. CASE i <= Len(own)
            BY <6>1, <6>2, <6>3, SMT
          <6>4. CASE ~(i <= Len(own))
            <7>1. i - Len(own) \in DOMAIN s /\ w[i] = s[i - Len(own)]
              BY <6>1, <6>2, <6>4, SMT
            <7> QED BY <7>1
          <6> QED BY <6>3, <6>4
        <5>2. heap'[x].own[i] = w[i] /\ heap'[x].kind = heap[x].kind
          BY <3>1, <3>3
        <5> HIDE DEF own, w
        <5>3. CASE i \in DOMAIN own /\ w[i] = own[i]
          <6>1. own[i] \in DOMAIN heap /\ ~Strict(heap, own[i]) /\ Rank(heap[own[i]].kind) < Rank(heap[x].kind)
            BY <4>1, <5>3 DEF own
          <6> QED BY <3>5, <5>2, <5>3, <6>1
        <5>4. CASE \E j \in DOMAIN s : w[i] = s[j]
          <6>1. w[i] \in Range(s)
            BY <5>4 DEF Range
          <6>2. w[i] \in DOMAIN heap /\ ~Strict(h, w[i]) /\ Rank(heap[w[i]].kind) < Rank(heap[x].kind)
            BY <3>1, <6>1 DEF Shareable
          <6> QED BY <3>5, <5>2, <6>2
        <5> QED BY <5>1, <5>3, <5>4
      <4>3. heap'[x].needs = {} /\ heap'[x].kind \notin Dependent /\ heap'[x].kind \notin DOMAIN Wrapped
        BY <3>1, <3>3, <4>1
      <4> QED BY <4>2, <4>3, <1>LooseShape
    <3>7. Later(heap, heap') /\ \A q \in DOMAIN heap' : CellShape(heap', q)
      BY <3>1, <3>3, <3>4, <3>6, <1>TweakedShape
    <3> QED BY <3>2, <3>7, <1>HeapStep
  \* A push that fails.
  <2>Dropped.
      ASSUME Grounded, Shape, NEW c \in Clients, NEW x \in DOMAIN heap, Shareable(x),
             heap' = Put(Lent(<<x>>), x, LostOne(Lent(<<x>>)[x])),
             refs' = refs, call' = call, todo' = todo
      PROVE  Shape'
    <3>G. Grounded /\ Shape
      BY <2>Dropped
    <3> DEFINE s == <<x>>
               h == Lent(s)
               z == LostOne(h[x])
    <3>0. Range(s) = {x}
      <4>1. DOMAIN s = {1} /\ s[1] = x
        BY SMT
      <4> QED BY <4>1 DEF Range
    <3>1. /\ Base(h) /\ Successor(heap, h) /\ ~Strict(h, x)
          /\ h[x].kind = heap[x].kind /\ h[x].needs = heap[x].needs /\ h[x].own = heap[x].own
          /\ z.kind = heap[x].kind /\ z.needs = heap[x].needs /\ z.lent = h[x].lent
          /\ z.own = heap[x].own
      <4> HIDE DEF s
      <4>1. \A y \in Range(s) : Shareable(y)
        BY <2>Dropped, <3>0
      <4>2. /\ Base(h) /\ Successor(heap, h) /\ \A y \in Range(s) : ~Strict(h, y)
            /\ h[x].kind = heap[x].kind /\ h[x].needs = heap[x].needs /\ h[x].own = heap[x].own
        BY <3>G, <4>1, <2>LentFields
      <4>3. /\ LostOne(h[x]).kind = h[x].kind /\ LostOne(h[x]).needs = h[x].needs
            /\ LostOne(h[x]).lent = h[x].lent /\ LostOne(h[x]).own = h[x].own
        BY <3>G, <2>LentEdits
      <4> HIDE DEF h
      <4> QED BY <3>0, <4>2, <4>3
    <3>2. heap' = Put(h, x, z)
      BY <2>Dropped
    <3> HIDE DEF h, z, s
    <3>3. /\ DOMAIN heap' = DOMAIN heap /\ heap'[x] = z
          /\ \A q \in DOMAIN heap : q # x => heap'[q] = h[q]
      <4>1. /\ DOMAIN Put(h, x, z) = DOMAIN heap /\ Put(h, x, z)[x] = z
            /\ \A q \in DOMAIN heap : q # x => Put(h, x, z)[q] = h[q]
        BY <3>1, <3>G, <2>Replaced, SMT
      <4> QED BY <3>2, <4>1, SMT
    <3>4. \A q \in DOMAIN heap :
             /\ q \in DOMAIN heap' /\ heap'[q].kind = h[q].kind /\ heap'[q].needs = h[q].needs
             /\ heap'[q].lent = h[q].lent
             /\ q # x => heap'[q].own = h[q].own /\ heap'[q].lost = h[q].lost
      BY <3>1, <3>3
    <3>5. \A q \in DOMAIN heap : Strict(heap', q) <=> Strict(h, q)
      BY <3>4 DEF Strict
    <3>6. Later(heap, heap')
      BY <3>1, <3>4 DEF Successor, Later
    <3>7. CellShape(heap', x)
      <4>1. Within(heap, heap[x].own) /\ CellShape(heap, x)
        BY <3>G, GroundedFacts DEF Shape, HeapShape
      <4>2. CellLater(heap, h, x)
        BY <3>1 DEF Successor
      <4>3. ~Strict(heap', x) /\ heap'[x].own = heap[x].own
        BY <3>1, <3>3, <3>5
      <4>4. Strict(heap, x) => \A i \in DOMAIN heap[x].own : ~Strict(heap', heap[x].own[i])
        BY <3>1, <3>5, <4>1, <4>2 DEF CellLater, Within
      <4>5. CellLater(heap, heap', x)
        BY <4>3, <4>4 DEF CellLater
      <4> QED BY <3>6, <4>1, <4>5, <1>CellShapeLater
    <3>8. Later(heap, heap') /\ \A q \in DOMAIN heap' : CellShape(heap', q)
      <4>1. \A q \in DOMAIN heap' : q \notin DOMAIN heap \/ q = x => CellShape(heap', q)
        BY <3>3, <3>7
      <4>2. Successor(heap, h)
        BY <3>1
      <4> QED BY <3>G, <3>4, <4>1, <4>2, <1>TweakedShape
    <3> QED BY <2>Dropped, <3>8, <1>HeapStep
  \* The sequence of one cell.
  <2>One.
      ASSUME NEW x \in Cells
      PROVE  <<x>> \in Seq(Cells) /\ Range(<<x>>) = {x}
    <3>1. <<x>> \in Seq(Cells) /\ DOMAIN <<x>> = {1} /\ <<x>>[1] = x
      BY <2>One, SMT
    <3> QED BY <3>1 DEF Range
  \* A lower object is taken up.
  <2>Taken.
      ASSUME Grounded, Shape, NEW c \in Clients, NEW x \in DOMAIN heap,
             heap[x].kind \in {"hal_fence", "vm_list"}, NEW y \in Cells, Shareable(y),
             Rank(heap[y].kind) < Rank(heap[x].kind), Absorb(x, <<y>>)
      PROVE  Shape'
    <3> DEFINE s == <<y>>
    <3>1. s \in Seq(Cells) /\ Range(s) = {y} /\ Absorb(x, s)
      BY <2>Taken, <2>One
    <3> HIDE DEF s
    <3>2. \A z \in Range(s) : Shareable(z) /\ Rank(heap[z].kind) < Rank(heap[x].kind)
      BY <2>Taken, <3>1
    <3> QED BY ONLY <2>Taken, <2>Absorbed, <3>1, <3>2
  <2>1. ASSUME Grounded, Shape, NEW c \in Clients, hrx_fence_insert(c) PROVE Shape'
    <3>1. PICK f \in Holds(c, "fence"), s \in Holds(c, "semaphore") : Absorb(Hal(f), <<Hal(s)>>)
      BY <2>1 DEF hrx_fence_insert
    <3>2. Hal(s) \in Cells /\ Shareable(Hal(s)) /\ Rank(heap[Hal(s)].kind) < Rank("semaphore")
      BY <2>1, <1>HalShape
    <3>3. /\ Hal(f) \in DOMAIN heap
          /\ "fence" \in DOMAIN Wrapped => heap[Hal(f)].kind = Wrapped["fence"]
      BY <2>1, <1>HalShape
    <3>4. "fence" \in DOMAIN Wrapped /\ Wrapped["fence"] = "hal_fence"
      BY SMT DEF Wrapped
    <3>5. Rank("semaphore") = Rank("hal_fence")
      BY Ranks
    <3> QED BY <2>1, <2>Taken, <3>1, <3>2, <3>3, <3>4, <3>5
  <2>2. ASSUME FiniteParts, Grounded, Shape, NEW c \in Clients, hrx_fence_extend(c) PROVE Shape'
    <3>1. PICK f \in Holds(c, "fence"), g \in Holds(c, "fence") :
              LET from == heap[Hal(g)].own
                  missing == {i \in DOMAIN from : from[i] \notin Range(heap[Hal(f)].own)}
              IN  \E n \in 1 .. Cardinality(missing) : \E at \in [1 .. n -> missing] :
                     Absorb(Hal(f), [i \in DOMAIN at |-> from[at[i]]])
      BY <2>2 DEF hrx_fence_extend
    <3> DEFINE p == Hal(g)
               from == heap[p].own
               missing == {i \in DOMAIN from : from[i] \notin Range(heap[Hal(f)].own)}
    <3>n. PICK n \in 1 .. Cardinality(missing) : \E at \in [1 .. n -> missing] :
              Absorb(Hal(f), [i \in DOMAIN at |-> from[at[i]]])
      BY <3>1
    <3>2. PICK at \in [1 .. n -> missing] :
              Absorb(Hal(f), [i \in DOMAIN at |-> from[at[i]]])
      BY <3>n
    <3> DEFINE s == [i \in DOMAIN at |-> from[at[i]]]
    <3>3. "fence" \in DOMAIN Wrapped /\ Wrapped["fence"] = "hal_fence"
      BY SMT DEF Wrapped
    <3>4. /\ Hal(f) \in DOMAIN heap /\ heap[Hal(f)].kind = "hal_fence"
          /\ p \in DOMAIN heap /\ heap[p].kind = "hal_fence"
      BY <2>2, <3>3, <1>HalShape
    <3>5. /\ from \in Seq(Cells)
          /\ \A i \in DOMAIN from : from[i] \in DOMAIN heap /\ Rank(heap[from[i]].kind) < Rank("hal_fence")
      BY <2>2, <3>4, <1>LooseFields
    <3>6. \A i \in DOMAIN from : /\ from[i] \in Cells /\ Shareable(from[i])
                                 /\ Rank(heap[from[i]].kind) < Rank(heap[Hal(f)].kind)
      <4>1. DOMAIN heap \subseteq Cells
        BY <2>2, GroundedFacts, HeapTypes
      <4>2. Rank("hal_fence") = 2
        BY Ranks
      <4> QED BY <3>4, <3>5, <4>1, <4>2 DEF Shareable
    <3>7. n \in Nat
      BY ONLY <3>n, SMT
    <3>8. DOMAIN at = 1 .. n /\ \A i \in DOMAIN at : at[i] \in DOMAIN from
      BY <3>2
    <3>9. s \in Seq(Cells)
      <4>1. s \in [1 .. n -> Cells]
        BY <3>6, <3>8
      <4>2. ASSUME NEW m \in Nat, NEW e \in [1 .. m -> Cells] PROVE e \in Seq(Cells)
        BY SMT
      <4> HIDE DEF s, missing
      <4> QED BY <3>7, <4>1, <4>2
    <3>10. \A y \in Range(s) : Shareable(y) /\ Rank(heap[y].kind) < Rank(heap[Hal(f)].kind)
      BY <3>6, <3>8 DEF Range
    <3>11. Absorb(Hal(f), s)
      BY <3>2
    <3> HIDE DEF s, p, from, missing
    <3>12. Hal(f) \in DOMAIN heap /\ heap[Hal(f)].kind \in {"hal_fence", "vm_list"}
      BY <3>4
    <3> QED BY ONLY <2>2, <2>Absorbed, <3>9, <3>10, <3>11, <3>12
  <2>3. ASSUME Grounded, Shape, NEW c \in Clients, hrx_value_list_push(c) PROVE Shape'
    <3>1. PICK l \in Holds(c, "list"), kind \in {"buffer", "view", "fence"} :
              \E h \in Holds(c, kind) :
                 \/ Absorb(Hal(l), <<Hal(h)>>)
                 \/ /\ heap' = Put(Lent(<<Hal(h)>>), Hal(h), LostOne(Lent(<<Hal(h)>>)[Hal(h)]))
                    /\ refs' = refs /\ call' = call /\ todo' = todo
      BY <2>3 DEF hrx_value_list_push, Put, LostOne
    <3>2. PICK h \in Holds(c, kind) :
                 \/ Absorb(Hal(l), <<Hal(h)>>)
                 \/ /\ heap' = Put(Lent(<<Hal(h)>>), Hal(h), LostOne(Lent(<<Hal(h)>>)[Hal(h)]))
                    /\ refs' = refs /\ call' = call /\ todo' = todo
      BY <3>1
    <3>3. kind \in {"buffer", "semaphore", "fence", "view", "list"}
      BY <3>1
    <3>4. Hal(h) \in DOMAIN heap /\ Hal(h) \in Cells /\ Shareable(Hal(h)) /\ Rank(heap[Hal(h)].kind) < Rank(kind)
      BY <2>3, <3>3, <1>HalShape
    <3>5. CASE Absorb(Hal(l), <<Hal(h)>>)
      <4>1. "list" \in DOMAIN Wrapped /\ Wrapped["list"] = "vm_list"
        BY SMT DEF Wrapped
      <4>2. Hal(l) \in DOMAIN heap /\ heap[Hal(l)].kind = "vm_list"
        BY <2>3, <4>1, <1>HalShape
      <4>3. Rank(heap[Hal(h)].kind) < Rank("vm_list")
        <5>1. Rank(kind) <= Rank("vm_list") /\ Rank(kind) \in Int /\ Rank("vm_list") \in Int
          BY <3>1, Ranks, SMT
        <5>2. Rank(heap[Hal(h)].kind) \in 0 .. 4
          BY Ranks
        <5> QED BY <3>4, <5>1, <5>2, SMT
      <4> QED BY <2>3, <2>Taken, <3>4, <3>5, <4>2, <4>3
    <3>6. CASE /\ heap' = Put(Lent(<<Hal(h)>>), Hal(h), LostOne(Lent(<<Hal(h)>>)[Hal(h)]))
               /\ refs' = refs /\ call' = call /\ todo' = todo
      BY <2>3, <2>Dropped, <3>4, <3>6
    <3> QED BY <3>2, <3>5, <3>6
  \* A heap where one cell is replaced and one is new.
  <2>Appended.
      ASSUME Grounded, NEW x \in DOMAIN heap, NEW z \in CellType, NEW n \in CellType
      PROVE  /\ DOMAIN Append(Put(heap, x, z), n) = DOMAIN heap \cup {New}
             /\ Append(Put(heap, x, z), n)[New] = n /\ Append(Put(heap, x, z), n)[x] = z
             /\ \A q \in DOMAIN heap : q # x => Append(Put(heap, x, z), n)[q] = heap[q]
    <3> DEFINE k == Put(heap, x, z)
    <3>1. heap \in Seq(CellType) /\ x \in DOMAIN heap /\ Len(heap) \in Nat
      BY <2>Appended, GroundedFacts, HeapTypes
    <3>2. /\ k \in Seq(CellType) /\ Len(k) = Len(heap) /\ DOMAIN k = DOMAIN heap /\ k[x] = z
          /\ \A q \in DOMAIN heap : q # x => k[q] = heap[q]
      BY <2>Appended, <3>1, SMT DEF Put
    <3> HIDE DEF k
    <3>3. /\ DOMAIN Append(k, n) = DOMAIN k \cup {Len(k) + 1} /\ Append(k, n)[Len(k) + 1] = n
          /\ \A q \in DOMAIN k : Append(k, n)[q] = k[q]
      BY <2>Appended, <3>2, SMT
    <3>4. /\ DOMAIN Append(k, n) = DOMAIN heap \cup {New} /\ Append(k, n)[New] = n
          /\ \A q \in DOMAIN heap : Append(k, n)[q] = k[q]
      BY <3>2, <3>3 DEF New
    <3>5. /\ Append(k, n)[x] = z
          /\ \A q \in DOMAIN heap : q # x => Append(k, n)[q] = heap[q]
      BY <3>1, <3>2, <3>4
    <3> QED BY <3>4, <3>5 DEF k
  \* A cell with other fields is a cell.
  <2>OwningType.
      ASSUME NEW z \in CellType, NEW l \in Seq(Cells)
      PROVE  /\ Owning(z, l) \in CellType /\ Owning(z, l).kind = z.kind
             /\ Owning(z, l).needs = z.needs /\ Owning(z, l).lent = z.lent
             /\ Owning(z, l).lost = z.lost /\ Owning(z, l).own = l
    BY <2>OwningType, SMT DEF Owning, CellType
  \* One cell gets other fields, and there is a new one.
  <2>Fielded.
      ASSUME Grounded, Shape, NEW c \in Clients, NEW x \in DOMAIN heap, NEW l \in Seq(Cells),
             NEW n \in CellType, heap' = Append(Put(heap, x, Owning(heap[x], l)), n),
             n.own = <<>>, n.lost = 0, n.kind \in Dependent,
             CellShape(heap', x), refs' = refs, call' = call, todo' = todo
      PROVE  Shape'
    <3> DEFINE g == Append(Put(heap, x, Owning(heap[x], l)), n)
    <3>1. heap[x] \in CellType
      BY <2>Fielded, GroundedFacts, HeapTypes
    <3>2. /\ Owning(heap[x], l) \in CellType /\ Owning(heap[x], l).kind = heap[x].kind
          /\ Owning(heap[x], l).needs = heap[x].needs /\ Owning(heap[x], l).lent = heap[x].lent
          /\ Owning(heap[x], l).lost = heap[x].lost
      BY <3>1, <2>OwningType, <2>Fielded
    <3>3. /\ DOMAIN g = DOMAIN heap \cup {New} /\ g[New] = n /\ g[x] = Owning(heap[x], l)
          /\ \A q \in DOMAIN heap : q # x => g[q] = heap[q]
      <4> DEFINE z == Owning(heap[x], l)
      <4>1. Grounded /\ z \in CellType
        BY <2>Fielded, <3>2
      <4> HIDE DEF z
      <4>2. /\ DOMAIN Append(Put(heap, x, z), n) = DOMAIN heap \cup {New}
            /\ Append(Put(heap, x, z), n)[New] = n /\ Append(Put(heap, x, z), n)[x] = z
            /\ \A q \in DOMAIN heap : q # x => Append(Put(heap, x, z), n)[q] = heap[q]
        BY <4>1, <2>Appended, SMT
      <4> QED BY <4>2 DEF z
    <3>4. g = heap'
      BY <2>Fielded
    <3> HIDE DEF g
    <3>5. \A q \in DOMAIN heap :
             /\ q \in DOMAIN g /\ g[q].kind = heap[q].kind /\ g[q].needs = heap[q].needs
             /\ g[q].lent = heap[q].lent
             /\ q # x => g[q].own = heap[q].own /\ g[q].lost = heap[q].lost
      BY <3>2, <3>3
    <3>6. CellShape(g, New)
      BY <2>Fielded, <3>3, LeafShape
    <3>7. CellShape(g, x)
      BY <2>Fielded, <3>4
    <3>8. \A q \in DOMAIN g : q \notin DOMAIN heap \/ q = x => CellShape(g, q)
      BY <3>3, <3>6, <3>7
    <3>9. Successor(heap, heap)
      BY <2>Fielded, <1>Bases DEF Base
    <3>10. Later(heap, g) /\ \A q \in DOMAIN g : CellShape(g, q)
      BY <2>Fielded, <3>5, <3>8, <3>9, <1>TweakedShape
    <3> QED BY <2>Fielded, <3>4, <3>10, <1>HeapStep
  <2>4. ASSUME Grounded, Shape, NEW c \in Clients, hrx_function_invoke(c) PROVE Shape'
    <3> DEFINE n == [Cell("hal_buffer", <<>>, {HalDevice}) EXCEPT !.lent = TRUE]
    <3>1. PICK rets \in Holds(c, "list") :
              /\ New <= MaxCells
              /\ heap' = Append(Put(heap, Hal(rets), Owning(heap[Hal(rets)], Append(heap[Hal(rets)].own, New))), n)
              /\ refs' = refs /\ call' = call /\ todo' = todo
      BY <2>4 DEF hrx_function_invoke, Put, Owning
    <3> DEFINE x == Hal(rets)
               own == heap[x].own
               l == Append(own, New)
    <3>2. /\ n \in CellType /\ n.own = <<>> /\ n.lost = 0 /\ n.kind = "hal_buffer" /\ n.lent
          /\ "hal_buffer" \in Dependent
      <4> DEFINE z == Cell("hal_buffer", <<>>, {HalDevice})
      <4>1. "hal_buffer" \in Kinds /\ {HalDevice} \in SUBSET Cells /\ <<>> \in Seq(Cells)
        BY CellsFixed, SMT DEF Kinds
      <4>2. z \in CellType /\ z.kind = "hal_buffer" /\ z.own = <<>> /\ z.lost = 0
        BY <4>1, SMT DEF Cell, CellType
      <4> HIDE DEF z
      <4>3. n = [z EXCEPT !.lent = TRUE]
        BY DEF z
      <4> HIDE DEF n
      <4>4. n \in CellType /\ n.kind = "hal_buffer" /\ n.own = <<>> /\ n.lost = 0 /\ n.lent
        BY <4>2, <4>3 DEF CellType
      <4>5. "hal_buffer" \in Dependent
        BY SMT DEF Dependent
      <4> QED BY <4>4, <4>5
    <3>3. "list" \in DOMAIN Wrapped /\ Wrapped["list"] = "vm_list"
      BY SMT DEF Wrapped
    <3>4. x \in DOMAIN heap /\ heap[x].kind = "vm_list" /\ heap[x] \in CellType
      BY <2>4, <3>3, <1>HalShape, GroundedFacts, HeapTypes
    <3>5. /\ own \in Seq(Cells) /\ heap[x].needs = {} /\ heap[x].kind \notin Dependent
          /\ heap[x].kind \notin DOMAIN Wrapped
          /\ \A i \in DOMAIN own : /\ own[i] \in DOMAIN heap /\ ~Strict(heap, own[i])
                                   /\ Rank(heap[own[i]].kind) < Rank("vm_list")
      BY <2>4, <3>4, <1>LooseFields
    <3>6. New \in Cells /\ New \notin DOMAIN heap
      BY <2>4, <3>1, <1>NewPlaces
    <3>7. heap' = Append(Put(heap, x, Owning(heap[x], l)), n) /\ refs' = refs /\ call' = call /\ todo' = todo
      BY <3>1
    <3> HIDE DEF x, own, n
    <3>8. /\ l \in Seq(Cells) /\ \A i \in DOMAIN l : (i \in DOMAIN own /\ l[i] = own[i]) \/ l[i] = New
      BY <3>5, <3>6, SMT
    <3> HIDE DEF l
    <3> DEFINE z == Owning(heap[x], l)
    <3>9. /\ z \in CellType /\ z.kind = heap[x].kind /\ z.needs = heap[x].needs /\ z.own = l
          /\ z.lent = heap[x].lent
      BY <2>OwningType, <3>4, <3>8
    <3> HIDE DEF z
    <3>10. /\ DOMAIN heap' = DOMAIN heap \cup {New} /\ heap'[New] = n /\ heap'[x] = z
           /\ \A q \in DOMAIN heap : q # x => heap'[q] = heap[q]
      <4>1. heap' = Append(Put(heap, x, z), n)
        BY <3>7 DEF z
      <4>2. /\ DOMAIN Append(Put(heap, x, z), n) = DOMAIN heap \cup {New}
            /\ Append(Put(heap, x, z), n)[New] = n /\ Append(Put(heap, x, z), n)[x] = z
            /\ \A q \in DOMAIN heap : q # x => Append(Put(heap, x, z), n)[q] = heap[q]
        BY <2>4, <2>Appended, <3>2, <3>4, <3>9, SMT
      <4> QED BY <4>1, <4>2, SMT
    <3>11. CellShape(heap', x)
      <4>1. ASSUME NEW i \in DOMAIN l
            PROVE  ~Strict(heap', l[i]) /\ Rank(heap'[l[i]].kind) < Rank("vm_list")
        <5>1. CASE i \in DOMAIN own /\ l[i] = own[i]
          <6>1. own[i] \in DOMAIN heap /\ ~Strict(heap, own[i]) /\ Rank(heap[own[i]].kind) < Rank("vm_list")
            BY <3>5, <5>1
          <6>2. heap'[own[i]].kind = heap[own[i]].kind /\ heap'[own[i]].lent = heap[own[i]].lent
            BY <3>9, <3>10, <6>1
          <6> QED BY <5>1, <6>1, <6>2 DEF Strict
        <5>2. CASE l[i] = New
          <6>1. Rank("hal_buffer") < Rank("vm_list")
            BY Ranks, SMT
          <6> QED BY <3>2, <3>10, <5>2, <6>1 DEF Strict
        <5> QED BY <3>8, <4>1, <5>1, <5>2
      <4>2. /\ heap'[x].needs = {} /\ heap'[x].kind \notin Dependent /\ heap'[x].own = l
            /\ heap'[x].kind \notin DOMAIN Wrapped /\ heap'[x].kind = "vm_list"
        BY <3>4, <3>5, <3>9, <3>10
      <4> QED BY <4>1, <4>2, <1>LooseShape
    <3> QED BY <2>4, <2>Fielded, <3>2, <3>4, <3>7, <3>8, <3>11
  \* A buffer's fields, and what they become with one in front.
  <2>Buffer.
      ASSUME Grounded, Shape, NEW c \in Clients, NEW b \in Holds(c, "buffer")
      PROVE  /\ b \in DOMAIN heap /\ heap[b] \in CellType /\ heap[b].kind = "buffer"
             /\ heap[b].needs = {} /\ heap[b].own \in Seq(Cells) /\ 1 \in DOMAIN heap[b].own
             /\ Within(heap, heap[b].own) /\ Ordered(heap, heap[b].own, 0)
             /\ \A i \in DOMAIN heap[b].own : Rank(heap[heap[b].own[i]].kind) < Rank("buffer")
    <3>1. /\ b \in DOMAIN heap /\ heap[b].kind = "buffer" /\ CellShape(heap, b)
          /\ heap[b].own \in Seq(Cells) /\ 1 \in DOMAIN heap[b].own
      BY <2>Buffer, <1>HalShape
    <3>2. "buffer" \notin Dependent /\ "buffer" \in Anchors
      BY SMT DEF Dependent, Anchors
    <3>3. /\ heap[b].needs = {} /\ Ordered(heap, heap[b].own, 0)
          /\ \A i \in DOMAIN heap[b].own : Owns(heap, b, heap[b].own[i])
      BY <3>1, <3>2 DEF CellShape
    <3>4. heap[b] \in CellType /\ Within(heap, heap[b].own)
      BY <2>Buffer, <3>1, GroundedFacts, HeapTypes
    <3> QED BY <3>1, <3>3, <3>4 DEF Owns
  \* The fields of a buffer become l.
  <2>BufferShape.
      ASSUME Grounded, NEW b \in DOMAIN heap, NEW g, g[b].needs = {}, g[b].kind = "buffer",
             \A i \in DOMAIN g[b].own : Rank(g[g[b].own[i]].kind) < Rank("buffer"),
             Ordered(g, g[b].own, 0)
      PROVE  CellShape(g, b)
    <3>1. "buffer" \in Anchors
      BY SMT DEF Anchors
    <3> QED BY <2>BufferShape, <3>1, AnchorShape
  <2>5. ASSUME Grounded, Shape, NEW c \in Clients, NEW b \in Holds(c, "buffer"), ~Mapped(b),
               MapRange(c, b)
        PROVE  Shape'
    <3> DEFINE own == heap[b].own
               l == <<New>> \o own
               n == Cell("mapped_range", <<>>, {Hal(b)})
               z == Owning(heap[b], l)
    <3>1. /\ b \in DOMAIN heap /\ heap[b] \in CellType /\ heap[b].kind = "buffer"
          /\ heap[b].needs = {} /\ own \in Seq(Cells) /\ 1 \in DOMAIN own
          /\ Within(heap, own) /\ Ordered(heap, own, 0)
          /\ \A i \in DOMAIN own : Rank(heap[own[i]].kind) < Rank("buffer")
      BY <2>5, <2>Buffer
    <3>2. New <= MaxCells /\ heap' = Append(Put(heap, b, z), n) /\ refs' = refs /\ call' = call /\ todo' = todo
      BY <2>5 DEF MapRange, Put, Owning
    <3>3. New \in Cells /\ New \notin DOMAIN heap
      BY <2>5, <3>2, <1>NewPlaces
    <3>4. Hal(b) = own[1] /\ Hal(b) \in Cells
      <4>1. DOMAIN heap \subseteq Cells
        BY <2>5, GroundedFacts, HeapTypes
      <4> QED BY <2>5, <3>1, <4>1 DEF Hal, Mapped, Within
    <3>5. /\ n \in CellType /\ n.kind = "mapped_range" /\ n.own = <<>> /\ n.lost = 0
          /\ n.needs = {Hal(b)} /\ "mapped_range" \in Dependent
      <4>1. "mapped_range" \in Kinds /\ "mapped_range" \in Dependent
        BY SMT DEF Kinds, Dependent
      <4>2. <<>> \in Seq(Cells) /\ {Hal(b)} \in SUBSET Cells
        BY <3>4, CellsFixed
      <4>3. /\ n \in CellType /\ n.kind = "mapped_range" /\ n.own = <<>> /\ n.lost = 0
            /\ n.needs = {Hal(b)}
        BY <4>1, <4>2, SMT DEF Cell, CellType
      <4> QED BY <4>1, <4>3
    <3> HIDE DEF own, n, z
    <3>6. /\ l \in Seq(Cells)
          /\ \A i \in DOMAIN l : l[i] = New \/ \E j \in DOMAIN own : l[i] = own[j]
      <4>1. /\ l \in Seq(Cells) /\ l[1] = New
            /\ \A i \in DOMAIN l : i = 1 \/ (i - 1 \in DOMAIN own /\ l[i] = own[i - 1])
        BY <3>1, <3>3, SMT
      <4> HIDE DEF l
      <4> QED BY <4>1
    <3> HIDE DEF l
    <3>7. z \in CellType /\ z.kind = heap[b].kind /\ z.needs = heap[b].needs /\ z.own = l /\ z.lent = heap[b].lent
      BY <2>OwningType, <3>1, <3>6 DEF z
    <3>8. /\ DOMAIN heap' = DOMAIN heap \cup {New} /\ heap'[New] = n /\ heap'[b] = z
          /\ \A q \in DOMAIN heap : q # b => heap'[q] = heap[q]
      <4>1. /\ DOMAIN Append(Put(heap, b, z), n) = DOMAIN heap \cup {New}
            /\ Append(Put(heap, b, z), n)[New] = n /\ Append(Put(heap, b, z), n)[b] = z
            /\ \A q \in DOMAIN heap : q # b => Append(Put(heap, b, z), n)[q] = heap[q]
        BY <2>5, <2>Appended, <3>1, <3>5, <3>7, SMT
      <4> QED BY <3>2, <4>1, SMT
    <3>9. Later(heap, heap')
      BY <3>7, <3>8 DEF Later
    <3>10. Ordered(heap', l, 0)
      <4>1. Ordered(heap', own, 0)
        <5>1. 0 \in Nat /\ 0 <= 0
          BY SMT
        <5> QED BY <3>1, <3>9, <5>1, <1>OrderedLater
      <4>2. \A p \in heap'[New].needs : \E j \in DOMAIN own : Keeps(own[j], p)
        BY <3>1, <3>4, <3>5, <3>8 DEF Keeps
      <4> QED BY <3>1, <3>3, <4>1, <4>2, <1>OrderedCons DEF l
    <3>11. CellShape(heap', b)
      <4>1. ASSUME NEW i \in DOMAIN l PROVE Rank(heap'[l[i]].kind) < Rank("buffer")
        <5>1. CASE l[i] = New
          <6>1. Rank("mapped_range") < Rank("buffer")
            BY Ranks, SMT
          <6> QED BY <3>5, <3>8, <5>1, <6>1
        <5>2. CASE \E j \in DOMAIN own : l[i] = own[j]
          BY <3>1, <3>9, <5>2 DEF Within, Later
        <5> QED BY <3>6, <4>1, <5>1, <5>2
      <4> QED BY <2>5, <2>BufferShape, <3>1, <3>7, <3>8, <3>10, <4>1
    <3>12. heap' = Append(Put(heap, b, Owning(heap[b], l)), n)
      BY <3>2 DEF z
    <3> QED BY <2>5, <2>Fielded, <3>1, <3>2, <3>5, <3>6, <3>11, <3>12
  <2>6. ASSUME Grounded, Shape, NEW c \in Clients, hrx_buffer_unmap(c) PROVE Shape'
    <3>1. PICK b \in Holds(c, "buffer") :
              /\ Mapped(b)
              /\ heap' = Put(Put(heap, b, Owning(heap[b], Tail(heap[b].own))), heap[b].own[1],
                             Gone(heap[heap[b].own[1]], heap[heap[b].own[1]].ends + 1))
              /\ refs' = refs /\ call' = call /\ todo' = todo
      BY <2>6 DEF hrx_buffer_unmap, Put, Owning, Gone
    <3> DEFINE own == heap[b].own
               m == own[1]
               l == Tail(own)
               z == Owning(heap[b], l)
               w == Gone(heap[m], heap[m].ends + 1)
    <3>2. /\ b \in DOMAIN heap /\ heap[b] \in CellType /\ heap[b].kind = "buffer"
          /\ heap[b].needs = {} /\ own \in Seq(Cells) /\ 1 \in DOMAIN own
          /\ Within(heap, own) /\ Ordered(heap, own, 0)
          /\ \A i \in DOMAIN own : Rank(heap[own[i]].kind) < Rank("buffer")
      BY <2>6, <2>Buffer
    <3>3. m \in DOMAIN heap /\ heap[m] \in CellType /\ m # b
      <4>1. m \in DOMAIN heap /\ heap[m].kind = "mapped_range"
        BY <3>1, <3>2 DEF Mapped, Within
      <4> QED BY <2>6, <3>2, <4>1, GroundedFacts, HeapTypes
    <3>4. heap' = Put(Put(heap, b, z), m, w) /\ refs' = refs /\ call' = call /\ todo' = todo
      BY <3>1
    <3> HIDE DEF own, m
    <3>5. /\ l \in Seq(Cells) /\ own # <<>> /\ \A i \in DOMAIN l : i + 1 \in DOMAIN own /\ l[i] = own[i + 1]
      BY <3>2, SMT
    <3> HIDE DEF l
    <3>6. z \in CellType /\ z.kind = heap[b].kind /\ z.needs = heap[b].needs /\ z.own = l /\ z.lent = heap[b].lent
      BY <2>OwningType, <3>2, <3>5
    <3>7. w.kind = heap[m].kind /\ w.needs = heap[m].needs /\ w.lent = heap[m].lent /\ w.lost = heap[m].lost
          /\ w.own = heap[m].own
      <4> DEFINE e == heap[m].ends + 1
      <4> HIDE DEF e
      <4>1. /\ Gone(heap[m], e).kind = heap[m].kind /\ Gone(heap[m], e).needs = heap[m].needs
            /\ Gone(heap[m], e).lent = heap[m].lent /\ Gone(heap[m], e).lost = heap[m].lost
            /\ Gone(heap[m], e).own = heap[m].own
        BY <3>3, <2>Edits
      <4> QED BY <4>1 DEF e
    <3> HIDE DEF z, w
    <3>8. /\ DOMAIN heap' = DOMAIN heap /\ heap'[b] = z /\ heap'[m] = w
          /\ \A q \in DOMAIN heap : q # b /\ q # m => heap'[q] = heap[q]
      <4>1. heap \in [DOMAIN heap -> CellType]
        <5>1. heap \in Seq(CellType)
          BY <2>6, GroundedFacts, HeapTypes
        <5> QED BY <5>1, SMT
      <4> QED BY <3>2, <3>3, <3>4, <4>1, SMT DEF Put
    <3>9. \A q \in DOMAIN heap :
             /\ q \in DOMAIN heap' /\ heap'[q].kind = heap[q].kind /\ heap'[q].needs = heap[q].needs
             /\ heap'[q].lent = heap[q].lent
             /\ q # b => heap'[q].own = heap[q].own /\ heap'[q].lost = heap[q].lost
      BY <3>6, <3>7, <3>8
    <3>10. Later(heap, heap')
      BY <3>9 DEF Later
    <3>11. Ordered(heap', l, 0)
      <4>1. 0 \in Nat /\ 0 <= 0
        BY SMT
      <4>2. Ordered(heap', own, 0)
        BY <3>2, <3>10, <4>1, <1>OrderedLater
      <4> QED BY <3>2, <3>5, <4>2, <1>OrderedTail DEF l
    <3>12. CellShape(heap', b)
      <4>1. ASSUME NEW i \in DOMAIN l PROVE Rank(heap'[l[i]].kind) < Rank("buffer")
        <5>1. PICK j \in DOMAIN own : l[i] = own[j]
          BY <3>5, <4>1
        <5> QED BY <3>2, <3>10, <5>1 DEF Within, Later
      <4> QED BY <2>6, <2>BufferShape, <3>2, <3>6, <3>8, <3>11, <4>1
    <3>13. Successor(heap, heap)
      BY <2>6, <1>Bases DEF Base
    <3>14. \A q \in DOMAIN heap' : q \notin DOMAIN heap \/ q = b => CellShape(heap', q)
      BY <3>8, <3>12
    <3>15. Later(heap, heap') /\ \A q \in DOMAIN heap' : CellShape(heap', q)
      BY <2>6, <3>2, <3>9, <3>13, <3>14, <1>TweakedShape
    <3> QED BY <2>6, <3>4, <3>15, <1>HeapStep
  <2> QED
    <3>1. ASSUME Grounded, Shape, NEW c \in Clients, hrx_buffer_map(c) \/ hrx_buffer_get_device_ptr(c)
          PROVE  Shape'
      <4>1. PICK b \in Holds(c, "buffer") : ~Mapped(b) /\ MapRange(c, b)
        BY <3>1 DEF hrx_buffer_map, hrx_buffer_get_device_ptr
      <4> QED BY <3>1, <2>5, <4>1
    <3> QED BY <2>1, <2>2, <2>3, <2>4, <2>6, <3>1
(***************************************************************************)
(* New handles.                                                            *)
(***************************************************************************)
\* The creations that take one step preserve the order.
<1>CreateOrder.
    \A c \in Clients :
        Grounded /\ Shape /\ (\/ hrx_semaphore_create(c) \/ hrx_fence_create(c)
                              \/ hrx_fence_create_at(c) \/ hrx_allocator_allocate_buffer(c)
                              \/ hrx_allocator_import_buffer(c)
                              \/ hrx_allocator_virtual_memory_reserve(c)
                              \/ hrx_module_lookup_function(c) \/ hrx_buffer_view_create(c)
                              \/ hrx_value_list_create(c)) => Shape'
\* The handle of a new cell n is the client's.
  <2>Handed.
      ASSUME Grounded, Shape, NEW c \in Clients, Idle(c), NEW n \in Cells, n \notin DOMAIN heap,
             refs' = [refs EXCEPT ![c][n] = 1], call' = call, todo' = todo,
             Later(heap, heap'), \A q \in DOMAIN heap' : CellShape(heap', q),
             heap'[n].kind \notin Dependent
      PROVE  Shape'
    <3>1. 1 \in Nat /\ 1 >= refs[c][n]
      <4>1. refs[c][n] \in Nat /\ ~(refs[c][n] > 0)
        BY <2>Handed, GroundedFacts
      <4> QED BY <4>1, SMT
    <3>2. HandleShape(heap', refs'[c]) /\ \A d \in Clients : d # c => refs'[d] = refs[d]
      BY <2>Handed, <3>1, <1>HandleTaken
    <3>3. CallShape(heap', call[c]) /\ Ordered(heap', todo[c], refs'[c][Device])
      BY <2>Handed, <1>IdleShape
    <3>4. ClientShape(heap', refs'[c], call'[c], todo'[c])
      BY <2>Handed, <3>2, <3>3 DEF ClientShape
    <3>5. \A d \in Clients : d # c => refs'[d] = refs[d] /\ call'[d] = call[d] /\ todo'[d] = todo[d]
      BY <2>Handed, <3>2
    <3> QED BY <2>Handed, <3>4, <3>5, <1>ShapeStep
  \* Where into_handle puts two cells, and one.
  <2>Two.
      ASSUME Grounded, NEW c \in Clients, NEW k, Base(k), NEW x \in CellType, NEW y \in CellType,
             into_handle(c, k, <<x, y>>)
      PROVE  /\ New + 1 <= MaxCells /\ heap' = k \o <<x, y>> /\ refs' = [refs EXCEPT ![c][New + 1] = 1]
             /\ New + 1 \in Cells /\ New + 1 \notin DOMAIN heap /\ New \notin DOMAIN heap
             /\ New \in Cells /\ Grows(k, heap') /\ DOMAIN heap' = DOMAIN heap \cup {New, New + 1}
             /\ heap'[New] = x /\ heap'[New + 1] = y
    <3>1. Len(k) = Len(heap) /\ Len(heap) \in Nat
      BY <2>Two, GroundedFacts, HeapTypes DEF Base
    <3>2. Len(k) + Len(<<x, y>>) = New + 1
      BY <3>1, SMT DEF New
    <3>3. New + 1 <= MaxCells /\ heap' = k \o <<x, y>> /\ refs' = [refs EXCEPT ![c][New + 1] = 1]
      BY <2>Two, <3>2 DEF into_handle
    <3>4. New + 1 \in Cells /\ New + 1 \notin DOMAIN heap /\ New \notin DOMAIN heap /\ New \in Cells
      BY <2>Two, <3>3, <1>NewPlaces
    <3>5. /\ Grows(k, heap') /\ DOMAIN heap' = DOMAIN heap \cup {New, New + 1}
          /\ heap'[New] = x /\ heap'[New + 1] = y
      <4> DEFINE g == heap'
      <4>1. Grounded /\ Base(k) /\ x \in CellType /\ y \in CellType /\ g = k \o <<x, y>>
        BY <2>Two, <3>3
      <4> HIDE DEF g
      <4>2. GrowsByTwo(k, g, x, y)
        BY ONLY <4>1, <1>MadeTwo, Zenon
      <4> QED BY <4>2 DEF g, GrowsByTwo
    <3> QED BY <3>3, <3>4, <3>5
  <2>Single.
      ASSUME Grounded, NEW c \in Clients, NEW k, Base(k), NEW y \in CellType,
             into_handle(c, k, <<y>>)
      PROVE  /\ heap' = k \o <<y>> /\ refs' = [refs EXCEPT ![c][New] = 1]
             /\ New \notin DOMAIN heap /\ New \in Cells
             /\ Grows(k, heap') /\ DOMAIN heap' = DOMAIN heap \cup {New} /\ heap'[New] = y
    <3>1. Len(k) = Len(heap) /\ Len(heap) \in Nat
      BY <2>Single, GroundedFacts, HeapTypes DEF Base
    <3>2. Len(k) + Len(<<y>>) = New
      BY <3>1, SMT DEF New
    <3>3. New <= MaxCells /\ heap' = k \o <<y>> /\ refs' = [refs EXCEPT ![c][New] = 1]
      BY <2>Single, <3>2 DEF into_handle
    <3>4. New \notin DOMAIN heap /\ New \in Cells
      BY <2>Single, <3>3, <1>NewPlaces
    <3>5. Grows(k, heap') /\ DOMAIN heap' = DOMAIN heap \cup {New} /\ heap'[New] = y
      BY <2>Single, <3>3, <1>MadeOne
    <3> QED BY <3>3, <3>4, <3>5
  \* What an old cell is in the new heap.
  <2>Kept.
      ASSUME NEW k, Base(k), Grows(k, heap'), NEW q \in DOMAIN heap
      PROVE  /\ heap'[q] = k[q] /\ heap'[q].kind = heap[q].kind /\ (Strict(heap', q) <=> Strict(k, q))
             /\ heap'[q].needs = heap[q].needs
    <3>1. q \in DOMAIN k /\ k[q].kind = heap[q].kind /\ k[q].needs = heap[q].needs
      BY <2>Kept DEF Base, Successor, Later
    <3>2. heap'[q] = k[q]
      BY <2>Kept, <3>1 DEF Grows
    <3> QED BY <3>1, <3>2 DEF Strict
  \* A new cell that points to nothing and, around it, a handle.
  <2>Pair.
      ASSUME Grounded, Shape, NEW c \in Clients, Idle(c), NEW k, Base(k), NEW x \in CellType,
             NEW y \in CellType, into_handle(c, k, <<x, y>>), call' = call, todo' = todo,
             CellShape(heap', New), CellShape(heap', New + 1), y.kind \notin Dependent
      PROVE  Shape'
    <3>1. /\ refs' = [refs EXCEPT ![c][New + 1] = 1]
          /\ New + 1 \in Cells /\ New + 1 \notin DOMAIN heap
          /\ Grows(k, heap') /\ DOMAIN heap' = DOMAIN heap \cup {New, New + 1} /\ heap'[New + 1] = y
      BY <2>Pair, <2>Two
    <3>2. \A q \in DOMAIN heap' : q \notin DOMAIN heap => CellShape(heap', q)
      BY <2>Pair, <3>1
    <3>3. Successor(heap, k)
      BY <2>Pair DEF Base
    <3>4. Later(heap, heap') /\ \A q \in DOMAIN heap' : CellShape(heap', q)
      BY <2>Pair, <3>1, <3>2, <3>3, <1>GrownShape
    <3>5. heap'[New + 1].kind \notin Dependent
      BY <2>Pair, <3>1
    <3> DEFINE n == New + 1
    <3>6. n \in Cells /\ n \notin DOMAIN heap /\ refs' = [refs EXCEPT ![c][n] = 1] /\ heap'[n].kind \notin Dependent
      BY <3>1, <3>5
    <3> HIDE DEF n
    <3> QED BY <2>Pair, <2>Handed, <3>4, <3>6
  \* A handle on an object of the device, with a reference on the device.
  <2>OnDevice.
      ASSUME Grounded, Shape, NEW c \in Clients, Idle(c),
             NEW kx \in {"hal_semaphore", "hal_buffer", "virtual_memory"},
             NEW ky \in {"semaphore", "buffer"}, call' = call, todo' = todo,
             into_handle(c, Retained(<<Device>>),
                         << Cell(kx, <<>>, {HalDevice}), Cell(ky, <<New, Device>>, {}) >>)
      PROVE  Shape'
    <3> DEFINE k == Retained(<<Device>>)
               s == <<New, Device>>
               x == Cell(kx, <<>>, {HalDevice})
               y == Cell(ky, s, {})
    <3>1. /\ kx \in Kinds /\ ky \in Kinds /\ kx \in Dependent /\ ky \notin Dependent /\ ky \in Anchors
          /\ kx # "device"
      BY <2>OnDevice, SMT DEF Kinds, Dependent, Anchors
    <3>2. Base(k)
      BY <2>OnDevice, <1>Bases
    <3>3. /\ x \in CellType /\ x.kind = kx /\ x.own = <<>> /\ x.needs = {HalDevice} /\ x.lost = 0
      <4>1. <<>> \in Seq(Cells) /\ {HalDevice} \in SUBSET Cells
        BY CellsFixed
      <4>2. x.kind = kx /\ x.own = <<>> /\ x.needs = {HalDevice} /\ x.lost = 0
        BY DEF Cell
      <4>3. x \in CellType
        BY <3>1, <4>1, SMT DEF Cell, CellType
      <4> QED BY <4>2, <4>3
    <3>4. New \in Nat /\ Device \in Cells /\ MaxCells \in Nat
      BY <2>OnDevice, <1>NewPlaces, CellsFixed
    <3>5. New \in Cells
      <4>1. Len(k) + Len(<<x, y>>) <= MaxCells
        BY <2>OnDevice DEF into_handle
      <4>2. Len(k) = Len(heap) /\ Len(heap) \in Nat
        BY <2>OnDevice, <3>2, GroundedFacts, HeapTypes DEF Base
      <4> HIDE DEF k, x, y
      <4> QED BY <3>4, <4>1, <4>2, SMT DEF New, Cells
    <3>6. /\ s \in Seq(Cells) /\ DOMAIN s = {1, 2} /\ s[1] = New /\ s[2] = Device /\ Len(s) = 2
          /\ s # <<>>
      BY <3>4, <3>5, SMT
    <3> HIDE DEF s
    <3>7. y \in CellType /\ y.kind = ky /\ y.own = s /\ y.needs = {}
      <4>1. {} \in SUBSET Cells
        OBVIOUS
      <4>2. y.kind = ky /\ y.own = s /\ y.needs = {}
        BY DEF Cell
      <4>3. y \in CellType
        BY <3>1, <3>6, <4>1, <1>NewCellType, SMT
      <4> QED BY <4>2, <4>3
    <3>8. into_handle(c, k, <<x, y>>)
      BY <2>OnDevice DEF s
    <3> HIDE DEF k, x, y
    <3>9. Grows(k, heap') /\ heap'[New] = x /\ heap'[New + 1] = y
      BY <2>OnDevice, <3>2, <3>3, <3>7, <3>8, <2>Two
    <3>10. CellShape(heap', New)
      BY <3>1, <3>3, <3>9, LeafShape
    <3>11. Device \in DOMAIN heap /\ heap[Device].kind = "device" /\ heap'[Device].kind = "device"
      <4>1. Device \in DOMAIN heap /\ heap[Device].kind = "device"
        BY <2>OnDevice, GroundedFacts, HeapTypes DEF HeapOK, HeapSound
      <4> QED BY <3>2, <3>9, <4>1, <2>Kept
    <3>12. "device" \notin Dependent
      BY SMT DEF Dependent
    <3>13. Ordered(heap', s, 0)
      <4>1. ASSUME NEW i \in DOMAIN s, Strict(heap', s[i]), NEW p \in heap'[s[i]].needs
            PROVE  p = HalDevice
        <5>1. CASE i = 1
          BY <3>3, <3>6, <3>9, <4>1, <5>1
        <5>2. CASE i = 2
          BY <3>6, <3>11, <3>12, <4>1, <5>2 DEF Strict
        <5> QED BY <3>6, <4>1, <5>1, <5>2
      <4>2. s \in Seq(Cells) /\ s # <<>> /\ s[Len(s)] = Device
        BY <3>6
      <4> QED BY <3>11, <4>1, <4>2, <1>OrderedDevice
    <3>14. \A i \in DOMAIN s : Rank(heap'[s[i]].kind) < Rank(ky)
      <4>1. Rank(kx) < Rank(ky) /\ Rank("device") < Rank(ky)
        BY <2>OnDevice, Ranks, SMT
      <4> QED BY <3>3, <3>6, <3>9, <3>11, <4>1
    <3>15. CellShape(heap', New + 1)
      BY <3>1, <3>7, <3>9, <3>13, <3>14, AnchorShape
    <3> QED BY <2>OnDevice, <2>Pair, <3>1, <3>2, <3>3, <3>7, <3>8, <3>10, <3>15
  \* A handle around an IREE object that owns what is not strict.
  <2>Around.
      ASSUME Grounded, Shape, NEW c \in Clients, Idle(c), NEW k, Base(k), NEW s \in Seq(Cells),
             NEW ky \in {"fence", "view", "list"}, NEW kx, kx = Wrapped[ky],
             \A i \in DOMAIN s : /\ s[i] \in DOMAIN heap /\ ~Strict(k, s[i])
                                 /\ Rank(heap[s[i]].kind) < Rank(kx),
             into_handle(c, k, << Cell(kx, s, {}), Cell(ky, <<New>>, {}) >>),
             call' = call, todo' = todo
      PROVE  Shape'
    <3> DEFINE l == <<New>>
               x == Cell(kx, s, {})
               y == Cell(ky, l, {})
    <3>1. /\ kx \in Kinds /\ ky \in Kinds /\ kx \notin Dependent /\ ky \notin Dependent
          /\ ky \in DOMAIN Wrapped /\ kx \notin DOMAIN Wrapped /\ Wrapped[ky] = kx
      BY <2>Around, SMT DEF Kinds, Dependent, Wrapped
    <3>2. New \in Cells
      <4>1. Len(k) + Len(<<x, y>>) <= MaxCells
        BY <2>Around DEF into_handle
      <4>2. Len(k) = Len(heap) /\ Len(heap) \in Nat /\ MaxCells \in Nat
        BY <2>Around, GroundedFacts, HeapTypes, CellsFixed DEF Base
      <4> HIDE DEF x, y
      <4> QED BY <4>1, <4>2, SMT DEF New, Cells
    <3>3. l \in Seq(Cells) /\ DOMAIN l = {1} /\ l[1] = New
      BY <3>2, SMT
    <3> HIDE DEF l
    <3>4. /\ x.kind = kx /\ x.own = s /\ x.needs = {} /\ y.kind = ky /\ y.own = l /\ y.needs = {}
      BY DEF Cell
    <3>5. x \in CellType /\ y \in CellType
      <4>1. {} \in SUBSET Cells
        OBVIOUS
      <4>2. x \in CellType
        BY <2>Around, <3>1, <4>1, <1>NewCellType, SMT
      <4>3. y \in CellType
        BY <3>1, <3>3, <4>1, <1>NewCellType, SMT
      <4> QED BY <4>2, <4>3
    <3>6. into_handle(c, k, <<x, y>>)
      BY <2>Around DEF l
    <3> HIDE DEF x, y
    <3>7. Grows(k, heap') /\ heap'[New] = x /\ heap'[New + 1] = y
      BY <2>Around, <3>5, <3>6, <2>Two
    <3>8. CellShape(heap', New)
      <4>1. ASSUME NEW i \in DOMAIN s
            PROVE  ~Strict(heap', s[i]) /\ Rank(heap'[s[i]].kind) < Rank(kx)
        <5>1. s[i] \in DOMAIN heap /\ ~Strict(k, s[i]) /\ Rank(heap[s[i]].kind) < Rank(kx)
          BY <2>Around, <4>1
        <5> QED BY <2>Around, <3>7, <5>1, <2>Kept
      <4> QED BY <3>1, <3>4, <3>7, <4>1, <1>LooseShape
    <3>9. CellShape(heap', New + 1)
      <4>1. Rank(kx) < Rank(ky)
        <5>1. \/ (ky = "fence" /\ kx = "hal_fence")
              \/ (ky = "view" /\ kx = "hal_buffer_view")
              \/ (ky = "list" /\ kx = "vm_list")
          BY <2>Around, SMT DEF Wrapped
        <5> QED BY <5>1, Ranks, SMT
      <4>2. ~Strict(heap', New)
        BY <3>1, <3>4, <3>7 DEF Strict
      <4>3. \A i \in DOMAIN l : /\ ~Strict(heap', l[i]) /\ Rank(heap'[l[i]].kind) < Rank(ky)
                                /\ heap'[l[i]].kind = Wrapped[ky]
        BY <3>1, <3>3, <3>4, <3>7, <4>1, <4>2
      <4> QED BY <3>1, <3>4, <3>7, <4>3, <1>LooseShape
    <3> QED BY <2>Around, <2>Pair, <3>1, <3>4, <3>5, <3>6, <3>8, <3>9
  \* A fence over the semaphores s.
  <2>FenceOn.
      ASSUME Grounded, Shape, NEW c \in Clients, Idle(c), NEW s \in Seq(Cells),
             \A y \in Range(s) : Shareable(y) /\ Rank(heap[y].kind) < 2, FenceOver(c, s)
      PROVE  Shape'
    <3>1. /\ into_handle(c, Lent(s), << Cell("hal_fence", s, {}), Cell("fence", <<New>>, {}) >>)
          /\ call' = call /\ todo' = todo
      BY <2>FenceOn DEF FenceOver
    <3>2. Base(Lent(s)) /\ \A y \in Range(s) : ~Strict(Lent(s), y)
      BY <2>FenceOn, <1>Bases, <1>LentSuccessor
    <3>3. Rank("hal_fence") = 2
      BY Ranks
    <3>4. \A i \in DOMAIN s : /\ s[i] \in DOMAIN heap /\ ~Strict(Lent(s), s[i])
                              /\ Rank(heap[s[i]].kind) < Rank("hal_fence")
      BY <2>FenceOn, <3>2, <3>3 DEF Range, Shareable
    <3>5. "hal_fence" = Wrapped["fence"]
      BY SMT DEF Wrapped
    <3> QED BY <2>FenceOn, <2>Around, <3>1, <3>2, <3>4, <3>5
  <2>1. ASSUME Grounded, Shape, NEW c \in Clients, hrx_semaphore_create(c) PROVE Shape'
    <3>1. /\ Idle(c) /\ call' = call /\ todo' = todo
          /\ into_handle(c, Retained(<<Device>>),
                << Cell("hal_semaphore", <<>>, {HalDevice}), Cell("semaphore", <<New, Device>>, {}) >>)
      BY <2>1 DEF hrx_semaphore_create, Ready, HrxSemaphoreS
    <3> QED BY <2>1, <2>OnDevice, <3>1
  <2>2. ASSUME Grounded, Shape, NEW c \in Clients, NEW op, NEW kind \in {"hal_buffer", "virtual_memory"},
               NewBuffer(c, op, kind)
        PROVE  Shape'
    <3>1. New \in Nat
      BY <2>2, <1>NewPlaces
    <3>2. HrxBufferS(New, <<>>) = <<New, Device>>
      BY <3>1, <1>FieldsOfBuffer
    <3>3. /\ Idle(c) /\ call' = call /\ todo' = todo
          /\ into_handle(c, Retained(<<Device>>),
                << Cell(kind, <<>>, {HalDevice}), Cell("buffer", <<New, Device>>, {}) >>)
      BY <2>2, <3>2 DEF NewBuffer, Ready
    <3> QED BY <2>2, <2>OnDevice, <3>3
  <2>3. ASSUME Grounded, Shape, NEW c \in Clients, hrx_fence_create(c) PROVE Shape'
    <3> DEFINE s == <<>>
    <3>1. Idle(c) /\ FenceOver(c, s)
      BY <2>3 DEF hrx_fence_create, Ready
    <3>2. s \in Seq(Cells) /\ DOMAIN s = {}
      BY SMT
    <3> HIDE DEF s
    <3>3. \A y \in Range(s) : Shareable(y) /\ Rank(heap[y].kind) < 2
      BY <3>2 DEF Range
    <3> QED BY <2>3, <2>FenceOn, <3>1, <3>2, <3>3
  <2>4. ASSUME Grounded, Shape, NEW c \in Clients, hrx_fence_create_at(c) PROVE Shape'
    <3>1. PICK e \in Holds(c, "semaphore") : FenceOver(c, <<Hal(e)>>)
      BY <2>4 DEF hrx_fence_create_at
    <3>2. Idle(c)
      BY <2>4 DEF hrx_fence_create_at, Ready
    <3> DEFINE x == Hal(e)
               s == <<x>>
    <3>3. x \in Cells /\ Shareable(x) /\ Rank(heap[x].kind) < 2
      <4>1. Rank("semaphore") = 2
        BY Ranks
      <4>2. x \in Cells /\ Shareable(x) /\ Rank(heap[x].kind) < Rank("semaphore")
        BY <2>4, <1>HalShape
      <4> QED BY <4>1, <4>2
    <3>4. FenceOver(c, s)
      BY <3>1
    <3> HIDE DEF x
    <3>5. s \in Seq(Cells) /\ DOMAIN s = {1} /\ s[1] = x
      BY <3>3, SMT
    <3> HIDE DEF s
    <3>6. \A y \in Range(s) : Shareable(y) /\ Rank(heap[y].kind) < 2
      BY <3>3, <3>5 DEF Range
    <3> QED BY <2>4, <2>FenceOn, <3>2, <3>4, <3>5, <3>6
  <2>5. ASSUME Grounded, Shape, NEW c \in Clients, hrx_buffer_view_create(c) PROVE Shape'
    <3>1. PICK b \in Holds(c, "buffer") :
              /\ into_handle(c, Lent(<<Hal(b)>>), << Cell("hal_buffer_view", <<Hal(b)>>, {}),
                                                     Cell("view", <<New>>, {}) >>)
              /\ Idle(c) /\ call' = call /\ todo' = todo
      BY <2>5 DEF hrx_buffer_view_create, Ready
    <3> DEFINE x == Hal(b)
               s == <<x>>
    <3>2. x \in Cells /\ Shareable(x) /\ x \in DOMAIN heap /\ Rank(heap[x].kind) < Rank("hal_buffer_view")
      <4>1. Rank("buffer") = Rank("hal_buffer_view")
        BY Ranks
      <4> QED BY <2>5, <4>1, <1>HalShape
    <3>3. into_handle(c, Lent(s), << Cell("hal_buffer_view", s, {}), Cell("view", <<New>>, {}) >>)
      BY <3>1
    <3> HIDE DEF x
    <3>4. s \in Seq(Cells) /\ DOMAIN s = {1} /\ s[1] = x
      BY <3>2, SMT
    <3> HIDE DEF s
    <3>5. Range(s) = {x}
      BY <3>4 DEF Range
    <3>6. Base(Lent(s)) /\ ~Strict(Lent(s), x)
      BY <2>5, <3>2, <3>5, <1>Bases, <1>LentSuccessor
    <3>7. \A i \in DOMAIN s : /\ s[i] \in DOMAIN heap /\ ~Strict(Lent(s), s[i])
                              /\ Rank(heap[s[i]].kind) < Rank("hal_buffer_view")
      BY <3>2, <3>4, <3>6
    <3>8. "hal_buffer_view" = Wrapped["view"]
      BY SMT DEF Wrapped
    <3> QED BY <2>5, <2>Around, <3>1, <3>3, <3>4, <3>6, <3>7, <3>8
  <2>6. ASSUME Grounded, Shape, NEW c \in Clients, hrx_value_list_create(c) PROVE Shape'
    <3> DEFINE s == <<>>
    <3>1. /\ Idle(c) /\ call' = call /\ todo' = todo
          /\ into_handle(c, heap, << Cell("vm_list", s, {}), Cell("list", <<New>>, {}) >>)
      BY <2>6 DEF hrx_value_list_create, Ready
    <3>2. s \in Seq(Cells) /\ DOMAIN s = {}
      BY SMT
    <3> HIDE DEF s
    <3>3. \A i \in DOMAIN s : /\ s[i] \in DOMAIN heap /\ ~Strict(heap, s[i])
                              /\ Rank(heap[s[i]].kind) < Rank("vm_list")
      BY <3>2
    <3>4. "vm_list" = Wrapped["list"] /\ Base(heap)
      <4>1. "vm_list" = Wrapped["list"]
        BY SMT DEF Wrapped
      <4> QED BY <2>6, <4>1, <1>Bases
    <3> QED BY <2>6, <2>Around, <3>1, <3>2, <3>3, <3>4
  <2>7. ASSUME Grounded, Shape, NEW c \in Clients, hrx_module_lookup_function(c) PROVE Shape'
    <3>1. PICK m \in Holds(c, "module") :
              /\ into_handle(c, Retained(<<m>>), <<Cell("function", <<m>>, {})>>)
              /\ Idle(c) /\ call' = call /\ todo' = todo
      BY <2>7 DEF hrx_module_lookup_function, Ready
    <3> DEFINE s == <<m>>
               k == Retained(s)
               y == Cell("function", s, {})
    <3>2. m \in DOMAIN heap /\ m \in Cells /\ heap[m].kind = "module"
      BY <2>7, GroundedFacts, HeapTypes DEF Holds
    <3>3. s \in Seq(Cells) /\ DOMAIN s = {1} /\ s[1] = m
      BY <3>2, SMT
    <3> HIDE DEF s
    <3>4. /\ "function" \in Kinds /\ "function" \in Anchors /\ "function" \notin Dependent
          /\ "module" \notin Dependent /\ Rank("module") < Rank("function")
      BY Ranks, SMT DEF Kinds, Anchors, Dependent
    <3>5. y \in CellType /\ y.kind = "function" /\ y.own = s /\ y.needs = {}
      <4>1. {} \in SUBSET Cells
        OBVIOUS
      <4>2. y.kind = "function" /\ y.own = s /\ y.needs = {}
        BY DEF Cell
      <4>3. y \in CellType
        BY <3>3, <3>4, <4>1, <1>NewCellType, SMT
      <4> QED BY <4>2, <4>3
    <3>6. Base(k) /\ into_handle(c, k, <<y>>)
      BY <2>7, <3>1, <1>Bases DEF s
    <3> HIDE DEF k, y
    <3>7. /\ refs' = [refs EXCEPT ![c][New] = 1] /\ New \notin DOMAIN heap /\ New \in Cells
          /\ Grows(k, heap') /\ DOMAIN heap' = DOMAIN heap \cup {New} /\ heap'[New] = y
      BY <2>7, <2>Single, <3>5, <3>6
    <3>8. heap'[m].kind = "module" /\ ~Strict(heap', m)
      <4>1. heap'[m].kind = "module"
        BY <3>2, <3>6, <3>7, <2>Kept
      <4> QED BY <3>4, <4>1 DEF Strict
    <3>9. CellShape(heap', New)
      <4>1. Ordered(heap', s, 0)
        BY <3>3, <3>8, <1>OrderedLoose
      <4>2. \A i \in DOMAIN s : Rank(heap'[s[i]].kind) < Rank("function")
        BY <3>3, <3>4, <3>8
      <4> QED BY <3>4, <3>5, <3>7, <4>1, <4>2, AnchorShape
    <3>10. Later(heap, heap') /\ \A q \in DOMAIN heap' : CellShape(heap', q)
      <4>1. Successor(heap, k)
        BY <3>6 DEF Base
      <4>2. \A q \in DOMAIN heap' : q \notin DOMAIN heap => CellShape(heap', q)
        BY <3>7, <3>9
      <4> QED BY <2>7, <3>7, <4>1, <4>2, <1>GrownShape
    <3>11. heap'[New].kind \notin Dependent
      BY <3>4, <3>5, <3>7
    <3> QED BY <2>7, <2>Handed, <3>1, <3>7, <3>10, <3>11
  <2> QED BY <2>1, <2>2, <2>3, <2>4, <2>5, <2>6, <2>7
          DEF hrx_allocator_allocate_buffer, hrx_allocator_import_buffer,
              hrx_allocator_virtual_memory_reserve
(***************************************************************************)
(* The constructors of several steps.                                      *)
(***************************************************************************)
\* The constructors preserve the order.
<1>ConstructorOrder.
    \A c \in Clients :
        Grounded /\ Shape /\ (\/ hrx_buffer_allocate(c) \/ hrx_module_load_vmfb(c)
                              \/ hrx_executable_load_data(c) \/ hrx_executable_load_file(c))
        => Shape'
\* The client inside a call, at step n.
  <2>Inside.
      ASSUME Grounded, Shape, NEW c \in Clients, NEW op \in Constructors, NEW n, At(c, op, n)
      PROVE  /\ call[c].op = op /\ refs[c][Device] > 0 /\ refs[c][Device] \in Nat /\ todo[c] = <<>>
             /\ Locals(c) \in Seq(Cells) /\ Len(Locals(c)) = LocalsAt(op, n)
             /\ op = "hrx_buffer_allocate" /\ n = 2 => Locals(c) = <<HalAllocator>>
             /\ \A i \in DOMAIN Locals(c) : Locals(c)[i] \in DOMAIN heap /\ LocalShape(heap, call[c], i)
    <3>1. call[c].op = op /\ call[c].at = n
      BY <2>Inside DEF At
    <3>2. "none" \notin Constructors
      BY SMT DEF Constructors
    <3>3. call[c] # NoCall
      <4>1. NoCall.op = "none"
        BY SMT DEF NoCall
      <4> QED BY <2>Inside, <3>1, <3>2, <4>1
    <3>4. /\ CallSound(heap, call[c], todo[c], refs[c]) /\ call[c].locals \in Seq(Cells)
          /\ refs[c] \in [Cells -> Nat] /\ Within(heap, call[c].locals) /\ Device \in Cells
      BY <2>Inside, GroundedFacts, CellsFixed
    <3>5. /\ Len(call[c].locals) = LocalsAt(op, n) /\ todo[c] = <<>> /\ refs[c][Device] > 0
          /\ op = "hrx_buffer_allocate" /\ n = 2 => Locals(c) = <<HalAllocator>>
      BY <3>1, <3>3, <3>4 DEF CallSound, Locals
    <3>6. CallShape(heap, call[c])
      BY <2>Inside DEF Shape, ClientShape
    <3>7. refs[c][Device] \in Nat
      BY <3>4
    <3> QED BY <3>1, <3>4, <3>5, <3>6, <3>7 DEF CallShape, Within, Locals
  \* A call begins.
  <2>Entered.
      ASSUME Grounded, Shape, NEW c \in Clients, NEW op, Enter(c, op)
      PROVE  Shape'
    <3> DEFINE r == [op |-> op, at |-> 1, locals |-> <<>>]
    <3>1. Idle(c) /\ call' = [call EXCEPT ![c] = r] /\ heap' = heap /\ refs' = refs /\ todo' = todo
      BY <2>Entered DEF Enter, Ready
    <3>2. DOMAIN r.locals = {}
      BY SMT
    <3> HIDE DEF r
    <3>3. call \in [Clients -> CallType]
      BY <2>Entered DEF Grounded, Typed
    <3>4. call'[c] = r /\ \A d \in Clients : d # c => call'[d] = call[d]
      BY <3>1, <3>3
    <3>5. CallShape(heap', call'[c])
      BY <3>2, <3>4 DEF CallShape
    <3>6. Later(heap, heap') /\ \A q \in DOMAIN heap' : CellShape(heap', q)
      BY <2>Entered, <3>1 DEF Later, Shape, HeapShape
    <3>7. ClientShape(heap, refs[c], call[c], todo[c])
      BY <2>Entered DEF Shape
    <3>8. ClientShape(heap', refs'[c], call'[c], todo'[c])
      BY <3>1, <3>5, <3>7 DEF ClientShape
    <3>9. \A d \in Clients : d # c => refs'[d] = refs[d] /\ call'[d] = call[d] /\ todo'[d] = todo[d]
      BY <3>1, <3>4
    <3> QED BY <2>Entered, <3>6, <3>8, <3>9, <1>ShapeStep
  \* What a call that fails has to release is in order.
  <2>Reversed.
      ASSUME NEW g, NEW k, NEW l \in Seq(Cells), l = k.locals, NEW m, m > 0,
             \A i \in DOMAIN l : LocalShape(g, k, i)
      PROVE  Ordered(g, LastFirst(l), m)
    <3> DEFINE w == LastFirst(l)
               at(i) == (Len(l) - i) + 1
    <3>1. /\ DOMAIN w = DOMAIN l
          /\ \A i \in DOMAIN w : w[i] = l[at(i)]
      BY DEF LastFirst
    <3>2. /\ \A i \in DOMAIN l : at(i) \in DOMAIN l
          /\ \A i \in DOMAIN l : \A j \in DOMAIN l : j < at(i) => at(j) > i
          /\ \A j \in DOMAIN l : at(at(j)) = j
      BY <2>Reversed, SMT
    <3> HIDE DEF w, at
    <3>3. ASSUME NEW i \in DOMAIN w PROVE Covered(g, w, m, i)
      <4>1. at(i) \in DOMAIN l /\ w[i] = l[at(i)] /\ LocalShape(g, k, at(i))
        BY <2>Reversed, <3>1, <3>2, <3>3
      <4>2. \A p \in g[l[at(i)]].needs : p = HalDevice \/ \E j \in DOMAIN l : j < at(i) /\ l[j] = p
        BY <2>Reversed, <4>1 DEF LocalShape
      <4>3. ASSUME NEW p \in g[w[i]].needs, p # HalDevice
            PROVE  \E j \in DOMAIN w : j > i /\ Keeps(w[j], p)
        <5>1. PICK j \in DOMAIN l : j < at(i) /\ l[j] = p
          BY <4>1, <4>2, <4>3
        <5>2. at(j) \in DOMAIN w /\ at(j) > i /\ w[at(j)] = p
          BY <3>1, <3>2, <3>3, <5>1
        <5> QED BY <5>2 DEF Keeps
      <4> QED BY <2>Reversed, <4>3 DEF Covered
    <3>4. Ordered(g, w, m)
      BY <3>3 DEF Ordered
    <3> QED BY <3>4 DEF w
  \* A call fails.
  <2>Unwound.
      ASSUME Grounded, Shape, NEW c \in Clients, NEW op \in Constructors, NEW n, Unwind(c, op, n)
      PROVE  Shape'
    <3>1. /\ At(c, op, n) /\ todo' = [todo EXCEPT ![c] = LastFirst(Locals(c))]
          /\ call' = [call EXCEPT ![c] = NoCall] /\ heap' = heap /\ refs' = refs
      BY <2>Unwound DEF Unwind
    <3>2. /\ refs[c][Device] > 0 /\ Locals(c) \in Seq(Cells)
          /\ \A i \in DOMAIN Locals(c) : LocalShape(heap, call[c], i)
      BY <2>Unwound, <3>1, <2>Inside
    <3>3. Ordered(heap, LastFirst(Locals(c)), refs[c][Device])
      BY <3>2, <2>Reversed DEF Locals
    <3>4. call \in [Clients -> CallType] /\ todo \in [Clients -> Seq(Cells)]
      BY <2>Unwound DEF Grounded, Typed
    <3>5. /\ call'[c] = NoCall /\ todo'[c] = LastFirst(Locals(c))
          /\ \A d \in Clients : d # c => refs'[d] = refs[d] /\ call'[d] = call[d] /\ todo'[d] = todo[d]
      BY <3>1, <3>4
    <3>6. CallShape(heap', NoCall)
      <4>1. DOMAIN NoCall.locals = {}
        BY SMT DEF NoCall
      <4> QED BY <4>1 DEF CallShape
    <3>7. HandleShape(heap, refs[c])
      BY <2>Unwound DEF Shape, ClientShape
    <3>8. ClientShape(heap', refs'[c], call'[c], todo'[c])
      BY <3>1, <3>3, <3>5, <3>6, <3>7 DEF ClientShape
    <3>9. Later(heap, heap') /\ \A q \in DOMAIN heap' : CellShape(heap', q)
      BY <2>Unwound, <3>1 DEF Later, Shape, HeapShape
    <3> QED BY <2>Unwound, <3>5, <3>8, <3>9, <1>ShapeStep
  \* What a step leaves to show.
  <2>Stepped.
      ASSUME Grounded, Shape, NEW c \in Clients, NEW op \in Constructors, NEW n, NEW h, NEW s, NEW l,
             Step(c, op, n, h, s, l), Base(h), Grows(h, heap'),
             \A q \in DOMAIN heap' : q \notin DOMAIN heap => CellShape(heap', q),
             \A i \in DOMAIN l : LocalShape(heap', Record(op, n, l), i)
      PROVE  Shape'
    <3>1. call' = [call EXCEPT ![c] = Record(op, n, l)] /\ refs' = refs /\ todo' = todo
      BY <2>Stepped DEF Step, Record
    <3>2. Successor(heap, h)
      BY <2>Stepped DEF Base
    <3>3. Later(heap, heap') /\ \A q \in DOMAIN heap' : CellShape(heap', q)
      BY <2>Stepped, <3>2, <1>GrownShape
    <3>4. call \in [Clients -> CallType]
      BY <2>Stepped DEF Grounded, Typed
    <3>5. call'[c] = Record(op, n, l) /\ \A d \in Clients : d # c => call'[d] = call[d]
      BY <3>1, <3>4
    <3>6. CallShape(heap', Record(op, n, l))
      <4>1. Record(op, n, l).locals = l
        BY DEF Record
      <4> QED BY <2>Stepped, <4>1 DEF CallShape
    <3>7. ClientShape(heap', refs[c], call[c], todo[c])
      BY <2>Stepped, <3>3, <1>ClientsLater
    <3>8. ClientShape(heap', refs'[c], call'[c], todo'[c])
      BY <3>1, <3>5, <3>6, <3>7 DEF ClientShape
    <3>9. \A d \in Clients : d # c => refs'[d] = refs[d] /\ call'[d] = call[d] /\ todo'[d] = todo[d]
      BY <3>1, <3>5
    <3> QED BY <2>Stepped, <3>3, <3>8, <3>9, <1>ShapeStep
  \* The heap after a step that makes no cell, one, or two.
  <2>StepNone.
      ASSUME Grounded, NEW c \in Clients, NEW op, NEW n, NEW h, Base(h), NEW l,
             Step(c, op, n, h, <<>>, l)
      PROVE  Grows(h, heap') /\ DOMAIN heap' = DOMAIN heap
    BY <2>StepNone, <1>MadeNone DEF Step
  <2>StepOne.
      ASSUME Grounded, NEW c \in Clients, NEW op, NEW n, NEW h, Base(h), NEW x \in CellType, NEW l,
             Step(c, op, n, h, <<x>>, l)
      PROVE  /\ Grows(h, heap') /\ DOMAIN heap' = DOMAIN heap \cup {New} /\ heap'[New] = x
             /\ New \in Cells /\ New \notin DOMAIN heap
    <3>1. Len(h) = Len(heap) /\ Len(heap) \in Nat
      BY <2>StepOne, GroundedFacts, HeapTypes DEF Base
    <3>2. Len(h) + Len(<<x>>) = New
      BY <3>1, SMT DEF New
    <3>3. New <= MaxCells /\ heap' = h \o <<x>>
      BY <2>StepOne, <3>2 DEF Step
    <3>4. New \notin DOMAIN heap /\ New \in Cells
      BY <2>StepOne, <3>3, <1>NewPlaces
    <3>5. Grows(h, heap') /\ DOMAIN heap' = DOMAIN heap \cup {New} /\ heap'[New] = x
      BY <2>StepOne, <3>3, <1>MadeOne
    <3> QED BY <3>4, <3>5
  <2>StepTwo.
      ASSUME Grounded, NEW c \in Clients, NEW op, NEW n, NEW h, Base(h), NEW x \in CellType,
             NEW y \in CellType, NEW l, Step(c, op, n, h, <<x, y>>, l)
      PROVE  GrowsByTwo(h, heap', x, y) /\ New \in Cells /\ New + 1 \in Cells
    <3>1. Len(h) = Len(heap) /\ Len(heap) \in Nat
      BY <2>StepTwo, GroundedFacts, HeapTypes DEF Base
    <3>2. Len(h) + Len(<<x, y>>) = New + 1
      BY <3>1, SMT DEF New
    <3>3. New + 1 <= MaxCells /\ heap' = h \o <<x, y>>
      BY <2>StepTwo, <3>2 DEF Step
    <3>4. New \in Cells /\ New + 1 \in Cells
      BY <2>StepTwo, <3>3, <1>NewPlaces
    <3> DEFINE g == heap'
    <3>5. Grounded /\ Base(h) /\ x \in CellType /\ y \in CellType /\ g = h \o <<x, y>>
      BY <2>StepTwo, <3>3
    <3> HIDE DEF g
    <3>6. GrowsByTwo(h, g, x, y)
      BY ONLY <3>5, <1>MadeTwo, Zenon
    <3> QED BY <3>4, <3>6 DEF g
  \* What an old cell is in the new heap.
  <2>Kept.
      ASSUME NEW h, Base(h), Grows(h, heap'), NEW q \in DOMAIN heap
      PROVE  /\ heap'[q].kind = heap[q].kind /\ heap'[q].needs = heap[q].needs
             /\ Strict(heap', q) => Strict(heap, q)
             /\ (\A o \in DOMAIN heap : h[o].lent = heap[o].lent) => heap'[q].lent = heap[q].lent
    <3>1. /\ q \in DOMAIN h /\ h[q].kind = heap[q].kind /\ h[q].needs = heap[q].needs
          /\ heap[q].lent => h[q].lent
      BY <2>Kept DEF Base, Successor, Later
    <3>2. heap'[q] = h[q]
      BY <2>Kept, <3>1 DEF Grows
    <3> QED BY <3>1, <3>2 DEF Strict
  \* A local that points to at most the HAL device and the earlier locals.
  <2>OneLocal.
      ASSUME NEW g, NEW op, NEW m, NEW l, NEW i,
             Rank(g[l[i]].kind) < 2 \/ (op = "hrx_module_load_vmfb" /\ i = 3 /\ Rank(g[l[i]].kind) < 3),
             \A p \in g[l[i]].needs :
                \/ p = HalDevice
                \/ \E j \in DOMAIN l : j < i /\ l[j] = p /\ (op = "hrx_executable_load_file" => j # 1),
             op = "hrx_module_load_vmfb" => g[l[i]].needs \subseteq {HalDevice},
             op = "hrx_executable_load_file" => ~Strict(g, l[1])
      PROVE  LocalShape(g, Record(op, m, l), i)
    <3>1. Record(op, m, l).op = op /\ Record(op, m, l).locals = l
      BY DEF Record
    <3>2. Rank(g[l[i]].kind) < IF op = "hrx_module_load_vmfb" /\ i = 3 THEN 3 ELSE 2
      <4>1. Rank(g[l[i]].kind) < 2 => Rank(g[l[i]].kind) < 3
        <5>1. Rank(g[l[i]].kind) \in 0 .. 4
          BY Ranks
        <5> QED BY <5>1, SMT
      <4> QED BY <2>OneLocal, <4>1
    <3> QED BY <2>OneLocal, <3>1, <3>2 DEF LocalShape
  \* A local that stays where it was.
  <2>OldLocal.
      ASSUME Grounded, Shape, NEW c \in Clients, NEW op \in Constructors, NEW n, At(c, op, n),
             NEW h, Base(h), Grows(h, heap'), NEW l, NEW m, NEW i \in DOMAIN Locals(c),
             \A j \in DOMAIN Locals(c) : j <= i => j \in DOMAIN l /\ l[j] = Locals(c)[j]
      PROVE  LocalShape(heap', Record(op, m, l), i)
    <3> DEFINE k == call[c]
               o == Locals(c)
               r == Record(op, m, l)
    <3>1. k.op = op /\ o \in Seq(Cells) /\ LocalShape(heap, k, i) /\ \A j \in DOMAIN o : o[j] \in DOMAIN heap
      BY <2>OldLocal, <2>Inside
    <3>2. o = k.locals /\ r.op = op /\ r.locals = l
      BY DEF Locals, Record
    <3> HIDE DEF r, o, k
    <3>3. 1 \in DOMAIN o /\ 1 <= i /\ i <= i /\ \A j \in DOMAIN o : j < i => j <= i
      BY <2>OldLocal, <3>1, SMT DEF o
    <3>4. l[i] = o[i] /\ l[1] = o[1] /\ i \in DOMAIN o
      BY <2>OldLocal, <3>3 DEF o
    <3>5. /\ heap'[l[i]].kind = heap[o[i]].kind /\ heap'[l[i]].needs = heap[o[i]].needs
          /\ Strict(heap', l[1]) => Strict(heap, o[1])
      BY <2>OldLocal, <2>Kept, <3>1, <3>3, <3>4
    <3>6. \A j \in DOMAIN o : j < i => j \in DOMAIN l /\ l[j] = o[j]
      BY <2>OldLocal, <3>3 DEF o
    <3>7. LocalShape(heap', r, i)
      <4>1. /\ Rank(heap[o[i]].kind) < IF op = "hrx_module_load_vmfb" /\ i = 3 THEN 3 ELSE 2
            /\ \A p \in heap[o[i]].needs :
                  \/ p = HalDevice
                  \/ \E j \in DOMAIN o : j < i /\ o[j] = p /\ (op = "hrx_executable_load_file" => j # 1)
            /\ op = "hrx_module_load_vmfb" => heap[o[i]].needs \subseteq {HalDevice}
            /\ op = "hrx_executable_load_file" => ~Strict(heap, o[1])
        BY <3>1, <3>2 DEF LocalShape
      <4>2. /\ \/ Rank(heap'[l[i]].kind) < 2
               \/ (op = "hrx_module_load_vmfb" /\ i = 3 /\ Rank(heap'[l[i]].kind) < 3)
            /\ op = "hrx_module_load_vmfb" => heap'[l[i]].needs \subseteq {HalDevice}
            /\ op = "hrx_executable_load_file" => ~Strict(heap', l[1])
        BY <3>5, <4>1
      <4>3. ASSUME NEW p \in heap'[l[i]].needs, p # HalDevice
            PROVE  \E j \in DOMAIN l : j < i /\ l[j] = p /\ (op = "hrx_executable_load_file" => j # 1)
        <5>1. p \in heap[o[i]].needs
          BY <3>5, <4>3
        <5>2. PICK j \in DOMAIN o : j < i /\ o[j] = p /\ (op = "hrx_executable_load_file" => j # 1)
          BY <4>1, <4>3, <5>1
        <5> QED BY <3>6, <5>2
      <4> QED BY <4>2, <4>3, <2>OneLocal DEF r
    <3> QED BY <3>7 DEF r
  \* A call returns a handle whose fields end with a reference on the device.
  <2>Finished.
      ASSUME Grounded, Shape, NEW c \in Clients, NEW op \in Constructors, NEW n,
             NEW kind \in {"buffer", "module", "executable"}, NEW s \in Seq(Cells), NEW t \in Seq(Cells),
             Finish(c, op, n, <<Device>>, kind, s, t),
             s # <<>>, s[Len(s)] = Device,
             \A i \in DOMAIN s : /\ s[i] \in DOMAIN heap /\ Rank(heap[s[i]].kind) < Rank(kind)
                                 /\ \A p \in heap[s[i]].needs :
                                       p = HalDevice \/ (\E j \in DOMAIN s : j > i /\ s[j] = p),
             \A i \in DOMAIN t : t[i] \in DOMAIN heap /\ ~Strict(heap, t[i])
      PROVE  Shape'
    <3> DEFINE k == Retained(<<Device>>)
               x == Cell(kind, s, {})
    <3>1. /\ New <= MaxCells /\ heap' = Append(k, x) /\ refs' = [refs EXCEPT ![c][New] = 1]
          /\ todo' = [todo EXCEPT ![c] = t] /\ call' = [call EXCEPT ![c] = NoCall]
      BY <2>Finished DEF Finish
    <3>2. kind \in Kinds /\ kind \in Anchors /\ kind \notin Dependent
      BY <2>Finished, SMT DEF Kinds, Anchors, Dependent
    <3>3. x \in CellType /\ x.kind = kind /\ x.own = s /\ x.needs = {}
      <4>1. {} \in SUBSET Cells
        OBVIOUS
      <4>2. x.kind = kind /\ x.own = s /\ x.needs = {}
        BY DEF Cell
      <4>3. x \in CellType
        BY <2>Finished, <3>2, <4>1, <1>NewCellType, SMT
      <4> QED BY <4>2, <4>3
    <3>4. Base(k)
      BY <2>Finished, <1>Bases
    <3> HIDE DEF k, x
    <3>5. Grows(k, heap') /\ DOMAIN heap' = DOMAIN heap \cup {New} /\ heap'[New] = x
      <4> DEFINE g == heap'
      <4>1. Grounded /\ g = Append(k, x)
        BY <2>Finished, <3>1
      <4> HIDE DEF g
      <4>2. Grows(k, g) /\ DOMAIN g = DOMAIN heap \cup {New} /\ g[New] = x
        BY <3>3, <3>4, <4>1, <1>MadeOne
      <4> QED BY <4>2 DEF g
    <3>6. New \in Cells /\ New \notin DOMAIN heap
      BY <2>Finished, <3>1, <1>NewPlaces
    <3>7. \A q \in DOMAIN heap : /\ heap'[q].kind = heap[q].kind /\ heap'[q].needs = heap[q].needs
                                 /\ Strict(heap', q) => Strict(heap, q)
      BY <3>4, <3>5, <2>Kept
    <3>8. CellShape(heap', New)
      <4>1. Device \in DOMAIN heap /\ heap'[Device].kind = "device"
        BY <2>Finished, <3>7, GroundedFacts, HeapTypes DEF HeapOK, HeapSound
      <4>2. \A i \in DOMAIN s : Strict(heap', s[i]) =>
               \A p \in heap'[s[i]].needs : p = HalDevice \/ (\E j \in DOMAIN s : j > i /\ s[j] = p)
        BY <2>Finished, <3>7
      <4>3. Ordered(heap', s, 0)
        BY <2>Finished, <4>1, <4>2, <1>OrderedDevice
      <4>4. \A i \in DOMAIN s : Rank(heap'[s[i]].kind) < Rank(kind)
        BY <2>Finished, <3>7
      <4> QED BY <3>2, <3>3, <3>5, <4>3, <4>4, AnchorShape
    <3>9. Later(heap, heap') /\ \A q \in DOMAIN heap' : CellShape(heap', q)
      <4>1. Successor(heap, k)
        BY <3>4 DEF Base
      <4>2. \A q \in DOMAIN heap' : q \notin DOMAIN heap => CellShape(heap', q)
        BY <3>5, <3>8
      <4> QED BY <2>Finished, <3>5, <4>1, <4>2, <1>GrownShape
    <3>10. HandleShape(heap', refs'[c]) /\ \A d \in Clients : d # c => refs'[d] = refs[d]
      <4>1. refs[c][New] \in Nat /\ ~(refs[c][New] > 0)
        BY <2>Finished, <3>6, GroundedFacts
      <4>2. 1 \in Nat /\ 1 >= refs[c][New]
        BY <4>1, SMT
      <4>3. heap'[New].kind \notin Dependent
        BY <3>2, <3>3, <3>5
      <4> QED BY <2>Finished, <3>1, <3>6, <3>9, <4>2, <4>3, <1>HandleTaken, ZenonT(30)
    <3>11. call \in [Clients -> CallType] /\ todo \in [Clients -> Seq(Cells)]
      BY <2>Finished DEF Grounded, Typed
    <3>12. /\ call'[c] = NoCall /\ todo'[c] = t
           /\ \A d \in Clients : d # c => call'[d] = call[d] /\ todo'[d] = todo[d]
      BY <3>1, <3>11
    <3>13. CallShape(heap', NoCall)
      <4>1. DOMAIN NoCall.locals = {}
        BY SMT DEF NoCall
      <4> QED BY <4>1 DEF CallShape
    <3>14. Ordered(heap', t, refs'[c][Device])
      BY <2>Finished, <3>7, <1>OrderedLoose
    <3>15. ClientShape(heap', refs'[c], call'[c], todo'[c])
      BY <3>10, <3>12, <3>13, <3>14 DEF ClientShape
    <3>16. \A d \in Clients : d # c => refs'[d] = refs[d] /\ call'[d] = call[d] /\ todo'[d] = todo[d]
      BY <3>10, <3>12
    <3> QED BY <2>Finished, <3>9, <3>15, <3>16, <1>ShapeStep
  \* The fields of a new cell.
  <2>Fresh.
      ASSUME NEW kind \in Kinds, NEW s \in Seq(Cells), NEW d \in SUBSET Cells, NEW x,
             x = Cell(kind, s, d)
      PROVE  x \in CellType /\ x.kind = kind /\ x.own = s /\ x.needs = d /\ x.lost = 0 /\ ~x.lent
    <3>1. x.kind = kind /\ x.own = s /\ x.needs = d /\ x.lost = 0 /\ ~x.lent
      BY <2>Fresh DEF Cell
    <3>2. x \in CellType
      BY <2>Fresh, <1>NewCellType, SMT
    <3> QED BY <3>1, <3>2
  \* A step that adds a local.
  <2>Pushed.
      ASSUME Grounded, Shape, NEW c \in Clients, NEW op \in Constructors, NEW n, NEW h, NEW s, NEW l,
             Step(c, op, n, h, s, l), Base(h), Grows(h, heap'),
             \A q \in DOMAIN heap' : q \notin DOMAIN heap => CellShape(heap', q),
             NEW x, Extends(l, Locals(c), x),
             Rank(heap'[x].kind) < 2 \/ (op = "hrx_module_load_vmfb" /\ n = 3 /\ Rank(heap'[x].kind) < 3),
             \A p \in heap'[x].needs :
                \/ p = HalDevice
                \/ \E j \in DOMAIN Locals(c) :
                      Locals(c)[j] = p /\ (op = "hrx_executable_load_file" => j # 1),
             op = "hrx_module_load_vmfb" => heap'[x].needs \subseteq {HalDevice},
             op = "hrx_executable_load_file" => ~Strict(heap', l[1])
      PROVE  Shape'
    <3> DEFINE o == Locals(c)
               m == Len(o) + 1
    <3>1. At(c, op, n)
      BY <2>Pushed DEF Step
    <3>2. o \in Seq(Cells) /\ Len(o) = LocalsAt(op, n)
      <4>1. Grounded /\ Shape
        BY <2>Pushed
      <4> QED BY ONLY <3>1, <4>1, <2>Inside, c \in Clients, op \in Constructors
    <3>3. Len(o) \in Nat /\ DOMAIN o = 1 .. Len(o)
      <4> HIDE DEF o
      <4> QED BY <3>2, SMT
    <3>4. DOMAIN l = DOMAIN o \cup {m} /\ (\A i \in DOMAIN o : l[i] = o[i]) /\ l[m] = x
      BY <2>Pushed DEF Extends
    <3>5. \A j \in DOMAIN o : j < m
      <4> HIDE DEF o
      <4> QED BY <3>3, SMT
    <3>6. op = "hrx_module_load_vmfb" /\ n = 3 => m = 3
      <4>1. LocalsAt("hrx_module_load_vmfb", 3) = 2
        BY SMT DEF LocalsAt
      <4> HIDE DEF o
      <4> QED BY <3>2, <4>1, SMT
    <3> HIDE DEF m
    <3>7. ASSUME NEW i \in DOMAIN o PROVE LocalShape(heap', Record(op, n, l), i)
      BY <2>Pushed, <2>OldLocal, <3>1, <3>4, <3>7
    <3>8. LocalShape(heap', Record(op, n, l), m)
      <4>1. \A p \in heap'[l[m]].needs :
               \/ p = HalDevice
               \/ \E j \in DOMAIN l : j < m /\ l[j] = p /\ (op = "hrx_executable_load_file" => j # 1)
        BY <2>Pushed, <3>4, <3>5
      <4>2. /\ \/ Rank(heap'[l[m]].kind) < 2
               \/ (op = "hrx_module_load_vmfb" /\ m = 3 /\ Rank(heap'[l[m]].kind) < 3)
            /\ op = "hrx_module_load_vmfb" => heap'[l[m]].needs \subseteq {HalDevice}
        BY <2>Pushed, <3>4, <3>6
      <4> QED BY <2>Pushed, <4>1, <4>2, <2>OneLocal
    <3>9. \A i \in DOMAIN l : LocalShape(heap', Record(op, n, l), i)
      BY <3>4, <3>7, <3>8
    <3> QED BY <2>Pushed, <2>Stepped, <3>9
  \* A step that adds a new object that owns nothing.
  <2>LeafPushed.
      ASSUME Grounded, Shape, NEW c \in Clients, NEW op \in Constructors, NEW n, NEW kind \in Kinds,
             NEW d \in SUBSET Cells, kind \in Dependent \/ d = {}, Rank(kind) < 2, NEW l,
             Step(c, op, n, heap, <<Cell(kind, <<>>, d)>>, l), Extends(l, Locals(c), New),
             \A p \in d : \/ p = HalDevice
                          \/ \E j \in DOMAIN Locals(c) :
                                Locals(c)[j] = p /\ (op = "hrx_executable_load_file" => j # 1),
             op = "hrx_module_load_vmfb" => d \subseteq {HalDevice},
             op = "hrx_executable_load_file" =>
                (l[1] = New /\ kind \notin Dependent) \/ (1 \in DOMAIN Locals(c) /\ l[1] = Locals(c)[1])
      PROVE  Shape'
    <3> DEFINE x == Cell(kind, <<>>, d)
    <3>1. x \in CellType /\ x.kind = kind /\ x.own = <<>> /\ x.needs = d /\ x.lost = 0
      <4>1. x.kind = kind /\ x.own = <<>> /\ x.needs = d /\ x.lost = 0
        BY DEF Cell
      <4>2. <<>> \in Seq(Cells)
        BY CellsFixed
      <4>3. x \in CellType
        BY <2>LeafPushed, <4>2, SMT DEF Cell, CellType
      <4> QED BY <4>1, <4>3
    <3>2. Step(c, op, n, heap, <<x>>, l) /\ Base(heap)
      BY <2>LeafPushed, <1>Bases
    <3> HIDE DEF x
    <3>3. Grows(heap, heap') /\ DOMAIN heap' = DOMAIN heap \cup {New} /\ heap'[New] = x
      <4>1. Grounded
        BY <2>LeafPushed
      <4> QED BY ONLY <3>1, <3>2, <4>1, <2>StepOne, c \in Clients, Zenon
    <3>4. CellShape(heap', New)
      BY <2>LeafPushed, <3>1, <3>3, LeafShape
    <3>5. \A q \in DOMAIN heap' : q \notin DOMAIN heap => CellShape(heap', q)
      BY <3>3, <3>4
    <3>6. heap'[New].kind = kind /\ heap'[New].needs = d
      BY <3>1, <3>3
    <3>7. op = "hrx_executable_load_file" => ~Strict(heap', l[1])
      <4>1. CASE l[1] = New /\ kind \notin Dependent
        BY <3>6, <4>1 DEF Strict
      <4>2. CASE op = "hrx_executable_load_file" /\ 1 \in DOMAIN Locals(c) /\ l[1] = Locals(c)[1]
        <5>1. At(c, op, n)
          BY <3>2 DEF Step
        <5>2. Locals(c)[1] \in DOMAIN heap /\ LocalShape(heap, call[c], 1) /\ call[c].op = op
          BY <2>LeafPushed, <2>Inside, <4>2, <5>1
        <5>3. ~Strict(heap, Locals(c)[1])
          BY <4>2, <5>2 DEF LocalShape, Locals
        <5> QED BY <2>Kept, <3>2, <3>3, <4>2, <5>2, <5>3
      <4> QED BY <2>LeafPushed, <4>1, <4>2
    <3> QED BY <2>LeafPushed, <2>Pushed, <3>2, <3>3, <3>5, <3>6, <3>7
  \* A step of hrx_module_load_vmfb that adds a new object that owns others.
  <2>OwnerPushed.
      ASSUME Grounded, Shape, NEW c \in Clients, NEW op, op = "hrx_module_load_vmfb", NEW n, NEW f,
             NEW kind \in Kinds, kind \in Dependent, NEW s \in Seq(Cells), NEW l,
             Step(c, op, n, Retained(f), <<Cell(kind, s, {HalDevice})>>, l),
             Extends(l, Locals(c), New),
             Rank(kind) < 2 \/ (n = 3 /\ Rank(kind) < 3),
             \A i \in DOMAIN s : /\ s[i] \in DOMAIN heap /\ Rank(heap[s[i]].kind) < Rank(kind)
                                 /\ heap[s[i]].needs \subseteq {HalDevice}
      PROVE  Shape'
    <3> DEFINE x == Cell(kind, s, {HalDevice})
               h == Retained(f)
    <3>1. x \in CellType /\ x.kind = kind /\ x.own = s /\ x.needs = {HalDevice} /\ x.lost = 0 /\ ~x.lent
      <4>1. {HalDevice} \in SUBSET Cells
        BY CellsFixed
      <4> QED BY ONLY <4>1, <2>Fresh, kind \in Kinds, s \in Seq(Cells)
    <3>2. Step(c, op, n, h, <<x>>, l) /\ Base(h) /\ Grounded
      BY <2>OwnerPushed, <1>Bases
    <3> HIDE DEF x, h
    <3>3. Grows(h, heap') /\ DOMAIN heap' = DOMAIN heap \cup {New} /\ heap'[New] = x
      BY ONLY <3>1, <3>2, <2>StepOne, c \in Clients, Zenon
    <3>4. CellShape(heap', New)
      <4>1. ASSUME NEW i \in DOMAIN s
            PROVE  Rank(heap'[s[i]].kind) < Rank(kind) /\ heap'[s[i]].needs \subseteq {HalDevice}
        <5>1. s[i] \in DOMAIN heap
          BY <2>OwnerPushed
        <5>2. heap'[s[i]].kind = heap[s[i]].kind /\ heap'[s[i]].needs = heap[s[i]].needs
          BY ONLY <2>Kept, <3>2, <3>3, <5>1
        <5> QED BY <2>OwnerPushed, <5>2
      <4> QED BY <2>OwnerPushed, <3>1, <3>3, <4>1, <1>StrictShape
    <3>5. \A q \in DOMAIN heap' : q \notin DOMAIN heap => CellShape(heap', q)
      BY <3>3, <3>4
    <3>6. heap'[New].kind = kind /\ heap'[New].needs = {HalDevice} /\ op # "hrx_executable_load_file"
          /\ op \in Constructors
      <4>1. op # "hrx_executable_load_file" /\ op \in Constructors
        BY <2>OwnerPushed, SMT DEF Constructors
      <4> QED BY <3>1, <3>3, <4>1
    <3> QED BY <2>OwnerPushed, <2>Pushed, <3>2, <3>3, <3>5, <3>6
  \* The lists of locals.
  <2>Lists.
      ASSUME NEW o \in Seq(Cells), NEW x
      PROVE  /\ Extends(Append(o, x), o, x)
             /\ Len(o) = 0 => Extends(<<x>>, o, x) /\ <<x>>[1] = x
             /\ Len(o) = 1 => Extends(<<o[1], x>>, o, x) /\ 1 \in DOMAIN o
             /\ Len(o) = 2 => 1 \in DOMAIN o /\ 2 \in DOMAIN o
             /\ Len(o) = 3 => 1 \in DOMAIN o /\ 2 \in DOMAIN o /\ 3 \in DOMAIN o
             /\ 1 \in DOMAIN o => Append(o, x)[1] = o[1]
    <3>1. DOMAIN o = 1 .. Len(o) /\ Len(o) \in Nat
      BY SMT
    <3>2. Extends(Append(o, x), o, x)
      BY SMT DEF Extends
    <3>3. Len(o) = 0 => Extends(<<x>>, o, x) /\ <<x>>[1] = x
      BY <3>1, SMT DEF Extends
    <3>4. Len(o) = 1 => Extends(<<o[1], x>>, o, x) /\ 1 \in DOMAIN o
      BY <3>1, SMT DEF Extends
    <3>5. /\ Len(o) = 2 => 1 \in DOMAIN o /\ 2 \in DOMAIN o
          /\ Len(o) = 3 => 1 \in DOMAIN o /\ 2 \in DOMAIN o /\ 3 \in DOMAIN o
      BY <3>1, SMT
    <3>6. 1 \in DOMAIN o => Append(o, x)[1] = o[1]
      BY <3>2 DEF Extends
    <3> QED BY <3>2, <3>3, <3>4, <3>5, <3>6
  \* What a local is.
  <2>Local.
      ASSUME Grounded, Shape, NEW c \in Clients, NEW op \in Constructors, NEW n, At(c, op, n),
             NEW i \in DOMAIN Locals(c)
      PROVE  /\ Locals(c)[i] \in DOMAIN heap /\ Locals(c)[i] \in Cells
             /\ op # "hrx_module_load_vmfb" \/ i # 3 => Rank(heap[Locals(c)[i]].kind) < 2
             /\ op = "hrx_module_load_vmfb" /\ i = 3 => Rank(heap[Locals(c)[i]].kind) < 3
             /\ \A p \in heap[Locals(c)[i]].needs :
                   \/ p = HalDevice
                   \/ \E j \in DOMAIN Locals(c) :
                         j < i /\ Locals(c)[j] = p /\ (op = "hrx_executable_load_file" => j # 1)
             /\ op = "hrx_module_load_vmfb" => heap[Locals(c)[i]].needs \subseteq {HalDevice}
             /\ op = "hrx_executable_load_file" => ~Strict(heap, Locals(c)[1])
    <3>1. /\ call[c].op = op /\ Locals(c)[i] \in DOMAIN heap /\ LocalShape(heap, call[c], i)
      BY <2>Inside, <2>Local
    <3>2. DOMAIN heap \subseteq Cells
      BY <2>Local, GroundedFacts, HeapTypes
    <3> QED BY <3>1, <3>2 DEF LocalShape, Locals
  \* How many locals there are at each step.
  <2>Counts.
      /\ \A op \in Constructors : LocalsAt(op, 1) = 0
      /\ LocalsAt("hrx_buffer_allocate", 3) = 1 /\ LocalsAt("hrx_buffer_allocate", 4) = 2
      /\ \A op \in {"hrx_module_load_vmfb", "hrx_executable_load_data", "hrx_executable_load_file"} :
            op \in Constructors /\ LocalsAt(op, 2) = 1 /\ LocalsAt(op, 3) = 2 /\ LocalsAt(op, 4) = 3
      /\ "hrx_buffer_allocate" \in Constructors
    BY SMT DEF LocalsAt, Constructors
  \* The device.
  <2>Root.
      ASSUME Grounded, Shape
      PROVE  /\ Device \in DOMAIN heap /\ Rank(heap[Device].kind) = 1 /\ heap[Device].needs = {}
    <3>1. Device \in DOMAIN heap /\ heap[Device].kind = "device"
      BY <2>Root, GroundedFacts, HeapTypes DEF HeapOK, HeapSound
    <3>2. "device" \notin Dependent
      BY SMT DEF Dependent
    <3>3. CellShape(heap, Device)
      BY <2>Root, <3>1 DEF Shape, HeapShape
    <3> QED BY <3>1, <3>2, <3>3, Ranks DEF CellShape
  \* The end of a constructor whose handle takes over the locals a and b.
  <2>Ended.
      ASSUME Grounded, Shape, NEW c \in Clients, NEW op \in Constructors, NEW n,
             NEW kind \in {"buffer", "executable"}, NEW a \in Cells, NEW b \in Cells,
             NEW s, s = <<b, a, Device>>, NEW t \in Seq(Cells),
             Finish(c, op, n, <<Device>>, kind, s, t),
             a \in DOMAIN heap, b \in DOMAIN heap,
             Rank(heap[a].kind) < 2, Rank(heap[b].kind) < 2,
             heap[a].needs \subseteq {HalDevice}, heap[b].needs \subseteq {HalDevice, a},
             \A i \in DOMAIN t : t[i] \in DOMAIN heap /\ ~Strict(heap, t[i])
      PROVE  Shape'
    <3>1. /\ s \in Seq(Cells) /\ DOMAIN s = {1, 2, 3} /\ s[1] = b /\ s[2] = a /\ s[3] = Device
          /\ Len(s) = 3 /\ s # <<>> /\ 2 > 1
      <4>1. Device \in Cells
        BY CellsFixed
      <4> QED BY ONLY s = <<b, a, Device>>, a \in Cells, b \in Cells, <4>1, SMT
    <3>2. Rank(kind) = 2 /\ kind \in {"buffer", "module", "executable"}
      <4>1. Rank("buffer") = 2 /\ Rank("executable") = 2
        BY Ranks
      <4> QED BY <4>1
    <3>3. Device \in DOMAIN heap /\ Rank(heap[Device].kind) < 2 /\ heap[Device].needs = {}
      <4>1. 1 < 2
        BY SMT
      <4> QED BY <2>Ended, <2>Root, <4>1
    <3>4. ASSUME NEW i \in DOMAIN s
          PROVE  /\ s[i] \in DOMAIN heap /\ Rank(heap[s[i]].kind) < Rank(kind)
                 /\ \A p \in heap[s[i]].needs :
                       p = HalDevice \/ (\E j \in DOMAIN s : j > i /\ s[j] = p)
      <4>1. CASE i = 1
        BY <2>Ended, <3>1, <3>2, <4>1
      <4>2. CASE i = 2
        BY <2>Ended, <3>1, <3>2, <4>2
      <4>3. CASE i = 3
        BY <3>1, <3>2, <3>3, <4>3
      <4> QED BY <3>1, <3>4, <4>1, <4>2, <4>3
    <3>5. s[Len(s)] = Device
      BY <3>1
    <3>6. /\ Grounded /\ Shape /\ Finish(c, op, n, <<Device>>, kind, s, t)
          /\ \A i \in DOMAIN t : t[i] \in DOMAIN heap /\ ~Strict(heap, t[i])
      BY <2>Ended
    <3>7. s \in Seq(Cells) /\ s # <<>> /\ kind \in {"buffer", "module", "executable"}
      BY <3>1, <3>2
    <3> QED BY ONLY <2>Finished, <3>4, <3>5, <3>6, <3>7, c \in Clients, op \in Constructors, t \in Seq(Cells), Zenon
  <2>1. ASSUME Grounded, Shape, NEW c \in Clients, hrx_executable_load_data(c) PROVE Shape'
    <3> DEFINE op == "hrx_executable_load_data"
               l == Locals(c)
    <3>1. op \in Constructors /\ op # "hrx_module_load_vmfb" /\ op # "hrx_executable_load_file"
      BY <2>Counts
    <3>2. ASSUME NEW n, At(c, op, n) PROVE l \in Seq(Cells) /\ Len(l) = LocalsAt(op, n)
      BY <2>1, <2>Inside, <3>1, <3>2
    <3>3. HalDevice \in Cells
      BY CellsFixed
    <3>4. /\ "executable_cache" \in Kinds \cap Dependent /\ "hal_executable" \in Kinds \cap Dependent
          /\ Rank("executable_cache") < 2 /\ Rank("hal_executable") < 2
      BY Ranks, SMT DEF Kinds, Dependent
    <3>5. CASE Enter(c, op)
      BY <2>1, <2>Entered, <3>5
    <3>6. CASE Step(c, op, 1, heap, <<Cell("executable_cache", <<>>, {HalDevice})>>, <<New>>)
      <4>1. At(c, op, 1)
        BY <3>6 DEF Step
      <4>2. Extends(<<New>>, l, New)
        BY <2>Counts, <2>Lists, <3>1, <3>2, <4>1
      <4> DEFINE e == {HalDevice}
                 m == <<New>>
      <4>3. /\ e \in SUBSET Cells /\ (\A p \in e : p = HalDevice) /\ Extends(m, l, New)
            /\ Step(c, op, 1, heap, <<Cell("executable_cache", <<>>, e)>>, m)
        BY <3>3, <3>6, <4>2
      <4> HIDE DEF op, e, m
      <4>4. \A p \in e : p = HalDevice \/ (\E j \in DOMAIN l : l[j] = p)
        BY <4>3
      <4> QED BY <2>1, <2>LeafPushed, <3>1, <3>4, <4>3, <4>4
    <3>7. CASE /\ At(c, op, 2)
               /\ Step(c, op, 2, heap, <<Cell("hal_executable", <<>>, {HalDevice, l[1]})>>, Append(l, New))
      <4>1. Extends(Append(l, New), l, New) /\ 1 \in DOMAIN l
        BY <2>Counts, <2>Lists, <3>1, <3>2, <3>7
      <4>2. l[1] \in Cells
        BY <2>1, <2>Local, <3>1, <3>7, <4>1
      <4>3. {HalDevice, l[1]} \in SUBSET Cells
        BY <3>3, <4>2
      <4> DEFINE e == {HalDevice, l[1]}
                 m == Append(l, New)
      <4>4. \A p \in e : p = HalDevice \/ (\E j \in DOMAIN l : l[j] = p)
        BY <4>1
      <4>5. e \in SUBSET Cells /\ Extends(m, l, New)
            /\ Step(c, op, 2, heap, <<Cell("hal_executable", <<>>, e)>>, m)
        BY <3>7, <4>1, <4>3
      <4> HIDE DEF op, e, m
      <4> QED BY <2>1, <2>LeafPushed, <3>1, <3>4, <4>4, <4>5, ZenonT(30)
    <3>8. CASE \E n \in 1 .. 2 : Unwind(c, op, n)
      <4> HIDE DEF op
      <4> QED BY <2>1, <2>Unwound, <3>1, <3>8
    <3>9. CASE At(c, op, 3) /\ Finish(c, op, 3, <<Device>>, "executable", HrxExecutableS(l[1], l[2]), <<>>)
      <4> DEFINE a == l[1]
                 b == l[2]
                 s == HrxExecutableS(l[1], l[2])
      <4>1. 1 \in DOMAIN l /\ 2 \in DOMAIN l
        BY <2>Counts, <2>Lists, <3>1, <3>2, <3>9
      <4>2. /\ a \in DOMAIN heap /\ a \in Cells /\ Rank(heap[a].kind) < 2
            /\ \A p \in heap[a].needs : p = HalDevice \/ (\E j \in DOMAIN l : j < 1 /\ l[j] = p)
        <5>1. Grounded /\ Shape /\ At(c, op, 3) /\ op \in Constructors /\ op # "hrx_module_load_vmfb"
          BY <2>1, <3>1, <3>9
        <5> HIDE DEF op
        <5> QED BY ONLY <2>Local, <4>1, <5>1, c \in Clients
      <4>3. /\ b \in DOMAIN heap /\ b \in Cells /\ Rank(heap[b].kind) < 2
            /\ \A p \in heap[b].needs : p = HalDevice \/ (\E j \in DOMAIN l : j < 2 /\ l[j] = p)
        <5>1. Grounded /\ Shape /\ At(c, op, 3) /\ op \in Constructors /\ op # "hrx_module_load_vmfb"
          BY <2>1, <3>1, <3>9
        <5> HIDE DEF op
        <5> QED BY ONLY <2>Local, <4>1, <5>1, c \in Clients
      <4>4. \A j \in DOMAIN l : ~(j < 1) /\ (j < 2 => j = 1)
        <5>1. l \in Seq(Cells)
          BY <3>2, <3>9
        <5> HIDE DEF l
        <5> QED BY <5>1, SMT
      <4>5. heap[a].needs \subseteq {HalDevice} /\ heap[b].needs \subseteq {HalDevice, a}
        BY <4>2, <4>3, <4>4
      <4>6. s = <<b, a, Device>> /\ Finish(c, op, 3, <<Device>>, "executable", s, <<>>)
        BY <3>9 DEF HrxExecutableS
      <4>7. <<>> \in Seq(Cells) /\ DOMAIN <<>> = {}
        BY SMT
      <4> HIDE DEF op, a, b, s
      <4> QED BY <2>1, <2>Ended, <3>1, <4>2, <4>3, <4>5, <4>6, <4>7
    <3> QED BY <2>1, <3>5, <3>6, <3>7, <3>8, <3>9 DEF hrx_executable_load_data
  <2>2. ASSUME Grounded, Shape, NEW c \in Clients, hrx_executable_load_file(c) PROVE Shape'
    <3> DEFINE op == "hrx_executable_load_file"
               l == Locals(c)
    <3>1. op \in Constructors /\ op # "hrx_module_load_vmfb"
      BY <2>Counts
    <3>2. ASSUME NEW n, At(c, op, n) PROVE l \in Seq(Cells) /\ Len(l) = LocalsAt(op, n)
      BY <2>2, <2>Inside, <3>1, <3>2
    <3>3. HalDevice \in Cells
      BY CellsFixed
    <3>4. /\ "executable_cache" \in Kinds \cap Dependent /\ "hal_executable" \in Kinds \cap Dependent
          /\ Rank("executable_cache") < 2 /\ Rank("hal_executable") < 2
          /\ "file_data" \in Kinds \ Dependent /\ Rank("file_data") < 2
      BY Ranks, SMT DEF Kinds, Dependent
    <3>5. CASE Enter(c, op)
      BY <2>2, <2>Entered, <3>5
    <3>6. CASE Step(c, op, 1, heap, <<Cell("file_data", <<>>, {})>>, <<New>>)
      <4>1. At(c, op, 1)
        BY <3>6 DEF Step
      <4> DEFINE e == {}
                 m == <<New>>
      <4>2. /\ e = {} /\ e \in SUBSET Cells /\ Extends(m, l, New) /\ m[1] = New
            /\ Step(c, op, 1, heap, <<Cell("file_data", <<>>, e)>>, m)
        BY <2>Counts, <2>Lists, <3>1, <3>2, <3>6, <4>1
      <4> HIDE DEF op, e, m
      <4>3. \A p \in e :
               \/ p = HalDevice
               \/ \E j \in DOMAIN l : l[j] = p /\ (op = "hrx_executable_load_file" => j # 1)
        BY <4>2
      <4>4. Grounded /\ Shape
        BY <2>2
      <4> DEFINE k == "file_data"
      <4>5. /\ k \in Kinds /\ Rank(k) < 2 /\ (k \in Dependent \/ e = {}) /\ e \in SUBSET Cells
            /\ op \in Constructors /\ Extends(m, l, New)
            /\ Step(c, op, 1, heap, <<Cell(k, <<>>, e)>>, m)
            /\ op = "hrx_module_load_vmfb" => e \subseteq {HalDevice}
            /\ op = "hrx_executable_load_file" => m[1] = New /\ k \notin Dependent
        BY <3>1, <3>4, <4>2
      <4> HIDE DEF k
      <4> QED BY ONLY <2>LeafPushed, <4>3, <4>4, <4>5, c \in Clients, Zenon
    <3>7. CASE Step(c, op, 2, heap, <<Cell("executable_cache", <<>>, {HalDevice})>>, Append(l, New))
      <4>1. At(c, op, 2)
        BY <3>7 DEF Step
      <4> DEFINE e == {HalDevice}
                 m == Append(l, New)
      <4>2. /\ e \in SUBSET Cells /\ Extends(m, l, New) /\ 1 \in DOMAIN l /\ m[1] = l[1]
            /\ Step(c, op, 2, heap, <<Cell("executable_cache", <<>>, e)>>, m)
        BY <2>Counts, <2>Lists, <3>1, <3>2, <3>3, <3>7, <4>1
      <4>3. \A p \in e :
               \/ p = HalDevice
               \/ \E j \in DOMAIN l : l[j] = p /\ (op = "hrx_executable_load_file" => j # 1)
        OBVIOUS
      <4>4. Grounded /\ Shape
        BY <2>2
      <4> HIDE DEF op, e, m
      <4> QED BY ONLY <2>LeafPushed, <3>1, <3>4, <4>2, <4>3, <4>4, c \in Clients
    <3>8. CASE /\ At(c, op, 3)
               /\ Step(c, op, 3, heap, <<Cell("hal_executable", <<>>, {HalDevice, l[2]})>>, Append(l, New))
      <4> DEFINE e == {HalDevice, l[2]}
                 m == Append(l, New)
      <4>1. Extends(m, l, New) /\ 1 \in DOMAIN l /\ 2 \in DOMAIN l /\ m[1] = l[1]
        BY <2>Counts, <2>Lists, <3>1, <3>2, <3>8
      <4>2. l[2] \in Cells
        BY <2>2, <2>Local, <3>1, <3>8, <4>1
      <4>3. e \in SUBSET Cells /\ Step(c, op, 3, heap, <<Cell("hal_executable", <<>>, e)>>, m)
        BY <3>3, <3>8, <4>2
      <4>4. \A p \in e :
               \/ p = HalDevice
               \/ \E j \in DOMAIN l : l[j] = p /\ (op = "hrx_executable_load_file" => j # 1)
        <5>1. 2 # 1
          BY SMT
        <5> QED BY <4>1, <5>1
      <4>5. Grounded /\ Shape
        BY <2>2
      <4> HIDE DEF op, e, m
      <4> QED BY ONLY <2>LeafPushed, <3>1, <3>4, <4>1, <4>3, <4>4, <4>5, c \in Clients
    <3>9. CASE \E n \in 1 .. 3 : Unwind(c, op, n)
      <4> HIDE DEF op
      <4> QED BY <2>2, <2>Unwound, <3>1, <3>9
    <3>10. CASE /\ At(c, op, 4)
                /\ Finish(c, op, 4, <<Device>>, "executable", HrxExecutableS(l[2], l[3]), <<l[1]>>)
      <4> DEFINE a == l[2]
                 b == l[3]
                 s == HrxExecutableS(l[2], l[3])
                 t == <<l[1]>>
      <4>1. 1 \in DOMAIN l /\ 2 \in DOMAIN l /\ 3 \in DOMAIN l
        BY <2>Counts, <2>Lists, <3>1, <3>2, <3>10
      <4>2. Grounded /\ Shape /\ At(c, op, 4) /\ op \in Constructors /\ op # "hrx_module_load_vmfb"
            /\ op = "hrx_executable_load_file"
        BY <2>2, <3>1, <3>10
      <4>3. /\ a \in DOMAIN heap /\ a \in Cells /\ Rank(heap[a].kind) < 2
            /\ \A p \in heap[a].needs : p = HalDevice \/ (\E j \in DOMAIN l : j < 2 /\ l[j] = p /\ j # 1)
        <5> HIDE DEF op
        <5> QED BY ONLY <2>Local, <4>1, <4>2, c \in Clients
      <4>4. /\ b \in DOMAIN heap /\ b \in Cells /\ Rank(heap[b].kind) < 2
            /\ \A p \in heap[b].needs : p = HalDevice \/ (\E j \in DOMAIN l : j < 3 /\ l[j] = p /\ j # 1)
        <5> HIDE DEF op
        <5>1. 3 # 2
          BY SMT
        <5> QED BY ONLY <2>Local, <4>1, <4>2, c \in Clients
      <4>5. l[1] \in DOMAIN heap /\ l[1] \in Cells /\ ~Strict(heap, l[1])
        <5> HIDE DEF op
        <5> QED BY ONLY <2>Local, <4>1, <4>2, c \in Clients
      <4>6. \A j \in DOMAIN l : (j < 2 => j = 1) /\ (j < 3 => j = 1 \/ j = 2)
        <5>1. l \in Seq(Cells)
          BY <3>2, <3>10
        <5> HIDE DEF l
        <5> QED BY <5>1, SMT
      <4>7. heap[a].needs \subseteq {HalDevice} /\ heap[b].needs \subseteq {HalDevice, a}
        BY <4>3, <4>4, <4>6
      <4>8. s = <<b, a, Device>> /\ Finish(c, op, 4, <<Device>>, "executable", s, t)
        BY <3>10 DEF HrxExecutableS
      <4>9. t \in Seq(Cells) /\ DOMAIN t = {1} /\ t[1] = l[1]
        <5> DEFINE f == l[1]
        <5>1. f \in Cells
          BY <4>5
        <5> HIDE DEF f
        <5>2. <<f>> \in Seq(Cells) /\ DOMAIN <<f>> = {1} /\ <<f>>[1] = f
          BY <5>1, SMT
        <5> QED BY <5>2 DEF f
      <4>10. \A i \in DOMAIN t : t[i] \in DOMAIN heap /\ ~Strict(heap, t[i])
        BY <4>5, <4>9
      <4> HIDE DEF op, a, b, s, t
      <4> QED BY <2>Ended, <4>2, <4>3, <4>4, <4>7, <4>8, <4>9, <4>10
    <3> QED BY <2>2, <3>5, <3>6, <3>7, <3>8, <3>9, <3>10 DEF hrx_executable_load_file
  <2>3. ASSUME Grounded, Shape, NEW c \in Clients, hrx_module_load_vmfb(c) PROVE Shape'
    <3> DEFINE op == "hrx_module_load_vmfb"
               l == Locals(c)
    <3>1. op \in Constructors /\ op # "hrx_executable_load_file" /\ op = "hrx_module_load_vmfb"
      BY <2>Counts
    <3>2. ASSUME NEW n, At(c, op, n) PROVE l \in Seq(Cells) /\ Len(l) = LocalsAt(op, n)
      BY <2>3, <2>Inside, <3>1, <3>2
    <3>3. Grounded /\ Shape
      BY <2>3
    <3>4. /\ "bytecode_module" \in Kinds /\ Rank("bytecode_module") < 2
          /\ "hal_module" \in Kinds \cap Dependent /\ Rank("hal_module") < 2
          /\ "vm_context" \in Kinds \cap Dependent /\ Rank("vm_context") < 3
          /\ Rank("hal_device_group") < Rank("hal_module") /\ Rank("vm_context") = 2
          /\ Rank("module") = 3 /\ "module" \in {"buffer", "module", "executable"}
      BY Ranks, SMT DEF Kinds, Dependent
    <3>5. CASE Enter(c, op)
      BY <2>3, <2>Entered, <3>5
    <3>6. CASE Step(c, op, 1, heap, <<Cell("bytecode_module", <<>>, {})>>, <<New>>)
      <4>1. At(c, op, 1)
        BY <3>6 DEF Step
      <4> DEFINE e == {}
                 m == <<New>>
                 k == "bytecode_module"
      <4>2. /\ Extends(m, l, New) /\ Step(c, op, 1, heap, <<Cell(k, <<>>, e)>>, m)
        BY <2>Counts, <2>Lists, <3>1, <3>2, <3>6, <4>1
      <4>3. \A p \in e :
               \/ p = HalDevice
               \/ \E j \in DOMAIN l : l[j] = p /\ (op = "hrx_executable_load_file" => j # 1)
        OBVIOUS
      <4>4. /\ k \in Kinds /\ Rank(k) < 2 /\ (k \in Dependent \/ e = {}) /\ e \in SUBSET Cells
            /\ e \subseteq {HalDevice}
        BY <3>4
      <4> HIDE DEF op, e, m, k
      <4> QED BY ONLY <2>LeafPushed, <3>1, <3>3, <4>2, <4>3, <4>4, c \in Clients
    <3>7. CASE Step(c, op, 2, Retained(<<HalDeviceGroup>>),
                    <<Cell("hal_module", <<HalDeviceGroup>>, {HalDevice})>>, Append(l, New))
      <4>1. At(c, op, 2)
        BY <3>7 DEF Step
      <4> DEFINE s == <<HalDeviceGroup>>
                 m == Append(l, New)
                 k == "hal_module"
      <4>2. s \in Seq(Cells) /\ DOMAIN s = {1} /\ s[1] = HalDeviceGroup
        <5>1. HalDeviceGroup \in Cells
          BY CellsFixed
        <5> QED BY <5>1, SMT
      <4>3. /\ HalDeviceGroup \in DOMAIN heap /\ heap[HalDeviceGroup].kind = "hal_device_group"
            /\ heap[HalDeviceGroup].needs = {HalDevice}
        BY <3>3, GroundedFacts, HeapTypes DEF HeapOK, HeapSound, Shape, HeapShape
      <4>4. Extends(m, l, New) /\ Step(c, op, 2, Retained(s), <<Cell(k, s, {HalDevice})>>, m)
        BY <2>Lists, <3>2, <3>7, <4>1
      <4>5. k \in Kinds /\ k \in Dependent /\ Rank(k) < 2
        BY <3>4
      <4>6. \A i \in DOMAIN s : /\ s[i] \in DOMAIN heap /\ Rank(heap[s[i]].kind) < Rank(k)
                                /\ heap[s[i]].needs \subseteq {HalDevice}
        BY <3>4, <4>2, <4>3
      <4>7. s \in Seq(Cells)
        BY <4>2
      <4> HIDE DEF op, s, m, k
      <4> QED BY ONLY <2>OwnerPushed, <3>1, <3>3, <4>4, <4>5, <4>6, <4>7, c \in Clients, Zenon
    <3>8. CASE /\ At(c, op, 3)
               /\ Step(c, op, 3, Retained(<<l[2], l[1]>>),
                       <<Cell("vm_context", <<l[2], l[1]>>, {HalDevice})>>, Append(l, New))
      <4> DEFINE a == l[1]
                 b == l[2]
                 s == <<b, a>>
                 m == Append(l, New)
                 k == "vm_context"
      <4>1. 1 \in DOMAIN l /\ 2 \in DOMAIN l
        BY <2>Counts, <2>Lists, <3>1, <3>2, <3>8
      <4>2. /\ a \in DOMAIN heap /\ a \in Cells /\ Rank(heap[a].kind) < 2
            /\ heap[a].needs \subseteq {HalDevice}
        <5>1. At(c, op, 3) /\ 1 # 3
          <6>1. 1 # 3
            BY SMT
          <6> QED BY <3>8, <6>1
        <5> HIDE DEF op
        <5> QED BY ONLY <2>Local, <3>1, <3>3, <4>1, <5>1, c \in Clients
      <4>3. /\ b \in DOMAIN heap /\ b \in Cells /\ Rank(heap[b].kind) < 2
            /\ heap[b].needs \subseteq {HalDevice}
        <5>1. At(c, op, 3) /\ 2 # 3
          <6>1. 2 # 3
            BY SMT
          <6> QED BY <3>8, <6>1
        <5> HIDE DEF op
        <5> QED BY ONLY <2>Local, <3>1, <3>3, <4>1, <5>1, c \in Clients
      <4>4. Extends(m, l, New) /\ Step(c, op, 3, Retained(s), <<Cell(k, s, {HalDevice})>>, m)
        BY <2>Lists, <3>2, <3>8
      <4>5. k \in Kinds /\ k \in Dependent /\ Rank(k) < 3 /\ Rank(k) = 2
        BY <3>4
      <4> HIDE DEF op, a, b, m, k
      <4>6. s \in Seq(Cells) /\ DOMAIN s = {1, 2} /\ s[1] = b /\ s[2] = a
        BY <4>2, <4>3, SMT
      <4>7. \A i \in DOMAIN s : /\ s[i] \in DOMAIN heap /\ Rank(heap[s[i]].kind) < Rank(k)
                                /\ heap[s[i]].needs \subseteq {HalDevice}
        BY <4>2, <4>3, <4>5, <4>6
      <4>8. s \in Seq(Cells)
        BY <4>6
      <4> HIDE DEF s
      <4> QED BY ONLY <2>OwnerPushed, <3>1, <3>3, <4>4, <4>5, <4>7, <4>8, c \in Clients, Zenon
    <3>9. CASE \E n \in 1 .. 3 : Unwind(c, op, n)
      <4> HIDE DEF op
      <4> QED BY <2>3, <2>Unwound, <3>1, <3>9
    <3>10. CASE At(c, op, 4) /\ Finish(c, op, 4, <<Device>>, "module", HrxModuleS(l), <<>>)
      <4> DEFINE s == HrxModuleS(l)
                 good(x) == /\ x \in DOMAIN heap /\ x \in Cells /\ Rank(heap[x].kind) < 3
                            /\ heap[x].needs \subseteq {HalDevice}
      <4>1. 1 \in DOMAIN l /\ 2 \in DOMAIN l /\ 3 \in DOMAIN l
        BY <2>Counts, <2>Lists, <3>1, <3>2, <3>10
      <4>2. ASSUME NEW i \in DOMAIN l PROVE good(l[i])
        <5>1. At(c, op, 4)
          BY <3>10
        <5>2. /\ l[i] \in DOMAIN heap /\ l[i] \in Cells /\ heap[l[i]].needs \subseteq {HalDevice}
              /\ Rank(heap[l[i]].kind) < 2 \/ Rank(heap[l[i]].kind) < 3
          <6> HIDE DEF op
          <6> QED BY ONLY <2>Local, <3>1, <3>3, <4>2, <5>1, c \in Clients
        <5>3. \A r \in 0 .. 4 : r < 2 => r < 3
          BY SMT
        <5> QED BY <5>2, <5>3, Ranks
      <4>3. good(Device)
        <5>1. 1 < 3 /\ {} \subseteq {HalDevice}
          BY SMT
        <5> QED BY <2>Root, <3>3, <5>1, CellsFixed
      <4>4. good(l[1]) /\ good(l[2]) /\ good(l[3])
        BY <4>1, <4>2
      <4>5. /\ s \in Seq(Cells) /\ DOMAIN s = 1 .. 4 /\ s[1] = l[3] /\ s[2] = l[2] /\ s[3] = l[1]
            /\ s[4] = Device /\ Len(s) = 4 /\ s # <<>>
        <5> DEFINE x == l[1]
                   y == l[2]
                   z == l[3]
        <5>1. x \in Cells /\ y \in Cells /\ z \in Cells /\ Device \in Cells
          BY <4>3, <4>4
        <5>2. s = <<z, y, x, Device>>
          BY DEF HrxModuleS
        <5> HIDE DEF x, y, z, s
        <5>3. /\ s \in Seq(Cells) /\ DOMAIN s = 1 .. 4 /\ s[1] = z /\ s[2] = y /\ s[3] = x
              /\ s[4] = Device /\ Len(s) = 4 /\ s # <<>>
          BY <5>1, <5>2, SMT
        <5> QED BY <5>3 DEF x, y, z
      <4>6. Finish(c, op, 4, <<Device>>, "module", s, <<>>)
        BY <3>10
      <4>7. <<>> \in Seq(Cells) /\ DOMAIN <<>> = {}
        BY SMT
      <4> HIDE DEF op, s
      <4>8. ASSUME NEW i \in DOMAIN s PROVE good(s[i])
        <5>1. i = 1 \/ i = 2 \/ i = 3 \/ i = 4
          BY <4>5, <4>8, SMT
        <5> QED BY <4>3, <4>4, <4>5, <5>1
      <4>9. \A i \in DOMAIN s : /\ s[i] \in DOMAIN heap /\ Rank(heap[s[i]].kind) < Rank("module")
                                /\ \A p \in heap[s[i]].needs :
                                      p = HalDevice \/ (\E j \in DOMAIN s : j > i /\ s[j] = p)
        BY <3>4, <4>8
      <4>10. s \in Seq(Cells) /\ s # <<>> /\ s[Len(s)] = Device
        BY <4>5
      <4> DEFINE t == <<>>
      <4>11. t \in Seq(Cells) /\ \A i \in DOMAIN t : t[i] \in DOMAIN heap /\ ~Strict(heap, t[i])
        BY <4>7
      <4>12. Finish(c, op, 4, <<Device>>, "module", s, t)
        BY <4>6
      <4> HIDE DEF t
      <4> QED BY ONLY <2>Finished, <3>1, <3>3, <3>4, <4>9, <4>10, <4>11, <4>12, c \in Clients, ZenonT(30)
    <3> QED BY <2>3, <3>5, <3>6, <3>7, <3>8, <3>9, <3>10 DEF hrx_module_load_vmfb
  <2>4. ASSUME Grounded, Shape, NEW c \in Clients, hrx_buffer_allocate(c) PROVE Shape'
    <3> DEFINE op == "hrx_buffer_allocate"
               l == Locals(c)
    <3>1. /\ op \in Constructors /\ op # "hrx_executable_load_file" /\ op # "hrx_module_load_vmfb"
      BY <2>Counts
    <3>2. ASSUME NEW n, At(c, op, n) PROVE l \in Seq(Cells) /\ Len(l) = LocalsAt(op, n)
      BY <2>4, <2>Inside, <3>1, <3>2
    <3>3. Grounded /\ Shape
      BY <2>4
    <3>4. /\ "notification" \in Kinds /\ Rank("notification") = 0
          /\ "hal_pool" \in Kinds \cap Dependent /\ Rank("hal_pool") = 1
          /\ "reserved_block" \in Kinds \cap Dependent /\ Rank("reserved_block") = 0
          /\ "hal_buffer" \in Kinds \cap Dependent /\ Rank("hal_buffer") = 1
          /\ Rank("hal_allocator") = 0 /\ 0 < 1 /\ 1 < 2 /\ 0 < 2
      BY Ranks, SMT DEF Kinds, Dependent
    <3>5. /\ HalAllocator \in DOMAIN heap /\ heap[HalAllocator].kind = "hal_allocator"
          /\ heap[HalAllocator].needs = {HalDevice}
      BY <3>3, GroundedFacts, HeapTypes DEF HeapOK, HeapSound, Shape, HeapShape
    <3>6. HalDevice \in Cells /\ HalAllocator \in Cells
      BY CellsFixed
    <3>7. ASSUME NEW n, Unwind(c, op, n) PROVE Shape'
      <4> HIDE DEF op
      <4> QED BY <2>Unwound, <3>1, <3>3, <3>7
    <3>8. CASE Enter(c, op)
      BY <2>4, <2>Entered, <3>8
    <3>9. CASE Step(c, op, 1, Retained(<<HalAllocator>>), <<>>, <<HalAllocator>>)
      <4> DEFINE h == Retained(<<HalAllocator>>)
                 m == <<HalAllocator>>
      <4>1. At(c, op, 1)
        BY <3>9 DEF Step
      <4>2. Extends(m, l, HalAllocator)
        BY <2>Counts, <2>Lists, <3>1, <3>2, <4>1
      <4>3. Base(h) /\ Step(c, op, 1, h, <<>>, m)
        BY <3>3, <3>9, <1>Bases
      <4> HIDE DEF op, h, m
      <4>4. Grows(h, heap') /\ DOMAIN heap' = DOMAIN heap
        BY ONLY <2>StepNone, <3>3, <4>3, c \in Clients
      <4>5. heap'[HalAllocator].kind = "hal_allocator" /\ heap'[HalAllocator].needs = {HalDevice}
        BY <2>Kept, <3>5, <4>3, <4>4
      <4>6. Rank(heap'[HalAllocator].kind) < 2
        BY <3>4, <4>5
      <4>7. \A q \in DOMAIN heap' : q \notin DOMAIN heap => CellShape(heap', q)
        BY <4>4
      <4>8. \A p \in heap'[HalAllocator].needs :
               \/ p = HalDevice
               \/ \E j \in DOMAIN l : l[j] = p /\ (op = "hrx_executable_load_file" => j # 1)
        BY <4>5
      <4> QED BY ONLY <2>Pushed, <3>1, <3>3, <4>2, <4>3, <4>4, <4>6, <4>7, <4>8, c \in Clients
    <3>10. CASE Step(c, op, 2, heap, << Cell("notification", <<>>, {}),
                                       Cell("hal_pool", <<New, HalAllocator>>, {HalDevice}) >>, <<New + 1>>)
      <4> DEFINE s == <<New, HalAllocator>>
                 e == {}
                 x == Cell("notification", <<>>, e)
                 y == Cell("hal_pool", s, {HalDevice})
                 m == <<New + 1>>
      <4>1. New \in Cells
        <5>1. Len(heap) \in Nat /\ Len(heap) >= 4 /\ MaxCells \in Nat
          BY <3>3, GroundedFacts, HeapTypes, CellsFixed
        <5>2. Len(heap) + Len(<<x, y>>) <= MaxCells
          BY <3>10 DEF Step
        <5> HIDE DEF x, y
        <5> QED BY <5>1, <5>2, SMT DEF New, Cells
      <4>2. s \in Seq(Cells) /\ DOMAIN s = {1, 2} /\ s[1] = New /\ s[2] = HalAllocator
        BY <3>6, <4>1, SMT
      <4>3. e \in SUBSET Cells /\ {HalDevice} \in SUBSET Cells /\ <<>> \in Seq(Cells)
        BY <3>6, CellsFixed
      <4>4. Base(heap) /\ Step(c, op, 2, heap, <<x, y>>, m)
        BY <3>3, <3>10, <1>Bases
      <4>5. DOMAIN m = {1} /\ m[1] = New + 1 /\ DOMAIN <<>> = {}
        BY SMT
      <4> HIDE DEF op, s, m
      <4>6. x \in CellType /\ x.kind = "notification" /\ x.own = <<>> /\ x.needs = {} /\ x.lost = 0
        <5> DEFINE k == "notification"
                   r == <<>>
        <5>1. k \in Kinds /\ e \in SUBSET Cells /\ r \in Seq(Cells) /\ x = Cell(k, r, e)
          BY <3>4, <4>3
        <5> HIDE DEF k, e, x, r
        <5>2. x \in CellType /\ x.kind = k /\ x.own = r /\ x.needs = e /\ x.lost = 0
          BY ONLY <2>Fresh, <5>1
        <5> QED BY <5>2 DEF k, e, r
      <4>7. /\ y \in CellType /\ y.kind = "hal_pool" /\ y.own = s /\ y.needs = {HalDevice}
            /\ y.lost = 0 /\ ~y.lent
        <5> DEFINE k == "hal_pool"
        <5>1. /\ k \in Kinds /\ k = "hal_pool" /\ s \in Seq(Cells) /\ {HalDevice} \in SUBSET Cells
              /\ y = Cell(k, s, {HalDevice})
          BY <3>4, <4>2, <4>3
        <5> HIDE DEF k, y
        <5>2. /\ y \in CellType /\ y.kind = k /\ y.own = s /\ y.needs = {HalDevice}
              /\ y.lost = 0 /\ ~y.lent
          BY ONLY <2>Fresh, <5>1
        <5> QED BY <5>1, <5>2
      <4> HIDE DEF x, y
      <4>8. GrowsByTwo(heap, heap', x, y)
        BY ONLY <2>StepTwo, <3>3, <4>4, <4>6, <4>7, c \in Clients
      <4>9. /\ Grows(heap, heap') /\ DOMAIN heap' = DOMAIN heap \cup {New, New + 1}
            /\ heap'[New] = x /\ heap'[New + 1] = y
        BY <4>8 DEF GrowsByTwo
      <4>10. heap'[HalAllocator].kind = "hal_allocator" /\ heap'[HalAllocator].needs = {HalDevice}
        BY <2>Kept, <3>5, <4>4, <4>9
      <4>11. CellShape(heap', New)
        BY <4>6, <4>9, LeafShape
      <4>12. ASSUME NEW i \in DOMAIN s
             PROVE  Rank(heap'[s[i]].kind) < Rank("hal_pool") /\ heap'[s[i]].needs \subseteq {HalDevice}
        <5>1. CASE i = 1
          BY <3>4, <4>2, <4>6, <4>9, <5>1
        <5>2. CASE i = 2
          BY <3>4, <4>2, <4>10, <5>2
        <5> QED BY <4>2, <4>12, <5>1, <5>2
      <4>13. CellShape(heap', New + 1)
        <5> DEFINE q == New + 1
        <5>1. heap'[q] = y
          BY <4>9
        <5> HIDE DEF q
        <5>2. CellShape(heap', q)
          BY <3>4, <4>7, <4>12, <5>1, <1>StrictShape
        <5> QED BY <5>2 DEF q
      <4>14. \A q \in DOMAIN heap' : q \notin DOMAIN heap => CellShape(heap', q)
        BY <4>9, <4>11, <4>13
      <4>15. ASSUME NEW i \in DOMAIN m PROVE LocalShape(heap', Record(op, 2, m), i)
        <5>1. heap'[m[i]] = y
          BY <4>5, <4>9, <4>15
        <5>2. Rank(heap'[m[i]].kind) < 2 /\ heap'[m[i]].needs = {HalDevice}
          BY <3>4, <4>7, <5>1
        <5> QED BY <2>OneLocal, <3>1, <5>2
      <4> QED BY ONLY <2>Stepped, <3>1, <3>3, <4>4, <4>9, <4>14, <4>15, c \in Clients
    <3>11. CASE /\ At(c, op, 3)
                /\ Step(c, op, 3, heap, << Cell("hal_buffer", <<>>, {HalDevice, l[1]}) >>, <<l[1], New>>)
      <4> DEFINE e == {HalDevice, l[1]}
                 m == <<l[1], New>>
                 k == "hal_buffer"
      <4>1. Extends(m, l, New) /\ 1 \in DOMAIN l
        BY <2>Counts, <2>Lists, <3>2, <3>11
      <4>2. l[1] \in Cells
        BY <2>Local, <3>1, <3>3, <3>11, <4>1
      <4>3. /\ e \in SUBSET Cells /\ Step(c, op, 3, heap, <<Cell(k, <<>>, e)>>, m)
            /\ k \in Kinds /\ k \in Dependent /\ Rank(k) < 2
        BY <3>4, <3>6, <3>11, <4>2
      <4>4. \A p \in e :
               \/ p = HalDevice
               \/ \E j \in DOMAIN l : l[j] = p /\ (op = "hrx_executable_load_file" => j # 1)
        BY <3>1, <4>1
      <4> HIDE DEF op, e, m, k
      <4> QED BY ONLY <2>LeafPushed, <3>1, <3>3, <4>1, <4>3, <4>4, c \in Clients
    <3>12. CASE /\ At(c, op, 3)
                /\ Step(c, op, 3, heap,
                        << [Cell("reserved_block", <<>>, {HalDevice, l[1]}) EXCEPT !.count = 2],
                           Cell("hal_buffer", <<New, New>>, {HalDevice, l[1]}) >>, <<l[1], New + 1>>)
      <4> DEFINE e == {HalDevice, l[1]}
                 s == <<New, New>>
                 x == [Cell("reserved_block", <<>>, e) EXCEPT !.count = 2]
                 y == Cell("hal_buffer", s, e)
                 m == <<l[1], New + 1>>
      <4>1. Extends(m, l, New + 1) /\ 1 \in DOMAIN l
        BY <2>Counts, <2>Lists, <3>2, <3>12
      <4>2. e \in SUBSET Cells
        <5>1. l[1] \in Cells
          BY <2>Local, <3>1, <3>3, <3>12, <4>1
        <5> QED BY <3>6, <5>1
      <4>3. New \in Cells
        <5>1. Len(heap) \in Nat /\ Len(heap) >= 4 /\ MaxCells \in Nat
          BY <3>3, GroundedFacts, HeapTypes, CellsFixed
        <5>2. Len(heap) + Len(<<x, y>>) <= MaxCells
          BY <3>12 DEF Step
        <5> HIDE DEF x, y
        <5> QED BY <5>1, <5>2, SMT DEF New, Cells
      <4>4. s \in Seq(Cells) /\ DOMAIN s = {1, 2} /\ s[1] = New /\ s[2] = New
        BY <4>3, SMT
      <4>5. Base(heap) /\ Step(c, op, 3, heap, <<x, y>>, m)
        BY <3>3, <3>12, <1>Bases
      <4>6. \A p \in e :
               \/ p = HalDevice
               \/ \E j \in DOMAIN l : l[j] = p /\ (op = "hrx_executable_load_file" => j # 1)
        BY <3>1, <4>1
      <4> HIDE DEF op, s, m, e
      <4>7. x \in CellType /\ x.kind = "reserved_block" /\ x.own = <<>> /\ x.needs = e /\ x.lost = 0
        <5> DEFINE k == "reserved_block"
                   r == <<>>
                   v == Cell(k, r, e)
        <5>1. k \in Kinds /\ r \in Seq(Cells) /\ v = Cell(k, r, e) /\ x = [v EXCEPT !.count = 2]
          BY <3>4, CellsFixed
        <5> HIDE DEF k, r, v, x
        <5>2. v \in CellType /\ v.kind = k /\ v.own = r /\ v.needs = e /\ v.lost = 0
          BY ONLY <2>Fresh, <4>2, <5>1
        <5>3. /\ x \in CellType /\ x.kind = v.kind /\ x.own = v.own /\ x.needs = v.needs
              /\ x.lost = v.lost
          BY <5>1, <5>2, SMT DEF CellType
        <5> QED BY <5>2, <5>3 DEF k, r
      <4>8. y \in CellType /\ y.kind = "hal_buffer" /\ y.own = s /\ y.needs = e /\ y.lost = 0 /\ ~y.lent
        <5> DEFINE k == "hal_buffer"
        <5>1. k \in Kinds /\ k = "hal_buffer" /\ s \in Seq(Cells) /\ y = Cell(k, s, e)
          BY <3>4, <4>4
        <5> HIDE DEF k, y
        <5>2. y \in CellType /\ y.kind = k /\ y.own = s /\ y.needs = e /\ y.lost = 0 /\ ~y.lent
          BY ONLY <2>Fresh, <4>2, <5>1
        <5> QED BY <5>1, <5>2
      <4> HIDE DEF x, y
      <4>9. GrowsByTwo(heap, heap', x, y)
        BY ONLY <2>StepTwo, <3>3, <4>5, <4>7, <4>8, c \in Clients
      <4> DEFINE z == New + 1
      <4>10. /\ Grows(heap, heap') /\ DOMAIN heap' = DOMAIN heap \cup {New, z}
             /\ heap'[New] = x /\ heap'[z] = y /\ Extends(m, l, z)
        BY <4>1, <4>9 DEF GrowsByTwo
      <4> HIDE DEF z
      <4>11. CellShape(heap', New)
        BY <3>4, <4>7, <4>10, LeafShape
      <4>12. \A i \in DOMAIN s : /\ Rank(heap'[s[i]].kind) < Rank("hal_buffer")
                                 /\ heap'[s[i]].needs \subseteq e
        BY <3>4, <4>4, <4>7, <4>10
      <4>13. CellShape(heap', z)
        BY <3>4, <4>8, <4>10, <4>12, <1>StrictShape
      <4>14. \A q \in DOMAIN heap' : q \notin DOMAIN heap => CellShape(heap', q)
        BY <4>10, <4>11, <4>13
      <4>15. Rank(heap'[z].kind) < 2 /\ heap'[z].needs = e
        BY <3>4, <4>8, <4>10
      <4>16. \A p \in heap'[z].needs :
               \/ p = HalDevice
               \/ \E j \in DOMAIN l : l[j] = p /\ (op = "hrx_executable_load_file" => j # 1)
        BY <4>6, <4>15
      <4>17. Rank(heap'[z].kind) < 2 /\ Grows(heap, heap') /\ Extends(m, l, z)
        BY <4>10, <4>15
      <4> QED BY ONLY <2>Pushed, <3>1, <3>3, <4>5, <4>14, <4>16, <4>17, c \in Clients
    <3>13. CASE /\ At(c, op, 4)
                /\ Finish(c, op, 4, <<Device>>, "buffer", HrxBufferS(l[2], <<l[1]>>), <<>>)
      <4> DEFINE a == l[1]
                 b == l[2]
                 s == HrxBufferS(b, <<a>>)
                 t == <<>>
      <4>1. 1 \in DOMAIN l /\ 2 \in DOMAIN l
        BY <2>Counts, <2>Lists, <3>2, <3>13
      <4>2. At(c, op, 4)
        BY <3>13
      <4>3. /\ a \in DOMAIN heap /\ a \in Cells /\ Rank(heap[a].kind) < 2
            /\ \A p \in heap[a].needs : p = HalDevice \/ (\E j \in DOMAIN l : j < 1 /\ l[j] = p)
        <5> HIDE DEF op
        <5> QED BY ONLY <2>Local, <3>1, <3>3, <4>1, <4>2, c \in Clients
      <4>4. /\ b \in DOMAIN heap /\ b \in Cells /\ Rank(heap[b].kind) < 2
            /\ \A p \in heap[b].needs : p = HalDevice \/ (\E j \in DOMAIN l : j < 2 /\ l[j] = p)
        <5> HIDE DEF op
        <5> QED BY ONLY <2>Local, <3>1, <3>3, <4>1, <4>2, c \in Clients
      <4>5. \A j \in DOMAIN l : ~(j < 1) /\ (j < 2 => j = 1)
        <5>1. l \in Seq(Cells)
          BY <3>2, <3>13
        <5> HIDE DEF l
        <5> QED BY <5>1, SMT
      <4>6. heap[a].needs \subseteq {HalDevice} /\ heap[b].needs \subseteq {HalDevice, a}
        BY <4>3, <4>4, <4>5
      <4>7. s = <<b, a, Device>>
        <5>1. Cells \subseteq Nat
          BY SMT DEF Cells
        <5> QED BY <4>3, <4>4, <5>1, <1>FieldsOfBuffer
      <4>8. Finish(c, op, 4, <<Device>>, "buffer", s, t)
        BY <3>13
      <4>9. t \in Seq(Cells) /\ DOMAIN t = {}
        BY SMT
      <4>10. \A i \in DOMAIN t : t[i] \in DOMAIN heap /\ ~Strict(heap, t[i])
        BY <4>9
      <4> HIDE DEF op, a, b, s, t
      <4> QED BY <2>Ended, <3>1, <3>3, <4>3, <4>4, <4>6, <4>7, <4>8, <4>9, <4>10
    <3>14. \/ Enter(c, op) \/ exact_pool_create(c, op) \/ (At(c, op, 3) /\ queue_alloca(c, op))
           \/ Unwind(c, op, 4)
           \/ /\ At(c, op, 4)
              /\ Finish(c, op, 4, <<Device>>, "buffer", HrxBufferS(l[2], <<l[1]>>), <<>>)
      BY <2>4 DEF hrx_buffer_allocate
    <3>15. CASE exact_pool_create(c, op)
      BY <3>7, <3>9, <3>10, <3>15 DEF exact_pool_create
    <3>16. CASE At(c, op, 3) /\ queue_alloca(c, op)
      BY <3>7, <3>11, <3>12, <3>16 DEF queue_alloca
    <3> QED BY <3>7, <3>8, <3>13, <3>14, <3>15, <3>16
  <2> QED BY <2>1, <2>2, <2>3, <2>4
<1> SUFFICES ASSUME FiniteParts, Grounded, Shape, [Next]_vars PROVE Shape'
  OBVIOUS
<1>1. CASE UNCHANGED vars
  <2>1. heap' = heap /\ refs' = refs /\ call' = call /\ todo' = todo
    BY <1>1 DEF vars
  <2> QED BY <2>1 DEF Shape
<1>2. CASE Next
  <2> PICK c \in Clients :
        \/ handle_retain(c) \/ handle_release(c) \/ DropOne(c) \/ shutdown(c)
        \/ hrx_allocator_retain(c) \/ hrx_allocator_release(c)
        \/ hrx_semaphore_create(c)
        \/ hrx_fence_create(c) \/ hrx_fence_create_at(c)
        \/ hrx_fence_insert(c) \/ hrx_fence_extend(c)
        \/ hrx_allocator_allocate_buffer(c) \/ hrx_allocator_import_buffer(c)
        \/ hrx_allocator_virtual_memory_reserve(c) \/ hrx_allocator_virtual_memory_release(c)
        \/ hrx_buffer_map(c) \/ hrx_buffer_get_device_ptr(c) \/ hrx_buffer_unmap(c)
        \/ hrx_buffer_allocate(c)
        \/ hrx_module_load_vmfb(c) \/ hrx_module_lookup_function(c) \/ hrx_function_invoke(c)
        \/ hrx_executable_load_data(c) \/ hrx_executable_load_file(c)
        \/ hrx_buffer_view_create(c)
        \/ hrx_value_list_create(c) \/ hrx_value_list_push(c)
    BY <1>2 DEF Next
  <2> QED BY <1>HandleOrder, <1>TeardownOrder, <1>FieldOrder, <1>CreateOrder, <1>ConstructorOrder
<1> QED BY <1>1, <1>2

(***************************************************************************)
(* What follows from it.                                                   *)
(***************************************************************************)
\* Every reference that exists is on a live object, as is what was lost.
Upheld ==
    /\ up => Live(Device)
    /\ \A q \in DOMAIN heap : /\ heap[q].lost > 0 => Live(q)
                              /\ \A i \in DOMAIN heap[q].own : Live(heap[q].own[i])
    /\ \A c \in Clients : /\ \A o \in Cells : Held(c, o) > 0 => Live(o)
                          /\ \A i \in DOMAIN Locals(c) : Live(Locals(c)[i])
                          /\ \A i \in DOMAIN todo[c] : Live(todo[c][i])

\* Every live object was lost or has a reference.
Supported ==
    \A o \in DOMAIN heap : Live(o) =>
        \/ heap[o].lost > 0
        \/ up /\ o = Device
        \/ \E c \in Clients : \/ Held(c, o) > 0
                              \/ \E i \in DOMAIN Locals(c) : Locals(c)[i] = o
                              \/ \E i \in DOMAIN todo[c] : todo[c][i] = o
        \/ \E q \in DOMAIN heap : Live(q) /\ \E i \in DOMAIN heap[q].own : heap[q].own[i] = o

\* What x points to is alive.
Backed(x) == Live(x) /\ ~heap[x].lent => \A p \in heap[x].needs : Live(p)

\* So nothing an object points to ends before it.
LEMMA OrderBacks ==
    Grounded /\ Shape /\ Upheld /\ Supported => ParentsOutlive
\* What an object points to is kept by what comes later in the order, so it is alive, if
\* that is true of the objects of a higher rank.
<1>BackedByRank.
    ASSUME Grounded, Shape, Upheld, Supported, NEW x \in DOMAIN heap,
           \A q \in DOMAIN heap : Rank(heap[q].kind) > Rank(heap[x].kind) => Backed(q)
    PROVE  Backed(x)
  <2> USE <1>BackedByRank
  <2> SUFFICES ASSUME Live(x), ~heap[x].lent, NEW p \in heap[x].needs PROVE Live(p)
    BY DEF Backed
  <2>1. CellShape(heap, x) /\ x \in Cells
    BY GroundedFacts, HeapTypes DEF Shape, HeapShape
  <2>2. heap[x].kind \in Dependent /\ Strict(heap, x) /\ heap[x].lost = 0
    BY <2>1 DEF CellShape, Strict
  <2>3. heap[Device].kind = "device" /\ "device" \notin Dependent
    <3>1. "device" \notin Dependent
      BY SMT DEF Dependent
    <3> QED BY <3>1, GroundedFacts DEF HeapOK, HeapSound
  <2>4. x # Device
    BY <2>2, <2>3
  <2>5. Live(Device) => Live(HalDevice)
    <3>1. ASSUME Live(Device) PROVE Live(HalDevice)
      <4>1. Device \in DOMAIN heap /\ heap[Device].count > 0 /\ Sound(heap, heap[Device])
        BY <3>1, GroundedFacts, HeapTypes DEF Live
      <4>2. heap[Device].own = HrxDeviceS
        BY <2>3, <4>1 DEF Sound
      <4>3. 3 \in DOMAIN HrxDeviceS /\ HrxDeviceS[3] = HalDevice
        BY SMT DEF HrxDeviceS
      <4> QED BY <4>1, <4>2, <4>3 DEF Upheld
    <3> QED BY <3>1
  <2>6. ASSUME NEW y, Live(y), Keeps(y, p) PROVE Live(p)
    BY <2>5, <2>6 DEF Keeps
  <2>7. ASSUME NEW c \in Clients, refs[c][Device] > 0 PROVE Live(HalDevice)
    <3>1. refs[c][Device] \in Nat /\ refs[c][HalAllocator] \in Nat
      BY GroundedFacts, CellsFixed
    <3>2. Held(c, Device) > 0
      BY <2>7, <3>1, SMT DEF Held
    <3> QED BY <2>5, <3>2, CellsFixed DEF Upheld
  <2>8. CASE \E c \in Clients : Held(c, x) > 0
    <3>1. PICK c \in Clients : Held(c, x) > 0
      BY <2>8
    <3>2. /\ refs[c][x] \in Nat /\ refs[c][Device] \in Nat /\ refs[c][HalAllocator] \in Nat
      BY <2>1, GroundedFacts, CellsFixed
    <3>3. refs[c][x] > 0
      BY <2>4, <3>1, <3>2, SMT DEF Held
    <3>4. x = HalAllocator
      BY <2>1, <2>2, <3>3 DEF Shape, ClientShape, HandleShape
    <3>5. p = HalDevice
      BY <3>4 DEF Shape, HeapShape
    <3>6. Held(c, Device) > 0
      BY <3>2, <3>3, <3>4, SMT DEF Held
    <3> QED BY <2>5, <3>5, <3>6, CellsFixed DEF Upheld
  <2>9. ASSUME NEW c \in Clients, NEW i \in DOMAIN Locals(c), Locals(c)[i] = x PROVE Live(p)
    <3>1. LocalShape(heap, call[c], i)
      BY <2>9 DEF Shape, ClientShape, CallShape, Locals
    <3>2. call[c] # NoCall
      <4>1. DOMAIN NoCall.locals = {}
        BY SMT DEF NoCall
      <4> QED BY <2>9, <4>1 DEF Locals
    <3>3. refs[c][Device] > 0
      BY <3>2, GroundedFacts DEF CallSound
    <3>4. p = HalDevice \/ \E j \in DOMAIN Locals(c) : Locals(c)[j] = p
      BY <2>9, <3>1 DEF LocalShape, Locals
    <3> QED BY <2>7, <3>3, <3>4 DEF Upheld
  <2>10. ASSUME NEW c \in Clients, NEW i \in DOMAIN todo[c], todo[c][i] = x PROVE Live(p)
    <3>1. Covered(heap, todo[c], refs[c][Device], i)
      BY <2>2, <2>10 DEF Shape, ClientShape, Ordered
    <3>2. \/ \E j \in DOMAIN todo[c] : Keeps(todo[c][j], p)
          \/ refs[c][Device] > 0 /\ p = HalDevice
      BY <2>10, <3>1 DEF Covered
    <3> QED BY <2>6, <2>7, <3>2 DEF Upheld
  <2>11. ASSUME NEW q \in DOMAIN heap, Live(q), NEW i \in DOMAIN heap[q].own, heap[q].own[i] = x
         PROVE  Live(p)
    <3>1. CellShape(heap, q) /\ Owns(heap, q, x)
      BY <2>11 DEF Shape, HeapShape, CellShape
    <3>2. CASE Strict(heap, q)
      <4>1. Rank(heap[q].kind) > Rank(heap[x].kind)
        <5>1. \A m, n \in 0 .. 4 : m < n => n > m
          BY SMT
        <5> QED BY <3>1, <5>1, Ranks DEF Owns
      <4>2. Backed(q) /\ p \in heap[q].needs
        BY <2>2, <3>1, <3>2, <4>1 DEF Owns
      <4> QED BY <2>11, <3>2, <4>2 DEF Backed, Strict
    <3>3. CASE heap[q].kind \in Anchors
      <4>1. Covered(heap, heap[q].own, 0, i)
        BY <2>2, <2>11, <3>1, <3>3 DEF CellShape, Ordered
      <4>2. ~(0 > 0)
        BY SMT
      <4>3. \E j \in DOMAIN heap[q].own : Keeps(heap[q].own[j], p)
        BY <2>11, <4>1, <4>2 DEF Covered
      <4> QED BY <2>6, <4>3 DEF Upheld
    <3> QED BY <2>2, <3>1, <3>2, <3>3 DEF Owns
  <2>12. ~(heap[x].lost > 0)
    <3>1. ~(0 > 0)
      BY SMT
    <3> QED BY <2>2, <3>1
  <2> QED BY <2>4, <2>8, <2>9, <2>10, <2>11, <2>12 DEF Supported
<1> SUFFICES ASSUME Grounded, Shape, Upheld, Supported PROVE ParentsOutlive
  OBVIOUS
<1> DEFINE down(n) == \A q \in DOMAIN heap : Rank(heap[q].kind) > n => Backed(q)
<1>1. \A kind : Rank(kind) \in 0 .. 4
  BY Ranks
<1>2. down(4)
  <2>1. \A r \in 0 .. 4 : ~(r > 4)
    BY SMT
  <2> QED BY <1>1, <2>1
<1>3. ASSUME NEW n \in 0 .. 4, down(n) PROVE down(n - 1)
  <2>1. ASSUME NEW q \in DOMAIN heap, Rank(heap[q].kind) > n - 1, ~(Rank(heap[q].kind) > n) PROVE Backed(q)
    <3>1. Rank(heap[q].kind) = n
      BY <1>1, <2>1, SMT
    <3> QED BY <1>3, <3>1, <1>BackedByRank
  <2> QED BY <1>3, <2>1
<1>4. down(3) /\ down(2) /\ down(1) /\ down(0) /\ down(-1)
  <2>1. 4 - 1 = 3 /\ 3 - 1 = 2 /\ 2 - 1 = 1 /\ 1 - 1 = 0 /\ 0 - 1 = -1
        /\ 4 \in 0 .. 4 /\ 3 \in 0 .. 4 /\ 2 \in 0 .. 4 /\ 1 \in 0 .. 4 /\ 0 \in 0 .. 4
    BY SMT
  <2> HIDE DEF down
  <2>2. down(3)
    BY <1>2, <1>3, <2>1
  <2>3. down(2)
    BY <1>3, <2>1, <2>2
  <2>4. down(1)
    BY <1>3, <2>1, <2>3
  <2>5. down(0)
    BY <1>3, <2>1, <2>4
  <2>6. down(-1)
    BY <1>3, <2>1, <2>5
  <2> QED BY <2>2, <2>3, <2>4, <2>5, <2>6
<1>5. \A r \in 0 .. 4 : r > -1
  BY SMT
<1>6. \A q \in DOMAIN heap : Backed(q)
  BY <1>1, <1>4, <1>5
<1> QED BY <1>6 DEF Backed, ParentsOutlive

\* So in an idle program the live objects are those that can be reached.
LEMMA OrderReaches ==
    Grounded /\ Shape /\ Upheld /\ Supported => LiveIffReachable
\* A live object of an idle program is a root or owned by a live one of a higher rank.
<1>OwnedByRank.
    ASSUME Grounded, Shape, Supported, \A c \in Clients : Idle(c), NEW S, Roots \subseteq S,
           NEW x \in DOMAIN heap, Live(x),
           \A q \in DOMAIN heap : Live(q) /\ Rank(heap[q].kind) > Rank(heap[x].kind) => q \in S
    PROVE  x \in WithOwned(S)
  <2> USE <1>OwnedByRank
  <2>1. ASSUME NEW c \in Clients PROVE DOMAIN Locals(c) = {} /\ DOMAIN todo[c] = {}
    <3>1. DOMAIN NoCall.locals = {} /\ DOMAIN <<>> = {}
      BY SMT DEF NoCall
    <3> QED BY <3>1 DEF Idle, Locals
  <2>2. CASE \/ heap[x].lost > 0 \/ (up /\ x = Device) \/ \E c \in Clients : Held(c, x) > 0
    BY <2>2 DEF Roots, WithOwned
  <2>3. ASSUME NEW q \in DOMAIN heap, Live(q), NEW i \in DOMAIN heap[q].own, heap[q].own[i] = x
        PROVE  x \in WithOwned(S)
    <3>1. Owns(heap, q, x)
      BY <2>3 DEF Shape, HeapShape, CellShape
    <3>2. Rank(heap[q].kind) > Rank(heap[x].kind)
      <4>1. \A m, n \in 0 .. 4 : m < n => n > m
        BY SMT
      <4> QED BY <3>1, <4>1, Ranks DEF Owns
    <3>3. q \in S /\ x \in Range(heap[q].own)
      BY <2>3, <3>2 DEF Range
    <3> QED BY <3>3 DEF WithOwned
  <2> QED BY <2>1, <2>2, <2>3 DEF Supported
<1> SUFFICES ASSUME Grounded, Shape, Upheld, Supported, \A c \in Clients : Idle(c)
             PROVE  {o \in DOMAIN heap : Live(o)} = Reachable
  BY DEF LiveIffReachable
<1> DEFINE L == {o \in DOMAIN heap : Live(o)}
           above(n, S) == /\ Roots \subseteq S /\ S \subseteq L
                          /\ \A q \in L : Rank(heap[q].kind) > n => q \in S
<1>1. \A kind : Rank(kind) \in 0 .. 4
  BY Ranks
<1>2. above(4, Roots)
  <2>1. \A r \in 0 .. 4 : ~(r > 4)
    BY SMT
  <2>2. DOMAIN heap \subseteq Cells
    BY GroundedFacts, HeapTypes
  <2>3. Roots \subseteq L
    BY <2>2 DEF Roots, Upheld
  <2> QED BY <1>1, <2>1, <2>3
<1>3. ASSUME NEW n \in 0 .. 4, NEW S, above(n, S) PROVE above(n - 1, WithOwned(S))
  <2>1. Roots \subseteq WithOwned(S)
    BY <1>3 DEF WithOwned
  <2>2. WithOwned(S) \subseteq L
    <3>1. ASSUME NEW q \in S, NEW y \in Range(heap[q].own) PROVE y \in L
      BY <1>3, <3>1 DEF Range, Upheld, Live
    <3> QED BY <1>3, <3>1 DEF WithOwned
  <2>3. ASSUME NEW q \in L, Rank(heap[q].kind) > n - 1 PROVE q \in WithOwned(S)
    <3>1. CASE Rank(heap[q].kind) > n
      BY <1>3, <3>1 DEF WithOwned
    <3>2. CASE ~(Rank(heap[q].kind) > n)
      <4>1. Rank(heap[q].kind) = n
        BY <1>1, <2>3, <3>2, SMT
      <4>2. \A y \in DOMAIN heap : Live(y) /\ Rank(heap[y].kind) > Rank(heap[q].kind) => y \in S
        BY <1>3, <4>1
      <4> QED BY <1>3, <4>2, <1>OwnedByRank
    <3> QED BY <3>1, <3>2
  <2> QED BY <2>1, <2>2, <2>3
<1> DEFINE A == WithOwned(Roots)
           B == WithOwned(A)
           C == WithOwned(B)
           D == WithOwned(C)
           E == WithOwned(D)
<1>4. above(-1, E)
  <2>1. 4 - 1 = 3 /\ 3 - 1 = 2 /\ 2 - 1 = 1 /\ 1 - 1 = 0 /\ 0 - 1 = -1
        /\ 4 \in 0 .. 4 /\ 3 \in 0 .. 4 /\ 2 \in 0 .. 4 /\ 1 \in 0 .. 4 /\ 0 \in 0 .. 4
    BY SMT
  <2> HIDE DEF above
  <2>2. above(3, A)
    BY <1>2, <1>3, <2>1
  <2>3. above(2, B)
    BY <1>3, <2>1, <2>2
  <2>4. above(1, C)
    BY <1>3, <2>1, <2>3
  <2>5. above(0, D)
    BY <1>3, <2>1, <2>4
  <2> QED BY <1>3, <2>1, <2>5
<1> HIDE DEF A, B, C, D, E
<1>5. L = E
  <2>1. \A r \in 0 .. 4 : r > -1
    BY SMT
  <2> QED BY <1>1, <1>4, <2>1
<1>6. WithOwned(E) = E
  <2>1. ASSUME NEW q \in E, NEW y \in Range(heap[q].own) PROVE y \in E
    <3>1. y \in L
      BY <1>5, <2>1 DEF Range, Upheld, Live
    <3> QED BY <1>5, <3>1
  <2> QED BY <2>1 DEF WithOwned
<1> QED BY <1>5, <1>6 DEF Reachable, A, B, C, D, E

=============================================================================
