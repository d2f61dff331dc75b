---------------------------- MODULE HrxObjectsInv ----------------------------
(***************************************************************************)
(* The inductive invariant of HrxObjects, as far as it is about counts:    *)
(* what the states are, and that every reference is counted.               *)
(***************************************************************************)
EXTENDS HrxObjects

\* What an object can be.
Kinds == {"device", "hal_allocator", "hal_device_group", "hal_device", "hal_semaphore", "semaphore",
          "hal_fence", "fence", "hal_buffer", "virtual_memory", "buffer", "mapped_range",
          "notification", "hal_pool", "reserved_block", "bytecode_module", "hal_module",
          "vm_context", "module", "function", "executable_cache", "hal_executable", "executable",
          "file_data", "hal_buffer_view", "view", "vm_list", "list"}

\* An object, live or ended.
CellType ==
    [kind : Kinds, count : Nat, own : Seq(Cells), needs : SUBSET Cells, lent : BOOLEAN,
     lost : Nat, ends : Nat]

\* The operations that take several fallible steps.
Constructors == {"hrx_buffer_allocate", "hrx_module_load_vmfb", "hrx_executable_load_data",
                 "hrx_executable_load_file"}

\* A call in progress.
CallType == [op : Constructors \cup {"none"}, at : 0 .. 4, locals : Seq(Cells)]

\* The values of the variables.
Typed ==
    /\ heap \in Seq(CellType) /\ Len(heap) \in 4 .. MaxCells
    /\ refs \in [Clients -> [Cells -> Nat]]
    /\ call \in [Clients -> CallType]
    /\ todo \in [Clients -> Seq(Cells)]
    /\ up \in BOOLEAN /\ crashed \in BOOLEAN

\* The references on cell o of heap h that somebody has; none if there is no such cell.
Counted(h, o) == IF o \in DOMAIN h THEN h[o].count - h[o].lost ELSE 0

\* CountsExact, extended to the cells that do not exist: nothing refers to them.
Balanced == \A o \in Cells : References(o) = Counted(heap, o)

\* The kinds with a single owner: libhrx never keeps a reference on a buffer handle,
\* and a range belongs to the buffer it maps.
Private == {"buffer", "mapped_range"}

\* What is true of a cell x of heap h between any two steps.
Sound(h, x) ==
    /\ \A i \in DOMAIN x.own :
          /\ x.own[i] \in DOMAIN h
          /\ h[x.own[i]].kind \in Private =>
                /\ h[x.own[i]].kind = "mapped_range"
                /\ x.kind = "buffer" /\ i = 1 /\ Len(x.own) >= 2
    /\ x.kind \in Private => x.lost = 0
    /\ x.kind = "mapped_range" => x.count <= 1
    /\ x.own # <<>> => x.count > 0 /\ x.kind # "mapped_range"
    /\ x.ends = (IF x.count > 0 THEN 0 ELSE 1)
    /\ x.count > 0 =>
          /\ x.kind \in {"buffer", "semaphore", "fence", "view", "list"} => x.own # <<>>
          /\ x.kind \in {"fence", "list"} => h[x.own[1]].kind \in {"hal_fence", "vm_list"}
          /\ x.kind = "device" => x.own = HrxDeviceS

\* The first cells are the device and what it owns, and every cell is sound.
HeapSound(h) ==
    /\ h[Device].kind = "device"
    /\ h[HalAllocator].kind = "hal_allocator"
    /\ h[HalDeviceGroup].kind = "hal_device_group"
    /\ \A p \in DOMAIN h : Sound(h, h[p])

\* A heap of sound cells within the bound.
HeapOK(h) == h \in Seq(CellType) /\ Len(h) \in 4 .. MaxCells /\ HeapSound(h)

\* How many references the constructor op owns when it is about to take step n.
LocalsAt(op, n) == IF op = "hrx_buffer_allocate" /\ n > 2 THEN n - 2 ELSE n - 1

\* A client inside a constructor, with call k, pending releases t and handles r: the
\* locals are those of the step it is at, none is private, and it holds the device.
CallSound(h, k, t, r) ==
    \/ k = NoCall
    \/ /\ k.op \in Constructors /\ k.at \in 1 .. 4
       /\ Len(k.locals) = LocalsAt(k.op, k.at)
       /\ k.op = "hrx_buffer_allocate" /\ k.at = 2 => k.locals = <<HalAllocator>>
       /\ \A i \in DOMAIN k.locals :
             k.locals[i] \in DOMAIN h /\ h[k.locals[i]].kind \notin Private
       /\ t = <<>> /\ r[Device] > 0

\* A client's handles exist, and a range is not one.
HandlesSound(h, r) ==
    \A o \in Cells : r[o] > 0 => o \in DOMAIN h /\ h[o].kind # "mapped_range"

\* Everything that is true of the counts between two steps.
Core ==
    /\ Typed /\ Balanced /\ HeapSound(heap)
    /\ \A c \in Clients :
          CallSound(heap, call[c], todo[c], refs[c]) /\ HandlesSound(heap, refs[c])

\* The references that exist are on cells that exist, and a client's on live ones.
Grounded ==
    /\ Typed /\ HeapSound(heap)
    /\ \A c \in Clients :
          /\ CallSound(heap, call[c], todo[c], refs[c])
          /\ HandlesSound(heap, refs[c])
          /\ \A o \in Cells : refs[c][o] > 0 => heap[o].count > 0
          /\ \A i \in DOMAIN todo[c] : todo[c][i] \in DOMAIN heap

==============================================================================
