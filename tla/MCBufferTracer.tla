--------------------------- MODULE MCBufferTracer ---------------------------
(***************************************************************************)
(* Instances of BufferTracer for TLC.                                      *)
(***************************************************************************)
EXTENDS BufferTracer, TLC

CONSTANTS p1, p2, p3

With(sync, dump, filter, limit, uses, memory) ==
    [sync |-> sync, dump |-> dump, filter |-> filter, limit |-> limit, uses |-> uses,
     memory |-> memory]

\* Programs that allocate more buffers than the table has room for, and free them.
Allocating == {With(FALSE, FALSE, FALSE, 0, {"hipMalloc", "hipHostMalloc", "hipFree"}, {p1, p2, p3})}

\* Programs that launch, with and without dumps around the launches, filtered or
\* not, with no limit and with one that is reached: every pair of values.
Launch(sync, dump, filter, limit) ==
    With(sync, dump, filter, limit, {"hipMalloc", "launch", "register", "synchronize", "call"}, {p1})

Launching == {Launch(FALSE, TRUE, TRUE, 1), Launch(TRUE, TRUE, FALSE, 1),
              Launch(FALSE, TRUE, FALSE, 0), Launch(TRUE, TRUE, TRUE, 0),
              Launch(TRUE, FALSE, FALSE, 0)}

MCSettings == Allocating \cup Launching

\* A thread synchronizes, or calls, while the device waits for another.
Synchronizing == {With(FALSE, FALSE, FALSE, 0, {"call", "synchronize"}, {p1})}
=============================================================================
