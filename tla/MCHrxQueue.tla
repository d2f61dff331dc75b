----------------------------- MODULE MCHrxQueue -----------------------------
(***************************************************************************)
(* Instance of HrxQueue for TLC.                                           *)
(***************************************************************************)
EXTENDS HrxQueue, TLC

CONSTANTS c1, c2

\* Who calls what.  A chain of three operations with a dependence on another
\* client's; host calls that race their enqueue; fences on both timelines; a
\* timepoint promised by nobody but the client that is to signal it.
MCPlans == {
    (c1 :> <<"hrx_queue_fill", "hrx_queue_host_call">> @@
     c2 :> <<"hrx_queue_dispatch", "hrx_semaphore_query">>),
    (c1 :> <<"hrx_queue_host_call", "hrx_semaphore_wait">> @@
     c2 :> <<"hrx_queue_host_call", "hrx_semaphore_wait">>),
    (c1 :> <<"hrx_queue_fill", "hrx_queue_copy", "hrx_semaphore_wait">> @@
     c2 :> <<"hrx_semaphore_wait">>),
    (c1 :> <<"hrx_queue_barrier", "hrx_fence_create_at", "hrx_queue_host_call">> @@
     c2 :> <<"hrx_fence_extend", "hrx_fence_insert", "hrx_fence_wait">>),
    (c1 :> <<"hrx_semaphore_signal", "hrx_fence_create_at", "hrx_fence_signal",
             "hrx_queue_fill">> @@
     c2 :> <<"hrx_fence_extend", "hrx_fence_wait", "hrx_semaphore_query">>) }

\* A relative timeout, one that is negative as a signed word, and the infinite one,
\* for words of three bits.
MCTimeouts == {1, 5, 7}

\* One code that HRX keeps and one that it does not.
MCFaults == {DeadlineExceeded, Aborted}

=============================================================================
