--------------------------- MODULE InOrderStreams ---------------------------
(***************************************************************************)
(* What a stream promises its client, without command buffers, timelines   *)
(* or a device queue: the commands it accepted are executed once each, in  *)
(* the order in which they were accepted.  A stream may be let free of     *)
(* that order; it then still executes nothing twice.                       *)
(***************************************************************************)
EXTENDS Naturals

CONSTANTS Streams, Commands

VARIABLES accepted, executed, free

Init ==
    /\ accepted = [s \in Streams |-> {}]
    /\ executed = [s \in Streams |-> {}]
    /\ free = [s \in Streams |-> FALSE]

\* Accepted commands are numbered upwards, past everything seen so far.
Accept(s, n) ==
    /\ \A m \in accepted[s] \cup executed[s] : m < n
    /\ accepted' = [accepted EXCEPT ![s] = @ \cup {n}]
    /\ UNCHANGED <<executed, free>>

\* A command executes after every accepted command before it.  It need not be
\* accepted itself: its recording call may have reported an error after the
\* command had reached the command buffer.
Execute(s, n) ==
    /\ n \notin executed[s]
    /\ free[s] \/ \A m \in accepted[s] : m < n => m \in executed[s]
    /\ executed' = [executed EXCEPT ![s] = @ \cup {n}]
    /\ UNCHANGED <<accepted, free>>

LetFree(s) ==
    /\ free' = [free EXCEPT ![s] = TRUE]
    /\ UNCHANGED <<accepted, executed>>

Next ==
    \E s \in Streams :
        \/ \E n \in Commands : Accept(s, n) \/ Execute(s, n)
        \/ LetFree(s)

Spec == Init /\ [][Next]_<<accepted, executed, free>>
====
