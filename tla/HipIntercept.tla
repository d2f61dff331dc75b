---------------------------- MODULE HipIntercept ----------------------------
(***************************************************************************)
(* The passthrough library of crates/hip-intercept, loaded in place of     *)
(* libamdhip64.so, with an interceptor behind it.                          *)
(*                                                                         *)
(* Threads call exported functions from the moment the library is mapped,  *)
(* so the first calls race for the Once that runs intercept_init.  A       *)
(* routed export goes through the active table; a direct one resolves its  *)
(* symbol in the backend.  At process exit one thread runs intercept_fini  *)
(* while the others may still be calling.                                  *)
(*                                                                         *)
(* An interceptor is abstracted to what the shim sees of it: whether it    *)
(* can be loaded, whether its init returns a table, whether its wrappers   *)
(* hold a lock across the real call (the tracer) or not (logging), and     *)
(* whether its shutdown frees the table (the tracer).                      *)
(***************************************************************************)
EXTENDS Naturals, FiniteSets

CONSTANTS
    Threads,
    Routed,     \* the functions of HipFunctionTable
    Wrapped,    \* those the interceptors override
    Direct,     \* the exports of passthrough_generated.rs
    MaxCalls    \* bound: calls each thread makes

ASSUME InterceptConstants ==
    /\ Wrapped \subseteq Routed
    /\ Routed \cap Direct = {}
    /\ MaxCalls \in Nat

Null == "null"
NoThread == "none"

\* HIP_INTERCEPTION_LIBRARY: unset, not loadable, without hip_interceptor_init,
\* hip-noop (init returns NULL), hip-logging, hip-buffer-tracer.
Interceptors == {"unset", "unloadable", "no_init", "noop", "logging", "tracer"}
Wrapping     == {"logging", "tracer"}

VARIABLES
    env,        \* the backend and interceptor of this process, and absent symbols
    INIT,       \* the Once: "new", "running", "done"
    G_BACKEND_LIB, G_REAL_TABLE, G_ACTIVE_TABLE, G_INTERCEPTOR_LIB, G_INTERCEPTOR_SHUTDOWN,
    mapped,     \* the libraries mapped and the tables allocated
    guard,      \* the thread that holds the mutex STATE of the tracer
    thread,     \* where each thread is and what it has in hand
    process     \* "running", "exiting", or over: "ended", "aborted"

globals == <<G_BACKEND_LIB, G_REAL_TABLE, G_ACTIVE_TABLE, G_INTERCEPTOR_LIB, G_INTERCEPTOR_SHUTDOWN>>
vars == <<env, INIT, globals, mapped, guard, thread, process>>

Functions == Routed \cup Direct

InitStages == {"backend_lib", "real_table", "interceptor_lib", "interceptor_init", "interceptor_shutdown"}
Places == {"idle", "ensure_init", "dispatch", "slot", "wrapper", "real", "wrapped_real", "unwind",
           "fini", "dlclose", "gone"} \cup InitStages

Init ==
    /\ env \in [backend : BOOLEAN, interceptor : Interceptors, absent : SUBSET Functions]
    /\ INIT = "new"
    /\ G_BACKEND_LIB = Null /\ G_REAL_TABLE = Null /\ G_ACTIVE_TABLE = Null
    /\ G_INTERCEPTOR_LIB = Null /\ G_INTERCEPTOR_SHUTDOWN = Null
    /\ mapped = {}
    /\ guard = NoThread
    /\ thread = [t \in Threads |-> [at |-> "idle", fn |-> "early_init", table |-> Null, calls |-> 0]]
    /\ process = "running"

Alive == process \in {"running", "exiting"}

At(t, place) == Alive /\ thread[t].at = place
Goto(t, place) == thread' = [thread EXCEPT ![t].at = place]

\* The process is gone, with all its threads.
Abort == process' = "aborted" /\ UNCHANGED <<env, INIT, globals, mapped, guard, thread>>

-----------------------------------------------------------------------------
(* Calls and the Once. *)

\* The constructor early_init, or an exported function, starts.
Call(t, f) ==
    /\ At(t, "idle")
    /\ thread[t].calls < MaxCalls
    /\ thread' = [thread EXCEPT ![t] = [@ EXCEPT !.at = "ensure_init", !.fn = f,
                                                !.calls = thread[t].calls + 1]]
    /\ UNCHANGED <<env, INIT, globals, mapped, guard, process>>

\* Variants of ensure_init: a fast path on the active table alone, a second thread
\* that does not wait, and a flag tested and set in two steps.
FastPathOnTable(t) ==
    /\ At(t, "ensure_init")
    /\ \/ G_ACTIVE_TABLE = Null /\ INIT = "new" /\ INIT' = "running" /\ Goto(t, "backend_lib")
       \/ G_ACTIVE_TABLE # Null /\ INIT' = INIT /\ Goto(t, "dispatch")
    /\ UNCHANGED <<env, globals, mapped, guard, process>>

NoWaitForOnce(t) ==
    /\ At(t, "ensure_init")
    /\ \/ INIT = "new" /\ INIT' = "running" /\ Goto(t, "backend_lib")
       \/ INIT # "new" /\ INIT' = INIT /\ Goto(t, "dispatch")
    /\ UNCHANGED <<env, globals, mapped, guard, process>>

FlagNotOnce(t) ==
    /\ At(t, "ensure_init")
    /\ \/ INIT # "done" /\ INIT' = "running" /\ Goto(t, "backend_lib")
       \/ INIT = "done" /\ INIT' = INIT /\ Goto(t, "dispatch")
    /\ UNCHANGED <<env, globals, mapped, guard, process>>

\* INIT.call_once: the first caller runs intercept_init, later ones block until it
\* is over.
ensure_init(t) ==
    /\ At(t, "ensure_init")
    /\ \/ INIT = "new"  /\ INIT' = "running" /\ Goto(t, "backend_lib")
       \/ INIT = "done" /\ INIT' = INIT /\ Goto(t, "dispatch")
    /\ UNCHANGED <<env, globals, mapped, guard, process>>

open_backend(t) ==
    /\ At(t, "backend_lib")
    /\ \/ /\ ~env.backend
          /\ Abort
       \/ /\ env.backend
          /\ G_BACKEND_LIB' = "backend"
          /\ mapped' = mapped \cup {"backend"}
          /\ Goto(t, "real_table")
          /\ UNCHANGED <<env, INIT, G_REAL_TABLE, G_ACTIVE_TABLE, G_INTERCEPTOR_LIB,
                         G_INTERCEPTOR_SHUTDOWN, guard, process>>

fill_real_table(t) ==
    /\ At(t, "real_table")
    /\ G_REAL_TABLE' = "real"
    /\ G_ACTIVE_TABLE' = "real"
    /\ mapped' = mapped \cup {"real"}
    /\ Goto(t, "interceptor_lib")
    /\ UNCHANGED <<env, INIT, G_BACKEND_LIB, G_INTERCEPTOR_LIB, G_INTERCEPTOR_SHUTDOWN, guard, process>>

\* intercept_init returns and the Once releases whoever waits for it.
InitOver(t) == INIT' = "done" /\ Goto(t, "dispatch")

open_interceptor(t) ==
    /\ At(t, "interceptor_lib")
    /\ \/ /\ env.interceptor \in {"unset", "unloadable"}
          /\ InitOver(t)
          /\ UNCHANGED <<G_INTERCEPTOR_LIB, mapped>>
       \/ /\ env.interceptor \notin {"unset", "unloadable"}
          /\ G_INTERCEPTOR_LIB' = "interceptor"
          /\ mapped' = mapped \cup {"interceptor"}
          /\ Goto(t, "interceptor_init")
          /\ UNCHANGED INIT
    /\ UNCHANGED <<env, G_BACKEND_LIB, G_REAL_TABLE, G_ACTIVE_TABLE, G_INTERCEPTOR_SHUTDOWN, guard, process>>

\* hip_interceptor_init copies the real table into a box of its own and overrides
\* the entries it wraps.
interceptor_init(t) ==
    /\ At(t, "interceptor_init")
    /\ \/ /\ env.interceptor \in Wrapping
          /\ mapped' = mapped \cup {"wrapper"}
          /\ G_ACTIVE_TABLE' = "wrapper"
       \/ /\ env.interceptor \notin Wrapping
          /\ UNCHANGED <<mapped, G_ACTIVE_TABLE>>
    /\ Goto(t, "interceptor_shutdown")
    /\ UNCHANGED <<env, INIT, G_BACKEND_LIB, G_REAL_TABLE, G_INTERCEPTOR_LIB, G_INTERCEPTOR_SHUTDOWN, guard, process>>

\* Variant: the handle of the library is stored in place of the symbol.
ShutdownIsHandle(t) ==
    /\ At(t, "interceptor_shutdown")
    /\ G_INTERCEPTOR_SHUTDOWN' = G_INTERCEPTOR_LIB
    /\ InitOver(t)
    /\ UNCHANGED <<env, G_BACKEND_LIB, G_REAL_TABLE, G_ACTIVE_TABLE, G_INTERCEPTOR_LIB, mapped, guard, process>>

\* The shutdown symbol is optional; the interceptors of this repository have one.
find_shutdown(t) ==
    /\ At(t, "interceptor_shutdown")
    /\ G_INTERCEPTOR_SHUTDOWN' = IF env.interceptor = "no_init" THEN Null ELSE "shutdown"
    /\ InitOver(t)
    /\ UNCHANGED <<env, G_BACKEND_LIB, G_REAL_TABLE, G_ACTIVE_TABLE, G_INTERCEPTOR_LIB, mapped, guard, process>>

-----------------------------------------------------------------------------
(* Forwarding. *)

\* A routed export loads the active table.
active(t) ==
    /\ At(t, "dispatch") /\ thread[t].fn \in Routed
    /\ thread' = [thread EXCEPT ![t] = [@ EXCEPT !.at = "slot", !.table = G_ACTIVE_TABLE]]
    /\ UNCHANGED <<env, INIT, globals, mapped, guard, process>>

\* A direct export resolves its symbol in the backend, whatever the interceptor, and
\* returns an error if there is none.
direct_export(t) ==
    /\ At(t, "dispatch") /\ thread[t].fn \in Direct
    /\ Goto(t, IF G_BACKEND_LIB = Null \/ thread[t].fn \in env.absent THEN "idle" ELSE "real")
    /\ UNCHANGED <<env, INIT, globals, mapped, guard, process>>

\* The constructor has nothing else to do.
early_init(t) ==
    /\ At(t, "dispatch") /\ thread[t].fn \notin Functions
    /\ Goto(t, "idle")
    /\ UNCHANGED <<env, INIT, globals, mapped, guard, process>>

\* The entry of the table: a wrapper, the backend's function, or nothing, for which
\* the export returns its default.
fwd(t) ==
    /\ At(t, "slot")
    /\ LET f == thread[t].fn IN
       \/ thread[t].table = "wrapper" /\ f \in Wrapped /\ Goto(t, "wrapper")
       \/ ~(thread[t].table = "wrapper" /\ f \in Wrapped)
          /\ Goto(t, IF f \in env.absent THEN "idle" ELSE "real")
    /\ UNCHANGED <<env, INIT, globals, mapped, guard, process>>

\* A wrapper unwraps the entry of the real table, which ends the process if the
\* backend has no such function.  The tracer takes its mutex first.
wrap(t) ==
    /\ At(t, "wrapper")
    /\ env.interceptor = "tracer" => guard = NoThread
    /\ \/ thread[t].fn \in env.absent /\ Abort
       \/ /\ thread[t].fn \notin env.absent
          /\ guard' = IF env.interceptor = "tracer" THEN t ELSE guard
          /\ Goto(t, "wrapped_real")
          /\ UNCHANGED <<env, INIT, globals, mapped, process>>

\* The backend's function returns to the export.
RealReturns(t) ==
    /\ At(t, "real")
    /\ Goto(t, "idle")
    /\ UNCHANGED <<env, INIT, globals, mapped, guard, process>>

\* The backend's function returns to the wrapper, which writes its line.
WrappedRealReturns(t) ==
    /\ At(t, "wrapped_real")
    /\ Goto(t, "unwind")
    /\ UNCHANGED <<env, INIT, globals, mapped, guard, process>>

\* Variant: the mutex stays locked.
GuardKept(t) ==
    /\ At(t, "unwind")
    /\ Goto(t, "idle")
    /\ UNCHANGED <<env, INIT, globals, mapped, guard, process>>

\* The wrapper returns; the tracer's guard is dropped.
wrap_return(t) ==
    /\ At(t, "unwind")
    /\ guard' = IF guard = t THEN NoThread ELSE guard
    /\ Goto(t, "idle")
    /\ UNCHANGED <<env, INIT, globals, mapped, process>>

-----------------------------------------------------------------------------
(* Exit. *)

\* A thread calls exit, which runs the destructors of the library.
Exit(t) ==
    /\ process = "running" /\ thread[t].at = "idle" /\ INIT = "done"
    /\ process' = "exiting"
    /\ Goto(t, "fini")
    /\ UNCHANGED <<env, INIT, globals, mapped, guard>>

\* The interceptor's shutdown: the tracer's takes the mutex and frees the table.
fini_shutdown(t) ==
    /\ At(t, "fini")
    /\ env.interceptor = "tracer" => guard = NoThread
    /\ mapped' = IF G_INTERCEPTOR_SHUTDOWN # Null /\ env.interceptor = "tracer"
                 THEN mapped \ {"wrapper"} ELSE mapped
    /\ Goto(t, "dlclose")
    /\ UNCHANGED <<env, INIT, globals, guard, process>>

fini_dlclose(t) ==
    /\ At(t, "dlclose")
    /\ mapped' = IF G_INTERCEPTOR_LIB # Null THEN mapped \ {"interceptor"} ELSE mapped
    /\ Goto(t, "gone")
    /\ UNCHANGED <<env, INIT, globals, guard, process>>

\* The rest of exit ends the other threads.
ProcessEnds(t) ==
    /\ At(t, "gone")
    /\ process' = "ended"
    /\ UNCHANGED <<env, INIT, globals, mapped, guard, thread>>

-----------------------------------------------------------------------------

\* The memory a thread is about to read or execute.
Needs(t) ==
    CASE thread[t].at = "slot"         -> {thread[t].table}
      [] thread[t].at = "wrapper"      -> {"interceptor", "real"}
      [] thread[t].at = "wrapped_real" -> {"interceptor", "backend"}
      [] thread[t].at = "unwind"       -> {"interceptor"}
      [] thread[t].at = "real"         -> {"backend"}
      [] OTHER                         -> {}

\* Using memory that is gone may end the process; it may also still work, as in the
\* other actions.
Crash(t) == Alive /\ ~(Needs(t) \subseteq mapped) /\ Abort

Step(t) ==
    \/ ensure_init(t) \/ open_backend(t) \/ fill_real_table(t) \/ open_interceptor(t)
    \/ interceptor_init(t) \/ find_shutdown(t)
    \/ active(t) \/ direct_export(t) \/ early_init(t) \/ fwd(t) \/ wrap(t) \/ RealReturns(t) \/ WrappedRealReturns(t) \/ wrap_return(t)
    \/ fini_shutdown(t) \/ fini_dlclose(t) \/ ProcessEnds(t)

Next ==
    \E t \in Threads :
        \/ \E f \in Functions \cup {"early_init"} : Call(t, f)
        \/ Exit(t)
        \/ Crash(t)
        \/ Step(t)

Spec == Init /\ [][Next]_vars

\* Threads keep running, and the backend's functions return.
FairSpec == Spec /\ \A t \in Threads : WF_vars(Step(t))

-----------------------------------------------------------------------------
(* Properties. *)

\* The globals and the threads have the values the code gives them.
TypeOK ==
    /\ env \in [backend : BOOLEAN, interceptor : Interceptors, absent : SUBSET Functions]
    /\ INIT \in {"new", "running", "done"}
    /\ G_BACKEND_LIB \in {Null, "backend"} /\ G_REAL_TABLE \in {Null, "real"}
    /\ G_ACTIVE_TABLE \in {Null, "real", "wrapper"}
    /\ G_INTERCEPTOR_LIB \in {Null, "interceptor"} /\ G_INTERCEPTOR_SHUTDOWN \in {Null, "shutdown"}
    /\ mapped \subseteq {"backend", "real", "interceptor", "wrapper"}
    /\ guard \in Threads \cup {NoThread}
    /\ thread \in [Threads -> [at : Places, fn : Functions \cup {"early_init"},
                               table : {Null, "real", "wrapper"}, calls : 0 .. MaxCalls]]
    /\ process \in {"running", "exiting", "ended", "aborted"}

\* No call slips past the interceptor: whichever thread makes the first calls, and
\* however they interleave with intercept_init (which makes the real table active
\* before it loads the interceptor), a wrapped function is never entered directly.
InterceptorSeesCalls ==
    env.interceptor \in Wrapping =>
        \A t \in Threads : thread[t].at = "real" => thread[t].fn \notin Wrapped

\* Until the process exits, a thread that forwards a call never reads a null or
\* unfinished table and never runs code that is not mapped.
UsesMapped == process = "running" => \A t \in Threads : Needs(t) \subseteq mapped

\* What hip_passthrough_get_active_table and its sibling return stays right: once
\* the Once is done, no thread initializes again and the tables and libraries of
\* the shim never change.
GlobalsFixed ==
    [][INIT = "done" => /\ INIT' = "done"
                        /\ UNCHANGED globals
                        /\ \A t \in Threads : thread'[t].at \notin InitStages]_vars

\* Every call returns and every exit finishes, unless the process ends first:
\* waiting for the Once and for the tracer's mutex is never circular.
CallsReturn ==
    \A t \in Threads : thread[t].at # "idle" ~> (thread[t].at = "idle" \/ ~Alive)

\* hip-intercept/src/lib.rs promises that every exported HIP symbol forwards through
\* the active table: the table it loads exists when it reads the entry.
ForwardsThroughActiveTable ==
    Alive => \A t \in Threads : thread[t].at = "slot" => thread[t].table \in mapped
=============================================================================
