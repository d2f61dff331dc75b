------------------------- MODULE HipInterceptProofs -------------------------
(***************************************************************************)
(* Proofs about HipIntercept, for any number of threads, functions and     *)
(* calls: no call slips past the interceptor, no thread reads a table or   *)
(* runs code that is not there, and the tables are final once the Once is  *)
(* done.                                                                   *)
(*                                                                         *)
(* The inductive invariant says who may be where while the Once is new,    *)
(* running or done (OnceInv), what intercept_init has set up at each of    *)
(* its stages (StagesInv) and for good (DoneInv), and what a thread in the *)
(* middle of a call has in hand (CallInv).                                 *)
(***************************************************************************)
EXTENDS HipIntercept, TLAPS

Wraps == env.interceptor \in Wrapping

\* The table that is active when intercept_init is over.
FinalTable == IF Wraps THEN "wrapper" ELSE "real"

\* Until the Once is done there is nobody past it, and one thread at most inside.
OnceInv ==
    /\ INIT # "done" =>
         \A t \in Threads : thread[t].at \in {"idle", "ensure_init"} \cup InitStages
    /\ INIT # "running" => \A t \in Threads : thread[t].at \notin InitStages
    /\ \A t, u \in Threads :
         thread[t].at \in InitStages /\ thread[u].at \in InitStages => t = u
    /\ INIT # "done" => process # "exiting"
    /\ process = "running" =>
         \A t \in Threads : thread[t].at \notin {"fini", "dlclose", "gone"}

\* What the stages of intercept_init find.
StagesInv ==
    \A t \in Threads :
        /\ thread[t].at \in {"real_table", "interceptor_lib", "interceptor_init",
                             "interceptor_shutdown"} => "backend" \in mapped
        /\ thread[t].at \in {"interceptor_lib", "interceptor_init", "interceptor_shutdown"} =>
             "real" \in mapped
        /\ thread[t].at \in {"interceptor_lib", "interceptor_init"} => G_ACTIVE_TABLE = "real"
        /\ thread[t].at \in {"interceptor_init", "interceptor_shutdown"} =>
             "interceptor" \in mapped
        /\ thread[t].at = "interceptor_shutdown" =>
             G_ACTIVE_TABLE = FinalTable /\ FinalTable \in mapped

\* What it leaves behind.
DoneInv ==
    INIT = "done" =>
        /\ G_ACTIVE_TABLE = FinalTable
        /\ process = "running" =>
             /\ {"backend", "real", FinalTable} \subseteq mapped
             /\ Wraps => "interceptor" \in mapped

\* What a thread in the middle of a call has in hand.
CallInv ==
    \A t \in Threads :
        /\ thread[t].at = "slot" => thread[t].table = FinalTable
        /\ thread[t].at \in {"wrapper", "wrapped_real", "unwind"} => Wraps
        /\ thread[t].at = "real" /\ Wraps => thread[t].fn \notin Wrapped

IInv == TypeOK /\ OnceInv /\ StagesInv /\ DoneInv /\ CallInv

\* The invariant holds before the first call.
LEMMA InitIInv == Init => IInv
<1> SUFFICES ASSUME Init PROVE IInv
  OBVIOUS
<1>1. \A t \in Threads : thread[t].at = "idle"
  BY DEF Init
<1>2. TypeOK
  BY InterceptConstants DEF Init, TypeOK, Places, Null, NoThread
<1>3. OnceInv /\ StagesInv /\ CallInv
  BY <1>1 DEF OnceInv, StagesInv, CallInv, InitStages, Init
<1>4. DoneInv
  BY DEF Init, DoneInv
<1>5. QED
  BY <1>2, <1>3, <1>4 DEF IInv

\* A step that moves thread t and nothing else of the threads.
LEMMA GotoFacts ==
    ASSUME TypeOK, NEW t \in Threads, NEW place \in Places, Goto(t, place)
    PROVE  /\ thread' \in [Threads -> [at : Places, fn : Functions \cup {"early_init"},
                                       table : {Null, "real", "wrapper"}, calls : 0 .. MaxCalls]]
           /\ thread'[t].at = place
           /\ thread'[t].fn = thread[t].fn /\ thread'[t].table = thread[t].table
           /\ \A u \in Threads : u # t => thread'[u] = thread[u]
BY DEF TypeOK, Goto

\* The next state of the threads after a step of thread t, for every place.
Others(t) == \A u \in Threads : u # t => thread'[u] = thread[u]

\* Steps of the Once and of intercept_init.
LEMMA InitSteps ==
    ASSUME IInv, NEW t \in Threads,
           \/ ensure_init(t) \/ open_backend(t) \/ fill_real_table(t) \/ open_interceptor(t)
           \/ interceptor_init(t) \/ find_shutdown(t)
    PROVE  IInv'
<1> USE DEF At, Alive, IInv, Wraps, FinalTable, Null, NoThread, globals
<1>1. CASE ensure_init(t)
  <2>1. CASE Goto(t, "backend_lib")
    <3>1. "backend_lib" \in Places
      BY DEF Places, InitStages
    <3>2. /\ thread'[t].at = "backend_lib" /\ thread'[t].fn = thread[t].fn /\ thread'[t].table = thread[t].table
          /\ Others(t)
          /\ thread' \in [Threads -> [at : Places, fn : Functions \cup {"early_init"},
                                     table : {"null", "real", "wrapper"}, calls : 0 .. MaxCalls]]
      BY <2>1, <3>1, GotoFacts DEF Others
    <3>3. thread[t].at = "ensure_init"
      BY <1>1 DEF ensure_init
    <3>4. TypeOK'
      BY <1>1, <3>2 DEF ensure_init, TypeOK, Abort
    <3>5. OnceInv'
      BY <1>1, <3>2, <3>3 DEF ensure_init, OnceInv, InitStages, Others, Abort, TypeOK, Goto
    <3>6. StagesInv'
      BY <1>1, <3>2, <3>3 DEF ensure_init, OnceInv, StagesInv, InitStages, Others, Abort, Goto
    <3>7. DoneInv'
      BY <1>1, <3>2, <3>3 DEF ensure_init, OnceInv, StagesInv, DoneInv, InitStages, Others, Abort, Wrapping, Goto
    <3>8. CallInv'
      BY <1>1, <3>2, <3>3 DEF ensure_init, OnceInv, CallInv, InitStages, Others, Abort
    <3>9. QED
      BY <3>4, <3>5, <3>6, <3>7, <3>8
  <2>2. CASE Goto(t, "dispatch")
    <3>1. "dispatch" \in Places
      BY DEF Places, InitStages
    <3>2. /\ thread'[t].at = "dispatch" /\ thread'[t].fn = thread[t].fn /\ thread'[t].table = thread[t].table
          /\ Others(t)
          /\ thread' \in [Threads -> [at : Places, fn : Functions \cup {"early_init"},
                                     table : {"null", "real", "wrapper"}, calls : 0 .. MaxCalls]]
      BY <2>2, <3>1, GotoFacts DEF Others
    <3>3. thread[t].at = "ensure_init"
      BY <1>1 DEF ensure_init
    <3>4. TypeOK'
      BY <1>1, <3>2 DEF ensure_init, TypeOK, Abort
    <3>5. OnceInv'
      BY <1>1, <3>2, <3>3 DEF ensure_init, OnceInv, InitStages, Others, Abort, TypeOK, Goto
    <3>6. StagesInv'
      BY <1>1, <3>2, <3>3 DEF ensure_init, OnceInv, StagesInv, InitStages, Others, Abort, Goto
    <3>7. DoneInv'
      BY <1>1, <3>2, <3>3 DEF ensure_init, OnceInv, StagesInv, DoneInv, InitStages, Others, Abort, Wrapping, Goto
    <3>8. CallInv'
      BY <1>1, <3>2, <3>3 DEF ensure_init, OnceInv, CallInv, InitStages, Others, Abort
    <3>9. QED
      BY <3>4, <3>5, <3>6, <3>7, <3>8
  <2>3. QED
    BY <1>1, <2>1, <2>2 DEF ensure_init, InitOver
<1>2. CASE open_backend(t)
  <2>1. CASE Goto(t, "real_table")
    <3>1. "real_table" \in Places
      BY DEF Places, InitStages
    <3>2. /\ thread'[t].at = "real_table" /\ thread'[t].fn = thread[t].fn /\ thread'[t].table = thread[t].table
          /\ Others(t)
          /\ thread' \in [Threads -> [at : Places, fn : Functions \cup {"early_init"},
                                     table : {"null", "real", "wrapper"}, calls : 0 .. MaxCalls]]
      BY <2>1, <3>1, GotoFacts DEF Others
    <3>3. thread[t].at = "backend_lib"
      BY <1>2 DEF open_backend
    <3>4. TypeOK'
      BY <1>2, <3>2 DEF open_backend, TypeOK, Abort
    <3>5. OnceInv'
      BY <1>2, <3>2, <3>3 DEF open_backend, OnceInv, InitStages, Others, Abort, TypeOK, Goto
    <3>6. StagesInv'
      BY <1>2, <3>2, <3>3 DEF open_backend, OnceInv, StagesInv, InitStages, Others, Abort, Goto
    <3>7. DoneInv'
      BY <1>2, <3>2, <3>3 DEF open_backend, OnceInv, StagesInv, DoneInv, InitStages, Others, Abort, Wrapping, Goto
    <3>8. CallInv'
      BY <1>2, <3>2, <3>3 DEF open_backend, OnceInv, CallInv, InitStages, Others, Abort
    <3>9. QED
      BY <3>4, <3>5, <3>6, <3>7, <3>8
  <2>2. CASE Abort
    BY <1>2, <2>2 DEF Abort, TypeOK, OnceInv, StagesInv, DoneInv, CallInv
  <2>3. QED
    BY <1>2, <2>1, <2>2 DEF open_backend, InitOver
<1>3. CASE fill_real_table(t)
  <2>1. CASE Goto(t, "interceptor_lib")
    <3>1. "interceptor_lib" \in Places
      BY DEF Places, InitStages
    <3>2. /\ thread'[t].at = "interceptor_lib" /\ thread'[t].fn = thread[t].fn /\ thread'[t].table = thread[t].table
          /\ Others(t)
          /\ thread' \in [Threads -> [at : Places, fn : Functions \cup {"early_init"},
                                     table : {"null", "real", "wrapper"}, calls : 0 .. MaxCalls]]
      BY <2>1, <3>1, GotoFacts DEF Others
    <3>3. thread[t].at = "real_table"
      BY <1>3 DEF fill_real_table
    <3>4. TypeOK'
      BY <1>3, <3>2 DEF fill_real_table, TypeOK, Abort
    <3>5. OnceInv'
      BY <1>3, <3>2, <3>3 DEF fill_real_table, OnceInv, InitStages, Others, Abort, TypeOK, Goto
    <3>6. StagesInv'
      BY <1>3, <3>2, <3>3 DEF fill_real_table, OnceInv, StagesInv, InitStages, Others, Abort, Goto
    <3>7. DoneInv'
      BY <1>3, <3>2, <3>3 DEF fill_real_table, OnceInv, StagesInv, DoneInv, InitStages, Others, Abort, Wrapping, Goto
    <3>8. CallInv'
      BY <1>3, <3>2, <3>3 DEF fill_real_table, OnceInv, CallInv, InitStages, Others, Abort
    <3>9. QED
      BY <3>4, <3>5, <3>6, <3>7, <3>8
  <2>2. QED
    BY <1>3, <2>1 DEF fill_real_table, InitOver
<1>4. CASE open_interceptor(t)
  <2>1. CASE Goto(t, "dispatch")
    <3>1. "dispatch" \in Places
      BY DEF Places, InitStages
    <3>2. /\ thread'[t].at = "dispatch" /\ thread'[t].fn = thread[t].fn /\ thread'[t].table = thread[t].table
          /\ Others(t)
          /\ thread' \in [Threads -> [at : Places, fn : Functions \cup {"early_init"},
                                     table : {"null", "real", "wrapper"}, calls : 0 .. MaxCalls]]
      BY <2>1, <3>1, GotoFacts DEF Others
    <3>3. thread[t].at = "interceptor_lib"
      BY <1>4 DEF open_interceptor
    <3>4. TypeOK'
      BY <1>4, <3>2 DEF open_interceptor, InitOver, TypeOK, Abort
    <3>5. OnceInv'
      BY <1>4, <3>2, <3>3 DEF open_interceptor, InitOver, OnceInv, InitStages, Others, Abort, TypeOK, Goto
    <3>6. StagesInv'
      BY <1>4, <3>2, <3>3 DEF open_interceptor, InitOver, OnceInv, StagesInv, InitStages, Others, Abort, Goto
    <3>7. DoneInv'
      BY <1>4, <3>2, <3>3 DEF open_interceptor, InitOver, OnceInv, StagesInv, DoneInv, InitStages, Others, Abort, Wrapping, Goto
    <3>8. CallInv'
      BY <1>4, <3>2, <3>3 DEF open_interceptor, InitOver, OnceInv, CallInv, InitStages, Others, Abort
    <3>9. QED
      BY <3>4, <3>5, <3>6, <3>7, <3>8
  <2>2. CASE Goto(t, "interceptor_init")
    <3>1. "interceptor_init" \in Places
      BY DEF Places, InitStages
    <3>2. /\ thread'[t].at = "interceptor_init" /\ thread'[t].fn = thread[t].fn /\ thread'[t].table = thread[t].table
          /\ Others(t)
          /\ thread' \in [Threads -> [at : Places, fn : Functions \cup {"early_init"},
                                     table : {"null", "real", "wrapper"}, calls : 0 .. MaxCalls]]
      BY <2>2, <3>1, GotoFacts DEF Others
    <3>3. thread[t].at = "interceptor_lib"
      BY <1>4 DEF open_interceptor
    <3>4. TypeOK'
      BY <1>4, <3>2 DEF open_interceptor, InitOver, TypeOK, Abort
    <3>5. OnceInv'
      BY <1>4, <3>2, <3>3 DEF open_interceptor, InitOver, OnceInv, InitStages, Others, Abort, TypeOK, Goto
    <3>6. StagesInv'
      BY <1>4, <3>2, <3>3 DEF open_interceptor, InitOver, OnceInv, StagesInv, InitStages, Others, Abort, Goto
    <3>7. DoneInv'
      BY <1>4, <3>2, <3>3 DEF open_interceptor, InitOver, OnceInv, StagesInv, DoneInv, InitStages, Others, Abort, Wrapping, Goto
    <3>8. CallInv'
      BY <1>4, <3>2, <3>3 DEF open_interceptor, InitOver, OnceInv, CallInv, InitStages, Others, Abort
    <3>9. QED
      BY <3>4, <3>5, <3>6, <3>7, <3>8
  <2>3. QED
    BY <1>4, <2>1, <2>2 DEF open_interceptor, InitOver
<1>5. CASE interceptor_init(t)
  <2>1. CASE Goto(t, "interceptor_shutdown")
    <3>1. "interceptor_shutdown" \in Places
      BY DEF Places, InitStages
    <3>2. /\ thread'[t].at = "interceptor_shutdown" /\ thread'[t].fn = thread[t].fn /\ thread'[t].table = thread[t].table
          /\ Others(t)
          /\ thread' \in [Threads -> [at : Places, fn : Functions \cup {"early_init"},
                                     table : {"null", "real", "wrapper"}, calls : 0 .. MaxCalls]]
      BY <2>1, <3>1, GotoFacts DEF Others
    <3>3. thread[t].at = "interceptor_init"
      BY <1>5 DEF interceptor_init
    <3>4. TypeOK'
      BY <1>5, <3>2 DEF interceptor_init, TypeOK, Abort
    <3>5. OnceInv'
      BY <1>5, <3>2, <3>3 DEF interceptor_init, OnceInv, InitStages, Others, Abort, TypeOK, Goto
    <3>6. StagesInv'
      BY <1>5, <3>2, <3>3 DEF interceptor_init, OnceInv, StagesInv, InitStages, Others, Abort, Goto
    <3>7. DoneInv'
      BY <1>5, <3>2, <3>3 DEF interceptor_init, OnceInv, StagesInv, DoneInv, InitStages, Others, Abort, Wrapping, Goto
    <3>8. CallInv'
      BY <1>5, <3>2, <3>3 DEF interceptor_init, OnceInv, CallInv, InitStages, Others, Abort
    <3>9. QED
      BY <3>4, <3>5, <3>6, <3>7, <3>8
  <2>2. QED
    BY <1>5, <2>1 DEF interceptor_init, InitOver
<1>6. CASE find_shutdown(t)
  <2>1. CASE Goto(t, "dispatch")
    <3>1. "dispatch" \in Places
      BY DEF Places, InitStages
    <3>2. /\ thread'[t].at = "dispatch" /\ thread'[t].fn = thread[t].fn /\ thread'[t].table = thread[t].table
          /\ Others(t)
          /\ thread' \in [Threads -> [at : Places, fn : Functions \cup {"early_init"},
                                     table : {"null", "real", "wrapper"}, calls : 0 .. MaxCalls]]
      BY <2>1, <3>1, GotoFacts DEF Others
    <3>3. thread[t].at = "interceptor_shutdown"
      BY <1>6 DEF find_shutdown
    <3>4. TypeOK'
      BY <1>6, <3>2 DEF find_shutdown, InitOver, TypeOK, Abort
    <3>5. OnceInv'
      BY <1>6, <3>2, <3>3 DEF find_shutdown, InitOver, OnceInv, InitStages, Others, Abort, TypeOK, Goto
    <3>6. StagesInv'
      BY <1>6, <3>2, <3>3 DEF find_shutdown, InitOver, OnceInv, StagesInv, InitStages, Others, Abort, Goto
    <3>7. DoneInv'
      BY <1>6, <3>2, <3>3 DEF find_shutdown, InitOver, OnceInv, StagesInv, DoneInv, InitStages, Others, Abort, Wrapping, Goto
    <3>8. CallInv'
      BY <1>6, <3>2, <3>3 DEF find_shutdown, InitOver, OnceInv, CallInv, InitStages, Others, Abort
    <3>9. QED
      BY <3>4, <3>5, <3>6, <3>7, <3>8
  <2>2. QED
    BY <1>6, <2>1 DEF find_shutdown, InitOver
<1>7. QED
  BY <1>1, <1>2, <1>3, <1>4, <1>5, <1>6

\* A step of a thread that is past the Once, or outside of a call, and changes no
\* global: it is enough that it fits where it goes.
LEMMA PlainStep ==
    ASSUME IInv, NEW t \in Threads, UNCHANGED <<env, INIT, globals, mapped, process>>,
           Others(t), thread[t].at \notin InitStages,
           INIT # "done" => thread'[t].at \in {"idle", "ensure_init"},
           thread'[t].at \notin InitStages \cup {"fini"},
           thread'[t].at \in {"dlclose", "gone"} => process # "running",
           thread'[t].at = "slot" => thread'[t].table = FinalTable,
           thread'[t].at \in {"wrapper", "wrapped_real", "unwind"} => Wraps,
           thread'[t].at = "real" /\ Wraps => thread'[t].fn \notin Wrapped
    PROVE  OnceInv' /\ StagesInv' /\ DoneInv' /\ CallInv'
<1> USE DEF IInv, Others, globals
<1>1. OnceInv'
  BY DEF OnceInv
<1>2. StagesInv'
  <2>1. thread'[t].at \notin {"real_table", "interceptor_lib", "interceptor_init",
                             "interceptor_shutdown"}
    BY DEF InitStages
  <2>2. QED
    BY <2>1 DEF StagesInv, FinalTable, Wraps
<1>3. DoneInv'
  BY DEF DoneInv, FinalTable, Wraps
<1>4. CallInv'
  BY DEF CallInv, FinalTable, Wraps
<1>5. QED
  BY <1>1, <1>2, <1>3, <1>4

\* A thread past the Once finds it done.
LEMMA PastOnce ==
    ASSUME IInv, NEW t \in Threads,
           thread[t].at \notin {"idle", "ensure_init"} \cup InitStages
    PROVE  INIT = "done" /\ G_ACTIVE_TABLE = FinalTable
BY DEF IInv, OnceInv, DoneInv

\* Calls, forwarding and returns.
LEMMA CallSteps ==
    ASSUME IInv, NEW t \in Threads,
           \/ \E f \in Functions \cup {"early_init"} : Call(t, f)
           \/ active(t) \/ direct_export(t) \/ early_init(t) \/ fwd(t) \/ wrap(t)
           \/ RealReturns(t) \/ WrappedRealReturns(t) \/ wrap_return(t)
    PROVE  IInv'
<1> USE DEF At
<1>1. ASSUME NEW f \in Functions \cup {"early_init"}, Call(t, f)
      PROVE  IInv'
  <2>1. /\ thread'[t].at = "ensure_init"
        /\ Others(t)
    BY <1>1 DEF Call, Others, IInv, TypeOK
  <2>2. TypeOK'
    <3> DEFINE Thread == [at : Places, fn : Functions \cup {"early_init"},
                          table : {Null, "real", "wrapper"}, calls : 0 .. MaxCalls]
               r == [thread[t] EXCEPT !.at = "ensure_init", !.fn = f, !.calls = thread[t].calls + 1]
    <3>1. "ensure_init" \in Places
      BY DEF Places
    <3>2. thread \in [Threads -> Thread]
      BY DEF IInv, TypeOK
    <3>3. thread[t].calls < MaxCalls /\ thread' = [thread EXCEPT ![t] = r]
      BY <1>1 DEF Call
    <3>4. thread[t].calls + 1 \in 0 .. MaxCalls
      <4>1. thread[t].calls \in 0 .. MaxCalls
        BY <3>2
      <4>2. QED
        BY <3>3, <4>1, InterceptConstants
    <3>5. r \in Thread
      BY <3>1, <3>2, <3>4
    <3>6. thread' \in [Threads -> Thread]
      <4> HIDE DEF r, Thread
      <4>1. QED
        BY <3>2, <3>3, <3>5
    <3>7. UNCHANGED <<env, INIT, globals, mapped, guard, process>>
      BY <1>1 DEF Call
    <3>8. QED
      BY <3>6, <3>7 DEF IInv, TypeOK, globals
  <2>3. OnceInv' /\ StagesInv' /\ DoneInv' /\ CallInv'
    BY <1>1, <2>1, PlainStep DEF Call, InitStages
  <2>4. QED
    BY <2>2, <2>3 DEF IInv
<1>2. CASE active(t)
  <2>1. /\ thread[t].at = "dispatch"
        /\ thread'[t].at = "slot" /\ thread'[t].table = G_ACTIVE_TABLE
        /\ Others(t)
    BY <1>2 DEF active, Others, IInv, TypeOK
  <2>2. TypeOK'
    <3> DEFINE Thread == [at : Places, fn : Functions \cup {"early_init"},
                          table : {Null, "real", "wrapper"}, calls : 0 .. MaxCalls]
               r == [thread[t] EXCEPT !.at = "slot", !.table = G_ACTIVE_TABLE]
    <3>1. "slot" \in Places
      BY DEF Places
    <3>2. thread \in [Threads -> Thread] /\ G_ACTIVE_TABLE \in {Null, "real", "wrapper"}
      BY DEF IInv, TypeOK
    <3>3. thread' = [thread EXCEPT ![t] = r]
      BY <1>2 DEF active
    <3>4. r \in Thread
      BY <3>1, <3>2
    <3>5. thread' \in [Threads -> Thread]
      <4> HIDE DEF r, Thread
      <4>1. QED
        BY <3>2, <3>3, <3>4
    <3>6. UNCHANGED <<env, INIT, globals, mapped, guard, process>>
      BY <1>2 DEF active
    <3>7. QED
      BY <3>5, <3>6 DEF IInv, TypeOK, globals
  <2>3. OnceInv' /\ StagesInv' /\ DoneInv' /\ CallInv'
    BY <1>2, <2>1, PlainStep, PastOnce DEF active, InitStages
  <2>4. QED
    BY <2>2, <2>3 DEF IInv
<1>3. ASSUME NEW place \in {"idle", "real", "wrapper", "wrapped_real", "unwind"}, Goto(t, place),
             UNCHANGED <<env, INIT, globals, mapped, process>>,
             guard' \in Threads \cup {NoThread},
             thread[t].at \notin {"idle", "ensure_init"} \cup InitStages,
             place \in {"wrapper", "wrapped_real", "unwind"} => Wraps,
             place = "real" /\ Wraps => thread[t].fn \notin Wrapped
      PROVE  IInv'
  <2>1. place \in Places
    BY DEF Places
  <2>2. /\ thread'[t].at = place /\ thread'[t].fn = thread[t].fn
        /\ Others(t)
        /\ thread' \in [Threads -> [at : Places, fn : Functions \cup {"early_init"},
                                    table : {Null, "real", "wrapper"}, calls : 0 .. MaxCalls]]
    BY <1>3, <2>1, GotoFacts DEF Others, IInv
  <2>3. TypeOK'
    BY <1>3, <2>2 DEF IInv, TypeOK, globals
  <2>4. INIT = "done" /\ thread[t].at \notin InitStages
    BY <1>3, PastOnce
  <2>5. place \notin InitStages \cup {"fini", "dlclose", "gone", "slot"}
    BY DEF InitStages
  <2>6. OnceInv' /\ StagesInv' /\ DoneInv' /\ CallInv'
    BY <1>3, <2>2, <2>4, <2>5, PlainStep
  <2>7. QED
    BY <2>3, <2>6 DEF IInv
<1>4. guard \in Threads \cup {NoThread}
  BY DEF IInv, TypeOK
<1>5. CASE direct_export(t)
  <2>1. thread[t].fn \notin Wrapped
    BY <1>5, InterceptConstants DEF direct_export
  <2>2. QED
    BY <1>3, <1>4, <1>5, <2>1 DEF direct_export, InitStages
<1>6. CASE early_init(t)
  BY <1>3, <1>4, <1>6 DEF early_init, InitStages
<1>7. CASE fwd(t)
  <2>1. thread[t].table = FinalTable /\ thread[t].at = "slot"
    BY <1>7 DEF fwd, IInv, CallInv
  <2>2. QED
    BY <1>3, <1>4, <1>7, <2>1 DEF fwd, InitStages, FinalTable
<1>8. CASE wrap(t)
  <2>1. thread[t].at = "wrapper" /\ Wraps
    BY <1>8 DEF wrap, IInv, CallInv
  <2>2. CASE Abort
    BY <2>2 DEF Abort, IInv, TypeOK, OnceInv, StagesInv, DoneInv, CallInv, FinalTable, Wraps, globals
  <2>3. CASE ~Abort
    BY <1>3, <1>4, <1>8, <2>1, <2>3 DEF wrap, InitStages
  <2>4. QED
    BY <2>2, <2>3
<1>9. CASE RealReturns(t)
  BY <1>3, <1>4, <1>9 DEF RealReturns, InitStages
<1>10. CASE WrappedRealReturns(t)
  <2>1. Wraps
    BY <1>10 DEF WrappedRealReturns, IInv, CallInv
  <2>2. QED
    BY <1>3, <1>4, <1>10, <2>1 DEF WrappedRealReturns, InitStages
<1>11. CASE wrap_return(t)
  BY <1>3, <1>4, <1>11 DEF wrap_return, InitStages
<1>12. QED
  BY <1>1, <1>2, <1>5, <1>6, <1>7, <1>8, <1>9, <1>10, <1>11

\* Exit and crashes: once the process exits nothing is promised of what is mapped.
LEMMA ExitSteps ==
    ASSUME IInv, NEW t \in Threads,
           Exit(t) \/ Crash(t) \/ fini_shutdown(t) \/ fini_dlclose(t) \/ ProcessEnds(t)
    PROVE  IInv'
<1> USE DEF At, IInv, Wraps, FinalTable, globals
<1>1. CASE Crash(t)
  BY <1>1 DEF Crash, Abort, TypeOK, OnceInv, StagesInv, DoneInv, CallInv
<1>2. CASE ProcessEnds(t)
  BY <1>2 DEF ProcessEnds, TypeOK, OnceInv, StagesInv, DoneInv, CallInv
<1>3. ASSUME NEW place \in {"fini", "dlclose", "gone"}, Goto(t, place), INIT = "done",
             process' \in {"exiting", "ended", "aborted"}, mapped' \subseteq mapped,
             UNCHANGED <<env, INIT, globals, guard>>
      PROVE  IInv'
  <2>1. place \in Places
    BY DEF Places
  <2>2. /\ thread'[t].at = place
        /\ Others(t)
        /\ thread' \in [Threads -> [at : Places, fn : Functions \cup {"early_init"},
                                    table : {Null, "real", "wrapper"}, calls : 0 .. MaxCalls]]
    BY <1>3, <2>1, GotoFacts DEF Others
  <2>3. TypeOK'
    BY <1>3, <2>2 DEF TypeOK
  <2>4. OnceInv'
    BY <1>3, <2>2 DEF OnceInv, InitStages, Others
  <2>5. StagesInv'
    BY <1>3, <2>2 DEF OnceInv, StagesInv, InitStages, Others
  <2>6. DoneInv' /\ CallInv'
    BY <1>3, <2>2 DEF DoneInv, CallInv, Others
  <2>7. QED
    BY <2>3, <2>4, <2>5, <2>6
<1>4. CASE Exit(t)
  BY <1>3, <1>4 DEF Exit
<1>5. ASSUME thread[t].at \in {"fini", "dlclose"}, process \in {"running", "exiting"}
      PROVE  INIT = "done" /\ process = "exiting"
  BY <1>5 DEF OnceInv, InitStages
<1>6. CASE fini_shutdown(t)
  BY <1>3, <1>5, <1>6 DEF fini_shutdown, Alive
<1>7. CASE fini_dlclose(t)
  BY <1>3, <1>5, <1>7 DEF fini_dlclose, Alive
<1>8. QED
  BY <1>1, <1>2, <1>4, <1>6, <1>7

\* Every step of every thread keeps the invariant.
LEMMA NextIInv == IInv /\ [Next]_vars => IInv'
<1> SUFFICES ASSUME IInv, [Next]_vars PROVE IInv'
  OBVIOUS
<1>1. CASE UNCHANGED vars
  BY <1>1 DEF vars, globals, IInv, TypeOK, OnceInv, StagesInv, DoneInv, CallInv, FinalTable, Wraps
<1>2. CASE Next
  <2>1. PICK t \in Threads :
           \/ \E f \in Functions \cup {"early_init"} : Call(t, f)
           \/ Exit(t) \/ Crash(t) \/ Step(t)
    BY <1>2 DEF Next
  <2>2. QED
    BY <2>1, InitSteps, CallSteps, ExitSteps DEF Step
<1>3. QED
  BY <1>1, <1>2

\* IInv is an invariant of the passthrough.
THEOREM Invariance == Spec => []IInv
BY InitIInv, NextIInv, PTL DEF Spec

\* The globals and the threads keep their types, for any number of threads and
\* functions and every interceptor.
THEOREM TypeCorrect == Spec => []TypeOK
<1>1. IInv => TypeOK
  BY DEF IInv
<1>2. QED
  BY <1>1, Invariance, PTL

\* No call slips past the interceptor, however many threads race for the Once:
\* the table they load is the one intercept_init ended with, which wraps.
THEOREM NoCallSlipsPast == Spec => []InterceptorSeesCalls
<1>1. IInv => InterceptorSeesCalls
  BY DEF IInv, CallInv, InterceptorSeesCalls, Wraps
<1>2. QED
  BY <1>1, Invariance, PTL

\* Until exit, no thread reads a null table or runs code that is not mapped.
THEOREM OnlyMappedUsed == Spec => []UsesMapped
<1>1. IInv => UsesMapped
  <2> SUFFICES ASSUME IInv, process = "running", NEW t \in Threads
               PROVE  Needs(t) \subseteq mapped
    BY DEF UsesMapped
  <2>1. CASE thread[t].at \in {"slot", "wrapper", "wrapped_real", "unwind", "real"}
    <3>1. INIT = "done"
      BY <2>1 DEF IInv, OnceInv, InitStages
    <3>2. "backend" \in mapped /\ "real" \in mapped /\ FinalTable \in mapped
      BY <3>1 DEF IInv, DoneInv
    <3>3. Wraps => "interceptor" \in mapped
      BY <3>1 DEF IInv, DoneInv
    <3>4. QED
      BY <2>1, <3>2, <3>3 DEF Needs, IInv, CallInv
  <2>2. CASE thread[t].at \notin {"slot", "wrapper", "wrapped_real", "unwind", "real"}
    BY <2>2 DEF Needs
  <2>3. QED
    BY <2>1, <2>2
<1>2. QED
  BY <1>1, Invariance, PTL

\* Once the Once is done nobody initializes again and the globals, which the two
\* table accessors hand out, never change.
THEOREM TablesFinal == Spec => GlobalsFixed
<1>1. ASSUME IInv, [Next]_vars
      PROVE  [INIT = "done" => /\ INIT' = "done"
                               /\ UNCHANGED globals
                               /\ \A t \in Threads : thread'[t].at \notin InitStages]_vars
  <2>1. CASE UNCHANGED vars
    BY <2>1
  <2>2. ASSUME Next, INIT = "done"
        PROVE  INIT' = "done" /\ UNCHANGED globals
    <3>1. \A t \in Threads : thread[t].at \notin InitStages
      BY <2>2, <1>1 DEF IInv, OnceInv
    <3>2. PICK t \in Threads :
             \/ \E f \in Functions \cup {"early_init"} : Call(t, f)
             \/ Exit(t) \/ Crash(t) \/ Step(t)
      BY <2>2 DEF Next
    <3>3. CASE ensure_init(t)
      BY <2>2, <3>3 DEF ensure_init
    <3>4. ~(\/ open_backend(t) \/ fill_real_table(t) \/ open_interceptor(t)
            \/ interceptor_init(t) \/ find_shutdown(t))
      BY <3>1 DEF At, InitStages, open_backend, fill_real_table, open_interceptor,
                  interceptor_init, find_shutdown
    <3>5. QED
      BY <2>2, <3>2, <3>3, <3>4 DEF Step, Call, Exit, Crash, Abort, active, direct_export,
         early_init, fwd, wrap, RealReturns, WrappedRealReturns, wrap_return, fini_shutdown,
         fini_dlclose, ProcessEnds
  <2>3. IInv'
    BY <1>1, NextIInv
  <2>4. QED
    BY <1>1, <2>1, <2>2, <2>3 DEF IInv, OnceInv
<1>2. QED
  BY <1>1, Invariance, PTL DEF Spec, GlobalsFixed

=============================================================================
