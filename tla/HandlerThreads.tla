--------------------------- MODULE HandlerThreads ---------------------------
(***************************************************************************)
(* The threads of eztrace_convert (src/src/core/eztrace_convert_core.c).   *)
(* One handler thread at a time runs the scheduling loop.  A handler that  *)
(* reads several events in a row (wait_for_an_event) and meets an event of *)
(* another thread of the application creates a new handler thread, hands   *)
(* the loop over to it and blocks.                                         *)
(*                                                                         *)
(* The choice of the trace is left open here (EztSched models it), and     *)
(* what a handler does to the output does not matter: only the events it   *)
(* takes.                                                                  *)
(***************************************************************************)
EXTENDS Integers, Sequences, FiniteSets

CONSTANTS Traces,      \* the input files
          Codes,       \* event codes
          Tids,        \* threads of the application
          Handlers,    \* handler threads that may be created
          FirstHandler,  \* the one that main creates
          Workloads    \* the inputs considered: [Traces -> Seq(Event)]

(* "awaits": the codes that the handler of the event asks wait_for_an_event *)
(* for, in order: the info events of a waitall, the one of MPI_Init.       *)
Event == [tid : Tids, code : Codes, awaits : Seq(Codes)]

ASSUME FirstAssumption == FirstHandler \in Handlers
ASSUME TracesAssumption == IsFiniteSet(Traces) /\ Traces # {}
ASSUME InputsAssumption ==
    \A w \in Workloads : w \in [Traces -> Seq(Event)] /\ \A t \in Traces : w[t] # << >>

VARIABLES
    trace,            \* the input files
    pos,              \* index of the current event of each trace
    done,             \* trace_t.done
    nbDone,           \* __handler_info.nb_done
    curTrace,         \* CUR_TRACE, shared by all the handler threads
    mainThreadSem,    \* value of main_thread_sem
    eventsProcessed,  \* value of __handler_info.events_processed
    main,             \* where main() is
    pc,               \* where each handler thread is
    mine,             \* trace of the event that a handler thread handles: its trace_index
    await,            \* the codes that the handler run by a thread still asks for
    taken             \* the indices of the events of each trace that were taken, in order

handlersVars == <<trace, pos, done, nbDone, curTrace, mainThreadSem, eventsProcessed, main, pc,
          mine, await, taken>>

HandlersInit ==
    /\ trace \in Workloads
    /\ pos = [t \in Traces |-> 1]
    /\ done = [t \in Traces |-> FALSE]
    /\ nbDone = 0
    /\ curTrace = CHOOSE t \in Traces : TRUE
    /\ mainThreadSem = 0
    /\ eventsProcessed = 0
    /\ main = "wakeUp"
    /\ pc = [h \in Handlers |-> IF h = FirstHandler THEN "start" ELSE "unborn"]
    /\ mine = [h \in Handlers |-> curTrace]
    /\ await = [h \in Handlers |-> << >>]
    /\ taken = [t \in Traces |-> << >>]

-----------------------------------------------------------------------------
(* main(), once create_main_thread has created the first handler thread *)

MainWakesUp ==
    /\ main = "wakeUp"
    /\ mainThreadSem' = mainThreadSem + 1
    /\ main' = "wait"
    /\ UNCHANGED <<trace, mine, pos, done, nbDone, curTrace, eventsProcessed, pc, await, taken>>

(* sem_wait(events_processed), then the containers are freed. *)
MainFinalizes ==
    /\ main = "wait"
    /\ eventsProcessed > 0
    /\ eventsProcessed' = eventsProcessed - 1
    /\ main' = "finalized"
    /\ UNCHANGED <<trace, mine, pos, done, nbDone, curTrace, mainThreadSem, pc, await, taken>>

-----------------------------------------------------------------------------
(* A handler thread *)

(* Fault: the thread does not wait for the one that hands the loop over. *)
EnterUnasked(h) ==
    /\ pc[h] = "start"
    /\ pc' = [pc EXCEPT ![h] = "loop"]
    /\ UNCHANGED <<trace, mine, pos, done, nbDone, curTrace, mainThreadSem, eventsProcessed, main,
                   await, taken>>

(* wait_for_main_thread, at the start of handle_all_events. *)
EnterLoop(h) ==
    /\ pc[h] = "start"
    /\ mainThreadSem > 0
    /\ mainThreadSem' = mainThreadSem - 1
    /\ pc' = [pc EXCEPT ![h] = "loop"]
    /\ UNCHANGED <<trace, mine, pos, done, nbDone, curTrace, eventsProcessed, main, await, taken>>

(* handle_one_event up to the call of the handler.  The list of expected   *)
(* codes of the thread of the event is looked up first; nothing ever links *)
(* a code into that list, so the event goes to process_one_event.          *)
Dispatch(h) ==
    /\ pc[h] = "loop"
    /\ nbDone < Cardinality(Traces)
    /\ \E t \in Traces :
          /\ ~done[t]
          /\ curTrace' = t
          /\ mine' = [mine EXCEPT ![h] = t]
          /\ await' = [await EXCEPT ![h] = trace[t][pos[t]].awaits]
          /\ taken' = [taken EXCEPT ![t] = Append(@, pos[t])]
    /\ pc' = [pc EXCEPT ![h] = "handle"]
    /\ UNCHANGED <<trace, pos, done, nbDone, mainThreadSem, eventsProcessed, main>>

(* wait_for_an_event at the end of the trace: a warning, and the handler   *)
(* goes on.                                                                *)
AwaitAtEnd(h) ==
    /\ pc[h] = "handle" /\ await[h] # << >>
    /\ pos[curTrace] = Len(trace[curTrace])
    /\ done' = [done EXCEPT ![curTrace] = TRUE]
    /\ await' = [await EXCEPT ![h] = Tail(@)]
    /\ UNCHANGED <<trace, mine, pos, nbDone, curTrace, mainThreadSem, eventsProcessed, main, pc,
                   taken>>

Following == trace[curTrace][pos[curTrace] + 1]

(* Fault: the event is taken but the trace does not step to it. *)
TakenWithoutStep(h) ==
    /\ pc[h] = "handle" /\ await[h] # << >>
    /\ pos[curTrace] < Len(trace[curTrace])
    /\ Following.code = Head(await[h])
    /\ taken' = [taken EXCEPT ![curTrace] = Append(@, pos[curTrace] + 1)]
    /\ await' = [await EXCEPT ![h] = Tail(@)]
    /\ UNCHANGED <<trace, mine, pos, done, nbDone, curTrace, mainThreadSem, eventsProcessed, main, pc>>

(* wait_for_an_event when the next event is the expected one. *)
AwaitFound(h) ==
    /\ pc[h] = "handle" /\ await[h] # << >>
    /\ pos[curTrace] < Len(trace[curTrace])
    /\ Following.code = Head(await[h])
    /\ pos' = [pos EXCEPT ![curTrace] = @ + 1]
    /\ taken' = [taken EXCEPT ![curTrace] = Append(@, pos[curTrace] + 1)]
    /\ await' = [await EXCEPT ![h] = Tail(@)]
    /\ UNCHANGED <<trace, mine, done, nbDone, curTrace, mainThreadSem, eventsProcessed, main, pc>>

(* wait_for_an_event when another event comes first: new_handler_thread.   *)
AwaitOther(h) ==
    /\ pc[h] = "handle" /\ await[h] # << >>
    /\ pos[curTrace] < Len(trace[curTrace])
    /\ Following.code # Head(await[h])
    /\ pos' = [pos EXCEPT ![curTrace] = @ + 1]
    /\ \E g \in Handlers :
          /\ pc[g] = "unborn"
          /\ pc' = [pc EXCEPT ![h] = "handOver", ![g] = "start"]
    /\ UNCHANGED <<trace, mine, done, nbDone, curTrace, mainThreadSem, eventsProcessed, main, await,
                   taken>>

(* wake_up_handler_thread, then sem_wait on a semaphore of its own that no *)
(* other thread can reach: the thread stays there.                         *)
HandOver(h) ==
    /\ pc[h] = "handOver"
    /\ mainThreadSem' = mainThreadSem + 1
    /\ pc' = [pc EXCEPT ![h] = "blocked"]
    /\ UNCHANGED <<trace, mine, pos, done, nbDone, curTrace, eventsProcessed, main, await, taken>>

(* The handler returns and handle_one_event calls next_ev. *)
HandlerReturns(h) ==
    /\ pc[h] = "handle" /\ await[h] = << >>
    /\ IF pos[curTrace] < Len(trace[curTrace])
       THEN pos' = [pos EXCEPT ![curTrace] = @ + 1] /\ UNCHANGED <<done, nbDone>>
       ELSE /\ done' = [done EXCEPT ![curTrace] = TRUE]
            /\ nbDone' = nbDone + 1
            /\ UNCHANGED pos
    /\ pc' = [pc EXCEPT ![h] = "loop"]
    /\ UNCHANGED <<trace, mine, curTrace, mainThreadSem, eventsProcessed, main, await, taken>>

(* Fault: the loop goes on without a trace to handle. *)
LoopSpins(h) == pc[h] = "loop" /\ nbDone >= Cardinality(Traces) /\ UNCHANGED handlersVars

(* The end of handle_all_events. *)
LeaveLoop(h) ==
    /\ pc[h] = "loop"
    /\ nbDone >= Cardinality(Traces)
    /\ eventsProcessed' = eventsProcessed + 1
    /\ pc' = [pc EXCEPT ![h] = "ended"]
    /\ UNCHANGED <<trace, mine, pos, done, nbDone, curTrace, mainThreadSem, main, await, taken>>

-----------------------------------------------------------------------------
MainStep == MainWakesUp \/ MainFinalizes

HandlerStep(h) ==
    \/ EnterLoop(h) \/ Dispatch(h) \/ LeaveLoop(h)
    \/ AwaitAtEnd(h) \/ AwaitFound(h) \/ AwaitOther(h)
    \/ HandOver(h) \/ HandlerReturns(h)

HandlersTerminated == main = "finalized" /\ UNCHANGED handlersVars

HandlersNext ==
    \/ MainStep
    \/ \E h \in Handlers : HandlerStep(h)
    \/ HandlersTerminated

HandlersSpec == HandlersInit /\ [][HandlersNext]_handlersVars

(* The kernel runs every thread that is not blocked on a semaphore. *)
HandlersFairSpec ==
    /\ HandlersSpec
    /\ WF_handlersVars(MainStep)
    /\ \A h \in Handlers : WF_handlersVars(HandlerStep(h))

-----------------------------------------------------------------------------
(* Properties *)

(* Every variable holds a value of the kind the code gives it. *)
TypeOK ==
    /\ trace \in Workloads
    /\ pos \in [Traces -> Nat \ {0}]
    /\ \A t \in Traces : pos[t] <= Len(trace[t])
    /\ done \in [Traces -> BOOLEAN]
    /\ nbDone \in Nat
    /\ curTrace \in Traces
    /\ mainThreadSem \in Nat
    /\ eventsProcessed \in Nat
    /\ main \in {"wakeUp", "wait", "finalized"}
    /\ pc \in [Handlers -> {"unborn", "start", "loop", "handle", "handOver", "blocked", "ended"}]
    /\ mine \in [Handlers -> Traces]
    /\ await \in [Handlers -> Seq(Codes)]
    /\ taken \in [Traces -> Seq(Nat)]

(* The threads that may touch CUR_TRACE, CUR_EV and the traces, which no   *)
(* lock protects.                                                          *)
Active(h) == pc[h] \in {"loop", "handle", "handOver"}

(* "In most cases, only one thread is run": the handover by the semaphore  *)
(* never leaves two threads with the unprotected state of the scheduler,   *)
(* and main frees the containers when none is left (eztrace_convert_core.h). *)
OneHandler ==
    /\ \A g, h \in Handlers : Active(g) /\ Active(h) => g = h
    /\ main = "finalized" => \A h \in Handlers : ~Active(h)

(* Whichever thread takes it, every event of a trace is taken once and in  *)
(* the order of the trace, across the handovers.                           *)
TakenInOrder ==
    \A t \in Traces :
        /\ \A i \in DOMAIN taken[t] : taken[t][i] = i
        /\ main = "finalized" => Len(taken[t]) = Len(trace[t])

(* The conversion ends although handlers may still be blocked. *)
ConversionEnds == <>(main = "finalized")

=============================================================================
