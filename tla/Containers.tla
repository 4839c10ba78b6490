----------------------------- MODULE Containers -----------------------------
(***************************************************************************)
(* The containers of the threads of one process: how the recorder tells    *)
(* that a thread begins, ends and joins another (pthread_create,           *)
(* pthread_join and pthread_exit in src/src/core/pthread_core.c) and what  *)
(* the converter makes of these events (add_pthread, new_thread,           *)
(* handle_end_thread, handle_start_thread_join and process_one_event in    *)
(* src/src/core/eztrace_convert_core.c, DECLARE_CUR_THREAD in              *)
(* eztrace_convert_macros.h, handle_mpi_init in the MPI module).           *)
(*                                                                         *)
(* An event names its thread by pthread_self, which the system gives again *)
(* to another thread once the first was joined.  The converter keeps the   *)
(* thread by an int, so that two threads may have the same.  The events    *)
(* of a process are read in the order of their recording, so that each is  *)
(* handled in the step that records it.                                    *)
(***************************************************************************)
EXTENDS Naturals, Sequences, FiniteSets

CONSTANTS
    Threads,    \* the threads that the process can create
    Main,       \* the one it starts with
    Ids,        \* values of pthread_self, as numbers other than 0
    Width,      \* number of values of an int (2^32)
    MaxWork     \* bound on the events that are neither creations nor joins

ASSUME ThreadsAssumption == Main \in Threads /\ Ids \subseteq Nat \ {0} /\ Ids # {}
ASSUME WidthAssumption == Width \in Nat \ {0}

VARIABLES
    phase,      \* what each thread does
    id,         \* its pthread_self, which stays when it is over (history)
    target,     \* the thread that it joins
    joined,     \* the threads that were joined
    work,       \* the number of the other events
    inited,     \* whether the process has called MPI_Init
    started,    \* trace_t.start: false until MPI_Init when there are several traces
    children,   \* root_container.children: the containers of the threads
    caught,     \* the tids that were in a join when the trace started (history)
    clashed,    \* the tids that two threads at work had at once (history)
    late        \* a destroyed container was given a state or destroyed again (history)

app == <<phase, id, target, joined, work, inited>>
containersVars == <<app, started, children, caught, clashed, late>>

Nobody == "nobody"

-----------------------------------------------------------------------------
(* The converter *)

(* Fault: the id is cut to less than an int. *)
NarrowTid(t) == id[t] % (Width \div 2)

(* What the converter knows a thread by: pthread_self, recorded on 64      *)
(* bits, is cut by the int parameters of add_pthread and of                *)
(* get_thread_cont_from_id.                                                *)
Tid(t) == id[t] % Width

(* get_thread_cont_from_id: the first container whose thread has this tid. *)
Matching(c, i) == {n \in DOMAIN c : c[n].tid = i}
First(c, i) == CHOOSE n \in Matching(c, i) : \A m \in Matching(c, i) : n <= m

(* add_pthread, with the container and the state that new_thread puts in   *)
(* the output.                                                             *)
AddPthread(c, i) == Append(c, [tid |-> i, destroyed |-> FALSE, states |-> <<"Working">>])

NewThread(c, i, start) == IF start THEN AddPthread(c, i) ELSE c

(* DECLARE_CUR_THREAD, in __handle_event_generic: any event of a thread    *)
(* that has no container makes it have one, if the trace has started.      *)
DeclareCurThread(c, i, start) == IF Matching(c, i) = {} THEN NewThread(c, i, start) ELSE c

IsDestroyed(c, i) == Matching(c, i) # {} /\ c[First(c, i)].destroyed

WithStates(c, i, states) == [c EXCEPT ![First(c, i)].states = states]

(* Fault: the state replaces the current one. *)
SetInstead(c, i) ==
    IF Matching(c, i) = {} THEN c ELSE WithStates(c, i, <<"Blocked">>)

(* CHANGE() pushState and popState, for the thread of the event.           *)
PushState(c, i) ==
    IF Matching(c, i) = {} THEN c
    ELSE WithStates(c, i, c[First(c, i)].states \o <<"Blocked">>)
PopState(c, i) ==
    IF Matching(c, i) = {} \/ c[First(c, i)].states = << >> THEN c
    ELSE WithStates(c, i, LET s == c[First(c, i)].states IN SubSeq(s, 1, Len(s) - 1))

(* destroyContainer: the structure stays in the array of the children.     *)
Destroyed(c, i) ==
    IF Matching(c, i) = {} THEN c ELSE [c EXCEPT ![First(c, i)].destroyed = TRUE]

-----------------------------------------------------------------------------
ContainersInit ==
    /\ \E i \in Ids : id = [t \in Threads |-> IF t = Main THEN i ELSE 0]
    /\ phase = [t \in Threads |-> IF t = Main THEN "running" ELSE "none"]
    /\ target = [t \in Threads |-> Nobody]
    /\ joined = {} /\ work = 0 /\ inited = FALSE
    /\ started \in BOOLEAN
    /\ children = << >> /\ caught = {} /\ clashed = {} /\ late = FALSE

Running(t) == phase[t] = "running"
(* Two values of pthread_self that are the same int. *)
SameInt(i, j) == i % Width = j % Width

AtWork(t) == phase[t] \in {"created", "running", "joining"}
Free(i) == \A t \in Threads : id[t] = i => t \in joined

(* The call of pthread_create records nothing: the new thread does.        *)
PthreadCreate(t) ==
    /\ Running(t)
    /\ \E u \in Threads, i \in Ids :
          /\ phase[u] = "none" /\ Free(i)
          /\ phase' = [phase EXCEPT ![u] = "created"]
          /\ id' = [id EXCEPT ![u] = i]
          /\ clashed' = clashed \cup {Tid(v) : v \in {v \in Threads : AtWork(v) /\ SameInt(id[v], i)}}
    /\ UNCHANGED <<target, joined, work, inited, started, children, caught, late>>

(* FUT_NEW_THREAD, "already processed by the main thread, we can ignore    *)
(* this event": what is done for any event is enough.                      *)
NewThreadEvent(t) ==
    /\ phase[t] = "created"
    /\ phase' = [phase EXCEPT ![t] = "running"]
    /\ children' = DeclareCurThread(children, Tid(t), started)
    /\ UNCHANGED <<id, target, joined, work, inited, started, caught, clashed, late>>

(* Any event whose handler changes the state of its thread for a while.    *)
OtherEvent(t) ==
    /\ Running(t) /\ work < MaxWork
    /\ work' = work + 1
    /\ children' = DeclareCurThread(children, Tid(t), started)
    /\ late' = (late \/ (started /\ IsDestroyed(children, Tid(t))))
    /\ UNCHANGED <<phase, id, target, joined, inited, started, caught, clashed>>

(* pthread_join: FUT_START_THREAD_JOIN before and FUT_STOP_THREAD_JOIN     *)
(* after the call.  (The programs do not make threads wait in a ring.)     *)
StartJoin(t) ==
    /\ Running(t)
    /\ \E u \in Threads \ (joined \cup {t}) :
          /\ phase[u] \notin {"none", "joining"} /\ u # Main
          /\ \A v \in Threads : target[v] # u
          /\ target' = [target EXCEPT ![t] = u]
    /\ phase' = [phase EXCEPT ![t] = "joining"]
    /\ \E c \in {DeclareCurThread(children, Tid(t), started)} :
          children' = IF started THEN PushState(c, Tid(t)) ELSE c
    /\ late' = (late \/ (started /\ IsDestroyed(children, Tid(t))))
    /\ UNCHANGED <<id, joined, work, inited, started, caught, clashed>>

StopJoin(t) ==
    /\ phase[t] = "joining" /\ phase[target[t]] = "over"
    /\ phase' = [phase EXCEPT ![t] = "running"]
    /\ joined' = joined \cup {target[t]}
    /\ target' = [target EXCEPT ![t] = Nobody]
    /\ \E c \in {DeclareCurThread(children, Tid(t), started)} :
          children' = IF started THEN PopState(c, Tid(t)) ELSE c
    /\ late' = (late \/ (started /\ IsDestroyed(children, Tid(t))))
    /\ UNCHANGED <<id, work, inited, started, caught, clashed>>

(* The function of the thread returns: FUT_END_THREAD.                     *)
EndThread(t) ==
    /\ Running(t) /\ t # Main
    /\ phase' = [phase EXCEPT ![t] = "over"]
    /\ children' = Destroyed(DeclareCurThread(children, Tid(t), started), Tid(t))
    /\ late' = (late \/ IsDestroyed(children, Tid(t)))
    /\ UNCHANGED <<id, target, joined, work, inited, started, caught, clashed>>

(* pthread_exit (or a cancellation) does not come back to the wrapper: no  *)
(* event is recorded.                                                      *)
PthreadExit(t) ==
    /\ Running(t) /\ t # Main
    /\ phase' = [phase EXCEPT ![t] = "over"]
    /\ UNCHANGED <<id, target, joined, work, inited, started, children, caught, clashed, late>>

(* Fault: MPI_Init makes a container without looking for one.              *)
InitAlwaysNew(c, i) == NewThread(c, i, TRUE)

(* What handle_mpi_init does to the containers: when the trace was started *)
(* already (it is alone), the thread has its own since its first event.    *)
InitContainers(c, i) ==
    IF started THEN DeclareCurThread(c, i, TRUE) ELSE NewThread(c, i, TRUE)

(* A thread calls MPI_Init, once.                                          *)
MpiInit(t) ==
    /\ Running(t) /\ ~inited
    /\ inited' = TRUE /\ started' = TRUE
    /\ children' = InitContainers(children, Tid(t))
    /\ caught' = IF started THEN caught ELSE {Tid(u) : u \in {u \in Threads : phase[u] = "joining"}}
    /\ UNCHANGED <<phase, id, target, joined, work, clashed, late>>

(* The process ends when its main thread does, whatever the others do.     *)
Exited == Running(Main) /\ UNCHANGED containersVars

ContainersNext ==
    \/ \E t \in Threads :
          \/ PthreadCreate(t) \/ NewThreadEvent(t) \/ OtherEvent(t)
          \/ StartJoin(t) \/ StopJoin(t)
          \/ EndThread(t) \/ PthreadExit(t) \/ MpiInit(t)
    \/ Exited

ContainersSpec == ContainersInit /\ [][ContainersNext]_containersVars

-----------------------------------------------------------------------------
(* Properties *)

(* A thread never has two containers, though they are made on the way, by  *)
(* its first event after the start of the trace or by MPI_Init.            *)
OneContainer == \A m, n \in DOMAIN children : children[m].tid = children[n].tid => m = n

(* The states of a container follow its thread: one state while it works,  *)
(* two while it waits for another thread, whatever thread had the id, or   *)
(* the same int, before.  (Not for a thread whose join had begun when      *)
(* another thread called MPI_Init: its end pops the first state.  Nor for  *)
(* threads that had the same int at the same time: they share one.)        *)
StatesFollow ==
    \A t \in Threads :
        phase[t] \in {"running", "joining"} /\ Tid(t) \notin caught \cup clashed =>
            \A n \in Matching(children, Tid(t)) :
                children[n].states = IF phase[t] = "joining" THEN <<"Working", "Blocked">>
                                     ELSE <<"Working">>

(* A container that was destroyed is given no state, nor destroyed again,  *)
(* unless two threads have had ids that are the same int: one id that the  *)
(* system gave again, or two ids that differ in their high bits only.      *)
SameTid(t, u) == id[t] # 0 /\ id[u] # 0 /\ SameInt(id[t], id[u])
DestroyedIsLast == late => \E t, u \in Threads : t # u /\ SameTid(t, u)

(* "this thread won't be used anymore" (process_one_event, of the end of a *)
(* thread): after it, nothing is put in the container of the thread.       *)
NotUsedAnymore == ~late

=============================================================================
