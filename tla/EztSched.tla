------------------------------ MODULE EztSched ------------------------------
(***************************************************************************)
(* The event scheduler of eztrace_convert (src/src/core/                   *)
(* eztrace_convert_core.c): it merges the traces of the processes of an    *)
(* MPI application, one event at a time, into one output trace.            *)
(*                                                                         *)
(* The handlers that the scheduler calls are seen from the scheduler: an   *)
(* event may post keys (a send or the entry into a collective starts), may *)
(* need keys (a receive or a collective cannot end before they are         *)
(* posted), may start its trace, and may be followed in its trace by       *)
(* "info" events that its handler consumes itself (wait_for_an_event).     *)
(***************************************************************************)
EXTENDS Integers, Sequences, FiniteSets

CONSTANTS NbTraces,    \* NB_TRACES, the number of input files
          Keys,        \* what a handler may wait for: messages and collectives
          Workloads    \* the inputs considered: [Traces -> Seq(Event)]

Traces == 0 .. NbTraces - 1

Codes == {"plain", "info", "init", "spawn", "spawned", "post", "need", "waitall"}

(* An event of an input trace. "n" is the number of info events of a       *)
(* waitall and the number of children of a spawn, "ppid" names the process *)
(* that spawns or that has spawned the trace.                              *)
Event == [code : Codes, time : Nat, posts : SUBSET Keys, needs : SUBSET Keys,
          n : Nat, ppid : Nat]

Starters == {"init", "spawned"}

(* What the recorder guarantees of a trace: it has an event, the times do  *)
(* not decrease, the info events of a waitall follow it, MPI_Init follows  *)
(* the event of a spawned process.  The ends of receives and collectives   *)
(* and the requests of a waitall are what may have to wait.                *)
Complete(evs) ==
    /\ evs # << >>
    /\ \A i, j \in DOMAIN evs : i <= j => evs[i].time <= evs[j].time
    /\ \A i \in DOMAIN evs : evs[i].posts # {} => evs[i].code = "post"
    /\ \A i \in DOMAIN evs : evs[i].needs # {} => evs[i].code \in {"need", "info"}
    /\ \A i \in DOMAIN evs : evs[i].code = "waitall" =>
           /\ i + evs[i].n \in DOMAIN evs
           /\ \A j \in i + 1 .. i + evs[i].n : evs[j].code = "info"
    /\ \A i \in DOMAIN evs : evs[i].code = "info" /\ evs[i].needs # {} =>
           \E w \in 1 .. i - 1 : evs[w].code = "waitall" /\ i <= w + evs[w].n
    /\ \A i \in DOMAIN evs : evs[i].code = "spawned" =>
           i + 2 \in DOMAIN evs /\ evs[i + 1].code = "init" /\ evs[i + 2].code = "info"
    /\ \A i \in DOMAIN evs : evs[i].code = "init" /\ i + 1 \in DOMAIN evs =>
           evs[i + 1].code = "info" /\ evs[i + 1].needs = {}

ASSUME NbTracesAssumption == NbTraces \in Nat \ {0}
ASSUME WorkloadsAssumption ==
    \A w \in Workloads : w \in [Traces -> Seq(Event)] /\ \A t \in Traces : Complete(w[t])

NotShown == -1      \* the CHANGE macro drops the output of a trace that has not started
NotPosted == -1
NoReplay == [n |-> 0, i |-> 0, needs |-> {}]

VARIABLES
    trace,      \* the input files
    pos,        \* index of trace_t.ev, the current event of each trace
    start,      \* trace_t.start
    startTime,  \* trace_t.start_time
    delay,      \* trace_t.delay
    done,       \* trace_t.done
    skip,       \* trace_t.skip
    SKIP,       \* the global skip flag: the current event was not handled
    nbStart,    \* nb_start
    nbDone,     \* __handler_info.nb_done
    replay,     \* replays[]: handle and data of the pending replay of a trace
    posted,     \* when each key was posted, in the time of the output
    spawns,     \* spawn_list
    out,        \* the output: for each trace the time given to each event handled
    status      \* of handle_all_events

vars == <<trace, pos, start, startTime, delay, done, skip, SKIP, nbStart, nbDone,
          replay, posted, spawns, out, status>>

-----------------------------------------------------------------------------
(* Views of the state *)

Ev(t) == trace[t][pos[t]]
RelTime(t, i) == trace[t][i].time - startTime[t]
CurTime(t) == RelTime(t, pos[t]) + delay[t]
Seen == {k \in Keys : posted[k] # NotPosted}

NonStarted == {t \in Traces : ~start[t]}
Eligible == {t \in Traces : ~done[t] /\ ~skip[t]}
StartFirst == nbStart < NbTraces /\ NonStarted # {}

(* __get_cur_ev: the traces that have not reached MPI_Init come first;     *)
(* after that the earliest event of the traces that are not deferred, the  *)
(* lowest index on a tie.                                                  *)
Picked(t) ==
    IF StartFirst
    THEN t \in NonStarted /\ \A u \in NonStarted : t <= u
    ELSE /\ t \in Eligible
         /\ \A u \in Eligible : \/ CurTime(t) < CurTime(u)
                                \/ CurTime(t) = CurTime(u) /\ t <= u

(* The flags of deferred traces are cleared by a search that does not come *)
(* right after a deferral.                                                 *)
SkipAfterPick ==
    IF StartFirst \/ SKIP THEN skip ELSE [t \in Traces |-> FALSE]

Turn(t) == status = "running" /\ nbDone < NbTraces /\ Picked(t)

-----------------------------------------------------------------------------
(* Pieces of the handlers *)

(* next_ev, called n times: by the handler for its info events, then by    *)
(* handle_one_event.                                                       *)
StepForward(t, n) ==
    IF pos[t] + n <= Len(trace[t])
    THEN /\ pos' = [pos EXCEPT ![t] = @ + n]
         /\ UNCHANGED <<done, nbDone>>
    ELSE /\ pos' = [pos EXCEPT ![t] = Len(trace[t])]
         /\ done' = [done EXCEPT ![t] = TRUE]
         /\ nbDone' = nbDone + 1

Emit(t, times) == out' = [out EXCEPT ![t] = @ \o times]

(* The current event is deferred: it is handled again once the search lets *)
(* the trace back in.                                                      *)
Defer(t) ==
    /\ SKIP' = TRUE
    /\ skip' = [SkipAfterPick EXCEPT ![t] = TRUE]
    /\ UNCHANGED <<done, nbDone>>

Handled == SKIP' = FALSE /\ skip' = SkipAfterPick

(* The events that the handler goes through: the remaining requests of a   *)
(* replay, a waitall and its requests, or the event itself.                *)
LastOf(t) ==
    IF replay[t] # NoReplay THEN pos[t] + (replay[t].n - replay[t].i) - 1
    ELSE IF Ev(t).code = "waitall" THEN pos[t] + Ev(t).n
    ELSE pos[t]

Blocked(t) == {i \in pos[t] .. LastOf(t) : ~(trace[t][i].needs \subseteq Seen)}

(* Fault: nothing is moved. *)
NoDelays(t, i) == {delay[t]}

(* __mpi_stop_recv_generic and __mpi_barrier_stop_generic: an event that   *)
(* ends before what it waited for began is moved, by a delay that all the  *)
(* later events of the trace inherit.  (The delay of a collective goes to  *)
(* the trace that has the rank for index: here the traces are given in the *)
(* order of the ranks.  MpiColl has the other orders.)                     *)
DelaysUpTo(t, i) ==
    {delay[t]} \cup
    UNION {{posted[k] - RelTime(t, j) : k \in trace[t][j].needs} : j \in pos[t] .. i}

DelayUpTo(t, i) == CHOOSE d \in DelaysUpTo(t, i) : \A e \in DelaysUpTo(t, i) : e <= d

(* Times of the events from the current one to i, none if i precedes it. *)
TimesUpTo(t, i) ==
    [j \in 1 .. i - pos[t] + 1 |->
        IF start[t] THEN RelTime(t, pos[t] + j - 1) + DelayUpTo(t, pos[t] + j - 1)
        ELSE NotShown]

-----------------------------------------------------------------------------
Init ==
    /\ trace \in Workloads
    /\ pos = [t \in Traces |-> 1]
    /\ start = [t \in Traces |-> NbTraces = 1]
    /\ startTime = [t \in Traces |-> trace[t][1].time]
    /\ delay = [t \in Traces |-> 0]
    /\ done = [t \in Traces |-> FALSE]
    /\ skip = [t \in Traces |-> FALSE]
    /\ SKIP = FALSE
    /\ nbStart = IF NbTraces = 1 THEN 1 ELSE 0
    /\ nbDone = 0
    /\ replay = [t \in Traces |-> NoReplay]
    /\ posted = [k \in Keys |-> NotPosted]
    /\ spawns = << >>
    /\ out = [t \in Traces |-> << >>]
    /\ status = "running"

(* An event whose handlers only draw the state of its own thread, an info  *)
(* event that no handler asked for, or an unknown event.                   *)
HandlePlain(t) ==
    /\ Turn(t) /\ replay[t] = NoReplay /\ Ev(t).code \in {"plain", "info"}
    /\ Handled
    /\ Emit(t, TimesUpTo(t, pos[t]))
    /\ StepForward(t, 1)
    /\ UNCHANGED <<trace, start, startTime, delay, nbStart, replay, posted, spawns, status>>

(* The start of a send, the entry into a collective. *)
HandlePost(t) ==
    /\ Turn(t) /\ replay[t] = NoReplay /\ Ev(t).code = "post"
    /\ Handled
    /\ posted' = [k \in Keys |-> IF k \in Ev(t).posts \ Seen THEN CurTime(t) ELSE posted[k]]
    /\ Emit(t, TimesUpTo(t, pos[t]))
    /\ StepForward(t, 1)
    /\ UNCHANGED <<trace, start, startTime, delay, nbStart, replay, spawns, status>>

(* Fault: only the event itself is moved, not what follows it. *)
NeedForgetsDelay(t) ==
    /\ Turn(t) /\ replay[t] = NoReplay /\ Ev(t).code = "need"
    /\ Blocked(t) = {}
    /\ Handled
    /\ Emit(t, TimesUpTo(t, pos[t]))
    /\ StepForward(t, 1)
    /\ UNCHANGED <<trace, start, startTime, delay, nbStart, replay, posted, spawns, status>>

(* The end of a receive or of a collective that has all it waits for. *)
HandleNeed(t) ==
    /\ Turn(t) /\ replay[t] = NoReplay /\ Ev(t).code = "need"
    /\ Blocked(t) = {}
    /\ Handled
    /\ delay' = [delay EXCEPT ![t] = DelayUpTo(t, pos[t])]
    /\ Emit(t, TimesUpTo(t, pos[t]))
    /\ StepForward(t, 1)
    /\ UNCHANGED <<trace, start, startTime, nbStart, replay, posted, spawns, status>>

(* Fault: the trace steps forward though its event is deferred. *)
DeferredSteps(t) ==
    /\ Turn(t) /\ replay[t] = NoReplay /\ Ev(t).code = "need"
    /\ Blocked(t) # {}
    /\ SKIP' = TRUE /\ skip' = [SkipAfterPick EXCEPT ![t] = TRUE]
    /\ StepForward(t, 1)
    /\ UNCHANGED <<trace, start, startTime, delay, nbStart, replay, posted, spawns, out, status>>

NeedNotPosted(t) ==
    /\ Turn(t) /\ replay[t] = NoReplay /\ Ev(t).code = "need"
    /\ Blocked(t) # {}
    /\ Defer(t)
    /\ UNCHANGED <<trace, pos, start, startTime, delay, nbStart, replay, posted, spawns,
                   out, status>>

(* handle_mpi_stop_waitall, called for its event or by __execute_replay:   *)
(* it goes through the requests and asks for a replay at the first receive *)
(* whose send is not known yet.                                            *)
InWaitall(t) == replay[t] # NoReplay \/ Ev(t).code = "waitall"

(* ask_for_replay: the request that the replay resumes at. *)
WaitallSize(t) == IF replay[t] = NoReplay THEN Ev(t).n ELSE replay[t].n

(* Fault: the replay resumes at the request that follows. *)
ReplayAfter(t, b) ==
    [n |-> WaitallSize(t), i |-> WaitallSize(t) - (LastOf(t) - b), needs |-> trace[t][b].needs]

ReplayAt(t, b) ==
    [n |-> WaitallSize(t), i |-> WaitallSize(t) - (LastOf(t) - b) - 1,
     needs |-> trace[t][b].needs]

HandleWaitall(t) ==
    /\ Turn(t) /\ InWaitall(t) /\ Blocked(t) = {}
    /\ Handled
    /\ delay' = [delay EXCEPT ![t] = DelayUpTo(t, LastOf(t))]
    /\ Emit(t, TimesUpTo(t, LastOf(t)))
    /\ StepForward(t, LastOf(t) - pos[t] + 1)
    /\ replay' = [replay EXCEPT ![t] = NoReplay]
    /\ UNCHANGED <<trace, start, startTime, nbStart, posted, spawns, status>>

WaitallNotPosted(t) ==
    /\ Turn(t) /\ InWaitall(t)
    /\ \E b \in Blocked(t) :
          /\ \A c \in Blocked(t) : b <= c
          /\ pos' = [pos EXCEPT ![t] = b]
          /\ delay' = [delay EXCEPT ![t] = DelayUpTo(t, b - 1)]
          /\ Emit(t, TimesUpTo(t, b - 1))
          /\ replay' = [replay EXCEPT ![t] = ReplayAt(t, b)]
    /\ Defer(t)
    /\ UNCHANGED <<trace, start, startTime, nbStart, posted, spawns, status>>

(* handle_mpi_init: the clock of the trace restarts at its MPI_Init; the   *)
(* info event that follows is consumed too, if the trace has not ended.    *)
HandleInit(t) ==
    /\ Turn(t) /\ replay[t] = NoReplay /\ Ev(t).code = "init"
    /\ Handled
    /\ startTime' = [startTime EXCEPT ![t] = Ev(t).time]
    /\ start' = [start EXCEPT ![t] = TRUE]
    /\ nbStart' = nbStart + 1
    /\ Emit(t, [j \in 1 .. (IF pos[t] < Len(trace[t]) THEN 2 ELSE 1) |->
                  trace[t][pos[t] + j - 1].time - Ev(t).time + delay[t]])
    /\ StepForward(t, 2)
    /\ UNCHANGED <<trace, delay, replay, posted, spawns, status>>

HandleSpawn(t) ==
    /\ Turn(t) /\ replay[t] = NoReplay /\ Ev(t).code = "spawn"
    /\ Handled
    /\ spawns' = Append(spawns, [ppid |-> Ev(t).ppid, nbChildren |-> Ev(t).n, time |-> CurTime(t)])
    /\ Emit(t, TimesUpTo(t, pos[t]))
    /\ StepForward(t, 1)
    /\ UNCHANGED <<trace, start, startTime, delay, nbStart, replay, posted, status>>

MatchingSpawns(t) == {i \in DOMAIN spawns : spawns[i].ppid = Ev(t).ppid}

WithoutSpawn(i) ==
    [j \in 1 .. Len(spawns) - 1 |-> IF j < i THEN spawns[j] ELSE spawns[j + 1]]

(* handle_mpi_spawned: the trace takes the time of the spawn as its origin *)
(* and goes through its MPI_Init.                                          *)
HandleSpawned(t) ==
    /\ Turn(t) /\ replay[t] = NoReplay /\ Ev(t).code = "spawned"
    /\ Handled
    /\ \E i \in MatchingSpawns(t) :
          /\ \A j \in MatchingSpawns(t) : i <= j
          /\ delay' = [delay EXCEPT ![t] = spawns[i].time]
          /\ spawns' = IF spawns[i].nbChildren = 1 THEN WithoutSpawn(i)
                       ELSE [spawns EXCEPT ![i].nbChildren = @ - 1]
          /\ Emit(t, <<spawns[i].time, spawns[i].time,
                       trace[t][pos[t] + 2].time - trace[t][pos[t] + 1].time + spawns[i].time>>)
    /\ startTime' = [startTime EXCEPT ![t] = trace[t][pos[t] + 1].time]
    /\ start' = [start EXCEPT ![t] = TRUE]
    /\ nbStart' = nbStart + 1
    /\ StepForward(t, 3)
    /\ UNCHANGED <<trace, replay, posted, status>>

SpawnNotHandled(t) ==
    /\ Turn(t) /\ replay[t] = NoReplay /\ Ev(t).code = "spawned"
    /\ MatchingSpawns(t) = {}
    /\ Defer(t)
    /\ startTime' = [startTime EXCEPT ![t] = IF start[t] THEN @ ELSE Ev(t).time]
    /\ start' = [start EXCEPT ![t] = TRUE]
    /\ UNCHANGED <<trace, pos, delay, nbStart, replay, posted, spawns, out, status>>

(* The search finds no trace and returns -1: handle_one_event goes on with *)
(* traces[-1], after which nothing can be said of the program.             *)
NoTrace ==
    /\ status = "running" /\ nbDone < NbTraces
    /\ ~StartFirst /\ Eligible = {}
    /\ status' = "undefined"
    /\ UNCHANGED <<trace, pos, start, startTime, delay, done, skip, SKIP, nbStart, nbDone,
                   replay, posted, spawns, out>>

(* The loop of handle_all_events ends. *)
Finish ==
    /\ status = "running" /\ nbDone >= NbTraces
    /\ status' = "finished"
    /\ UNCHANGED <<trace, pos, start, startTime, delay, done, skip, SKIP, nbStart, nbDone,
                   replay, posted, spawns, out>>

HandleOneEvent(t) ==
    \/ HandlePlain(t) \/ HandlePost(t)
    \/ HandleNeed(t) \/ NeedNotPosted(t)
    \/ HandleWaitall(t) \/ WaitallNotPosted(t)
    \/ HandleInit(t)
    \/ HandleSpawn(t) \/ HandleSpawned(t) \/ SpawnNotHandled(t)

Terminated == status # "running" /\ UNCHANGED vars

Next ==
    \/ \E t \in Traces : HandleOneEvent(t)
    \/ NoTrace
    \/ Finish
    \/ Terminated

Spec == Init /\ [][Next]_vars

(* One thread runs the loop and never blocks in it. *)
FairSpec == Spec /\ WF_vars(Next)

-----------------------------------------------------------------------------
(* Properties *)

(* Every variable holds a value of the kind the code gives it. *)
TypeOK ==
    /\ trace \in Workloads
    /\ pos \in [Traces -> Nat \ {0}]
    /\ \A t \in Traces : pos[t] <= Len(trace[t])
    /\ start \in [Traces -> BOOLEAN]
    /\ startTime \in [Traces -> Nat]
    /\ delay \in [Traces -> Nat]
    /\ done \in [Traces -> BOOLEAN]
    /\ skip \in [Traces -> BOOLEAN]
    /\ SKIP \in BOOLEAN
    /\ nbStart \in Nat
    /\ nbDone \in Nat
    /\ replay \in [Traces -> [n : Nat, i : Nat, needs : SUBSET Keys]]
    /\ posted \in [Keys -> Nat \cup {NotPosted}]
    /\ spawns \in Seq([ppid : Nat, nbChildren : Int, time : Nat])
    /\ out \in [Traces -> Seq(Int)]
    /\ status \in {"running", "finished", "undefined"}

(* However often it is deferred or resumed by a replay, an event goes to   *)
(* the output once: what was handled of a trace is exactly what precedes   *)
(* its current event ("do not step forward the trace or this event will    *)
(* be 'lost'", handle_one_event).                                          *)
NothingLost ==
    \A t \in Traces : Len(out[t]) = pos[t] - 1 + (IF done[t] THEN 1 ELSE 0)

(* The loop of handle_all_events, which only counts the traces that end,   *)
(* does not end before all the events of all the traces are handled.       *)
AllConverted ==
    status = "finished" => \A t \in Traces : Len(out[t]) = Len(trace[t])

(* In the output nothing ends before what it waited for began: the delays  *)
(* make up for the clocks of the processes (add_delay_to_trace).           *)
Causality ==
    \A t \in Traces : \A i \in DOMAIN out[t] : \A k \in trace[t][i].needs :
        posted[k] # NotPosted /\ out[t][i] >= posted[k]

(* The times drawn for a trace never go back, though its clock restarts at *)
(* MPI_Init and delays are added on the way: "Otherwise, when MPI_Init is  *)
(* grabbed and the timer reset, the trace will be a mess" (CHANGE macro).  *)
TimesOrdered ==
    \A t \in Traces : \A i, j \in DOMAIN out[t] :
        i < j /\ out[t][i] # NotShown => out[t][i] <= out[t][j]

(* A pending replay resumes its waitall at the very request it stopped at: *)
(* the current event of the trace is that request, as the assertion of     *)
(* handle_mpi_stop_waitall demands.                                        *)
ReplayAtRequest ==
    \A t \in Traces : replay[t] # NoReplay =>
        LET w == pos[t] - replay[t].i - 1 IN
        /\ w \in DOMAIN trace[t]
        /\ trace[t][w].code = "waitall"
        /\ trace[t][w].n = replay[t].n
        /\ replay[t].i < replay[t].n
        /\ Ev(t).needs = replay[t].needs

(* The scheduler implements the causal merge of the traces. *)
Merge == INSTANCE CausalMerge WITH
            Inputs <- Workloads,
            handled <- [t \in Traces |-> Len(out[t])],
            seen <- Seen

(* Every conversion is a causal merge of its traces (CausalMerge): nothing *)
(* is handled before what it waits for, and in the end everything is.      *)
MergeLiveSpec == Merge!LiveSpec

=============================================================================
