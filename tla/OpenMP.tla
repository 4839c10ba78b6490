-------------------------------- MODULE OpenMP --------------------------------
(***************************************************************************)
(* Parallel regions and the constructs in them: what the OpenMP module     *)
(* records in the program (src/src/modules/omp/gomp.c) and what its        *)
(* handlers make of it in the converter (eztrace_convert_gomp.c).          *)
(*                                                                         *)
(* libgomp is external: a region gets a team of the thread that starts it  *)
(* and of idle threads, and ends when all of them have run its function.   *)
(* The events of a process are handled in the order in which they are      *)
(* recorded, so that each is handled by the step that records it.          *)
(***************************************************************************)
EXTENDS Integers, Sequences, FiniteSets, SequencesExt

CONSTANTS Threads,
          Initial,         \* those that the program has made itself
          MaxRegions,      \* how many regions the program starts
          MaxConstructs    \* and how many constructs

ASSUME OpenMPAssumption == IsFiniteSet(Threads) /\ Initial \subseteq Threads

VARIABLES
    next_section_id,  \* _next_section_id
    frames,           \* of each thread: the regions it is in, innermost last
    teams,            \* the regions: the threads of each
    critical,         \* whether a thread is in the critical section
    locked,           \* whether the lock is set
    constructs,       \* the constructs entered
    conv,             \* what the converter knows
    (* history *)
    raced             \* two threads were between reading and writing next_section_id

vars == <<next_section_id, frames, teams, critical, locked, constructs, conv, raced>>

\* A frame: the thread's number in the team, where it is, the constructs it has open.
Frame(team, num, at) == [team |-> team, num |-> num, at |-> at, id |-> 0, open |-> << >>]

Init ==
    /\ next_section_id = 0
    /\ frames = [t \in Threads |-> IF t \in Initial THEN << Frame(0, 0, "run") >> ELSE << >>]
    /\ teams = << >> /\ critical = FALSE /\ locked = FALSE /\ constructs = 0
    /\ conv = [sections |-> << >>, pending |-> {}, finished |-> << >>,
               stack |-> [t \in Threads |-> << >>],
               states |-> [t \in Threads |-> << "Working" >>],
               failed |-> FALSE]
    /\ raced = FALSE

-----------------------------------------------------------------------------
(* The handlers.  A section is a number: its place among all those made.   *)

\* setState, pushState and popState of a thread.
SetState(c, t, state) == [c EXCEPT !.states[t] = Append(Front(@), state)]
PushState(c, t, state) == [c EXCEPT !.states[t] = Append(@, state)]
PopState(c, t) == [c EXCEPT !.states[t] = IF Len(@) > 1 THEN Front(@) ELSE @]

Failed(c) == [c EXCEPT !.failed = TRUE]

(* __find_matching_section takes the first of these: the list of pending   *)
(* sections is in the order in which they were made.                       *)
MatchingSections(c, id) == {s \in c.pending : c.sections[s].id = id}

(* handle_gomp_parallel_start *)
HandleParallelStart(c, t, id) ==
    [c EXCEPT !.sections = Append(@, [id |-> id, main |-> t, nb_threads |-> 0,
                                      working |-> << >>, left |-> {}]),
              !.pending = @ \cup {Len(c.sections) + 1}]

(* handle_gomp_new_fork: the first thread that comes sets the number.      *)
HandleNewFork(c, t, id, num, n) ==
    LET found == MatchingSections(c, id)
        s == Min(found)
    IN IF found = {} \/ (c.sections[s].nb_threads # 0 /\ c.sections[s].nb_threads # n)
       THEN Failed(c)
       ELSE SetState([c EXCEPT !.sections[s].nb_threads = n,
                               !.sections[s].working = [k \in DOMAIN @ \cup {num} |->
                                                           IF k = num THEN t ELSE @[k]],
                               !.stack[t] = Append(@, s)],
                     t, "Section")

\* Fault: the section is removed from the stack, as the comment has it.
HandleNewJoinPops(c, t, num) ==
    IF c.stack[t] = << >> THEN Failed(c)
    ELSE SetState([c EXCEPT !.sections[Last(c.stack[t])].left = @ \cup {num},
                            !.stack[t] = Front(@)], t, "Blocked")

(* handle_gomp_new_join: the section stays on the stack of the thread.     *)
HandleNewJoin(c, t, num) ==
    IF c.stack[t] = << >> THEN Failed(c)
    ELSE SetState([c EXCEPT !.sections[Last(c.stack[t])].left = @ \cup {num}], t, "Blocked")

\* Fault: the section made last is taken for the one that ends.
HandleJoinDoneLatest(c, t) ==
    IF c.stack[t] = << >> \/ c.pending = {} THEN Failed(c)
    ELSE SetState([c EXCEPT !.stack[t] = Front(@), !.pending = @ \ {Max(c.pending)},
                            !.finished = Append(@, Max(c.pending))],
                  t, "Working")

(* handle_gomp_join_done: the links of all threads are ended, with what    *)
(* their forks and joins have stored.                                      *)
HandleJoinDone(c, t) ==
    LET s == Last(c.stack[t])
        section == c.sections[s]
        found == MatchingSections(c, section.id)
        nums == 0 .. section.nb_threads - 1
    IN IF c.stack[t] = << >> THEN Failed(c)
       ELSE IF ~(nums \subseteq DOMAIN section.working /\ nums \subseteq section.left) \/ found = {}
       THEN Failed(c)
       ELSE SetState([c EXCEPT !.stack[t] = Front(@),
                               !.pending = @ \ {Min(found)},
                               !.finished = Append(@, s)],
                     t, "Working")

(* handle_gomp_critical_start, handle_pomp2_critical_enter and the lock's. *)
HandleBlocks(c, t) == PushState(c, t, "Blocked")

\* Fault: the state of the wait stays.
HandleEntersOnly(c, t, state) == PushState(c, t, state)

(* handle_gomp_critical_start_done, handle_pomp2_critical_begin, and the   *)
(* lock's.                                                                 *)
HandleEnters(c, t, state) == PushState(PopState(c, t), t, state)

-----------------------------------------------------------------------------
(* The threads. *)

Top(t) == Last(frames[t])
At(t, label) == frames[t] # << >> /\ Top(t).at = label /\ ~conv.failed
Idle == {t \in Threads : frames[t] = << >>}
TopIs(t, frame) == Append(Front(frames[t]), frame)
Goto(t, label) == frames' = [frames EXCEPT ![t] = TopIs(t, [Top(t) EXCEPT !.at = label])]

(* GOMP_PARALLEL_LOOP_GENERIC: _next_section_id++, which is a read and a   *)
(* write.                                                                  *)
ReadId(t) ==
    /\ At(t, "run") /\ Len(teams) + Cardinality({u \in Threads : At(u, "incr") \/ At(u, "start") \/ At(u, "call")})
                         < MaxRegions
    /\ frames' = [frames EXCEPT ![t] = TopIs(t, [Top(t) EXCEPT !.at = "incr", !.id = next_section_id])]
    /\ raced' = (raced \/ \E u \in Threads : At(u, "incr"))
    /\ UNCHANGED <<next_section_id, teams, critical, locked, constructs, conv>>

WriteId(t) ==
    /\ At(t, "incr")
    /\ next_section_id' = Top(t).id + 1
    /\ Goto(t, "start")
    /\ UNCHANGED <<teams, critical, locked, constructs, conv, raced>>

RecordStart(t) ==
    /\ At(t, "start")
    /\ conv' = HandleParallelStart(conv, t, Top(t).id)
    /\ Goto(t, "call")
    /\ UNCHANGED <<next_section_id, teams, critical, locked, constructs, raced>>

(* libGOMP_parallel_start, with the helpers that libgomp gives the team.   *)
LibParallelStart(t) ==
    /\ At(t, "call")
    /\ \E helpers \in SUBSET Idle :
          LET members == << t >> \o SetToSeq(helpers)
              r == Len(teams) + 1
          IN /\ teams' = Append(teams, [members |-> members, id |-> Top(t).id])
             /\ frames' = [u \in Threads |->
                  IF u = t THEN Append(TopIs(t, [Top(t) EXCEPT !.at = "run"]), Frame(r, 0, "fork"))
                  ELSE IF u \in helpers
                  THEN << Frame(r, (CHOOSE k \in 1 .. Len(members) : members[k] = u) - 1, "fork") >>
                  ELSE frames[u]]
    /\ UNCHANGED <<next_section_id, critical, locked, constructs, conv, raced>>

(* The event of a fork, in gomp_new_thread and for the first thread in     *)
(* GOMP_PARALLEL_LOOP_GENERIC.                                             *)
RecordFork(t) ==
    /\ At(t, "fork")
    /\ LET team == teams[Top(t).team]
       IN conv' = HandleNewFork(conv, t, team.id, Top(t).num, Len(team.members))
    /\ Goto(t, "run")
    /\ UNCHANGED <<next_section_id, teams, critical, locked, constructs, raced>>

(* The event of a join, in gomp_new_thread and in GOMP_parallel_end.       *)
RecordJoin(t) ==
    /\ At(t, "run") /\ Top(t).team # 0 /\ Top(t).open = << >>
    /\ conv' = HandleNewJoin(conv, t, Top(t).num)
    /\ Goto(t, "joined")
    /\ UNCHANGED <<next_section_id, teams, critical, locked, constructs, raced>>

(* libGOMP_parallel_end waits for the team, whose threads become idle.     *)
LibParallelEnd(t) ==
    /\ At(t, "joined") /\ Top(t).num = 0
    /\ LET helpers == Range(teams[Top(t).team].members) \ {t}
       IN /\ \A u \in helpers : At(u, "joined") /\ Top(u).team = Top(t).team
          /\ frames' = [u \in Threads |-> IF u \in helpers THEN << >>
                                          ELSE IF u = t THEN TopIs(t, [Top(t) EXCEPT !.at = "done"])
                                          ELSE frames[u]]
    /\ UNCHANGED <<next_section_id, teams, critical, locked, constructs, conv, raced>>

(* The rest of GOMP_parallel_end. *)
RecordJoinDone(t) ==
    /\ At(t, "done")
    /\ conv' = HandleJoinDone(conv, t)
    /\ frames' = [frames EXCEPT ![t] = Front(@)]
    /\ UNCHANGED <<next_section_id, teams, critical, locked, constructs, raced>>

-----------------------------------------------------------------------------
(* The constructs: critical sections, the lock, and those that only push   *)
(* and pop a state (atomic, barrier, flush, for, master, task, taskwait).  *)

Enters(t, construct) ==
    /\ frames' = [frames EXCEPT ![t] = TopIs(t, [Top(t) EXCEPT !.open = Append(@, construct)])]

\* A construct that is open once.
Without(open, construct) == RemoveAt(open, CHOOSE i \in DOMAIN open : open[i] = construct)

Leaves(t, construct) ==
    /\ frames' = [frames EXCEPT ![t] = TopIs(t, [Top(t) EXCEPT !.open = Without(@, construct)])]

\* The constructs that a thread has open in all the regions it is in.
Open(t) == UNION {Range(frames[t][i].open) : i \in DOMAIN frames[t]}

MayEnter(t, construct) ==
    /\ At(t, "run") /\ constructs < MaxConstructs /\ construct \notin Open(t)
    /\ constructs' = constructs + 1

EnterPlain(t) ==
    /\ MayEnter(t, "plain")
    /\ Enters(t, "plain")
    /\ conv' = PushState(conv, t, "Construct")
    /\ UNCHANGED <<next_section_id, teams, critical, locked, raced>>

ExitPlain(t) ==
    /\ At(t, "run") /\ Top(t).open # << >> /\ Last(Top(t).open) = "plain"
    /\ Leaves(t, "plain")
    /\ conv' = PopState(conv, t)
    /\ UNCHANGED <<next_section_id, teams, critical, locked, constructs, raced>>

(* GOMP_critical_start and POMP2_Set_lock: the event before the wait.      *)
AskCritical(t) ==
    /\ MayEnter(t, "critical")
    /\ Goto(t, "critical")
    /\ conv' = HandleBlocks(conv, t)
    /\ UNCHANGED <<next_section_id, teams, critical, locked, raced>>

AskLock(t) ==
    /\ MayEnter(t, "lock")
    /\ Goto(t, "lock")
    /\ conv' = HandleBlocks(conv, t)
    /\ UNCHANGED <<next_section_id, teams, critical, locked, raced>>

\* The wait is over; the event after it is a step of its own.
LibCriticalStart(t) ==
    /\ At(t, "critical") /\ ~critical
    /\ critical' = TRUE
    /\ Goto(t, "in critical")
    /\ UNCHANGED <<next_section_id, teams, locked, constructs, conv, raced>>

LibSetLock(t) ==
    /\ At(t, "lock") /\ ~locked
    /\ locked' = TRUE
    /\ Goto(t, "in lock")
    /\ UNCHANGED <<next_section_id, teams, critical, constructs, conv, raced>>

RecordCritical(t) ==
    /\ At(t, "in critical")
    /\ frames' = [frames EXCEPT ![t] = TopIs(t, [Top(t) EXCEPT !.at = "run", !.open = Append(@, "critical")])]
    /\ conv' = HandleEnters(conv, t, "Critical")
    /\ UNCHANGED <<next_section_id, teams, critical, locked, constructs, raced>>

RecordLocked(t) ==
    /\ At(t, "in lock")
    /\ frames' = [frames EXCEPT ![t] = TopIs(t, [Top(t) EXCEPT !.at = "run", !.open = Append(@, "lock")])]
    /\ conv' = HandleEnters(conv, t, "Locked")
    /\ UNCHANGED <<next_section_id, teams, critical, locked, constructs, raced>>

(* GOMP_critical_end and POMP2_Unset_lock: the event first.  A critical    *)
(* section is left before what is around it, the lock at any time.         *)
RecordCriticalEnd(t) ==
    /\ At(t, "run") /\ Top(t).open # << >> /\ Last(Top(t).open) = "critical"
    /\ conv' = PopState(conv, t)
    /\ Goto(t, "out critical")
    /\ UNCHANGED <<next_section_id, teams, critical, locked, constructs, raced>>

LibCriticalEnd(t) ==
    /\ At(t, "out critical")
    /\ critical' = FALSE
    /\ frames' = [frames EXCEPT ![t] = TopIs(t, [Top(t) EXCEPT !.at = "run", !.open = Without(@, "critical")])]
    /\ UNCHANGED <<next_section_id, teams, conv, locked, constructs, raced>>

UnsetLock(t) ==
    /\ At(t, "run") /\ "lock" \in Range(Top(t).open)
    /\ conv' = PopState(conv, t)
    /\ locked' = FALSE
    /\ Leaves(t, "lock")
    /\ UNCHANGED <<next_section_id, teams, critical, constructs, raced>>

-----------------------------------------------------------------------------
Step(t) ==
    \/ ReadId(t) \/ WriteId(t) \/ RecordStart(t) \/ LibParallelStart(t) \/ RecordFork(t)
    \/ RecordJoin(t) \/ LibParallelEnd(t) \/ RecordJoinDone(t)
    \/ EnterPlain(t) \/ ExitPlain(t) \/ AskCritical(t) \/ LibCriticalStart(t) \/ RecordCritical(t)
    \/ RecordCriticalEnd(t) \/ LibCriticalEnd(t)
    \/ AskLock(t) \/ LibSetLock(t) \/ RecordLocked(t) \/ UnsetLock(t)

Next == \E t \in Threads : Step(t)

Spec == Init /\ [][Next]_vars

-----------------------------------------------------------------------------
(* Properties. *)

\* The team of a thread that has recorded its fork in it.
InTeam(t, r) == frames[t] # << >> /\ Top(t).team = r /\ r # 0 /\ Top(t).at # "fork"

(* The events of a thread are taken for those of the region that it is in, *)
(* whatever regions are nested or run side by side, although a thread's    *)
(* stack keeps the regions that it has left; no assertion of the handlers  *)
(* fails, and no link is ended with what was never stored.  Two threads    *)
(* that increment _next_section_id together end this.                      *)
SectionsFollow ==
    ~raced => /\ ~conv.failed
              /\ \A t \in Threads, r \in DOMAIN teams : InTeam(t, r) =>
                    LET section == conv.sections[Last(conv.stack[t])]
                    IN /\ conv.stack[t] # << >>
                       /\ section.id = teams[r].id
                       /\ section.main = teams[r].members[1]
                       /\ Top(t).num \in DOMAIN section.working /\ section.working[Top(t).num] = t

\* The teams whose end is recorded: no thread is in them.
Ended == {r \in DOMAIN teams : \A t \in Threads : \A i \in DOMAIN frames[t] : frames[t][i].team # r}

(* The finished sections are the regions that have ended, each once, with  *)
(* a link to and from every thread of the team.                            *)
LinksComplete ==
    ~raced => /\ IsInjective(conv.finished)
              /\ {conv.sections[s].id : s \in Range(conv.finished)} = {teams[r].id : r \in Ended}
              /\ \A s \in Range(conv.finished), r \in Ended : conv.sections[s].id = teams[r].id =>
                    /\ conv.sections[s].working = [k \in 0 .. Len(teams[r].members) - 1 |-> teams[r].members[k + 1]]
                    /\ conv.sections[s].left = DOMAIN conv.sections[s].working

\* A thread is between the event before a wait and the one after it, or
\* between the event of the end of a critical section and the end itself.
Waiting(t) == frames[t] # << >> /\ Top(t).at \in {"critical", "in critical", "lock", "in lock"}
Leaving(t) == frames[t] # << >> /\ Top(t).at = "out critical"

\* The states that the constructs of a thread have pushed.
Pushed(t) ==
    Cardinality(Open(t)) + (IF Waiting(t) THEN 1 ELSE 0) - (IF Leaving(t) THEN 1 ELSE 0)

(* A thread shows one state more than it has constructs open, so that the  *)
(* state of a region comes back when its constructs are left; no two       *)
(* threads show the critical section at the same time.                     *)
StatesShown ==
    ~conv.failed => /\ \A t \in Threads : Len(conv.states[t]) = 1 + Pushed(t)
                    /\ \A t, u \in Threads : "Critical" \in Range(conv.states[t]) \cap Range(conv.states[u])
                          => t = u
=============================================================================
