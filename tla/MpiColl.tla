------------------------------ MODULE MpiColl ------------------------------
(***************************************************************************)
(* The collective communications of the MPI module of eztrace_convert      *)
(* (src/src/modules/mpi/eztrace_convert_mpi_coll.c and the handlers of     *)
(* eztrace_convert_mpi.c that call it): the entries into a collective and  *)
(* the exits from it, read from the traces of the processes in whatever    *)
(* order the scheduler takes them, are put together again, and the         *)
(* processes that leave before another one has entered are delayed.        *)
(*                                                                         *)
(* All the collectives are on MPI_COMM_WORLD: the rank in the communicator *)
(* is that of the process.  It is not the index of the trace: the traces   *)
(* are numbered in the order of the command line (parse_args), and the     *)
(* delays are given to the trace that has the rank of a process for index. *)
(***************************************************************************)
EXTENDS Integers, Sequences, FiniteSets, FiniteSetsExt

CONSTANTS NbProcs,     \* number of processes, one trace each
          Types,       \* kinds of collectives
          Lens,        \* lengths of their data
          Tids,        \* threads of a process
          Programs,    \* the inputs considered: [Procs -> Seq(CollEvent)]
          Orders       \* the orders in which the traces may be given

Procs == 0 .. NbProcs - 1
Links == {l \in Procs \X Procs : l[1] # l[2]}

(* "len" is what the handler reads: the events that end a gather or a      *)
(* scatter have no such parameter, and the handler reads what is there.    *)
CollEvent == [op : {"start", "stop"}, type : Types, len : Lens, time : Nat, tid : Tids]

NoThread == 0
NoMsg == 0

ASSUME NbProcsAssumption == NbProcs \in Nat \ {0}
ASSUME TidsAssumption == Tids \subseteq Nat \ {NoThread}
ASSUME ProgramsAssumption ==
    \A w \in Programs : /\ w \in [Procs -> Seq(CollEvent)]
                        /\ \A p \in Procs : \A i \in DOMAIN w[p] : w[p][i].time > 0

(* Every process has its trace among those that are given. *)
ASSUME OrdersAssumption ==
    \A o \in Orders : o \in [Procs -> Procs] /\ \A p \in Procs : \E i \in Procs : o[i] = p

(* What MPI asks of a program: a process makes one collective at a time on *)
(* a communicator, and all the processes make them in the same order.  The *)
(* events of a trace are in the order of their times.                      *)
OneAtATime(events) ==
    \A i \in DOMAIN events :
        /\ i = 1 => events[i].op = "start"
        /\ i > 1 => events[i].op # events[i - 1].op /\ events[i - 1].time <= events[i].time

SameOrder(events, others) ==
    \A i \in DOMAIN events \cap DOMAIN others :
        events[i].op = "start" => /\ others[i].type = events[i].type
                                  /\ others[i].len = events[i].len

ASSUME LegalProgramsAssumption ==
    \A w \in Programs : \A p, q \in Procs : OneAtATime(w[p]) /\ SameOrder(w[p], w[q])

VARIABLES
    prog,     \* the input: the collectives of each process
    order,    \* the process whose trace is the i-th on the command line
    at,       \* index of the current event of each process
    delay,    \* trace_t.delay of the trace of each process
    msgs,     \* the mpi_coll_msg_t, in the order of their creation
    failed,   \* an assertion of the program failed: it aborts
    joined,   \* the messages that each process entered, in order
    left      \* the messages that it left

vars == <<prog, order, at, delay, msgs, failed, joined, left>>

Ev(p) == prog[p][at[p]]

(* Fault: the delay of the trace is forgotten. *)
RawTime(p) == Ev(p).time

CurTime(p) == Ev(p).time + delay[p]

(* add_delay_to_trace takes the index of a trace and is given a rank: it   *)
(* delays the process whose trace has this index.                          *)
Delayed(rank) == order[rank]
RankThatDelays(p) == CHOOSE rank \in Procs : Delayed(rank) = p

(* times[p][start_coll], times[p][stop_coll] (0: not yet), thread_ids[p],  *)
(* and how often the arrow between two processes was begun and ended.      *)
NewMessage(type, len) ==
    [type |-> type, len |-> len,
     start |-> [p \in Procs |-> 0], stop |-> [p \in Procs |-> 0],
     thread |-> [p \in Procs |-> NoThread],
     begun |-> [l \in Links |-> 0], ended |-> [l \in Links |-> 0]]

(* The messages of a kind and a length. *)
OfKind(type, len) == {m \in DOMAIN msgs : msgs[m].type = type /\ msgs[m].len = len}

(* __mpi_find_coll_message: the first message of this kind that the        *)
(* process has not entered (or not left) yet.                              *)
FindMessage(S) == IF S = {} THEN NoMsg ELSE Min(S)

EnterFinds(p) == FindMessage({m \in OfKind(Ev(p).type, Ev(p).len) : msgs[m].start[p] = 0})

(* Fault: an exit looks for a message that was entered, left or not. *)
LeaveFindsEntered(p) == FindMessage({m \in OfKind(Ev(p).type, Ev(p).len) : msgs[m].start[p] # 0})

LeaveFinds(p) == FindMessage({m \in OfKind(Ev(p).type, Ev(p).len) : msgs[m].stop[p] = 0})

(* The arrows between p and the other processes of S. *)
CountLinks(count, p, S) ==
    [l \in Links |-> IF \E i \in S \ {p} : l \in {<<p, i>>, <<i, p>>} THEN count[l] + 1 ELSE count[l]]

Started(msg) == {i \in Procs : msg.start[i] # 0}
Stopped(msg) == {i \in Procs : msg.stop[i] # 0}

(* Fault: the exit looks at the time of the exits. *)
OthersLeft(p, msg) == Procs \ {p} \subseteq Stopped(msg)

OthersEntered(p, msg) == Procs \ {p} \subseteq Started(msg)

-----------------------------------------------------------------------------
Init ==
    /\ prog \in Programs
    /\ order \in Orders
    /\ at = [p \in Procs |-> 1]
    /\ delay = [p \in Procs |-> 0]
    /\ msgs = << >>
    /\ failed = FALSE
    /\ joined = [p \in Procs |-> << >>]
    /\ left = [p \in Procs |-> << >>]

Current(p, op) == ~failed /\ at[p] <= Len(prog[p]) /\ Ev(p).op = op

(* __mpi_barrier_start_generic: the arrows to the processes that have      *)
(* entered begin; one that has left already is moved after this entry.     *)
Entered(p, msg, now) ==
    LET others == Procs \ {p} IN
    [msg EXCEPT !.start[p] = now,
                !.thread[p] = Ev(p).tid,
                !.begun = CountLinks(@, p, Started(msg)),
                !.stop = [i \in Procs |-> IF i \in Stopped(msg) \cap others THEN now ELSE @[i]]]

(* A process enters a collective: __enter_coll. *)
HandleStart(p) ==
    /\ Current(p, "start")
    /\ \E m \in {EnterFinds(p)} :
       \E msg \in {IF m = NoMsg THEN NewMessage(Ev(p).type, Ev(p).len) ELSE msgs[m]} :
          LET new == Entered(p, msg, CurTime(p)) IN
          /\ msgs' = IF m = NoMsg THEN Append(msgs, new) ELSE [msgs EXCEPT ![m] = new]
          /\ delay' = [i \in Procs |-> delay[i] + (new.stop[RankThatDelays(i)] - msg.stop[RankThatDelays(i)])]
          /\ joined' = [joined EXCEPT ![p] = Append(@, IF m = NoMsg THEN Len(msgs) + 1 ELSE m)]
    /\ at' = [at EXCEPT ![p] = @ + 1]
    /\ UNCHANGED <<prog, order, failed, left>>

(* assert(msg) and assert(msg->thread_ids[my_rank] == thread_id) *)
LeaveAsserts(p) ==
    LET m == LeaveFinds(p) IN m # NoMsg /\ msgs[m].thread[p] = Ev(p).tid

(* Fault: the exit keeps its own time. *)
OwnTime(p, msg) == CurTime(p)

(* The latest entry of the collective, or the time of the event itself. *)
StopTime(p, msg) == Max({CurTime(p)} \cup {msg.start[i] : i \in Procs \ {p}})

(* A process leaves a collective that all the others have entered:         *)
(* __leave_coll, __mpi_barrier_stop_generic.  Otherwise the exit is        *)
(* deferred (SKIP): it stays the current event and its time in the message *)
(* is cleared again, so that nothing changes.                              *)
HandleStop(p) ==
    /\ Current(p, "stop") /\ LeaveAsserts(p)
    /\ \E m \in {LeaveFinds(p)} :
          /\ OthersEntered(p, msgs[m])
          /\ msgs' = [msgs EXCEPT ![m].stop[p] = StopTime(p, msgs[m]),
                                  ![m].ended = CountLinks(@, p, Stopped(msgs[m]))]
          /\ delay' = [delay EXCEPT ![Delayed(p)] = @ + (StopTime(p, msgs[m]) - CurTime(p))]
          /\ left' = [left EXCEPT ![p] = Append(@, m)]
    /\ at' = [at EXCEPT ![p] = @ + 1]
    /\ UNCHANGED <<prog, order, failed, joined>>

LeaveAssertionFails(p) ==
    /\ Current(p, "stop") /\ ~LeaveAsserts(p)
    /\ failed' = TRUE
    /\ UNCHANGED <<prog, order, at, delay, msgs, joined, left>>

AllHandled == \A p \in Procs : at[p] > Len(prog[p])

Terminated == (AllHandled \/ failed) /\ UNCHANGED vars

Next ==
    \/ \E p \in Procs : HandleStart(p) \/ HandleStop(p) \/ LeaveAssertionFails(p)
    \/ Terminated

Spec == Init /\ [][Next]_vars

(* EztSched lets every trace progress that is not waiting for another one. *)
FairSpec == Spec /\ WF_vars(Next)

-----------------------------------------------------------------------------
(* Properties *)

(* Whatever the order in which the traces are read, the n-th collective of *)
(* every process is the same message (__mpi_find_coll_message goes by kind *)
(* and length), and a process leaves the collective that it entered.       *)
SameCollective ==
    /\ \A p, q \in Procs : \A n \in DOMAIN joined[p] \cap DOMAIN joined[q] : joined[p][n] = joined[q][n]
    /\ \A p \in Procs : \A n \in DOMAIN left[p] : n \in DOMAIN joined[p] /\ left[p][n] = joined[p][n]

(* No process leaves a collective before every process has entered it: the *)
(* delays make up for the clocks of the processes, and __enter_coll never  *)
(* gives a process an entry after the exit of another one.                 *)
LeftAfterAllEntered ==
    \A m \in DOMAIN msgs : \A p \in Stopped(msgs[m]), q \in Procs :
        0 < msgs[m].start[q] /\ msgs[m].start[q] <= msgs[m].stop[p]

(* A delay given to a process when it leaves a collective moves what it    *)
(* does later, and it enters the next one after that: this holds for the   *)
(* processes whose trace is given at the place of their rank, whatever the *)
(* order of the others.  The delay of another process goes elsewhere.      *)
RoundsFollow ==
    \A p \in Procs : Delayed(p) = p =>
      \A n \in DOMAIN left[p] : n + 1 \in DOMAIN joined[p] =>
        msgs[left[p][n]].stop[p] <= msgs[joined[p][n + 1]].start[p]

(* The exits whose event holds the length given at the entry: those of     *)
(* every collective but a gather or a scatter (whose exits may hold it).   *)
LengthsKnown ==
    \A p \in Procs : \A i \in DOMAIN prog[p] :
        prog[p][i].op = "stop" => prog[p][i].len = prog[p][i - 1].len

(* Each arrow between two processes was begun and ended once, by whichever *)
(* of the two came second (start_coll_link, end_coll_link).                *)
LinksDrawn ==
    \A m \in DOMAIN msgs : \A l \in Links : msgs[m].begun[l] = 1 /\ msgs[m].ended[l] = 1

(* The converter reaches the end of all the traces, and has then drawn     *)
(* every arrow of every collective once: "ith process has not yet reached  *)
(* the MPI_Barrier [..] Let's wait until the remote process starts         *)
(* MPI_Barrier" never waits for a process that has come                    *)
(* (__mpi_barrier_stop_generic).                                           *)
EverythingHandled == LengthsKnown => <>(AllHandled /\ LinksDrawn)

=============================================================================
