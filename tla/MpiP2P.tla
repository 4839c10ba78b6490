------------------------------- MODULE MpiP2P -------------------------------
(***************************************************************************)
(* The point-to-point messages of the MPI module of eztrace_convert        *)
(* (src/src/modules/mpi/eztrace_convert_mpi_p2p.c and the handlers of      *)
(* eztrace_convert_mpi.c that call it): the starts and the ends of sends   *)
(* and receives, read from the traces of the processes in whatever order   *)
(* the scheduler takes them, are put together again into messages.         *)
(*                                                                         *)
(* A rank is the index of its trace (rank_to_trace_id is the identity) and *)
(* the communicator is MPI_COMM_WORLD.  A time is the index of an event in *)
(* the trace of its process.                                               *)
(***************************************************************************)
EXTENDS Integers, Sequences, FiniteSets, FiniteSetsExt

CONSTANTS NbProcs,     \* number of processes, one trace each
          Tags,        \* message tags
          Ptrs,        \* addresses of the request variables of the program
          Programs     \* the inputs considered: [Procs -> Seq(MpiEvent)]

Procs == 0 .. NbProcs - 1

Wild == -1              \* MPI_ANY_SOURCE and MPI_ANY_TAG
NoReq == 0             \* no request: a blocking operation
NoMsg == 0

Ops == {"start_send", "stop_send", "start_recv", "stop_recv",
        "start_sendrecv", "stop_sendrecv", "isend", "irecv", "start_wait", "stop_wait",
        "test_success", "send_init", "recv_init", "start",
        "start_waitany", "stop_waitany", "start_waitall", "stop_waitall"}

(* "peer" and "tag" are the parameters of the event, "src" and "stag" those *)
(* that the handlers take for the receive of a sendrecv, "reqs" the         *)
(* addresses of its requests and "index" which of them a waitany ended.     *)
(* (The handlers of waitany and waitall are in MpiRequests.)                *)
MpiEvent == [op : Ops, peer : Procs \cup {Wild}, tag : Tags \cup {Wild},
             src : Procs \cup {Wild}, stag : Tags \cup {Wild}, reqs : Seq(Ptrs), index : Nat]

ASSUME NbProcsAssumption == NbProcs \in Nat \ {0}
ASSUME TagsAssumption == Tags \subseteq Nat /\ Ptrs \subseteq Nat \ {0}
ASSUME ProgramsAssumption == \A w \in Programs : w \in [Procs -> Seq(MpiEvent)]

(* A send names its destination and its tag, as MPI asks, and so does the  *)
(* first half of a sendrecv; the calls about requests give one.            *)
Named(e) == e.op \in {"start_send", "start_sendrecv", "isend", "send_init"} => e.peer \in Procs /\ e.tag \in Tags
HasRequest(e) ==
    e.op \in {"isend", "irecv", "send_init", "recv_init", "start"} => e.reqs # << >>
ASSUME CallsAssumption ==
    \A w \in Programs : \A p \in Procs : \A i \in DOMAIN w[p] : Named(w[p][i]) /\ HasRequest(w[p][i])

TimeIds == {"start_send", "start_swait", "stop_send", "start_recv", "start_rwait", "stop_recv"}
AllDone == {"NONE_DONE", "IRECV_DONE", "ISEND_DONE", "RWAIT_DONE", "SWAIT_DONE"}

VARIABLES
    prog,      \* the input: the MPI events of each trace
    at,        \* index of the current event of each trace
    p2p,       \* the messages and, per process, pending_comm[incoming] and [outgoing]
               \* (entries are added at the end: each is under the index of its event)
    reqs,      \* per process, the last request recorded for an address, if any
    failed     \* an assertion of the program failed: it aborts

vars == <<prog, at, p2p, reqs, failed>>

Ev(p) == prog[p][at[p]]

-----------------------------------------------------------------------------
(* Searches in the lists of pending communications *)

Compatible(m, src, dest, tag) ==
    /\ m.dest = dest
    /\ m.src = src \/ m.src = Wild \/ src = Wild
    /\ m.tag = tag \/ m.tag = Wild \/ tag = Wild

(* __mpi_p2p_find_pending_comm takes the first of these entries of a list. *)
Candidates(q, list, src, dest, tag, ok, notOk) ==
    {i \in DOMAIN list : /\ Compatible(q.msgs[list[i].msg], src, dest, tag)
                         /\ ok \in list[i].status
                         /\ notOk \notin list[i].status}

None == [proc |-> -1, i |-> 0]

(* Fault: the last entry that matches is taken. *)
LastMatch(p, S) == IF S = {} THEN None ELSE [proc |-> p, i |-> CHOOSE i \in S : \A j \in S : j <= i]

FirstOf(p, S) == IF S = {} THEN None ELSE [proc |-> p, i |-> CHOOSE i \in S : \A j \in S : i <= j]

FindIrecv(q, src, dest, tag, ok, notOk) ==
    FirstOf(dest, Candidates(q, q.incoming[dest], src, dest, tag, ok, notOk))

(* With MPI_ANY_SOURCE the processes are searched in the order of ranks.   *)
FindIsend(q, src, dest, tag, ok, notOk) ==
    LET in(p) == Candidates(q, q.outgoing[p], p, dest, tag, ok, notOk)
        having == {p \in Procs : in(p) # {}}
    IN  IF src # Wild THEN FirstOf(src, in(src))
        ELSE IF having = {} THEN None
        ELSE LET p == CHOOSE p \in having : \A r \in having : p <= r IN FirstOf(p, in(p))

(* Fault: the flag replaces the others. *)
OnlyStatus(lists, e, flag) ==
    IF e = None THEN lists ELSE [lists EXCEPT ![e.proc][e.i].status = {flag}]

AddStatus(lists, e, flag) ==
    IF e = None THEN lists ELSE [lists EXCEPT ![e.proc][e.i].status = @ \cup {flag}]

AddEntry(lists, p, m, status, now) ==
    [lists EXCEPT ![p] = [i \in DOMAIN @ \cup {now} |->
                            IF i = now THEN [msg |-> m, status |-> status] ELSE @[i]]]

NewMsg(src, dest, tag) ==
    [src |-> src, dest |-> dest, tag |-> tag, times |-> [t \in TimeIds |-> 0],
     sreq |-> NoReq, rreq |-> NoReq]

SetTime(q, m, time, now) == [q EXCEPT !.msgs[m].times[time] = now]
SetTimeOnce(q, m, time, now) ==
    IF q.msgs[m].times[time] = 0 THEN SetTime(q, m, time, now) ELSE q

(* The wildcards of a receive are replaced by what the send says. *)
Resolved(msg, src, tag) ==
    [msg EXCEPT !.src = IF @ = Wild THEN src ELSE @, !.tag = IF @ = Wild THEN tag ELSE @]

-----------------------------------------------------------------------------
(* The four operations on messages.  They return the new state; the        *)
(* message is the one of the entry they found, or the last one if new.     *)

StartRecv(q, src, dest, tag, req, now) ==
    LET e == FindIsend(q, src, dest, tag, "NONE_DONE", "IRECV_DONE")
        isNew == e = None
        m == IF isNew THEN Len(q.msgs) + 1 ELSE q.outgoing[e.proc][e.i].msg
        outgoing == AddStatus(q.outgoing, e, "IRECV_DONE")
        msg == [(IF isNew THEN NewMsg(src, dest, tag) ELSE q.msgs[m])
                  EXCEPT !.rreq = req, !.times["start_recv"] = now]
    IN  [q |-> [msgs |-> IF isNew THEN Append(q.msgs, msg) ELSE [q.msgs EXCEPT ![m] = msg],
                outgoing |-> outgoing,
                incoming |-> AddEntry(q.incoming, dest, m,
                               IF isNew THEN {"NONE_DONE", "IRECV_DONE"}
                               ELSE {"NONE_DONE"} \cup outgoing[e.proc][e.i].status, now)],
         msg |-> m]

StartSend(q, src, dest, tag, req, now) ==
    LET e == FindIrecv(q, src, dest, tag, "NONE_DONE", "ISEND_DONE")
        isNew == e = None
        m == IF isNew THEN Len(q.msgs) + 1 ELSE q.incoming[e.proc][e.i].msg
        incoming == AddStatus(q.incoming, e, "ISEND_DONE")
        msg == [Resolved(IF isNew THEN NewMsg(src, dest, tag) ELSE q.msgs[m], src, tag)
                  EXCEPT !.sreq = req, !.times["start_send"] = now]
    IN  [q |-> [msgs |-> IF isNew THEN Append(q.msgs, msg) ELSE [q.msgs EXCEPT ![m] = msg],
                incoming |-> incoming,
                outgoing |-> AddEntry(q.outgoing, src, m,
                               IF isNew THEN {"NONE_DONE", "ISEND_DONE"}
                               ELSE {"NONE_DONE"} \cup incoming[e.proc][e.i].status, now)],
         msg |-> m]

Without(list, S) == [i \in DOMAIN list \ S |-> list[i]]
EntriesOf(list, m) == {i \in DOMAIN list : list[i].msg = m /\ list[i].status = AllDone}

(* Fault: the entry of the receiver stays. *)
ReceiverKept(q, m) == [q EXCEPT !.outgoing[q.msgs[m].src] = Without(@, EntriesOf(@, m))]

(* Fault: the end of the receive completes the message. *)
CompletedByReceiver(q, m) ==
    LET ofM(list) == {i \in DOMAIN list : list[i].msg = m}
    IN  IF q.msgs[m].times["stop_recv"] = 0 THEN q
        ELSE [q EXCEPT !.outgoing[q.msgs[m].src] = Without(@, ofM(@)),
                       !.incoming[q.msgs[m].dest] = Without(@, ofM(@))]

(* __message_set_completed: a message that both sides have ended leaves    *)
(* the pending lists, where its entries have all their flags.              *)
SetCompleted(q, m) ==
    LET msg == q.msgs[m]
    IN  IF \E t \in TimeIds : msg.times[t] = 0 THEN q
        ELSE [q EXCEPT !.outgoing[msg.src] = Without(@, EntriesOf(@, m)),
                       !.incoming[msg.dest] = Without(@, EntriesOf(@, m))]

(* The entries that the ends of a receive and of a send are about. *)
EndingRecv(q, src, dest, tag) == FindIrecv(q, src, dest, tag, "IRECV_DONE", "RWAIT_DONE")
EndingSend(q, src, dest, tag) == FindIsend(q, src, dest, tag, "ISEND_DONE", "SWAIT_DONE")

(* Fault: the receive ends whether or not the send is known. *)
SendAssumed(q, e) == TRUE

(* Without the send the receive cannot end yet: __stop_recv_message        *)
(* returns NULL and the event is deferred (SKIP).                          *)
SendSeen(q, e) == "ISEND_DONE" \in q.incoming[e.proc][e.i].status

StopRecv(q, src, dest, tag, now) ==
    LET e == EndingRecv(q, src, dest, tag)
        m == q.incoming[e.proc][e.i].msg
        other == FindIsend(q, src, dest, tag, "NONE_DONE", "RWAIT_DONE")
        marked == [q EXCEPT !.incoming = AddStatus(@, e, "RWAIT_DONE"),
                            !.outgoing = AddStatus(@, other, "RWAIT_DONE")]
    IN  SetCompleted(SetTime(SetTimeOnce(marked, m, "start_rwait", now), m, "stop_recv", now), m)

StopSend(q, src, dest, tag, now) ==
    LET e == EndingSend(q, src, dest, tag)
        m == q.outgoing[e.proc][e.i].msg
        other == FindIrecv(q, src, dest, tag, "NONE_DONE", "SWAIT_DONE")
        marked == [q EXCEPT !.outgoing = AddStatus(@, e, "SWAIT_DONE"),
                            !.incoming = AddStatus(@, other, "SWAIT_DONE"),
                            !.msgs[m] = Resolved(@, src, tag)]
    IN  SetCompleted(SetTime(SetTimeOnce(marked, m, "start_swait", now), m, "stop_send", now), m)

-----------------------------------------------------------------------------
Init ==
    /\ prog \in Programs
    /\ at = [p \in Procs |-> 1]
    /\ p2p = [msgs |-> << >>,
              incoming |-> [p \in Procs |-> << >>],
              outgoing |-> [p \in Procs |-> << >>]]
    /\ reqs = [p \in Procs |-> [r \in {} |-> 0]]
    /\ failed = FALSE

Current(p, op) == ~failed /\ at[p] <= Len(prog[p]) /\ Ev(p).op = op

Advance(p) == at' = [at EXCEPT ![p] = @ + 1] /\ UNCHANGED <<prog, failed>>

HandleStartSend(p) ==
    /\ Current(p, "start_send")
    /\ LET r == StartSend(p2p, p, Ev(p).peer, Ev(p).tag, NoReq, at[p])
       IN  p2p' = SetTimeOnce(r.q, r.msg, "start_swait", at[p])
    /\ Advance(p) /\ UNCHANGED reqs

HandleStopSend(p) ==
    /\ Current(p, "stop_send")
    /\ EndingSend(p2p, p, Ev(p).peer, Ev(p).tag) # None
    /\ p2p' = StopSend(p2p, p, Ev(p).peer, Ev(p).tag, at[p])
    /\ Advance(p) /\ UNCHANGED reqs

HandleStartRecv(p) ==
    /\ Current(p, "start_recv")
    /\ LET r == StartRecv(p2p, Ev(p).peer, p, Ev(p).tag, NoReq, at[p])
       IN  p2p' = SetTimeOnce(r.q, r.msg, "start_rwait", at[p])
    /\ Advance(p) /\ UNCHANGED reqs

CanStopRecv(src, p, tag) ==
    LET e == EndingRecv(p2p, src, p, tag) IN e # None /\ SendSeen(p2p, e)

HandleStopRecv(p) ==
    /\ Current(p, "stop_recv")
    /\ CanStopRecv(Ev(p).peer, p, Ev(p).tag)
    /\ p2p' = StopRecv(p2p, Ev(p).peer, p, Ev(p).tag, at[p])
    /\ Advance(p) /\ UNCHANGED reqs

(* The handlers of sendrecv read the parameters of the second half in an   *)
(* info event that follows.                                                *)
HandleStartSendrecv(p) ==
    /\ Current(p, "start_sendrecv")
    /\ \E s \in {StartSend(p2p, p, Ev(p).peer, Ev(p).tag, NoReq, at[p])} :
       \E q \in {SetTimeOnce(s.q, s.msg, "start_swait", at[p])} :
       \E r \in {StartRecv(q, Ev(p).src, p, Ev(p).stag, NoReq, at[p])} :
          p2p' = SetTimeOnce(r.q, r.msg, "start_rwait", at[p])
    /\ Advance(p) /\ UNCHANGED reqs

HandleStopSendrecv(p) ==
    /\ Current(p, "stop_sendrecv")
    /\ CanStopRecv(Ev(p).src, p, Ev(p).stag)
    /\ \E q \in {StopRecv(p2p, Ev(p).src, p, Ev(p).stag, at[p])} :
          /\ EndingSend(q, p, Ev(p).peer, Ev(p).tag) # None
          /\ p2p' = StopSend(q, p, Ev(p).peer, Ev(p).tag, at[p])
    /\ Advance(p) /\ UNCHANGED reqs

(* __mpi_new_mpi_request: the array of the requests is searched from its   *)
(* end, a new request hides the older ones of the same address.            *)
NewRequest(p, type, m, persistent) ==
    LET ptr == Ev(p).reqs[1] IN
    reqs' = [reqs EXCEPT ![p] = [r \in DOMAIN @ \cup {ptr} |->
                IF r # ptr THEN @[r]
                ELSE [id |-> at[p], type |-> type, msg |-> m, persistent |-> persistent,
                      peer |-> Ev(p).peer, tag |-> Ev(p).tag]]]

HandleIsend(p) ==
    /\ Current(p, "isend")
    /\ LET r == StartSend(p2p, p, Ev(p).peer, Ev(p).tag, at[p], at[p])
       IN  p2p' = r.q /\ NewRequest(p, "send", r.msg, FALSE)
    /\ Advance(p)

HandleIrecv(p) ==
    /\ Current(p, "irecv")
    /\ LET r == StartRecv(p2p, Ev(p).peer, p, Ev(p).tag, at[p], at[p])
       IN  p2p' = r.q /\ NewRequest(p, "recv", r.msg, FALSE)
    /\ Advance(p)

(* A persistent request remembers its parameters and has no message yet.   *)
HandlePersInit(p) ==
    /\ \/ Current(p, "send_init") /\ NewRequest(p, "send", NoMsg, TRUE)
       \/ Current(p, "recv_init") /\ NewRequest(p, "recv", NoMsg, TRUE)
    /\ Advance(p) /\ UNCHANGED p2p

(* The request of the (first) address of the current event. *)
Known(p) == Ev(p).reqs[1] \in DOMAIN reqs[p]
Req(p) == reqs[p][Ev(p).reqs[1]]

HandleStart(p) ==
    /\ Current(p, "start") /\ Known(p) /\ Req(p).persistent
    /\ LET r == IF Req(p).type = "send"
                THEN StartSend(p2p, p, Req(p).peer, Req(p).tag, Req(p).id, at[p])
                ELSE StartRecv(p2p, Req(p).peer, p, Req(p).tag, Req(p).id, at[p])
       IN  p2p' = r.q /\ reqs' = [reqs EXCEPT ![p][Ev(p).reqs[1]].msg = r.msg]
    /\ Advance(p)

(* __mpi_find_p2p_message_by_mpi_req: the message of a request.  For a      *)
(* request that has ended the messages that the process received are       *)
(* searched, the last one first.                                           *)
MessageOf(q, p, req) ==
    LET found == {m \in DOMAIN q.msgs :
                    /\ q.msgs[m].dest = p
                    /\ IF req.type = "recv" THEN q.msgs[m].rreq = req.id
                       ELSE q.msgs[m].src = p /\ q.msgs[m].sreq = req.id}
    IN  IF req.msg # NoMsg THEN req.msg
        ELSE IF found = {} THEN NoMsg ELSE Max(found)

WaitTime(req) == IF req.type = "recv" THEN "start_rwait" ELSE "start_swait"

(* handle_mpi_start_wait asserts that the request and its message exist.   *)
HandleStartWait(p) ==
    /\ Current(p, "start_wait")
    /\ Known(p) /\ MessageOf(p2p, p, Req(p)) # NoMsg
    /\ p2p' = SetTime(p2p, MessageOf(p2p, p, Req(p)), WaitTime(Req(p)), at[p])
    /\ Advance(p) /\ UNCHANGED reqs

(* __handle_mpi_test_success for the request r of p, on the messages s.q   *)
(* and the requests s.rq of p: what it asserts, whether it can end the     *)
(* request now, and the result.  An unknown request is skipped.            *)
EndAsserts(s, p, r) ==
    r \in DOMAIN s.rq =>
        LET m == MessageOf(s.q, p, s.rq[r]) IN
        /\ m # NoMsg
        /\ IF s.rq[r].type = "recv"
           THEN /\ s.q.msgs[m].rreq = s.rq[r].id
                /\ EndingRecv(s.q, s.q.msgs[m].src, p, s.q.msgs[m].tag) # None
           ELSE /\ s.q.msgs[m].sreq = s.rq[r].id
                /\ EndingSend(s.q, p, s.q.msgs[m].dest, s.q.msgs[m].tag) # None

CanEnd(s, p, r) ==
    r \in DOMAIN s.rq /\ s.rq[r].type = "recv" =>
        LET msg == s.q.msgs[MessageOf(s.q, p, s.rq[r])]
        IN  SendSeen(s.q, EndingRecv(s.q, msg.src, p, msg.tag))

(* Fault: the request keeps its message. *)
EndKeepsMsg(s, p, r, now) ==
    IF r \notin DOMAIN s.rq THEN s
    ELSE LET msg == s.q.msgs[MessageOf(s.q, p, s.rq[r])]
         IN  [s EXCEPT !.q = IF s.rq[r].type = "recv" THEN StopRecv(@, msg.src, p, msg.tag, now)
                             ELSE StopSend(@, p, msg.dest, msg.tag, now)]

EndRequest(s, p, r, now) ==
    IF r \notin DOMAIN s.rq THEN s
    ELSE LET msg == s.q.msgs[MessageOf(s.q, p, s.rq[r])]
         IN  [s EXCEPT !.q = IF s.rq[r].type = "recv" THEN StopRecv(@, msg.src, p, msg.tag, now)
                             ELSE StopSend(@, p, msg.dest, msg.tag, now),
                       !.rq[r].msg = NoMsg]

StateOf(p) == [q |-> p2p, rq |-> reqs[p]]

(* The end of a wait, or a test that succeeds. *)
HandleStopWait(p) ==
    /\ Current(p, "stop_wait") \/ Current(p, "test_success")
    /\ EndAsserts(StateOf(p), p, Ev(p).reqs[1])
    /\ CanEnd(StateOf(p), p, Ev(p).reqs[1])
    /\ \E s \in {EndRequest(StateOf(p), p, Ev(p).reqs[1], at[p])} :
          p2p' = s.q /\ reqs' = [reqs EXCEPT ![p] = s.rq]
    /\ Advance(p)

(* assert(pending_comm), in __stop_recv_message and __stop_send_message:   *)
(* the communication that ends is not pending.  The other assertions are   *)
(* about the request of the event.                                         *)
RecvMissing(src, p, tag) == EndingRecv(p2p, src, p, tag) = None

AssertionFails(p) ==
    /\ CASE Current(p, "stop_send") -> EndingSend(p2p, p, Ev(p).peer, Ev(p).tag) = None
         [] Current(p, "stop_recv") -> RecvMissing(Ev(p).peer, p, Ev(p).tag)
         [] Current(p, "stop_sendrecv") -> RecvMissing(Ev(p).src, p, Ev(p).stag)
         [] Current(p, "start") -> ~(Known(p) /\ Req(p).persistent)
         [] Current(p, "start_wait") -> ~(Known(p) /\ MessageOf(p2p, p, Req(p)) # NoMsg)
         [] Current(p, "stop_wait") \/ Current(p, "test_success") ->
                ~EndAsserts(StateOf(p), p, Ev(p).reqs[1])
         [] OTHER -> FALSE
    /\ failed' = TRUE
    /\ UNCHANGED <<prog, at, p2p, reqs>>

HandleEvent(p) ==
    \/ HandleStartSend(p) \/ HandleStopSend(p)
    \/ HandleStartRecv(p) \/ HandleStopRecv(p)
    \/ HandleStartSendrecv(p) \/ HandleStopSendrecv(p)
    \/ HandleIsend(p) \/ HandleIrecv(p)
    \/ HandlePersInit(p) \/ HandleStart(p)
    \/ HandleStartWait(p) \/ HandleStopWait(p)
    \/ AssertionFails(p)

AllHandled == \A p \in Procs : at[p] > Len(prog[p])

Terminated == (AllHandled \/ failed) /\ UNCHANGED vars

Next == (\E p \in Procs : HandleEvent(p)) \/ Terminated

Spec == Init /\ [][Next]_vars

(* EztSched lets every trace progress that is not waiting for another one. *)
FairSpec == Spec /\ WF_vars(Next)

-----------------------------------------------------------------------------
(* Properties *)

(* The events that start a send and those that start a receive, and their  *)
(* parameters: those of a persistent request are given by its init.        *)
InitOf(p, i) ==
    prog[p][Max({j \in 1 .. i - 1 : /\ prog[p][j].op \in {"send_init", "recv_init"}
                                    /\ prog[p][j].reqs[1] = prog[p][i].reqs[1]})]
Params(p, i) == IF prog[p][i].op = "start" THEN InitOf(p, i) ELSE prog[p][i]
Sends(p) ==
    {i \in DOMAIN prog[p] :
        \/ prog[p][i].op \in {"start_send", "start_sendrecv", "isend"}
        \/ prog[p][i].op = "start" /\ InitOf(p, i).op = "send_init"}
Recvs(p) ==
    {i \in DOMAIN prog[p] :
        \/ prog[p][i].op \in {"start_recv", "start_sendrecv", "irecv"}
        \/ prog[p][i].op = "start" /\ InitOf(p, i).op = "recv_init"}
RecvSource(p, i) ==
    IF prog[p][i].op = "start_sendrecv" THEN <<prog[p][i].src, prog[p][i].stag>>
    ELSE <<Params(p, i).peer, Params(p, i).tag>>

(* Which of the sends of p to a rank with a tag the i-th event of p is, and *)
(* which of its receives from a rank with a tag.                            *)
SendNumber(p, i, dest, tag) ==
    Cardinality({j \in Sends(p) : j <= i /\ Params(p, j).peer = dest /\ Params(p, j).tag = tag})
RecvNumber(p, i, src, tag) ==
    Cardinality({j \in Recvs(p) : j <= i /\ RecvSource(p, j) = <<src, tag>>})
NoWildcard(p) ==
    \A i \in Recvs(p) : RecvSource(p, i)[1] # Wild /\ RecvSource(p, i)[2] # Wild

(* Messages do not overtake each other: whatever the order in which the    *)
(* traces are read, a message pairs the n-th send of a process to another  *)
(* with a tag and the n-th receive of the latter from the former with it.  *)
(* (For processes whose receives have no wildcard.)                        *)
PairedInOrder ==
    \A m \in DOMAIN p2p.msgs :
        LET msg == p2p.msgs[m]
            s == msg.times["start_send"]
            r == msg.times["start_recv"]
        IN  s # 0 /\ r # 0 /\ NoWildcard(msg.dest) =>
              SendNumber(msg.src, s, msg.dest, msg.tag) = RecvNumber(msg.dest, r, msg.src, msg.tag)

(* On each side of a message the wait follows the start and the end        *)
(* follows the wait; the receive does not end before the send has started. *)
TimesConsistent ==
    \A m \in DOMAIN p2p.msgs :
        LET t == p2p.msgs[m].times IN
        /\ t["stop_send"] # 0 =>
              0 < t["start_send"] /\ t["start_send"] <= t["start_swait"] /\ t["start_swait"] <= t["stop_send"]
        /\ t["stop_recv"] # 0 =>
              /\ 0 < t["start_recv"] /\ t["start_recv"] <= t["start_rwait"] /\ t["start_rwait"] <= t["stop_recv"]
              /\ t["start_send"] # 0

(* The kinds of sends (sender and tag) that a receive of p can match, and  *)
(* the programs in which no wildcard leaves a choice between two of them.  *)
MatchingSends(p, source) ==
    {k \in Procs \X Tags :
        /\ source[1] \in {k[1], Wild} /\ source[2] \in {k[2], Wild}
        /\ \E i \in Sends(k[1]) : Params(k[1], i).peer = p /\ Params(k[1], i).tag = k[2]}
Unambiguous ==
    \A p \in Procs : \A i \in Recvs(p) : Cardinality(MatchingSends(p, RecvSource(p, i))) <= 1

(* The entry of a message in the list of its sender and the one in the     *)
(* list of its receiver say the same of its progress, though each          *)
(* operation searches them separately, when no wildcard is ambiguous.      *)
StatusMirrored ==
    Unambiguous =>
    \A s, r \in Procs : \A i \in DOMAIN p2p.outgoing[s], j \in DOMAIN p2p.incoming[r] :
        p2p.outgoing[s][i].msg = p2p.incoming[r][j].msg =>
            p2p.outgoing[s][i].status = p2p.incoming[r][j].status

(* The converter reaches the end of all the traces: no receive waits       *)
(* forever for a send that was given to another one.                       *)
EverythingHandled == Unambiguous => <>AllHandled

=============================================================================
