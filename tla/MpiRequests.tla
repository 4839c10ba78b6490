---------------------------- MODULE MpiRequests ----------------------------
(***************************************************************************)
(* Waiting for several requests at once (handle_mpi_start_waitany,         *)
(* handle_mpi_stop_waitany and the same for waitall, in                    *)
(* src/src/modules/mpi/eztrace_convert_mpi.c), on top of the messages of   *)
(* MpiP2P.  The info events that hold the addresses of the requests are    *)
(* part of the event here: the handler reads them all before anything      *)
(* else happens to the trace.  An info event holds the address of a        *)
(* request and never the value MPI_REQUEST_NULL, for which the handlers    *)
(* also look.                                                              *)
(***************************************************************************)
EXTENDS MpiP2P

VARIABLES
    resume,    \* replays[].data.i: how many requests of its waitall a process has ended
    lost       \* the messages whose end was dropped (history)

varsR == <<vars, resume, lost>>

Reqs(p) == {Ev(p).reqs[i] : i \in DOMAIN Ev(p).reqs}

(* The messages of the requests of S, with their waits set to a time that  *)
(* depends on the type of the request.                                     *)
WaitsSet(p, S, time) ==
    LET waits(m) == {WaitTime(reqs[p][r]) : r \in {r \in S : MessageOf(p2p, p, reqs[p][r]) = m}}
    IN  [p2p EXCEPT !.msgs = [m \in DOMAIN p2p.msgs |->
            [p2p.msgs[m] EXCEPT !.times = [t \in TimeIds |-> IF t \in waits(m) THEN time[t] ELSE @[t]]]]]

HaveMessages(p, S) ==
    \A r \in S : r \in DOMAIN reqs[p] /\ MessageOf(p2p, p, reqs[p][r]) # NoMsg

Begin(p) == [t \in TimeIds |-> at[p]]

HandleStartWaitany(p) ==
    /\ Current(p, "start_waitany") /\ HaveMessages(p, Reqs(p))
    /\ p2p' = WaitsSet(p, Reqs(p), Begin(p))
    /\ Advance(p) /\ UNCHANGED <<reqs, resume, lost>>

(* "this means the request was already freed, let's skip this one" *)
HandleStartWaitall(p) ==
    /\ Current(p, "start_waitall") /\ HaveMessages(p, Reqs(p) \cap DOMAIN reqs[p])
    /\ p2p' = WaitsSet(p, Reqs(p) \cap DOMAIN reqs[p], Begin(p))
    /\ Advance(p) /\ UNCHANGED <<reqs, resume, lost>>

(* The successful request of a waitany, and the others that the handler    *)
(* looks at: those that precede it, and those that follow it as well if it *)
(* could not end the successful one.                                       *)
Successful(p) == Ev(p).reqs[Ev(p).index]
LookedAt(p, ended) ==
    {Ev(p).reqs[i] : i \in {i \in DOMAIN Ev(p).reqs : i < Ev(p).index \/ (i > Ev(p).index /\ ~ended)}}

(* A receive that goes on is not waited for any more, a send from now on.  *)
StopBegin(p) == [Begin(p) EXCEPT !["start_rwait"] = 0]

WaitanyAsserts(p) ==
    /\ EndAsserts(StateOf(p), p, Successful(p))
    /\ HaveMessages(p, LookedAt(p, CanEnd(StateOf(p), p, Successful(p))))

HandleStopWaitany(p) ==
    /\ Current(p, "stop_waitany") /\ WaitanyAsserts(p)
    /\ CanEnd(StateOf(p), p, Successful(p))
    /\ \E s \in {EndRequest([StateOf(p) EXCEPT !.q = WaitsSet(p, LookedAt(p, TRUE), StopBegin(p))],
                            p, Successful(p), at[p])} :
          p2p' = s.q /\ reqs' = [reqs EXCEPT ![p] = s.rq]
    /\ Advance(p) /\ UNCHANGED <<resume, lost>>

(* The send of the successful request is not known yet.  The handler asks  *)
(* for its event to be handled again (SKIP), but the info events that it   *)
(* has read are behind: the current event is the last of them, which no    *)
(* handler knows, and the end of the request is never seen again.          *)
StopWaitanyTooEarly(p) ==
    /\ Current(p, "stop_waitany") /\ WaitanyAsserts(p)
    /\ ~CanEnd(StateOf(p), p, Successful(p))
    /\ p2p' = WaitsSet(p, LookedAt(p, FALSE), StopBegin(p))
    /\ lost' = lost \cup {MessageOf(p2p, p, reqs[p][Successful(p)])}
    /\ Advance(p) /\ UNCHANGED <<reqs, resume>>

(* Fault: the loop goes on after a request that cannot be ended. *)
EndOthers(s, p, r) ==
    IF s.stop = "assertion" THEN s
    ELSE IF ~EndAsserts(s, p, r) THEN [s EXCEPT !.stop = "assertion"]
    ELSE IF ~CanEnd(s, p, r) THEN [s EXCEPT !.stop = "pending"]
    ELSE [EndRequest(s, p, r, at[p]) EXCEPT !.ended = @ + 1]

(* One step of the loop of handle_mpi_stop_waitall: the request r is ended  *)
(* unless it, or one before it, cannot be.                                 *)
EndNext(s, p, r) ==
    IF s.stop # "no" THEN s
    ELSE IF ~EndAsserts(s, p, r) THEN [s EXCEPT !.stop = "assertion"]
    ELSE IF ~CanEnd(s, p, r) THEN [s EXCEPT !.stop = "pending"]
    ELSE [EndRequest(s, p, r, at[p]) EXCEPT !.ended = @ + 1]

(* The loop, from the request that follows the first n.  (The CHOOSE among *)
(* one value makes TLC compute each step once.)                            *)
EndFrom(p, n) ==
    LET after[i \in n .. Len(Ev(p).reqs)] ==
            IF i = n THEN [q |-> p2p, rq |-> reqs[p], ended |-> n, stop |-> "no"]
            ELSE CHOOSE s \in {EndNext(t, p, Ev(p).reqs[i]) : t \in {after[i - 1]}} : TRUE
    IN  after[Len(Ev(p).reqs)]

(* From the first request or from the one that a replay resumes at. *)
WaitallFrom(p) == EndFrom(p, resume[p])

WaitallDone(p) == resume' = [resume EXCEPT ![p] = 0]

HandleStopWaitall(p) ==
    /\ Current(p, "stop_waitall")
    /\ \E s \in {WaitallFrom(p)} :
          /\ s.stop = "no"
          /\ p2p' = s.q /\ reqs' = [reqs EXCEPT ![p] = s.rq]
    /\ WaitallDone(p) /\ Advance(p) /\ UNCHANGED lost

(* ask_for_replay: what was ended stays so.  (A replay that ends nothing   *)
(* changes nothing.)                                                       *)
AskForReplay(p) ==
    /\ Current(p, "stop_waitall")
    /\ \E s \in {WaitallFrom(p)} :
          /\ s.stop = "pending" /\ s.ended > resume[p]
          /\ p2p' = s.q /\ reqs' = [reqs EXCEPT ![p] = s.rq]
          /\ resume' = [resume EXCEPT ![p] = s.ended]
    /\ UNCHANGED <<prog, at, failed, lost>>

WaitAssertionFails(p) ==
    /\ CASE Current(p, "start_waitany") -> ~HaveMessages(p, Reqs(p))
         [] Current(p, "start_waitall") -> ~HaveMessages(p, Reqs(p) \cap DOMAIN reqs[p])
         [] Current(p, "stop_waitany") -> ~WaitanyAsserts(p)
         [] Current(p, "stop_waitall") -> WaitallFrom(p).stop = "assertion"
         [] OTHER -> FALSE
    /\ failed' = TRUE
    /\ UNCHANGED <<prog, at, p2p, reqs, resume, lost>>

HandleWaits(p) ==
    \/ HandleStartWaitany(p) \/ HandleStopWaitany(p) \/ StopWaitanyTooEarly(p)
    \/ HandleStartWaitall(p) \/ HandleStopWaitall(p) \/ AskForReplay(p)
    \/ WaitAssertionFails(p)

InitR == Init /\ resume = [p \in Procs |-> 0] /\ lost = {}

NextR ==
    \/ \E p \in Procs : HandleEvent(p) /\ UNCHANGED <<resume, lost>>
    \/ \E p \in Procs : HandleWaits(p)
    \/ Terminated /\ UNCHANGED <<resume, lost>>

SpecR == InitR /\ [][NextR]_varsR
FairSpecR == SpecR /\ WF_varsR(NextR)

-----------------------------------------------------------------------------
(* Properties *)

(* A request, whichever call ends it, ends its own message: while it is in *)
(* progress its message is one that has started and not ended on its side, *)
(* and no other request has the same one.                                  *)
InProgress(p, r) == r \in DOMAIN reqs[p] /\ reqs[p][r].msg # NoMsg
Side(type) == IF type = "recv" THEN <<"start_recv", "stop_recv">> ELSE <<"start_send", "stop_send">>
OwnMessage ==
    \A p \in Procs : \A r \in DOMAIN reqs[p] : InProgress(p, r) =>
        LET req == reqs[p][r]
            times == p2p.msgs[req.msg].times
        IN  /\ times[Side(req.type)[1]] # 0 /\ times[Side(req.type)[2]] = 0
            /\ \A r2 \in DOMAIN reqs[p] \ {r} : InProgress(p, r2) /\ reqs[p][r2].type = req.type =>
                  reqs[p][r2].msg # req.msg

(* A waitall that was stopped has ended the requests that precede the one  *)
(* it resumes at, and that one is still in progress.                       *)
ReplayAfterEnded ==
    \A p \in Procs : resume[p] > 0 =>
        /\ \A i \in 1 .. resume[p] : ~InProgress(p, Ev(p).reqs[i])
        /\ InProgress(p, Ev(p).reqs[resume[p] + 1])

(* When all the traces were read, the communications still pending are     *)
(* those whose end a waitany dropped, and no request is in progress but    *)
(* theirs, when no wildcard is ambiguous: each other message that was sent *)
(* and received has left both lists ("In that case, this function has to   *)
(* be called again when the matching isend occurs",                        *)
(* __mpi_stop_recv_generic).                                               *)
OnlyLostPending ==
    Unambiguous /\ AllHandled =>
        /\ \A p \in Procs : \A list \in {p2p.incoming[p], p2p.outgoing[p]} :
              \A i \in DOMAIN list : list[i].msg \in lost
        /\ \A p \in Procs : \A r \in DOMAIN reqs[p] : InProgress(p, r) => reqs[p][r].msg \in lost

(* The programs that wait again, with others, for a request that has ended *)
(* and was not started since.                                              *)
EndedBy(e) ==
    CASE e.op \in {"stop_wait", "test_success", "stop_waitall"} -> {e.reqs[i] : i \in DOMAIN e.reqs}
      [] e.op = "stop_waitany" -> {e.reqs[e.index]}
      [] OTHER -> {}
Holds(e, r) == \E n \in DOMAIN e.reqs : e.reqs[n] = r
AwaitedAgain ==
    \E p \in Procs : \E i, j \in DOMAIN prog[p] :
        /\ i < j /\ prog[p][j].op \in {"start_waitany", "start_waitall"}
        /\ \E r \in EndedBy(prog[p][i]) :
              /\ Holds(prog[p][j], r)
              /\ \A k \in i + 1 .. j - 1 :
                    ~(prog[p][k].op \in {"isend", "irecv", "start"} /\ Holds(prog[p][k], r))

(* The converter reaches the end of all the traces, when no wildcard is    *)
(* ambiguous and no request that has ended is waited for again: no receive *)
(* waits forever, no replay comes back forever, no assertion fails.        *)
AllWaitsHandled == Unambiguous /\ ~AwaitedAgain => <>AllHandled

=============================================================================
