------------------------------ MODULE MpiCalls ------------------------------
(***************************************************************************)
(* What the wrappers of the MPI functions record                           *)
(* (src/src/modules/mpi/mpi_funcs): for each call the events, in order,    *)
(* from which eztrace_convert rebuilds the messages.  The events of the    *)
(* four kinds of sends differ only by a code that is converted alike.      *)
(***************************************************************************)
EXTENDS Integers, Sequences

E(op, peer, tag) ==
    [op |-> op, peer |-> peer, tag |-> tag, src |-> -1, stag |-> -1, reqs |-> << >>, index |-> 0]

OnReqs(op, rs) == [E(op, -1, -1) EXCEPT !.reqs = rs]

Send(d, t) == <<E("start_send", d, t), E("stop_send", d, t)>>
Bsend(d, t) == Send(d, t)
Ssend(d, t) == Send(d, t)
Rsend(d, t) == Send(d, t)
Recv(s, t) == <<E("start_recv", s, t), E("stop_recv", s, t)>>

(* MPI_Sendrecv to d with tag t and from s with tag u.  The wrapper puts    *)
(* the source in the first event at the start and the destination in its   *)
(* info event, and the other way round at the end; the handlers of the     *)
(* converter expect the opposite, and take s for the destination and d for *)
(* the source.                                                             *)
Sendrecv(d, t, s, u) ==
    [i \in 1 .. 2 |-> [E(<<"start_sendrecv", "stop_sendrecv">>[i], s, u) EXCEPT !.src = d, !.stag = t]]
SendrecvReplace(d, t, s, u) == Sendrecv(d, t, s, u)

(* Recorded after the call, which sets the request. *)
Isend(d, t, r) == <<[E("isend", d, t) EXCEPT !.reqs = <<r>>]>>
Ibsend(d, t, r) == Isend(d, t, r)
Issend(d, t, r) == Isend(d, t, r)
Irsend(d, t, r) == Isend(d, t, r)
Irecv(s, t, r) == <<[E("irecv", s, t) EXCEPT !.reqs = <<r>>]>>
SendInit(d, t, r) == <<[E("send_init", d, t) EXCEPT !.reqs = <<r>>]>>
BsendInit(d, t, r) == SendInit(d, t, r)
SsendInit(d, t, r) == SendInit(d, t, r)
RsendInit(d, t, r) == SendInit(d, t, r)
RecvInit(s, t, r) == <<[E("recv_init", s, t) EXCEPT !.reqs = <<r>>]>>

Start(r) == <<OnReqs("start", <<r>>)>>
Startall(rs) == [i \in DOMAIN rs |-> OnReqs("start", <<rs[i]>>)]

Wait(r) == <<OnReqs("start_wait", <<r>>), OnReqs("stop_wait", <<r>>)>>

(* A start for each request, then an end for each that has completed. *)
Waitsome(rs, completed) ==
    [i \in DOMAIN rs |-> OnReqs("start_wait", <<rs[i]>>)] \o
    [i \in DOMAIN completed |-> OnReqs("stop_wait", <<completed[i]>>)]

(* A test is recorded when it succeeds; Testall then records each request, *)
(* Testany the one that has completed.                                     *)
Test(r) == <<OnReqs("test_success", <<r>>)>>
Testall(rs) == [i \in DOMAIN rs |-> OnReqs("test_success", <<rs[i]>>)]
Testany(rs, i) == Test(rs[i])

(* The addresses of all the requests follow in info events. *)
Waitany(rs, i) ==
    <<OnReqs("start_waitany", rs), [OnReqs("stop_waitany", rs) EXCEPT !.index = i]>>
Waitall(rs) == <<OnReqs("start_waitall", rs), OnReqs("stop_waitall", rs)>>

=============================================================================
