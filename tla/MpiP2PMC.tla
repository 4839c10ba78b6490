------------------------------ MODULE MpiP2PMC ------------------------------
(* Small MPI programs, as the events of their processes. *)
EXTENDS MpiP2P, MpiCalls

Three(e0, e1, e2) == [p \in 0 .. 2 |-> <<e0, e1, e2>>[p + 1]]
Two(e0, e1) == Three(e0, e1, << >>)     \* the third process does nothing

(* Blocking operations: two sends with the same tag or two tags, received  *)
(* in an order that MPI allows, and an answer.                             *)
Blocking ==
    {Two(Send(1, 1) \o Ssend(1, t) \o Recv(1, u),
         (IF swap THEN Recv(0, t) \o Recv(0, 1) ELSE Recv(0, 1) \o Recv(0, t)) \o Rsend(0, 2))
       : t \in {1, 2}, u \in {2, Wild}, swap \in BOOLEAN}

Exchange == {Two(Sendrecv(1, 1, 1, t), Sendrecv(0, t, 0, 1)) : t \in {1, 2}}
            \cup {Two(Send(1, 1) \o Sendrecv(1, 1, 1, 1), SendrecvReplace(0, 1, 0, 1) \o Recv(0, 1))}

(* Requests waited for in the order of their operations. *)
Requests ==
    {Two(Issend(1, 1, 1) \o Ibsend(1, t, 2) \o Wait(1) \o Wait(2) \o Irsend(1, 1, 1) \o Wait(1),
         Irecv(0, 1, 1) \o Irecv(0, t, 2) \o Wait(1) \o Wait(2) \o Recv(0, 1)) : t \in {1, 2}}
    \cup {Two(Isend(1, 1, 1) \o Recv(1, 2) \o Wait(1), Irecv(0, Wild, 2) \o Send(0, 2) \o Wait(2))}

(* Persistent requests, started twice; a test instead of a wait. *)
Persistent ==
    {Two(BsendInit(1, 1, 1) \o Start(1) \o Wait(1) \o Start(1) \o Test(1) \o Send(1, t),
         RecvInit(0, u, 2) \o Start(2) \o Test(2) \o Start(2) \o Wait(2) \o Recv(0, t)) :
       t \in {1, 2}, u \in {1}}
    \cup {Two(SsendInit(1, 2, 1) \o Isend(1, 1, 2) \o Startall(<<1>>) \o Waitsome(<<1, 2>>, <<2, 1>>),
              RecvInit(Wild, 2, 1) \o Startall(<<1>>) \o Recv(0, 1) \o Wait(1))}

Ordered == Blocking \cup Exchange \cup Requests \cup Persistent

(* Two processes that exchange messages through a third one. *)
Relay ==
    {Three(Send(1, 1) \o Recv(1, t), Recv(0, 1) \o Send(2, t) \o Recv(2, 1) \o Bsend(0, t),
           Recv(1, t) \o Send(1, 1)) : t \in {1, 2}}

(* Wildcard receives that a single send can match. *)
AnySource ==
    {Three(Send(1, 1), Recv(Wild, 1) \o Recv(Wild, 2), Send(1, 2)),
     Three(Recv(1, 1), Irecv(Wild, 1, 1) \o Wait(1) \o Send(0, 1), Send(1, 1))}

(* Each process sends to the next and receives from the one before.        *)
Shift == {Three(Sendrecv(1, 1, 2, 1), Sendrecv(2, 1, 0, 1), Sendrecv(0, 1, 1, 1))}

ThreeProcs == Relay \cup AnySource \cup Shift

(* A process that receives from any source what two others send. *)
MasterWorker == {Three(Send(1, 1), Recv(Wild, 1) \o Recv(Wild, 1), Send(1, 1))}

(* The same with an answer, tags that tell the messages apart, or a first  *)
(* receive that names its source.                                          *)
Wildcards ==
    MasterWorker \cup
    {Three(Send(1, t) \o Recv(1, 2), Recv(a, u) \o Recv(Wild, Wild) \o Send(0, 2), Send(1, 1)) :
       <<t, a, u>> \in ({1, 2} \X {0, 2, Wild} \X {1, Wild}) \ {<<2, 0, 1>>}}

AllPrograms == Ordered \cup ThreeProcs \cup Wildcards

(* A message that goes round: one process sends and receives at once, the  *)
(* others receive before they send.                                        *)
Round == {Three(Sendrecv(1, 1, 2, 1), Recv(0, 1) \o Send(2, 1), Recv(1, 1) \o Send(0, 1))}
=============================================================================
