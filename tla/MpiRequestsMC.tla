--------------------------- MODULE MpiRequestsMC ---------------------------
(* Small programs that wait for several requests at once, and those of     *)
(* MpiP2PMC.                                                               *)
EXTENDS MpiRequests, MpiP2PMC

(* Sends and receives waited for together, the sends coming late or in the *)
(* other order; requests used again afterwards.                            *)
Waitalls ==
    {Two((IF swap THEN Isend(1, t, 2) \o Isend(1, 1, 1) ELSE Isend(1, 1, 1) \o Isend(1, t, 2)) \o
         Irecv(1, 2, 3) \o Waitall(rs) \o Send(1, 1),
         Irecv(0, 1, 1) \o Irecv(0, t, 2) \o Waitall(<<1, 2>>) \o Send(0, 2) \o Irecv(0, 1, 1) \o Wait(1)) :
       t \in {1, 2}, swap \in BOOLEAN, rs \in {<<1, 2, 3>>, <<3, 2, 1>>}}

(* A persistent request and another one; the second waitall uses them again. *)
PersistentWaitall ==
    {Two(RsendInit(1, 1, 1) \o Startall(<<1>>) \o Send(1, 2) \o Wait(1) \o Start(1) \o Testall(<<1>>),
         RecvInit(0, 1, 1) \o Start(1) \o Irecv(0, 2, 2) \o Waitall(rs) \o Start(1) \o Waitall(<<1>>)) :
       rs \in {<<1, 2>>, <<2, 1>>}}

(* Either of two sends ends first, then the other; the receives end in a   *)
(* waitany too, in the order of the sends or in the other.                 *)
Waitanys ==
    {Two(Isend(1, 1, 1) \o Isend(1, 2, 2) \o Waitany(<<1, 2>>, i) \o Wait(3 - i),
         Irecv(0, 1, 1) \o Irecv(0, 2, 2) \o Waitany(rs, j) \o Wait(rs[3 - j])) :
       i \in {1, 2}, j \in {1, 2}, rs \in {<<1, 2>>, <<2, 1>>}}

(* A receive and a send waited for together. *)
Mixed ==
    {Two(Isend(1, 1, 1) \o Irecv(1, 2, 2) \o Waitany(rs, j) \o Testany(rs, 3 - j),
         Recv(0, 1) \o Send(0, 2)) :
       j \in {1, 2}, rs \in {<<1, 2>>, <<2, 1>>}}

(* A send that has ended is waited for again with the other one. *)
Again ==
    {Two(Isend(1, 1, 1) \o Isend(1, 2, 2) \o Waitany(<<1, 2>>, i) \o
         (IF all THEN Waitall(<<1, 2>>) ELSE Waitany(<<1, 2>>, 3 - i)),
         Recv(0, 1) \o Recv(0, 2)) :
       i \in {1, 2}, all \in BOOLEAN}

WaitPrograms == Waitalls \cup PersistentWaitall \cup Waitanys \cup Mixed \cup Again

EveryProgram == AllPrograms \cup WaitPrograms
=============================================================================
