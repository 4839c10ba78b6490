------------------------ MODULE Converter_proofs ------------------------
(***************************************************************************)
(* Three parts of the converter: the threads of the application that it    *)
(* knows of, each with its container (Containers), the threads that it has *)
(* itself (HandlerThreads), and the messages that it puts together again   *)
(* from the traces of several processes (MpiP2P, MpiRequests).             *)
(*                                                                         *)
(* For any number of threads and any ids, given again or not, cut to an    *)
(* int or not, a thread never has two containers.  The search of a         *)
(* container by tid is then a search for the only one: it does not matter  *)
(* that it takes the first.                                                *)
(***************************************************************************)
EXTENDS Containers, HandlerThreads, MpiRequests, FiniteSetTheorems, SequenceTheorems, WellFoundedInduction,
        NaturalsInduction, TLAPS

Stacks == Seq({"Working", "Blocked"})
Container == [tid : Nat, destroyed : BOOLEAN, states : Stacks]

Unique(c) == \A m, n \in DOMAIN c : c[m].tid = c[n].tid => m = n
IsChildren(c) == c \in Seq(Container) /\ Unique(c)

(* The inductive invariant: before the trace starts there is no container, *)
(* which is why MPI_Init may make one without looking.                     *)
IInv ==
    /\ id \in [Threads -> Nat]
    /\ started \in BOOLEAN
    /\ IsChildren(children)
    /\ ~started => children = << >>

-----------------------------------------------------------------------------
LEMMA AddKeeps ==
    ASSUME NEW c, IsChildren(c), NEW i \in Nat, Matching(c, i) = {}
    PROVE  IsChildren(AddPthread(c, i))
<1> DEFINE rec == [tid |-> i, destroyed |-> FALSE, states |-> <<"Working">>]
<1>0. c \in Seq(Container) /\ Unique(c) BY DEF IsChildren
<1>1. rec \in Container
  <2>1. <<"Working">> \in Seq({"Working", "Blocked"}) OBVIOUS
  <2> QED BY <2>1 DEF Container, Stacks
<1>2. Append(c, rec) \in Seq(Container) BY <1>0, <1>1
<1>3. Unique(Append(c, rec))
  <2> SUFFICES ASSUME NEW m \in DOMAIN Append(c, rec), NEW n \in DOMAIN Append(c, rec),
                      Append(c, rec)[m].tid = Append(c, rec)[n].tid
               PROVE  m = n
      BY DEF Unique
  <2>1. DOMAIN Append(c, rec) = 1 .. Len(c) + 1 /\ DOMAIN c = 1 .. Len(c) /\ Len(c) \in Nat
      BY <1>0, <1>2, <1>1
  <2>2. \A k \in 1 .. Len(c) : Append(c, rec)[k] = c[k] BY <1>0, <1>1
  <2>3. Append(c, rec)[Len(c) + 1] = rec BY <1>0, <1>1
  <2>4. \A k \in 1 .. Len(c) : c[k].tid # i BY <2>1 DEF Matching
  <2>5. CASE m \in 1 .. Len(c) /\ n \in 1 .. Len(c) BY <2>5, <2>1, <2>2, <1>0 DEF Unique
  <2>6. CASE m = Len(c) + 1 /\ n \in 1 .. Len(c) BY <2>6, <2>2, <2>3, <2>4
  <2>7. CASE n = Len(c) + 1 /\ m \in 1 .. Len(c) BY <2>7, <2>2, <2>3, <2>4
  <2> QED BY <2>1, <2>5, <2>6, <2>7
<1> QED BY <1>2, <1>3 DEF IsChildren, AddPthread

LEMMA DeclareKeeps ==
    ASSUME NEW c, IsChildren(c), NEW i \in Nat, NEW start \in BOOLEAN
    PROVE  /\ IsChildren(DeclareCurThread(c, i, start))
           /\ ~start => DeclareCurThread(c, i, start) = c
BY AddKeeps DEF DeclareCurThread, NewThread

(* A change of one container that leaves its thread alone.                 *)
LEMMA UpdateKeeps ==
    ASSUME NEW c, IsChildren(c), NEW k, NEW x,
           k \in DOMAIN c => x \in Container /\ x.tid = c[k].tid
    PROVE  IsChildren([c EXCEPT ![k] = x])
<1> DEFINE d == [c EXCEPT ![k] = x]
<1>0. c \in Seq(Container) /\ Unique(c) BY DEF IsChildren
<1>1. DOMAIN d = DOMAIN c OBVIOUS
<1>2. \A n \in DOMAIN c : d[n] \in Container /\ d[n].tid = c[n].tid
  <2> TAKE n \in DOMAIN c
  <2>1. c[n] \in Container BY <1>0
  <2>2. CASE n = k BY <2>2
  <2>3. CASE n # k BY <2>3, <2>1
  <2> QED BY <2>2, <2>3
<1>3. d \in Seq(Container)
  <2>1. DOMAIN c = 1 .. Len(c) /\ Len(c) \in Nat BY <1>0
  <2>2. d \in [1 .. Len(c) -> Container] BY <1>1, <1>2, <2>1
  <2> QED BY <2>1, <2>2, SeqDef
<1>4. Unique(d) BY <1>0, <1>1, <1>2 DEF Unique
<1> QED BY <1>3, <1>4 DEF IsChildren

LEMMA StatesKeep ==
    ASSUME NEW c, IsChildren(c), NEW i, NEW s,
           First(c, i) \in DOMAIN c => s \in Stacks
    PROVE  IsChildren(WithStates(c, i, s))
<1> DEFINE k == First(c, i)
           x == [c[k] EXCEPT !.states = s]
<1>1. WithStates(c, i, s) = [c EXCEPT ![k] = x] BY DEF WithStates
<1>2. ASSUME k \in DOMAIN c PROVE x \in Container /\ x.tid = c[k].tid
  <2>1. c[k] \in Container BY <1>2 DEF IsChildren
  <2> QED BY <2>1, <1>2 DEF Container
<1> HIDE DEF x, k
<1>3. IsChildren([c EXCEPT ![k] = x]) BY <1>2, UpdateKeeps
<1> QED BY <1>1, <1>3

LEMMA PushKeeps ==
    ASSUME NEW c, IsChildren(c), NEW i
    PROVE  IsChildren(PushState(c, i))
<1> DEFINE k == First(c, i)
           s == c[k].states \o <<"Blocked">>
<1>1. ASSUME k \in DOMAIN c PROVE s \in Stacks
  <2>1. c[k] \in Container BY <1>1 DEF IsChildren
  <2>2. c[k].states \in Seq({"Working", "Blocked"}) BY <2>1 DEF Container, Stacks
  <2>3. <<"Blocked">> \in Seq({"Working", "Blocked"}) OBVIOUS
  <2> QED BY <2>2, <2>3, ConcatProperties DEF Stacks
<1>2. IsChildren(WithStates(c, i, s)) BY <1>1, StatesKeep
<1> QED BY <1>2 DEF PushState

LEMMA PopKeeps ==
    ASSUME NEW c, IsChildren(c), NEW i
    PROVE  IsChildren(PopState(c, i))
<1> DEFINE k == First(c, i)
           s == SubSeq(c[k].states, 1, Len(c[k].states) - 1)
<1>1. CASE Matching(c, i) = {} \/ c[k].states = << >> BY <1>1 DEF PopState
<1>2. CASE ~(Matching(c, i) = {} \/ c[k].states = << >>)
  <2>1. ASSUME k \in DOMAIN c PROVE s \in Stacks
    <3>1. c[k] \in Container BY <2>1 DEF IsChildren
    <3>2. c[k].states \in Seq({"Working", "Blocked"}) BY <3>1 DEF Container, Stacks
    <3>3. Len(c[k].states) \in Nat /\ Len(c[k].states) - 1 <= Len(c[k].states) BY <3>2
    <3>4. \A n \in 1 .. Len(c[k].states) - 1 : c[k].states[n] \in {"Working", "Blocked"}
        BY <3>2, <3>3
    <3> QED BY <3>2, <3>3, <3>4, SubSeqProperties DEF Stacks
  <2>2. IsChildren(WithStates(c, i, s)) BY <2>1, StatesKeep
  <2> QED BY <1>2, <2>2 DEF PopState
<1> QED BY <1>1, <1>2

LEMMA DestroyKeeps ==
    ASSUME NEW c, IsChildren(c), NEW i
    PROVE  IsChildren(Destroyed(c, i))
<1> DEFINE k == First(c, i)
           x == [c[k] EXCEPT !.destroyed = TRUE]
<1>1. Destroyed(c, i) = c \/ Destroyed(c, i) = [c EXCEPT ![k] = x] BY DEF Destroyed
<1>2. ASSUME k \in DOMAIN c PROVE x \in Container /\ x.tid = c[k].tid
  <2>1. c[k] \in Container BY <1>2 DEF IsChildren
  <2> QED BY <2>1, <1>2 DEF Container
<1> HIDE DEF x, k
<1>3. IsChildren([c EXCEPT ![k] = x]) BY <1>2, UpdateKeeps
<1> QED BY <1>1, <1>3

LEMMA InitKeeps ==
    ASSUME IsChildren(children), started \in BOOLEAN, ~started => children = << >>, NEW i \in Nat
    PROVE  IsChildren(InitContainers(children, i))
<1>1. CASE started BY <1>1, DeclareKeeps DEF InitContainers
<1>2. CASE ~started
  <2>1. Matching(children, i) = {} BY <1>2 DEF Matching
  <2> QED BY <1>2, <2>1, AddKeeps DEF InitContainers, NewThread
<1> QED BY <1>1, <1>2

-----------------------------------------------------------------------------
LEMMA Initially == ContainersInit => IInv
<1> SUFFICES ASSUME ContainersInit PROVE IInv OBVIOUS
<1>1. IsChildren(children) BY DEF ContainersInit, IsChildren, Unique
<1>2. id \in [Threads -> Nat] BY ThreadsAssumption DEF ContainersInit
<1> QED BY <1>1, <1>2 DEF ContainersInit, IInv

LEMMA TidType ==
    ASSUME NEW i \in Nat
    PROVE  i % Width \in Nat
BY WidthAssumption

LEMMA StepKeeps == IInv /\ [ContainersNext]_containersVars => IInv'
<1> SUFFICES ASSUME IInv, [ContainersNext]_containersVars PROVE IInv' OBVIOUS
<1> USE DEF IInv
<1>0. \A t \in Threads : Tid(t) \in Nat BY TidType DEF Tid
<1>1. ASSUME NEW t \in Threads, PthreadCreate(t) PROVE IInv'
  <2>1. id' \in [Threads -> Nat] BY <1>1, ThreadsAssumption DEF PthreadCreate
  <2> QED BY <2>1, <1>1 DEF PthreadCreate
<1>2. ASSUME NEW t \in Threads, NewThreadEvent(t) PROVE IInv'
    BY <1>0, <1>2, DeclareKeeps DEF NewThreadEvent
<1>3. ASSUME NEW t \in Threads, OtherEvent(t) PROVE IInv'
    BY <1>0, <1>3, DeclareKeeps DEF OtherEvent
<1>4. ASSUME NEW t \in Threads, StartJoin(t) PROVE IInv'
  <2> DEFINE c == DeclareCurThread(children, Tid(t), started)
  <2>1. IsChildren(c) /\ (~started => c = << >>) BY <1>0, DeclareKeeps
  <2>2. children' = (IF started THEN PushState(c, Tid(t)) ELSE c) BY <1>4 DEF StartJoin
  <2> HIDE DEF c
  <2>3. IsChildren(children') BY <2>1, <2>2, PushKeeps
  <2> QED BY <1>4, <2>1, <2>2, <2>3 DEF StartJoin
<1>5. ASSUME NEW t \in Threads, StopJoin(t) PROVE IInv'
  <2> DEFINE c == DeclareCurThread(children, Tid(t), started)
  <2>1. IsChildren(c) /\ (~started => c = << >>) BY <1>0, DeclareKeeps
  <2>2. children' = (IF started THEN PopState(c, Tid(t)) ELSE c) BY <1>5 DEF StopJoin
  <2> HIDE DEF c
  <2>3. IsChildren(children') BY <2>1, <2>2, PopKeeps
  <2> QED BY <1>5, <2>1, <2>2, <2>3 DEF StopJoin
<1>6. ASSUME NEW t \in Threads, EndThread(t) PROVE IInv'
  <2> DEFINE c == DeclareCurThread(children, Tid(t), started)
  <2>1. IsChildren(c) /\ (~started => c = << >>) BY <1>0, DeclareKeeps
  <2>2. children' = Destroyed(c, Tid(t)) BY <1>6 DEF EndThread
  <2> HIDE DEF c
  <2>3. IsChildren(children') BY <2>1, <2>2, DestroyKeeps
  <2>4. ~started => children' = << >> BY <2>1, <2>2 DEF Destroyed, Matching
  <2> QED BY <1>6, <2>3, <2>4 DEF EndThread
<1>7. ASSUME NEW t \in Threads, PthreadExit(t) PROVE IInv'
    BY <1>7 DEF PthreadExit
<1>8. ASSUME NEW t \in Threads, MpiInit(t) PROVE IInv'
  <2>1. IsChildren(InitContainers(children, Tid(t))) BY <1>0, InitKeeps
  <2> QED BY <1>8, <2>1 DEF MpiInit
<1>9. CASE UNCHANGED containersVars BY <1>9 DEF containersVars, app
<1> QED BY <1>1, <1>2, <1>3, <1>4, <1>5, <1>6, <1>7, <1>8, <1>9 DEF ContainersNext, Exited

(* A thread never has two containers, however ids are given again and      *)
(* wherever MPI_Init comes among the events (new_thread, handle_mpi_init). *)
THEOREM OneContainerHolds == ContainersSpec => []OneContainer
<1>1. IInv => OneContainer BY DEF IInv, IsChildren, Unique, OneContainer
<1> QED BY Initially, StepKeeps, <1>1, PTL DEF ContainersSpec
-----------------------------------------------------------------------------
(* The thread for which a container was destroyed is over, so that one who *)
(* still records events under its tid is another thread.                   *)
Gone(c) ==
    \A n \in DOMAIN c : c[n].destroyed =>
        \E t \in Threads : Tid(t) = c[n].tid /\ phase[t] = "over"

GInv ==
    /\ phase \in [Threads -> {"none", "created", "running", "joining", "over"}]
    /\ \A t \in Threads : IF phase[t] = "none" THEN id[t] = 0 ELSE id[t] \in Ids
    /\ Gone(children)
    /\ late \in BOOLEAN
    /\ DestroyedIsLast

(* The containers of d that are destroyed were so in c.                    *)
NoneDestroyed(c, d) ==
    \A n \in DOMAIN d : d[n].destroyed =>
        n \in DOMAIN c /\ c[n].destroyed /\ d[n].tid = c[n].tid

LEMMA FirstMatches ==
    ASSUME NEW c, IsChildren(c), NEW i, Matching(c, i) # {}
    PROVE  First(c, i) \in DOMAIN c /\ c[First(c, i)].tid = i
<1>1. PICK k \in DOMAIN c : c[k].tid = i BY DEF Matching
<1>2. k \in Nat
  <2>1. DOMAIN c = 1 .. Len(c) /\ Len(c) \in Nat BY DEF IsChildren
  <2> QED BY <1>1, <2>1
<1>3. Matching(c, i) = {k} BY <1>1 DEF Matching, IsChildren, Unique
<1>4. First(c, i) = k BY <1>2, <1>3 DEF First
<1> QED BY <1>1, <1>4

LEMMA DeclareSpares ==
    ASSUME NEW c, IsChildren(c), NEW i \in Nat, NEW start \in BOOLEAN
    PROVE  NoneDestroyed(c, DeclareCurThread(c, i, start)) /\ NoneDestroyed(c, NewThread(c, i, start))
<1> DEFINE rec == [tid |-> i, destroyed |-> FALSE, states |-> <<"Working">>]
<1>0. c \in Seq(Container) BY DEF IsChildren
<1>1. NoneDestroyed(c, c) BY DEF NoneDestroyed
<1>2. NoneDestroyed(c, Append(c, rec))
  <2>0. Len(c) \in Nat /\ DOMAIN c = 1 .. Len(c) BY <1>0
  <2>1. DOMAIN Append(c, rec) = 1 .. Len(c) + 1 BY <1>0
  <2>2. \A k \in 1 .. Len(c) : Append(c, rec)[k] = c[k] BY <1>0
  <2>3. Append(c, rec)[Len(c) + 1] = rec BY <1>0
  <2>4. ~rec.destroyed OBVIOUS
  <2> HIDE DEF rec
  <2> QED BY <2>0, <2>1, <2>2, <2>3, <2>4 DEF NoneDestroyed
<1> QED BY <1>1, <1>2 DEF DeclareCurThread, NewThread, AddPthread

LEMMA StatesSpare ==
    ASSUME NEW c, IsChildren(c), NEW i, NEW s
    PROVE  NoneDestroyed(c, WithStates(c, i, s))
<1> DEFINE d == WithStates(c, i, s)
<1>1. DOMAIN d = DOMAIN c BY DEF WithStates
<1>2. ASSUME NEW n \in DOMAIN c PROVE d[n].destroyed = c[n].destroyed /\ d[n].tid = c[n].tid
  <2>1. c[n] \in Container BY DEF IsChildren
  <2> QED BY <2>1 DEF WithStates, Container
<1>3. NoneDestroyed(c, d)
  <2> HIDE DEF d
  <2> QED BY <1>1, <1>2 DEF NoneDestroyed
<1> QED BY <1>3

LEMMA PushPopSpare ==
    ASSUME NEW c, IsChildren(c), NEW i
    PROVE  NoneDestroyed(c, PushState(c, i)) /\ NoneDestroyed(c, PopState(c, i))
<1>1. NoneDestroyed(c, c) BY DEF NoneDestroyed
<1> QED BY <1>1, StatesSpare DEF PushState, PopState

TidReused == \E t, u \in Threads : t # u /\ SameTid(t, u)

LEMMA DestroyedReused ==
    ASSUME IInv, GInv, NEW t \in Threads, phase[t] \notin {"none", "over"}, IsDestroyed(children, Tid(t))
    PROVE  TidReused
<1>1. /\ First(children, Tid(t)) \in DOMAIN children
      /\ children[First(children, Tid(t))].tid = Tid(t)
      /\ children[First(children, Tid(t))].destroyed
    BY FirstMatches DEF IInv, IsDestroyed
<1>2. PICK u \in Threads : Tid(u) = Tid(t) /\ phase[u] = "over" BY <1>1 DEF GInv, Gone
<1>3. u # t /\ id[u] # 0 /\ id[t] # 0 BY <1>2, ThreadsAssumption DEF GInv
<1>4. SameTid(t, u) BY <1>2, <1>3 DEF SameTid, SameInt, Tid
<1> QED BY <1>3, <1>4 DEF TidReused

(* A step that destroys no container and gives no state to a destroyed one *)
(* but for a thread t that is not over.                                    *)
LEMMA Forward ==
    ASSUME IInv, GInv, NEW c, NoneDestroyed(children, c), children' = c,
           phase' \in [Threads -> {"none", "created", "running", "joining", "over"}],
           id' = id, \A u \in Threads : phase[u] = "over" => phase'[u] = "over",
           \A u \in Threads : phase'[u] = "none" <=> phase[u] = "none",
           NEW t \in Threads, phase[t] \notin {"none", "over"},
           late' = late \/ late' = (late \/ IsDestroyed(children, Tid(t)))
                       \/ late' = (late \/ (started /\ IsDestroyed(children, Tid(t))))
    PROVE  GInv'
<1>1. Gone(children)'
  <2> SUFFICES ASSUME NEW n \in DOMAIN c, c[n].destroyed
               PROVE  \E u \in Threads : Tid(u) = c[n].tid /\ phase'[u] = "over"
      BY DEF Gone, Tid
  <2>1. n \in DOMAIN children /\ children[n].destroyed /\ c[n].tid = children[n].tid
      BY DEF NoneDestroyed
  <2> QED BY <2>1 DEF GInv, Gone
<1>3. late' \in BOOLEAN BY DEF GInv
<1>4. late' => TidReused BY DestroyedReused DEF GInv, DestroyedIsLast, TidReused
<1>5. DestroyedIsLast' BY <1>4 DEF DestroyedIsLast, TidReused, SameTid
<1>6. \A u \in Threads : IF phase'[u] = "none" THEN id'[u] = 0 ELSE id'[u] \in Ids
    BY DEF GInv
<1> QED BY <1>1, <1>3, <1>5, <1>6 DEF GInv

LEMMA InitGInv == ContainersInit => GInv
<1> SUFFICES ASSUME ContainersInit PROVE GInv OBVIOUS
<1>1. Gone(children) BY DEF ContainersInit, Gone
<1> QED BY <1>1, ThreadsAssumption DEF ContainersInit, GInv, DestroyedIsLast

LEMMA StepGInv == IInv /\ GInv /\ [ContainersNext]_containersVars => GInv'
<1> SUFFICES ASSUME IInv, GInv, [ContainersNext]_containersVars PROVE GInv' OBVIOUS
<1> DEFINE Phases == {"none", "created", "running", "joining", "over"}
<1>0. /\ \A t \in Threads : Tid(t) \in Nat
      /\ started \in BOOLEAN /\ IsChildren(children) /\ phase \in [Threads -> Phases]
    BY TidType DEF IInv, GInv, Tid
<1>1. ASSUME NEW t \in Threads, PthreadCreate(t) PROVE GInv'
  <2>1. PICK u \in Threads, i \in Ids : /\ phase[u] = "none"
                                      /\ phase' = [phase EXCEPT ![u] = "created"]
                                      /\ id' = [id EXCEPT ![u] = i]
      BY <1>1 DEF PthreadCreate
  <2>2. id[u] = 0 /\ id \in [Threads -> Nat] BY <2>1 DEF GInv, IInv
  <2>3. Gone(children)'
    <3>1. \A n \in DOMAIN children : children[n].destroyed =>
              \E v \in Threads : v # u /\ Tid(v) = children[n].tid /\ phase[v] = "over"
        BY <2>1 DEF GInv, Gone
    <3>2. \A v \in Threads : v # u => Tid(v)' = Tid(v) /\ phase'[v] = phase[v]
        BY <1>0, <2>1, <2>2 DEF Tid
    <3> QED BY <1>1, <3>1, <3>2 DEF Gone, PthreadCreate
  <2>4. DestroyedIsLast'
    <3>1. ASSUME late PROVE \E v, w \in Threads : v # w /\ SameTid(v, w)'
      <4>1. PICK v \in Threads, w \in Threads : v # w /\ SameTid(v, w)
          BY <3>1 DEF GInv, DestroyedIsLast
      <4>2. v # u /\ w # u BY <2>2, <4>1 DEF SameTid
      <4>3. id'[v] = id[v] /\ id'[w] = id[w] BY <2>1, <2>2, <4>2
      <4> QED BY <4>1, <4>3 DEF SameTid
    <3> QED BY <1>1, <3>1 DEF DestroyedIsLast, PthreadCreate
  <2>5. phase' \in [Threads -> Phases] BY <1>0, <2>1
  <2>6. \A v \in Threads : IF phase'[v] = "none" THEN id'[v] = 0 ELSE id'[v] \in Ids
      BY <1>0, <2>1, <2>2 DEF GInv
  <2> QED BY <1>1, <2>3, <2>4, <2>5, <2>6 DEF GInv, PthreadCreate
<1>2. ASSUME NEW t \in Threads, NewThreadEvent(t) \/ OtherEvent(t) PROVE GInv'
  <2>1. NoneDestroyed(children, DeclareCurThread(children, Tid(t), started))
      BY <1>0, DeclareSpares
  <2> QED BY <1>0, <1>2, <2>1, Forward DEF NewThreadEvent, OtherEvent, Running
<1>3. ASSUME NEW t \in Threads, StartJoin(t) \/ StopJoin(t) PROVE GInv'
  <2> DEFINE c == DeclareCurThread(children, Tid(t), started)
  <2>1. NoneDestroyed(children, c) /\ IsChildren(c) BY <1>0, DeclareSpares, DeclareKeeps
  <2>2. children' = c \/ children' = PushState(c, Tid(t)) \/ children' = PopState(c, Tid(t))
      BY <1>3 DEF StartJoin, StopJoin
  <2> HIDE DEF c
  <2>3. NoneDestroyed(children, children')
      BY <2>1, <2>2, PushPopSpare DEF NoneDestroyed
  <2> QED BY <1>0, <1>3, <2>3, Forward DEF StartJoin, StopJoin, Running
<1>4. ASSUME NEW t \in Threads, EndThread(t) PROVE GInv'
  <2> DEFINE c == DeclareCurThread(children, Tid(t), started)
             k == First(c, Tid(t))
  <2>1. NoneDestroyed(children, c) /\ IsChildren(c) BY <1>0, DeclareSpares, DeclareKeeps
  <2>2. children' = Destroyed(c, Tid(t)) BY <1>4 DEF EndThread
  <2>3. /\ phase' = [phase EXCEPT ![t] = "over"] /\ id' = id
        /\ late' = (late \/ IsDestroyed(children, Tid(t))) /\ phase[t] = "running"
      BY <1>4 DEF EndThread, Running
  <2> HIDE DEF c
  <2>4. ASSUME NEW n \in DOMAIN children', children'[n].destroyed
        PROVE  \E u \in Threads : Tid(u) = children'[n].tid /\ phase'[u] = "over"
    <3>1. phase'[t] = "over" /\ \A u \in Threads : phase[u] = "over" => phase'[u] = "over"
        BY <1>0, <2>3
    <3>2. CASE Matching(c, Tid(t)) = {} \/ n # k
      <4>1. n \in DOMAIN c /\ c[n].destroyed /\ children'[n].tid = c[n].tid
          BY <2>2, <2>4, <3>2 DEF Destroyed
      <4>2. n \in DOMAIN children /\ children[n].destroyed /\ c[n].tid = children[n].tid
          BY <2>1, <4>1 DEF NoneDestroyed
      <4> QED BY <2>3, <3>1, <4>1, <4>2 DEF GInv, Gone
    <3>3. CASE Matching(c, Tid(t)) # {} /\ n = k
      <4>1. k \in DOMAIN c /\ c[k].tid = Tid(t) BY <2>1, <3>3, FirstMatches
      <4>2. c[k] \in Container BY <2>1, <4>1 DEF IsChildren
      <4>3. children'[n].tid = Tid(t) BY <2>2, <3>3, <4>1, <4>2 DEF Destroyed, Container
      <4> QED BY <2>3, <3>1, <4>3
    <3> QED BY <3>2, <3>3
  <2>5. Gone(children)' BY <2>3, <2>4 DEF Gone, Tid
  <2>7. late' \in BOOLEAN /\ (late' => TidReused)
      BY <2>3, DestroyedReused DEF GInv, DestroyedIsLast, TidReused
  <2>8. DestroyedIsLast' BY <2>3, <2>7 DEF DestroyedIsLast, TidReused, SameTid
  <2>9. phase' \in [Threads -> Phases] BY <1>0, <2>3
  <2>10. \A v \in Threads : IF phase'[v] = "none" THEN id'[v] = 0 ELSE id'[v] \in Ids
      BY <1>0, <2>3 DEF GInv
  <2> QED BY <2>5, <2>7, <2>8, <2>9, <2>10 DEF GInv
<1>5. ASSUME NEW t \in Threads, PthreadExit(t) PROVE GInv'
  <2>1. NoneDestroyed(children, children) BY DEF NoneDestroyed
  <2> QED BY <1>0, <1>5, <2>1, Forward DEF PthreadExit, Running
<1>6. ASSUME NEW t \in Threads, MpiInit(t) PROVE GInv'
  <2>1. NoneDestroyed(children, InitContainers(children, Tid(t)))
      BY <1>0, DeclareSpares DEF InitContainers
  <2> QED BY <1>0, <1>6, <2>1, Forward DEF MpiInit, Running
<1>7. CASE UNCHANGED containersVars BY <1>7 DEF containersVars, app, GInv, Gone, DestroyedIsLast, SameTid, Tid
<1> QED BY <1>1, <1>2, <1>3, <1>4, <1>5, <1>6, <1>7 DEF ContainersNext, Exited

(* As long as every thread has an int of its own, nothing is put in the    *)
(* container of a thread after its end (process_one_event).                *)
THEOREM DestroyedIsLastHolds == ContainersSpec => []DestroyedIsLast
<1>1. GInv => DestroyedIsLast BY DEF GInv
<1> QED BY Initially, StepKeeps, InitGInv, StepGInv, <1>1, PTL DEF ContainersSpec
-----------------------------------------------------------------------------
(* The states of a container follow the one thread at work that has its    *)
(* tid, unless two had it at once.                                         *)
Waits(i) == \E u \in Threads : Tid(u) = i /\ phase[u] = "joining"
StatesOf(i) == IF Waits(i) THEN <<"Working", "Blocked">> ELSE <<"Working">>

Mixed == caught \cup clashed

StatesOK == \A n \in DOMAIN children :
                children[n].tid \notin Mixed => children[n].states = StatesOf(children[n].tid)

OneUser == \A t, u \in Threads :
               AtWork(t) /\ AtWork(u) /\ Tid(t) = Tid(u) /\ Tid(t) \notin clashed => t = u

SInv ==
    /\ OneUser /\ StatesOK
    /\ started => \A t \in Threads : phase[t] = "joining" /\ Tid(t) \notin Mixed =>
                                         Matching(children, Tid(t)) # {}

(* d has the containers of c, and maybe a new one for i. *)
MoreFor(c, d, i) ==
    /\ \A n \in DOMAIN c : n \in DOMAIN d /\ d[n] = c[n]
    /\ \A n \in DOMAIN d : n \in DOMAIN c \/ (d[n].tid = i /\ d[n].states = <<"Working">>)

LEMMA NewThreadAdds ==
    ASSUME NEW c, IsChildren(c), NEW i \in Nat
    PROVE  MoreFor(c, AddPthread(c, i), i) /\ Matching(AddPthread(c, i), i) # {}
<1> DEFINE rec == [tid |-> i, destroyed |-> FALSE, states |-> <<"Working">>]
           d == Append(c, rec)
<1>0. c \in Seq(Container) BY DEF IsChildren
<1>1. Len(c) \in Nat /\ DOMAIN c = 1 .. Len(c) BY <1>0
<1>2. DOMAIN d = 1 .. Len(c) + 1 BY <1>0
<1>3. \A k \in 1 .. Len(c) : d[k] = c[k] BY <1>0
<1>4. d[Len(c) + 1].tid = i /\ d[Len(c) + 1].states = <<"Working">> BY <1>0
<1>5. AddPthread(c, i) = d BY DEF AddPthread
<1> HIDE DEF d
<1>6. MoreFor(c, d, i) BY <1>1, <1>2, <1>3, <1>4 DEF MoreFor
<1>7. Len(c) + 1 \in Matching(d, i) BY <1>1, <1>2, <1>4 DEF Matching
<1> QED BY <1>5, <1>6, <1>7

LEMMA DeclareAdds ==
    ASSUME NEW c, IsChildren(c), NEW i \in Nat, NEW start \in BOOLEAN
    PROVE  /\ MoreFor(c, DeclareCurThread(c, i, start), i)
           /\ start => Matching(DeclareCurThread(c, i, start), i) # {}
<1>1. MoreFor(c, c, i) BY DEF MoreFor
<1> QED BY <1>1, NewThreadAdds DEF DeclareCurThread, NewThread

(* A container that there was has kept its states, but for that of i.      *)
ChangedFor(c, d, i, s) ==
    /\ DOMAIN d = DOMAIN c
    /\ \A n \in DOMAIN c : d[n].tid = c[n].tid /\ d[n].states = IF c[n].tid = i THEN s ELSE c[n].states

LEMMA WithStatesChanges ==
    ASSUME NEW c, IsChildren(c), NEW i, Matching(c, i) # {}, NEW s
    PROVE  ChangedFor(c, WithStates(c, i, s), i, s)
<1> DEFINE k == First(c, i)
           d == WithStates(c, i, s)
<1>1. k \in DOMAIN c /\ c[k].tid = i BY FirstMatches
<1>2. d = [c EXCEPT ![k] = [c[k] EXCEPT !.states = s]] BY DEF WithStates
<1>3. DOMAIN d = DOMAIN c BY <1>2
<1>4. \A n \in DOMAIN c : c[n] \in Container BY DEF IsChildren
<1>5. \A n \in DOMAIN c : c[n].tid = i => n = k BY <1>1 DEF IsChildren, Unique
<1> HIDE DEF k, d
<1>6. ASSUME NEW n \in DOMAIN c
      PROVE  d[n].tid = c[n].tid /\ d[n].states = IF c[n].tid = i THEN s ELSE c[n].states
  <2>1. CASE n = k BY <1>1, <1>2, <1>4, <2>1 DEF Container
  <2>2. CASE n # k BY <1>2, <1>5, <2>2
  <2> QED BY <2>1, <2>2
<1> QED BY <1>3, <1>6 DEF ChangedFor, d

LEMMA MatchingKept ==
    ASSUME NEW c, NEW d, NEW i, MoreFor(c, d, i) \/ \E s : ChangedFor(c, d, i, s)
    PROVE  \A j : Matching(c, j) # {} => Matching(d, j) # {}
BY DEF MoreFor, ChangedFor, Matching

(* A thread at work is the only one of its tid.                            *)
LEMMA Alone ==
    ASSUME GInv, SInv, NEW t \in Threads, phase[t] \notin {"none", "over"}, Tid(t) \notin Mixed
    PROVE  /\ \A u \in Threads : Tid(u) = Tid(t) /\ phase[u] = "joining" => u = t
           /\ Waits(Tid(t)) <=> phase[t] = "joining"
<1>1. AtWork(t) BY DEF GInv, AtWork
<1>2. \A u \in Threads : Tid(u) = Tid(t) /\ phase[u] = "joining" => u = t
    BY <1>1 DEF SInv, OneUser, AtWork, Mixed
<1> QED BY <1>2 DEF Waits

(* A thread that is not over passes to another phase, and may have had a   *)
(* container made.                                                         *)
LEMMA MoreKeeps ==
    ASSUME IInv, GInv, SInv, NEW t \in Threads, phase[t] \notin {"none", "over"},
           NEW ph \in {"running", "over", "joining"},
           phase' = [phase EXCEPT ![t] = ph], id' = id, caught' = caught, clashed' = clashed,
           ph = "joining" <=> phase[t] = "joining", NEW d, MoreFor(children, d, Tid(t)),
           phase[t] = "joining" => d = children
    PROVE  \A n \in DOMAIN d : d[n].tid \notin Mixed' => d[n].states = StatesOf(d[n].tid)'
<1>1. \A u \in Threads : phase'[u] = "joining" <=> phase[u] = "joining" BY DEF GInv
<1>2. \A i : StatesOf(i)' = StatesOf(i) BY <1>1 DEF StatesOf, Waits, Tid
<1>3. phase[t] # "joining" /\ Tid(t) \notin Mixed => StatesOf(Tid(t)) = <<"Working">>
    BY Alone DEF StatesOf
<1>4. Mixed' = Mixed BY DEF Mixed
<1> QED BY <1>2, <1>3, <1>4 DEF MoreFor, SInv, StatesOK

(* What pushState and popState make of the states of a thread.             *)
LEMMA StatesPushed ==
    ASSUME NEW a \in Stacks, Len(a) = 1, a[1] = "Working"
    PROVE  a \o <<"Blocked">> = <<"Working", "Blocked">>
<1> DEFINE S == {"Working", "Blocked"}
           b == <<"Blocked">>
           l == a \o b
           r == <<"Working", "Blocked">>
<1>1. a \in Seq(S) /\ b \in Seq(S) /\ Len(b) = 1 /\ b[1] = "Blocked" BY DEF Stacks
<1>2. r \in Seq(S) /\ Len(r) = 2 /\ r[1] = "Working" /\ r[2] = "Blocked" OBVIOUS
<1>3. /\ l \in Seq(S) /\ Len(l) = Len(a) + Len(b)
      /\ \A i \in 1 .. Len(a) + Len(b) : l[i] = IF i <= Len(a) THEN a[i] ELSE b[i - Len(a)]
  <2> HIDE DEF b, S
  <2> QED BY <1>1, ConcatProperties
<1> HIDE DEF b, l, r
<1>4. Len(l) = 2 /\ l[1] = "Working" /\ l[2] = "Blocked" BY <1>1, <1>3
<1>5. \A i \in 1 .. Len(l) : l[i] = r[i]
  <2>1. \A i \in 1 .. 2 : i = 1 \/ i = 2 OBVIOUS
  <2> QED BY <1>2, <1>4, <2>1
<1>6. l = r
  <2> HIDE DEF S
  <2> QED BY <1>2, <1>3, <1>4, <1>5, SeqEqual
<1> QED BY <1>6 DEF b, l, r

LEMMA StatesPopped ==
    ASSUME NEW a, a = <<"Working", "Blocked">>
    PROVE  SubSeq(a, 1, Len(a) - 1) = <<"Working">>
<1> DEFINE S == {"Working", "Blocked"}
           l == SubSeq(a, 1, 1)
           r == <<"Working">>
<1>1. Len(a) - 1 = 1 /\ a[1] = "Working" OBVIOUS
<1>2. r \in Seq(S) /\ Len(r) = 1 /\ r[1] = "Working" OBVIOUS
<1>3. \A i \in 1 .. 1 : a[i] \in S BY <1>1
<1>4. l \in Seq(S) /\ Len(l) = 1 /\ l[1] = a[1]
  <2> HIDE DEF S
  <2>1. /\ l \in Seq(S) /\ Len(l) = IF 1 <= 1 THEN 1 - 1 + 1 ELSE 0
        /\ \A i \in 1 .. 1 - 1 + 1 : l[i] = a[1 + i - 1]
      BY <1>3, SubSeqProperties
  <2> QED BY <2>1
<1> HIDE DEF l, r
<1>5. \A i \in 1 .. Len(l) : l[i] = r[i] BY <1>1, <1>2, <1>4
<1>6. l = r
  <2> HIDE DEF S
  <2> QED BY <1>2, <1>4, <1>5, SeqEqual
<1> QED BY <1>1, <1>6 DEF l, r

LEMMA InitSInv == ContainersInit => SInv
<1> SUFFICES ASSUME ContainersInit PROVE SInv OBVIOUS
<1>1. \A n \in DOMAIN children : FALSE BY DEF ContainersInit
<1>2. OneUser BY DEF ContainersInit, OneUser, AtWork
<1>3. \A t \in Threads : phase[t] # "joining" BY DEF ContainersInit
<1> QED BY <1>1, <1>2, <1>3 DEF ContainersInit, SInv, StatesOK

LEMMA StepSInv == IInv /\ GInv /\ SInv /\ [ContainersNext]_containersVars => SInv'
<1> SUFFICES ASSUME IInv, GInv, SInv, [ContainersNext]_containersVars PROVE SInv' OBVIOUS
<1>0. /\ \A t \in Threads : Tid(t) \in Nat
      /\ id \in [Threads -> Nat] /\ started \in BOOLEAN /\ IsChildren(children)
      /\ ~started => children = << >>
      /\ phase \in [Threads -> {"none", "created", "running", "joining", "over"}]
      /\ OneUser /\ StatesOK
    BY TidType DEF IInv, GInv, SInv, Tid
(* Steps that change neither what threads wait nor what ids they have. *)
<1>1. ASSUME NEW t \in Threads, phase[t] \in {"created", "running"},
             NEW ph \in {"running", "over"}, phase' = [phase EXCEPT ![t] = ph],
             id' = id, caught' = caught, clashed' = clashed, started' = started,
             NEW c, MoreFor(children, c, Tid(t)),
             DOMAIN children' = DOMAIN c,
             \A n \in DOMAIN c : children'[n].tid = c[n].tid /\ children'[n].states = c[n].states
      PROVE  SInv'
  <2>1. \A n \in DOMAIN c : c[n].tid \notin Mixed' => c[n].states = StatesOf(c[n].tid)'
    <3>1. /\ phase[t] \notin {"none", "over"} /\ phase[t] # "joining"
          /\ ph \in {"running", "over", "joining"} /\ ph # "joining"
        BY <1>1
    <3> QED BY <1>1, <3>1, MoreKeeps
  <2>2. StatesOK' BY <1>1, <2>1 DEF StatesOK
  <2>3. \A u \in Threads : /\ phase'[u] = "joining" <=> phase[u] = "joining"
                           /\ AtWork(u)' => AtWork(u)
      BY <1>0, <1>1 DEF AtWork
  <2>4. Mixed' = Mixed /\ \A u \in Threads : Tid(u)' = Tid(u) BY <1>1 DEF Mixed, Tid
  <2>5. \A j : Matching(children, j) # {} => Matching(children', j) # {}
      BY <1>1 DEF Matching, MoreFor
  <2>6. OneUser' BY <1>0, <1>1, <2>3, <2>4 DEF OneUser
  <2> QED BY <1>1, <2>2, <2>3, <2>4, <2>5, <2>6 DEF SInv
<1>2. ASSUME NEW t \in Threads, PthreadCreate(t) PROVE SInv'
  <2>1. PICK u \in Threads, i \in Ids :
            /\ phase[u] = "none"
            /\ phase' = [phase EXCEPT ![u] = "created"]
            /\ id' = [id EXCEPT ![u] = i]
            /\ clashed' = clashed \cup {Tid(v) : v \in {v \in Threads : AtWork(v) /\ SameInt(id[v], i)}}
      BY <1>2 DEF PthreadCreate
  <2>2. children' = children /\ caught' = caught /\ started' = started
      BY <1>2 DEF PthreadCreate
  <2>3. \A v \in Threads : v # u => id'[v] = id[v] /\ Tid(v)' = Tid(v) /\ phase'[v] = phase[v]
      BY <1>0, <2>1 DEF Tid
  <2>4. Tid(u)' = i % Width /\ phase'[u] = "created" BY <1>0, <2>1 DEF Tid
  <2>5. \A v \in Threads : phase'[v] = "joining" <=> phase[v] = "joining" BY <2>1, <2>3, <2>4
  <2>6. \A j : Waits(j)' = Waits(j)
    <3>1. \A v \in Threads : phase[v] = "joining" => Tid(v)' = Tid(v) BY <2>1, <2>3
    <3> QED BY <2>5, <3>1 DEF Waits
  <2>7. clashed \subseteq clashed' /\ Mixed \subseteq Mixed' BY <2>1, <2>2 DEF Mixed
  <2>8. StatesOK' BY <1>0, <2>2, <2>6, <2>7 DEF StatesOK, StatesOf
  <2>9. OneUser'
    <3> SUFFICES ASSUME NEW v \in Threads, NEW w \in Threads, AtWork(v)', AtWork(w)',
                        Tid(v)' = Tid(w)', Tid(v)' \notin clashed'
                 PROVE  v = w
        BY DEF OneUser
    <3>1. ASSUME NEW x \in Threads, x # u, AtWork(x)', Tid(x)' = Tid(u)' PROVE Tid(x)' \in clashed'
      <4>1. AtWork(x) /\ Tid(x)' = Tid(x) BY <2>3, <3>1 DEF AtWork
      <4>2. SameInt(id[x], i) BY <2>4, <3>1, <4>1 DEF SameInt, Tid
      <4> QED BY <2>1, <4>1, <4>2
    <3>2. v # u /\ w # u => AtWork(v) /\ AtWork(w) /\ Tid(v) = Tid(w) /\ Tid(v) \notin clashed
        BY <2>3, <2>7 DEF AtWork
    <3> QED BY <1>0, <3>1, <3>2 DEF OneUser
  <2>10. \A v \in Threads : phase'[v] = "joining" => Tid(v)' = Tid(v) BY <2>3, <2>4
  <2> QED BY <2>2, <2>5, <2>7, <2>8, <2>9, <2>10 DEF SInv
<1>3. ASSUME NEW t \in Threads, NewThreadEvent(t) PROVE SInv'
  <2>1. MoreFor(children, DeclareCurThread(children, Tid(t), started), Tid(t)) BY <1>0, DeclareAdds
  <2> QED BY <1>1, <1>3, <2>1 DEF NewThreadEvent
<1>4. ASSUME NEW t \in Threads, OtherEvent(t) PROVE SInv'
  <2>1. MoreFor(children, DeclareCurThread(children, Tid(t), started), Tid(t)) BY <1>0, DeclareAdds
  <2>2. phase' = [phase EXCEPT ![t] = "running"] BY <1>0, <1>4 DEF OtherEvent, Running
  <2> QED BY <1>1, <1>4, <2>1, <2>2 DEF OtherEvent, Running
<1>5. ASSUME NEW t \in Threads, PthreadExit(t) PROVE SInv'
  <2>1. MoreFor(children, children, Tid(t)) BY DEF MoreFor
  <2> QED BY <1>1, <1>5, <2>1 DEF PthreadExit, Running
<1>6. ASSUME NEW t \in Threads, EndThread(t) PROVE SInv'
  <2> DEFINE c == DeclareCurThread(children, Tid(t), started)
  <2>1. MoreFor(children, c, Tid(t)) /\ IsChildren(c) BY <1>0, DeclareAdds, DeclareKeeps
  <2>2. children' = Destroyed(c, Tid(t)) BY <1>6 DEF EndThread
  <2> HIDE DEF c
  <2>3. DOMAIN children' = DOMAIN c BY <2>2 DEF Destroyed
  <2>4. \A n \in DOMAIN c : children'[n].tid = c[n].tid /\ children'[n].states = c[n].states
    <3>1. \A n \in DOMAIN c : c[n] \in Container BY <2>1 DEF IsChildren
    <3> QED BY <2>2, <3>1 DEF Destroyed, Container
  <2>5. phase' = [phase EXCEPT ![t] = "over"] /\ phase[t] = "running" BY <1>6 DEF EndThread, Running
  <2> QED BY <1>1, <1>6, <2>1, <2>3, <2>4, <2>5 DEF EndThread
<1>7. ASSUME NEW t \in Threads, StartJoin(t) PROVE SInv'
  <2> DEFINE c == DeclareCurThread(children, Tid(t), started)
  <2>1. /\ MoreFor(children, c, Tid(t)) /\ IsChildren(c) /\ (started => Matching(c, Tid(t)) # {})
        /\ (~started => c = << >>)
      BY <1>0, DeclareAdds, DeclareKeeps
  <2>2. /\ children' = (IF started THEN PushState(c, Tid(t)) ELSE c)
        /\ phase' = [phase EXCEPT ![t] = "joining"] /\ phase[t] = "running"
        /\ id' = id /\ started' = started /\ caught' = caught /\ clashed' = clashed
      BY <1>7 DEF StartJoin, Running
  <2>3. /\ \A u \in Threads : u # t => phase'[u] = phase[u]
        /\ phase'[t] = "joining"
        /\ \A u \in Threads : (AtWork(u)' => AtWork(u)) /\ Tid(u)' = Tid(u)
        /\ Mixed' = Mixed
      BY <1>0, <2>2 DEF AtWork, Mixed, Tid
  <2>4. \A n \in DOMAIN c : c[n].tid \notin Mixed => c[n].states = StatesOf(c[n].tid)
    <3>1. Tid(t) \notin Mixed => StatesOf(Tid(t)) = <<"Working">> BY <2>2, Alone DEF StatesOf
    <3> QED BY <1>0, <2>1, <3>1 DEF MoreFor, StatesOK
  <2>5. /\ StatesOf(Tid(t))' = <<"Working", "Blocked">>
        /\ \A i : i # Tid(t) => StatesOf(i)' = StatesOf(i)
      BY <2>2, <2>3 DEF StatesOf, Waits
  <2>6. OneUser' BY <1>0, <2>2, <2>3 DEF OneUser
  <2> HIDE DEF c
  <2>8. CASE ~started
    <3>1. \A n \in DOMAIN children' : FALSE BY <2>1, <2>2, <2>8
    <3> QED BY <2>2, <2>3, <2>6, <2>8, <3>1 DEF SInv, StatesOK
  <2>9. CASE started
    <3> DEFINE s == c[First(c, Tid(t))].states \o <<"Blocked">>
    <3>1. children' = WithStates(c, Tid(t), s) BY <2>1, <2>2, <2>9 DEF PushState
    <3>2. First(c, Tid(t)) \in DOMAIN c /\ c[First(c, Tid(t))].tid = Tid(t)
        BY <2>1, <2>9, FirstMatches
    <3>3. Tid(t) \notin Mixed => s = <<"Working", "Blocked">>
      <4>1. Tid(t) \notin Mixed => c[First(c, Tid(t))].states = <<"Working">>
        <5>1. Tid(t) \notin Mixed => StatesOf(Tid(t)) = <<"Working">> BY <2>2, Alone DEF StatesOf
        <5> QED BY <2>4, <3>2, <5>1
      <4>2. <<"Working">> \in Stacks /\ Len(<<"Working">>) = 1 BY DEF Stacks
      <4> QED BY <4>1, <4>2, StatesPushed
    <3> HIDE DEF s
    <3>4. ChangedFor(c, children', Tid(t), s) BY <2>1, <2>9, <3>1, WithStatesChanges
    <3>5. StatesOK' BY <2>3, <2>4, <2>5, <3>3, <3>4 DEF StatesOK, ChangedFor
    <3>6. \A j : Matching(children, j) # {} => Matching(children', j) # {}
        BY <2>1, <3>4, MatchingKept
    <3>7. Matching(children', Tid(t)) # {} BY <2>1, <2>9, <3>4, MatchingKept
    <3> QED BY <2>2, <2>3, <2>6, <2>9, <3>5, <3>6, <3>7 DEF SInv
  <2> QED BY <2>8, <2>9
<1>8. ASSUME NEW t \in Threads, StopJoin(t) PROVE SInv'
  <2> DEFINE c == DeclareCurThread(children, Tid(t), started)
  <2>1. /\ MoreFor(children, c, Tid(t)) /\ IsChildren(c) /\ (started => Matching(c, Tid(t)) # {})
        /\ (~started => c = << >>)
      BY <1>0, DeclareAdds, DeclareKeeps
  <2>2. /\ children' = (IF started THEN PopState(c, Tid(t)) ELSE c)
        /\ phase' = [phase EXCEPT ![t] = "running"] /\ phase[t] = "joining"
        /\ id' = id /\ started' = started /\ caught' = caught /\ clashed' = clashed
      BY <1>8 DEF StopJoin
  <2>3. /\ \A u \in Threads : u # t => phase'[u] = phase[u]
        /\ phase'[t] = "running"
        /\ \A u \in Threads : (AtWork(u)' => AtWork(u)) /\ Tid(u)' = Tid(u)
        /\ Mixed' = Mixed
      BY <1>0, <2>2 DEF AtWork, Mixed, Tid
  <2>4. (Tid(t) \notin Mixed /\ started) => c = children
    <3>1. (Tid(t) \notin Mixed /\ started) => Matching(children, Tid(t)) # {} BY <2>2 DEF SInv
    <3> QED BY <3>1 DEF DeclareCurThread
  <2>5. /\ \A i : i = Tid(t) /\ i \notin Mixed => StatesOf(i)' = <<"Working">>
        /\ \A i : i # Tid(t) => StatesOf(i)' = StatesOf(i)
        /\ Tid(t) \notin Mixed => StatesOf(Tid(t)) = <<"Working", "Blocked">>
    <3>1. \A u \in Threads : Tid(t) \notin Mixed /\ Tid(u) = Tid(t) /\ phase[u] = "joining" => u = t
        BY <2>2, Alone
    <3> QED BY <2>2, <2>3, <3>1 DEF StatesOf, Waits
  <2>6. OneUser' BY <1>0, <2>2, <2>3 DEF OneUser
  <2> HIDE DEF c
  <2>8. CASE ~started
    <3>1. \A n \in DOMAIN children' : FALSE BY <2>1, <2>2, <2>8
    <3> QED BY <2>2, <2>3, <2>6, <2>8, <3>1 DEF SInv, StatesOK
  <2>9. CASE started
    <3> DEFINE old == c[First(c, Tid(t))].states
               s == SubSeq(old, 1, Len(old) - 1)
    <3>1. First(c, Tid(t)) \in DOMAIN c /\ c[First(c, Tid(t))].tid = Tid(t)
        BY <2>1, <2>9, FirstMatches
    <3>2. children' = c \/ children' = WithStates(c, Tid(t), s)
        BY <2>1, <2>2, <2>9 DEF PopState
    <3>3. Tid(t) \notin Mixed => /\ children' = WithStates(c, Tid(t), s)
                                 /\ s = <<"Working">>
      <4> SUFFICES ASSUME Tid(t) \notin Mixed
                   PROVE  children' = WithStates(c, Tid(t), s) /\ s = <<"Working">>
          OBVIOUS
      <4>1. old = <<"Working", "Blocked">> BY <1>0, <2>4, <2>5, <2>9, <3>1 DEF StatesOK
      <4>2. old # << >> /\ Len(old) = 2 BY <4>1
      <4>4. s = <<"Working">> BY <4>1, StatesPopped
      <4>5. children' = PopState(c, Tid(t)) BY <2>2, <2>9
      <4> HIDE DEF s
      <4> QED BY <2>1, <2>9, <4>2, <4>4, <4>5 DEF PopState, s
    <3> HIDE DEF s
    <3>4. children' # c => ChangedFor(c, children', Tid(t), s)
        BY <2>1, <2>9, <3>2, WithStatesChanges
    <3>5. Tid(t) \notin Mixed => ChangedFor(c, children', Tid(t), s)
        BY <2>1, <2>9, <3>3, WithStatesChanges
    <3>6. StatesOK'
      <4> SUFFICES ASSUME NEW n \in DOMAIN children', children'[n].tid \notin Mixed,
                          NEW i, i = children'[n].tid
                   PROVE  children'[n].states = StatesOf(i)'
          BY <2>3 DEF StatesOK
      <4>1. /\ DOMAIN children' = DOMAIN c /\ children'[n].tid = c[n].tid
            /\ c[n].tid # Tid(t) => children'[n].states = c[n].states
          BY <3>4 DEF ChangedFor
      <4>2. CASE c[n].tid = Tid(t)
        <5>1. children'[n].states = s /\ s = <<"Working">> BY <3>3, <3>5, <4>1, <4>2 DEF ChangedFor
        <5> QED BY <2>5, <4>1, <4>2, <5>1
      <4>3. CASE c[n].tid # Tid(t)
        <5>1. n \in DOMAIN children /\ c[n] = children[n] BY <2>1, <4>1, <4>3 DEF MoreFor
        <5>2. children[n].states = StatesOf(c[n].tid) BY <1>0, <4>1, <5>1 DEF StatesOK
        <5>3. StatesOf(i)' = StatesOf(i) BY <2>5, <4>1, <4>3
        <5> QED BY <4>1, <4>3, <5>1, <5>2, <5>3
      <4> QED BY <4>2, <4>3
    <3>7. \A j : Matching(children, j) # {} => Matching(children', j) # {}
        BY <2>1, <3>4, MatchingKept
    <3> QED BY <2>2, <2>3, <2>6, <2>9, <3>6, <3>7 DEF SInv
  <2> QED BY <2>8, <2>9
<1>9. ASSUME NEW t \in Threads, MpiInit(t) PROVE SInv'
  <2>1. /\ phase' = phase /\ id' = id /\ clashed' = clashed /\ started' = TRUE
        /\ children' = InitContainers(children, Tid(t)) /\ phase[t] = "running"
        /\ caught' = IF started THEN caught ELSE {Tid(u) : u \in {u \in Threads : phase[u] = "joining"}}
      BY <1>9 DEF MpiInit, Running
  <2>2. ~started => \A i : i \notin Mixed' => ~Waits(i) BY <2>1 DEF Waits, Mixed
  <2>3. /\ \A i : StatesOf(i)' = StatesOf(i) /\ Waits(i)' = Waits(i)
        /\ \A u \in Threads : Tid(u)' = Tid(u)
        /\ started => Mixed' = Mixed
    BY <2>1 DEF StatesOf, Waits, Tid, Mixed
  <2>4. MoreFor(children, children', Tid(t))
    <3>1. CASE started BY <1>0, <2>1, <3>1, DeclareAdds DEF InitContainers
    <3>2. CASE ~started BY <1>0, <2>1, <3>2, NewThreadAdds DEF InitContainers, NewThread
    <3> QED BY <3>1, <3>2
  <2>5. StatesOK'
    <3>1. CASE started
      <4>1. Tid(t) \notin Mixed => StatesOf(Tid(t)) = <<"Working">> BY <2>1, Alone DEF StatesOf
      <4> QED BY <1>0, <2>3, <2>4, <3>1, <4>1 DEF StatesOK, MoreFor
    <3>2. CASE ~started
      <4>1. \A n \in DOMAIN children : FALSE BY <1>0, <3>2
      <4> QED BY <2>2, <2>3, <2>4, <3>2, <4>1 DEF StatesOK, StatesOf, MoreFor
    <3> QED BY <3>1, <3>2
  <2>6. \A u \in Threads : phase'[u] = "joining" /\ Tid(u) \notin Mixed' => Matching(children', Tid(u)) # {}
    <3>1. CASE started
      <4>1. \A j : Matching(children, j) # {} => Matching(children', j) # {}
          BY <2>4, MatchingKept
      <4> QED BY <2>1, <2>3, <3>1, <4>1 DEF SInv
    <3>2. CASE ~started BY <2>1, <3>2 DEF Mixed
    <3> QED BY <3>1, <3>2
  <2>7. OneUser' BY <1>0, <2>1 DEF OneUser, AtWork, Tid
  <2> QED BY <1>0, <2>1, <2>3, <2>5, <2>6, <2>7 DEF SInv
<1>10. CASE UNCHANGED containersVars
  <2>1. /\ \A i : StatesOf(i)' = StatesOf(i) /\ Mixed' = Mixed
        /\ \A u \in Threads : Tid(u)' = Tid(u) /\ AtWork(u)' = AtWork(u)
    BY <1>10 DEF StatesOf, Waits, Tid, AtWork, Mixed, containersVars, app
  <2> QED BY <1>10, <2>1 DEF containersVars, app, SInv, StatesOK, OneUser
<1> QED
    BY <1>2, <1>3, <1>4, <1>5, <1>6, <1>7, <1>8, <1>9, <1>10 DEF ContainersNext, Exited

(* The states of a container follow its thread, whatever thread had the id *)
(* or the same int before, but for one whose join had begun before the     *)
(* trace started or that shared its int with another at work:              *)
(* FUT_START_THREAD_JOIN pushes a state, FUT_STOP_THREAD_JOIN pops it.     *)
THEOREM StatesFollowHolds == ContainersSpec => []StatesFollow
<1>1. GInv /\ SInv => StatesFollow
  <2> SUFFICES ASSUME GInv, SInv, NEW t \in Threads, phase[t] \in {"running", "joining"},
                      Tid(t) \notin Mixed, NEW n \in Matching(children, Tid(t))
               PROVE  children[n].states = IF phase[t] = "joining" THEN <<"Working", "Blocked">>
                                           ELSE <<"Working">>
      BY DEF StatesFollow, Mixed
  <2>1. children[n].states = StatesOf(Tid(t)) BY DEF SInv, StatesOK, Matching
  <2> QED BY <2>1, Alone DEF StatesOf
<1> QED BY Initially, StepKeeps, InitGInv, StepGInv, InitSInv, StepSInv, <1>1, PTL DEF ContainersSpec

-----------------------------------------------------------------------------
(***************************************************************************)
(* The handler threads, for any input and number of threads.               *)
(***************************************************************************)

(* An input is made of non-empty sequences of events. *)
LEMMA Inputs ==
    ASSUME TypeOK, NEW t \in Traces
    PROVE  /\ trace[t] \in Seq(Event)
           /\ Len(trace[t]) \in Nat \ {0}
           /\ pos[t] \in 1 .. Len(trace[t])
           /\ trace[t][pos[t]] \in Event
  BY InputsAssumption, EmptySeq, LenProperties, ElementOfSeq DEF TypeOK

-----------------------------------------------------------------------------
(* Types *)

LEMMA InitHandlers == HandlersInit => TypeOK
<1> SUFFICES ASSUME HandlersInit PROVE TypeOK
  OBVIOUS
<1>1. \A t \in Traces : Len(trace[t]) \in Nat /\ Len(trace[t]) >= 1
  BY InputsAssumption, EmptySeq, LenProperties DEF HandlersInit
<1>2. curTrace \in Traces
  BY TracesAssumption DEF HandlersInit
<1>3. << >> \in Seq(Codes) /\ << >> \in Seq(Nat)
  BY EmptySeq
<1> QED
  BY <1>1, <1>2, <1>3 DEF HandlersInit, TypeOK

LEMMA NextHandlers == TypeOK /\ [HandlersNext]_handlersVars => TypeOK'
<1> SUFFICES ASSUME TypeOK, [HandlersNext]_handlersVars PROVE TypeOK'
  OBVIOUS
<1>0. \A t \in Traces : /\ Len(trace[t]) \in Nat
                        /\ trace[t][pos[t]].awaits \in Seq(Codes)
                        /\ \A i \in Nat : Append(taken[t], i) \in Seq(Nat)
  BY Inputs, AppendProperties DEF TypeOK, Event
<1> DEFINE next == [pos EXCEPT ![curTrace] = @ + 1]
<1>01. pos[curTrace] < Len(trace[curTrace]) =>
          next \in [Traces -> Nat \ {0}] /\ \A t \in Traces : next[t] <= Len(trace[t])
  BY <1>0 DEF TypeOK
<1> HIDE DEF next
<1>1. CASE MainWakesUp
  BY <1>1 DEF TypeOK, MainWakesUp
<1>2. CASE MainFinalizes
  BY <1>2 DEF TypeOK, MainFinalizes
<1>3. ASSUME NEW h \in Handlers, HandlerStep(h) PROVE TypeOK'
  <2>0. await[h] # << >> => Tail(await[h]) \in Seq(Codes)
    BY HeadTailProperties DEF TypeOK
  <2>1. CASE EnterLoop(h)
    BY <2>1 DEF TypeOK, EnterLoop
  <2>2. CASE Dispatch(h)
    BY <2>2, <1>0 DEF TypeOK, Dispatch
  <2>3. CASE LeaveLoop(h)
    BY <2>3 DEF TypeOK, LeaveLoop
  <2>4. CASE AwaitAtEnd(h)
    BY <2>4, <2>0 DEF TypeOK, AwaitAtEnd
  <2>5. CASE AwaitFound(h)
    BY <2>5, <2>0, <1>0 DEF TypeOK, AwaitFound
  <2>6. CASE AwaitOther(h)
    <3>1. pos[curTrace] < Len(trace[curTrace]) /\ pos' = next /\ trace' = trace
      BY <2>6 DEF AwaitOther, next
    <3>2. pos' \in [Traces -> Nat \ {0}] /\ \A t \in Traces : pos'[t] <= Len(trace'[t])
      BY <3>1, <1>01
    <3>3. pc' \in [Handlers -> {"unborn", "start", "loop", "handle", "handOver", "blocked", "ended"}]
      BY <2>6 DEF TypeOK, AwaitOther
    <3>4. UNCHANGED <<trace, done, nbDone, curTrace, mainThreadSem, eventsProcessed, main, mine,
                      await, taken>>
      BY <2>6 DEF AwaitOther
    <3> QED
      BY <3>2, <3>3, <3>4 DEF TypeOK
  <2>7. CASE HandOver(h)
    BY <2>7 DEF TypeOK, HandOver
  <2>8. CASE HandlerReturns(h)
    <3>1. trace' = trace /\ (pos' = pos \/ (pos[curTrace] < Len(trace[curTrace]) /\ pos' = next))
      BY <2>8 DEF HandlerReturns, next
    <3>2. pos' \in [Traces -> Nat \ {0}] /\ \A t \in Traces : pos'[t] <= Len(trace'[t])
      BY <3>1, <1>01 DEF TypeOK
    <3>3. done' \in [Traces -> BOOLEAN] /\ nbDone' \in Nat
      <4>1. CASE pos[curTrace] < Len(trace[curTrace])
        <5>1. done' = done /\ nbDone' = nbDone
          BY <2>8, <4>1 DEF HandlerReturns
        <5> QED
          BY <5>1 DEF TypeOK
      <4>2. CASE ~(pos[curTrace] < Len(trace[curTrace]))
        <5>1. done' = [done EXCEPT ![curTrace] = TRUE] /\ nbDone' = nbDone + 1
          BY <2>8, <4>2 DEF HandlerReturns
        <5> QED
          BY <5>1 DEF TypeOK
      <4> QED
        BY <4>1, <4>2
    <3>4. pc' \in [Handlers -> {"unborn", "start", "loop", "handle", "handOver", "blocked", "ended"}]
      BY <2>8 DEF TypeOK, HandlerReturns
    <3>5. UNCHANGED <<trace, curTrace, mainThreadSem, eventsProcessed, main, mine, await, taken>>
      BY <2>8 DEF HandlerReturns
    <3> QED
      BY <3>2, <3>3, <3>4, <3>5 DEF TypeOK
  <2> QED
    BY <1>3, <2>1, <2>2, <2>3, <2>4, <2>5, <2>6, <2>7, <2>8 DEF HandlerStep
<1>4. CASE UNCHANGED handlersVars
  BY <1>4 DEF TypeOK, handlersVars
<1> QED
  BY <1>1, <1>2, <1>3, <1>4 DEF HandlersNext, MainStep, HandlersTerminated

(* Every variable always holds a value of its type. *)
THEOREM HandlersTyped == HandlersSpec => []TypeOK
  BY InitHandlers, NextHandlers, PTL DEF HandlersSpec

-----------------------------------------------------------------------------
(* One thread at a time *)

(* Who may go on: main until it has woken up the first handler, then the   *)
(* token of main_thread_sem or the active handler, then main again.        *)
HInv ==
    /\ main \in {"wakeUp", "wait", "finalized"}
    /\ mainThreadSem \in {0, 1}
    /\ eventsProcessed \in Nat
    /\ pc \in [Handlers -> {"unborn", "start", "loop", "handle", "handOver", "blocked", "ended"}]
    /\ \A g, h \in Handlers : Active(g) /\ Active(h) => g = h
    /\ mainThreadSem = 1 => \A h \in Handlers : ~Active(h)
    /\ main = "wakeUp" => mainThreadSem = 0 /\ \A h \in Handlers : ~Active(h)
    /\ eventsProcessed > 0 \/ main = "finalized" =>
           mainThreadSem = 0 /\ \A h \in Handlers : ~Active(h)
    /\ main = "wakeUp" => eventsProcessed = 0

(* No thread is active when the first handler has just been created.       *)
LEMMA InitHInv == HandlersInit => HInv
  BY FirstAssumption DEF HandlersInit, HInv, Active

(* Every step leaves the right to go on with one thread at most.           *)
LEMMA NextHInv == HInv /\ [HandlersNext]_handlersVars => HInv'
<1> SUFFICES ASSUME HInv, [HandlersNext]_handlersVars PROVE HInv'
  OBVIOUS
<1>1. CASE MainWakesUp
  BY <1>1 DEF HInv, MainWakesUp, Active
<1>2. CASE MainFinalizes
  BY <1>2 DEF HInv, MainFinalizes, Active
<1>3. ASSUME NEW h \in Handlers, HandlerStep(h) PROVE HInv'
  <2>1. CASE EnterLoop(h)
    BY <2>1 DEF HInv, EnterLoop, Active
  <2>2. CASE Dispatch(h)
    BY <2>2 DEF HInv, Dispatch, Active
  <2>3. CASE LeaveLoop(h)
    BY <2>3 DEF HInv, LeaveLoop, Active
  <2>4. CASE AwaitAtEnd(h)
    BY <2>4 DEF HInv, AwaitAtEnd, Active
  <2>5. CASE AwaitFound(h)
    BY <2>5 DEF HInv, AwaitFound, Active
  <2>6. CASE AwaitOther(h)
    BY <2>6 DEF HInv, AwaitOther, Active
  <2>7. CASE HandOver(h)
    BY <2>7 DEF HInv, HandOver, Active
  <2>8. CASE HandlerReturns(h)
    BY <2>8 DEF HInv, HandlerReturns, Active
  <2> QED
    BY <1>3, <2>1, <2>2, <2>3, <2>4, <2>5, <2>6, <2>7, <2>8 DEF HandlerStep
<1>4. CASE UNCHANGED handlersVars
  BY <1>4 DEF HInv, handlersVars, Active
<1> QED
  BY <1>1, <1>2, <1>3, <1>4 DEF HandlersNext, MainStep, HandlersTerminated

(* At most one handler thread works on the unprotected state of the        *)
(* scheduler, and none when main frees it.                                 *)
THEOREM OneHandlerHolds == HandlersSpec => []OneHandler
<1>1. HInv => OneHandler
  BY DEF HInv, OneHandler
<1> QED
  BY InitHInv, NextHInv, <1>1, PTL DEF HandlersSpec

-----------------------------------------------------------------------------
(* Every event is taken once and in order *)

(* The current event of t was taken: a handler is working on it, or it was *)
(* the last one.                                                           *)
Working(t) == t = curTrace /\ \E h \in Handlers : pc[h] = "handle"
EvTaken(t) == Working(t) \/ done[t]
Counted == {t \in Traces : done[t] /\ ~Working(t)}

TakenInv ==
    /\ \A t \in Traces : Len(taken[t]) = IF EvTaken(t) THEN pos[t] ELSE pos[t] - 1
    /\ \A t \in Traces : \A i \in 1 .. Len(taken[t]) : taken[t][i] = i
    /\ \A t \in Traces : done[t] => pos[t] = Len(trace[t])
    /\ nbDone = Cardinality(Counted)
    /\ eventsProcessed > 0 \/ main = "finalized" => nbDone >= Cardinality(Traces)

LEMMA InitTakenInv == HandlersInit => TakenInv
<1> SUFFICES ASSUME HandlersInit PROVE TakenInv
  OBVIOUS
<1>1. \A t \in Traces : ~EvTaken(t)
  BY DEF HandlersInit, EvTaken, Working
<1>2. Counted = {}
  BY DEF HandlersInit, Counted
<1>3. Cardinality(Counted) = 0
  BY <1>2, FS_EmptySet
<1> QED
  BY <1>1, <1>3, EmptySeq DEF HandlersInit, TakenInv

LEMMA NextTakenInv == TypeOK /\ HInv /\ TakenInv /\ [HandlersNext]_handlersVars => TakenInv'
<1> SUFFICES ASSUME TypeOK, HInv, TakenInv, [HandlersNext]_handlersVars PROVE TakenInv'
  OBVIOUS
<1>0. \A t \in Traces : Len(trace[t]) \in Nat \ {0} /\ pos[t] \in 1 .. Len(trace[t])
  BY Inputs
<1>1. ASSUME UNCHANGED <<trace, pos, done, nbDone, curTrace, taken>>,
             \A h \in Handlers : pc'[h] = "handle" <=> pc[h] = "handle",
             eventsProcessed' > 0 \/ main' = "finalized" => nbDone >= Cardinality(Traces)
      PROVE  TakenInv'
  <2>1. Counted' = Counted /\ \A t \in Traces : EvTaken(t)' = EvTaken(t)
    BY <1>1 DEF Counted, EvTaken, Working
  <2> QED
    BY <1>1, <2>1 DEF TakenInv
<1>2. CASE MainWakesUp
  BY <1>1, <1>2 DEF MainWakesUp, TakenInv
<1>3. CASE MainFinalizes
  BY <1>1, <1>3 DEF MainFinalizes, TakenInv
<1>4. ASSUME NEW h \in Handlers, HandlerStep(h) PROVE TakenInv'
  <2>0. /\ pc[h] = "handle" => \A g \in Handlers \ {h} : pc[g] # "handle"
        /\ pc[h] = "loop" => \A g \in Handlers : pc[g] # "handle"
        /\ pc[h] \in {"loop", "handle"} => eventsProcessed = 0 /\ main # "finalized"
    BY DEF HInv, Active
  <2>1. CASE EnterLoop(h)
    BY <1>1, <2>1 DEF EnterLoop, TakenInv, TypeOK
  <2>2. CASE Dispatch(h)
    <3>1. PICK t \in Traces :
            /\ ~done[t]
            /\ curTrace' = t
            /\ taken' = [taken EXCEPT ![t] = Append(@, pos[t])]
      BY <2>2 DEF Dispatch
    <3>2. \A u \in Traces : ~Working(u) /\ (Working(u)' <=> u = t)
      BY <2>0, <2>2, <3>1 DEF Dispatch, Working, TypeOK
    <3>3. Counted' = Counted
      BY <2>2, <3>1, <3>2 DEF Dispatch, Counted
    <3>4. /\ Len(taken'[t]) = Len(taken[t]) + 1
          /\ \A i \in 1 .. Len(taken[t]) : taken'[t][i] = taken[t][i]
          /\ taken'[t][Len(taken[t]) + 1] = pos[t]
      BY <3>1, AppendProperties DEF TypeOK
    <3>5. Len(taken[t]) = pos[t] - 1
      BY <3>1, <3>2 DEF TakenInv, EvTaken
    <3>6. \A u \in Traces \ {t} : taken'[u] = taken[u] /\ EvTaken(u)' = EvTaken(u)
      BY <2>2, <3>1, <3>2 DEF Dispatch, EvTaken, TypeOK
    <3>7. EvTaken(t)'
      BY <3>2 DEF EvTaken
    <3> QED
      BY <1>0, <2>0, <2>2, <3>3, <3>4, <3>5, <3>6, <3>7 DEF Dispatch, TakenInv
  <2>3. CASE LeaveLoop(h)
    BY <1>1, <2>3 DEF LeaveLoop, TakenInv, TypeOK
  <2>4. CASE AwaitAtEnd(h)
    <3>1. Working(curTrace) /\ \A t \in Traces : Working(t)' = Working(t)
      BY <2>4 DEF AwaitAtEnd, Working
    <3>2. Counted' = Counted
      BY <2>4, <3>1 DEF AwaitAtEnd, Counted, TypeOK, Working
    <3>3. \A t \in Traces : EvTaken(t)' = EvTaken(t)
      BY <2>4, <3>1 DEF AwaitAtEnd, EvTaken, TypeOK, Working
    <3> QED
      BY <2>4, <3>2, <3>3 DEF AwaitAtEnd, TakenInv, TypeOK
  <2>5. CASE AwaitFound(h)
    <3>1. Working(curTrace) /\ \A t \in Traces : Working(t)' = Working(t)
      BY <2>5 DEF AwaitFound, Working
    <3>2. Counted' = Counted /\ \A t \in Traces : EvTaken(t)' = EvTaken(t)
      BY <2>5, <3>1 DEF AwaitFound, Counted, EvTaken
    <3>3. curTrace \in Traces /\ Len(taken[curTrace]) = pos[curTrace]
      BY <3>1 DEF TakenInv, EvTaken, TypeOK
    <3>4. /\ Len(taken'[curTrace]) = Len(taken[curTrace]) + 1
          /\ \A i \in 1 .. Len(taken[curTrace]) : taken'[curTrace][i] = taken[curTrace][i]
          /\ taken'[curTrace][Len(taken[curTrace]) + 1] = pos[curTrace] + 1
      BY <2>5, <3>3, <1>0, AppendProperties DEF AwaitFound, TypeOK
    <3>5. EvTaken(curTrace) /\ ~done[curTrace]
      BY <2>5, <3>1, <3>3, <1>0 DEF EvTaken, TakenInv, AwaitFound
    <3>6. \A t \in Traces \ {curTrace} : taken'[t] = taken[t] /\ pos'[t] = pos[t]
      BY <2>5 DEF AwaitFound, TypeOK
    <3>7. pos'[curTrace] = pos[curTrace] + 1
      BY <2>5, <3>3 DEF AwaitFound, TypeOK
    <3> QED
      BY <1>0, <2>0, <2>5, <3>2, <3>3, <3>4, <3>5, <3>6, <3>7 DEF AwaitFound, TakenInv
  <2>6. CASE AwaitOther(h)
    <3>1. /\ curTrace \in Traces /\ Working(curTrace)
          /\ \A t \in Traces : Working(t) => t = curTrace
          /\ \A t \in Traces : ~Working(t)'
      BY <2>0, <2>6 DEF AwaitOther, Working, TypeOK
    <3>2. ~done[curTrace]
      BY <1>0, <2>6, <3>1 DEF AwaitOther, TakenInv
    <3>3. Counted' = Counted
      BY <2>6, <3>1, <3>2 DEF AwaitOther, Counted
    <3>4. EvTaken(curTrace) /\ ~EvTaken(curTrace)'
      BY <2>6, <3>1, <3>2 DEF EvTaken, AwaitOther
    <3>5. \A t \in Traces \ {curTrace} : EvTaken(t)' = EvTaken(t) /\ pos'[t] = pos[t]
      BY <2>6, <3>1 DEF EvTaken, AwaitOther, TypeOK
    <3>6. pos'[curTrace] = pos[curTrace] + 1
      BY <2>6, <3>1 DEF AwaitOther, TypeOK
    <3> QED
      BY <1>0, <2>0, <2>6, <3>1, <3>2, <3>3, <3>4, <3>5, <3>6 DEF AwaitOther, TakenInv
  <2>7. CASE HandOver(h)
    BY <1>1, <2>7 DEF HandOver, TakenInv, TypeOK
  <2>8. CASE HandlerReturns(h)
    <3>1. /\ curTrace \in Traces /\ Working(curTrace)
          /\ \A t \in Traces : Working(t) => t = curTrace
          /\ \A t \in Traces : ~Working(t)'
      BY <2>0, <2>8 DEF HandlerReturns, Working, TypeOK
    <3>2. CASE pos[curTrace] < Len(trace[curTrace])
      <4>1. ~done[curTrace]
        BY <1>0, <3>1, <3>2 DEF TakenInv
      <4>2. Counted' = Counted
        BY <2>8, <3>1, <3>2, <4>1 DEF HandlerReturns, Counted
      <4>3. EvTaken(curTrace) /\ ~EvTaken(curTrace)'
        BY <2>8, <3>1, <3>2, <4>1 DEF EvTaken, HandlerReturns
      <4>4. \A t \in Traces \ {curTrace} : EvTaken(t)' = EvTaken(t) /\ pos'[t] = pos[t]
        BY <2>8, <3>1, <3>2 DEF EvTaken, HandlerReturns, TypeOK
      <4>5. pos'[curTrace] = pos[curTrace] + 1
        BY <2>8, <3>1, <3>2 DEF HandlerReturns, TypeOK
      <4> QED
        BY <1>0, <2>0, <2>8, <3>1, <3>2, <4>1, <4>2, <4>3, <4>4, <4>5 DEF HandlerReturns, TakenInv
    <3>3. CASE ~(pos[curTrace] < Len(trace[curTrace]))
      <4>1. done' = [done EXCEPT ![curTrace] = TRUE] /\ nbDone' = nbDone + 1 /\ UNCHANGED pos
        BY <2>8, <3>3 DEF HandlerReturns
      <4>2. Counted' = Counted \cup {curTrace} /\ curTrace \notin Counted
        BY <3>1, <4>1 DEF Counted, TypeOK
      <4>3. IsFiniteSet(Counted)
        BY TracesAssumption, FS_Subset DEF Counted
      <4>4. nbDone' = Cardinality(Counted')
        BY <4>1, <4>2, <4>3, FS_AddElement DEF TakenInv
      <4>5. \A t \in Traces : EvTaken(t)' = EvTaken(t)
        BY <3>1, <4>1 DEF EvTaken, TypeOK
      <4>6. pos[curTrace] = Len(trace[curTrace])
        BY <1>0, <3>1, <3>3
      <4> QED
        BY <1>0, <2>0, <2>8, <3>1, <4>1, <4>4, <4>5, <4>6 DEF HandlerReturns, TakenInv, TypeOK
    <3> QED
      BY <3>2, <3>3
  <2> QED
    BY <1>4, <2>1, <2>2, <2>3, <2>4, <2>5, <2>6, <2>7, <2>8 DEF HandlerStep
<1>5. CASE UNCHANGED handlersVars
  BY <1>1, <1>5 DEF handlersVars, TakenInv
<1> QED
  BY <1>2, <1>3, <1>4, <1>5 DEF HandlersNext, MainStep, HandlersTerminated

(* When main ends, the loop has counted as many ends of traces as there    *)
(* are traces: all of them are done.                                       *)
LEMMA OrderTaken == TypeOK /\ HInv /\ TakenInv => TakenInOrder
<1> SUFFICES ASSUME TypeOK, HInv, TakenInv, NEW t \in Traces
             PROVE  /\ \A i \in DOMAIN taken[t] : taken[t][i] = i
                    /\ main = "finalized" => Len(taken[t]) = Len(trace[t])
  BY DEF TakenInOrder
<1>1. \A i \in DOMAIN taken[t] : taken[t][i] = i
  BY LenProperties DEF TakenInv, TypeOK
<1>2. ASSUME main = "finalized" PROVE Len(taken[t]) = Len(trace[t])
  <2>1. Counted \in SUBSET Traces
    BY DEF Counted
  <2>2. Cardinality(Counted) >= Cardinality(Traces)
    BY <1>2 DEF TakenInv
  <2>3. Cardinality(Counted) \in Nat /\ Cardinality(Traces) \in Nat
    BY <2>1, TracesAssumption, FS_Subset, FS_CardinalityType
  <2>4. Counted = Traces
    BY <2>1, <2>2, <2>3, TracesAssumption, FS_Subset
  <2>5. done[t]
    BY <2>4 DEF Counted
  <2> QED
    BY <2>5 DEF TakenInv, EvTaken
<1> QED
  BY <1>1, <1>2

(* Whichever threads take them, the events of a trace are taken once each, *)
(* in their order, and all of them before main ends.                       *)
THEOREM TakenInOrderHolds == HandlersSpec => []TakenInOrder
  BY InitHandlers, NextHandlers, InitHInv, NextHInv, InitTakenInv, NextTakenInv, OrderTaken, PTL DEF HandlersSpec

-----------------------------------------------------------------------------
(***************************************************************************)
(* The point-to-point messages, for any number of processes and any        *)
(* programs.                                                               *)
(*                                                                         *)
(* The order of messages is that in which the converter makes them.  Both  *)
(* sides start the messages of a kind (a sender, a receiver and a tag) in  *)
(* that order, whichever of them is read first: a side that is behind is   *)
(* given the first message of the kind that it has not started, since that *)
(* one is in the list of the other side, before all the others.  So what   *)
(* a side has started of a kind is always the first messages of the kind.  *)
(***************************************************************************)

(* The kinds of values of the messages, of the entries of the lists and of *)
(* the state.                                                              *)
Peers == Procs \cup {Wild}
AnyTags == Tags \cup {Wild}
MsgType == [src : Peers, dest : Procs, tag : AnyTags, times : [TimeIds -> Nat], sreq : Nat, rreq : Nat]
EntryType == [msg : Nat, status : SUBSET AllDone]
PendingType == UNION {[D -> EntryType] : D \in SUBSET (Nat \ {0})}
QType == [msgs : Seq(MsgType), incoming : [Procs -> PendingType], outgoing : [Procs -> PendingType]]

StartS(q, m) == q.msgs[m].times["start_send"]
StartR(q, m) == q.msgs[m].times["start_recv"]

(* A wildcard is no rank and no tag.                                       *)
LEMMA WildIs == Wild \notin Procs /\ Wild \notin Tags /\ Wild # 0
BY TagsAssumption, NbProcsAssumption DEF Wild, Procs

(* What a list of pending communications is made of.                       *)
LEMMA PendingIs ==
    ASSUME NEW list \in PendingType
    PROVE  /\ DOMAIN list \subseteq Nat \ {0}
           /\ list \in [DOMAIN list -> EntryType]
           /\ \A i \in DOMAIN list : list[i] \in EntryType /\ list[i].msg \in Nat /\ list[i].status \in SUBSET AllDone
<1>1. PICK D \in SUBSET (Nat \ {0}) : list \in [D -> EntryType] BY DEF PendingType
<1>2. DOMAIN list = D BY <1>1
<1>3. \A i \in DOMAIN list : list[i] \in EntryType BY <1>1
<1> QED BY <1>1, <1>2, <1>3 DEF EntryType

(* A function from events to entries is such a list.                       *)
LEMMA PendingMade ==
    ASSUME NEW D \in SUBSET (Nat \ {0}), NEW list \in [D -> EntryType]
    PROVE  list \in PendingType
BY DEF PendingType

(* The messages of a state, and their starts.                              *)
LEMMA MsgsAre ==
    ASSUME NEW q \in QType
    PROVE  /\ DOMAIN q.msgs = 1 .. Len(q.msgs) /\ Len(q.msgs) \in Nat
           /\ \A m \in DOMAIN q.msgs :
                 /\ m \in Nat \ {0} /\ q.msgs[m] \in MsgType /\ q.msgs[m].src \in Peers /\ q.msgs[m].dest \in Procs
                 /\ q.msgs[m].tag \in AnyTags /\ q.msgs[m].times \in [TimeIds -> Nat]
                 /\ StartS(q, m) \in Nat /\ StartR(q, m) \in Nat
<1>1. q.msgs \in Seq(MsgType) BY DEF QType
<1>2. DOMAIN q.msgs = 1 .. Len(q.msgs) /\ Len(q.msgs) \in Nat BY <1>1
<1>3. \A m \in DOMAIN q.msgs : q.msgs[m] \in MsgType BY <1>1
<1>4. "start_send" \in TimeIds /\ "start_recv" \in TimeIds BY DEF TimeIds
<1> QED BY <1>2, <1>3, <1>4 DEF MsgType, StartS, StartR

-----------------------------------------------------------------------------
(* The operations on the lists, entry by entry. *)

(* Nothing but a flag of one entry differs. *)
Flagged(l2, l, e, flag) ==
    \A p \in Procs : /\ DOMAIN l2[p] = DOMAIN l[p]
                     /\ \A i \in DOMAIN l[p] :
                           /\ l2[p][i].msg = l[p][i].msg
                           /\ l2[p][i].status = l[p][i].status \cup
                                 (IF p = e.proc /\ i = e.i THEN {flag} ELSE {})

(* A flag is added to one entry, or to none.                               *)
LEMMA AddStatusIs ==
    ASSUME NEW l \in [Procs -> PendingType], NEW e, e # None => e.proc \in Procs /\ e.i \in DOMAIN l[e.proc],
           NEW flag \in AllDone
    PROVE  /\ AddStatus(l, e, flag) \in [Procs -> PendingType]
           /\ e # None => Flagged(AddStatus(l, e, flag), l, e, flag)
           /\ e = None => AddStatus(l, e, flag) = l
<1>1. CASE e = None BY <1>1 DEF AddStatus
<1>2. CASE e # None
  <2> DEFINE list == l[e.proc]
             new == [list[e.i] EXCEPT !.status = @ \cup {flag}]
             list2 == [list EXCEPT ![e.i] = new]
  <2>1. AddStatus(l, e, flag) = [l EXCEPT ![e.proc] = list2] BY <1>2 DEF AddStatus
  <2>2. /\ DOMAIN list \in SUBSET (Nat \ {0}) /\ list \in [DOMAIN list -> EntryType] /\ list[e.i] \in EntryType
        BY <1>2, PendingIs
  <2>3. /\ new \in EntryType /\ new.msg = list[e.i].msg /\ new.status = list[e.i].status \cup {flag}
        BY <2>2 DEF EntryType
  <2> HIDE DEF new
  <2>4. /\ list2 \in [DOMAIN list -> EntryType] /\ list2[e.i] = new /\ DOMAIN list2 = DOMAIN list
        /\ \A i \in DOMAIN list : i # e.i => list2[i] = list[i]
        BY <1>2, <2>2, <2>3
  <2>5. list2 \in PendingType BY <2>2, <2>4, PendingMade
  <2>6. \A i \in DOMAIN list : /\ list2[i].msg = list[i].msg
                               /\ list2[i].status = list[i].status \cup (IF i = e.i THEN {flag} ELSE {})
        BY <2>3, <2>4
  <2> HIDE DEF list2
  <2>7. AddStatus(l, e, flag) \in [Procs -> PendingType] BY <1>2, <2>1, <2>5
  <2>8. ASSUME NEW p \in Procs
        PROVE  /\ DOMAIN AddStatus(l, e, flag)[p] = DOMAIN l[p]
               /\ \A i \in DOMAIN l[p] :
                     /\ AddStatus(l, e, flag)[p][i].msg = l[p][i].msg
                     /\ AddStatus(l, e, flag)[p][i].status = l[p][i].status \cup
                           (IF p = e.proc /\ i = e.i THEN {flag} ELSE {})
    <3>1. CASE p = e.proc
      <4>1. AddStatus(l, e, flag)[p] = list2 BY <1>2, <2>1, <3>1
      <4> QED BY <2>4, <2>6, <3>1, <4>1
    <3>2. CASE p # e.proc
      <4>1. AddStatus(l, e, flag)[p] = l[p] BY <1>2, <2>1, <3>2
      <4> QED BY <3>2, <4>1
    <3> QED BY <3>1, <3>2
  <2> QED BY <1>2, <2>7, <2>8 DEF Flagged
<1> QED BY <1>1, <1>2

(* An entry is added at the end of one list. *)
Added(l2, l, p, m, status, now) ==
    /\ \A r \in Procs \ {p} : l2[r] = l[r]
    /\ DOMAIN l2[p] = DOMAIN l[p] \cup {now}
    /\ l2[p][now].msg = m /\ l2[p][now].status = status
    /\ \A i \in DOMAIN l[p] : i # now => l2[p][i] = l[p][i]

(* An entry is added to the list of one process.                           *)
LEMMA AddEntryIs ==
    ASSUME NEW l \in [Procs -> PendingType], NEW p \in Procs, NEW m \in Nat, NEW status \in SUBSET AllDone,
           NEW now \in Nat \ {0}
    PROVE  /\ AddEntry(l, p, m, status, now) \in [Procs -> PendingType]
           /\ Added(AddEntry(l, p, m, status, now), l, p, m, status, now)
<1> DEFINE entry == [msg |-> m, status |-> status]
           D == DOMAIN l[p] \cup {now}
           list2 == [i \in D |-> IF i = now THEN entry ELSE l[p][i]]
<1>1. AddEntry(l, p, m, status, now) = [l EXCEPT ![p] = list2] BY DEF AddEntry
<1>2. entry \in EntryType /\ entry.msg = m /\ entry.status = status BY DEF EntryType
<1>3. D \in SUBSET (Nat \ {0}) /\ \A i \in DOMAIN l[p] : l[p][i] \in EntryType BY PendingIs
<1> HIDE DEF entry
<1>4. list2 \in [D -> EntryType] BY <1>2, <1>3
<1>5. list2 \in PendingType BY <1>3, <1>4, PendingMade
<1>6. DOMAIN list2 = D /\ list2[now] = entry /\ \A i \in DOMAIN l[p] : i # now => list2[i] = l[p][i] OBVIOUS
<1> HIDE DEF list2
<1> QED BY <1>1, <1>2, <1>5, <1>6 DEF Added

(* What a message says of its starts. *)
SameStarts(q2, q, n) ==
    /\ q2.msgs[n].src = q.msgs[n].src /\ q2.msgs[n].dest = q.msgs[n].dest /\ q2.msgs[n].tag = q.msgs[n].tag
    /\ StartS(q2, n) = StartS(q, n) /\ StartR(q2, n) = StartR(q, n)

(* The ends and the waits change neither that nor which entries a message  *)
(* that is not complete has.                                               *)
StartFlags == {"NONE_DONE", "IRECV_DONE", "ISEND_DONE"}
Thinned(q, l2, l) ==
    \A p \in Procs :
        /\ DOMAIN l2[p] \subseteq DOMAIN l[p]
        /\ \A i \in DOMAIN l2[p] : /\ l2[p][i].msg = l[p][i].msg
                                   /\ \A f \in StartFlags : f \in l2[p][i].status <=> f \in l[p][i].status
        /\ \A i \in DOMAIN l[p] \ DOMAIN l2[p] : StartS(q, l[p][i].msg) # 0 /\ StartR(q, l[p][i].msg) # 0
StartsKept(q2, q) ==
    /\ q2 \in QType /\ DOMAIN q2.msgs = DOMAIN q.msgs
    /\ \A n \in DOMAIN q.msgs : SameStarts(q2, q, n)
    /\ Thinned(q, q2.incoming, q.incoming) /\ Thinned(q, q2.outgoing, q.outgoing)

(* Lists are what is left of themselves.                                   *)
LEMMA ThinnedSame == ASSUME NEW q, NEW l PROVE Thinned(q, l, l)
BY DEF Thinned

(* A state keeps its own starts.                                           *)
LEMMA KeptSame == ASSUME NEW q \in QType PROVE StartsKept(q, q)
BY ThinnedSame DEF StartsKept, SameStarts

(* What is left of what is left is left of the first.                      *)
LEMMA ThinnedTwice ==
    ASSUME NEW q, NEW q2, NEW l, NEW l2, NEW l3, Thinned(q, l2, l), Thinned(q2, l3, l2),
           \A n \in DOMAIN q.msgs : SameStarts(q2, q, n),
           \A p \in Procs : \A i \in DOMAIN l[p] : l[p][i].msg \in DOMAIN q.msgs
    PROVE  Thinned(q, l3, l)
<1> SUFFICES ASSUME NEW p \in Procs
             PROVE  /\ DOMAIN l3[p] \subseteq DOMAIN l[p]
                    /\ \A i \in DOMAIN l3[p] : /\ l3[p][i].msg = l[p][i].msg
                                               /\ \A f \in StartFlags : f \in l3[p][i].status <=> f \in l[p][i].status
                    /\ \A i \in DOMAIN l[p] \ DOMAIN l3[p] : StartS(q, l[p][i].msg) # 0 /\ StartR(q, l[p][i].msg) # 0
    BY DEF Thinned
<1>1. DOMAIN l3[p] \subseteq DOMAIN l[p] BY DEF Thinned
<1>2. ASSUME NEW i \in DOMAIN l3[p]
      PROVE  /\ l3[p][i].msg = l[p][i].msg
             /\ \A f \in StartFlags : f \in l3[p][i].status <=> f \in l[p][i].status
      BY <1>2 DEF Thinned
<1>3. ASSUME NEW i \in DOMAIN l[p] \ DOMAIN l3[p]
      PROVE  StartS(q, l[p][i].msg) # 0 /\ StartR(q, l[p][i].msg) # 0
  <2>1. CASE i \in DOMAIN l2[p]
    <3>1. l2[p][i].msg = l[p][i].msg /\ StartS(q2, l2[p][i].msg) # 0 /\ StartR(q2, l2[p][i].msg) # 0
          BY <1>3, <2>1 DEF Thinned
    <3> QED BY <1>3, <3>1 DEF SameStarts
  <2>2. CASE i \notin DOMAIN l2[p] BY <1>3, <2>2 DEF Thinned
  <2> QED BY <2>1, <2>2
<1> QED BY <1>1, <1>2, <1>3

(* The entries are about messages. *)
Entries(q) ==
    \A p \in Procs : /\ \A i \in DOMAIN q.incoming[p] : q.incoming[p][i].msg \in DOMAIN q.msgs
                     /\ \A i \in DOMAIN q.outgoing[p] : q.outgoing[p][i].msg \in DOMAIN q.msgs

(* The entries that are left are still about messages of the state.        *)
LEMMA EntriesKept ==
    ASSUME NEW q, NEW q2, Entries(q), StartsKept(q2, q)
    PROVE  Entries(q2)
BY DEF Entries, StartsKept, Thinned

(* Two operations that keep the starts keep them together.                 *)
LEMMA KeptTwice ==
    ASSUME NEW q, NEW q2, NEW q3, Entries(q), StartsKept(q2, q), StartsKept(q3, q2)
    PROVE  StartsKept(q3, q)
<1>1. \A n \in DOMAIN q.msgs : SameStarts(q3, q, n) BY DEF StartsKept, SameStarts
<1>2. Thinned(q, q3.incoming, q.incoming) BY ThinnedTwice DEF StartsKept, Entries
<1>3. Thinned(q, q3.outgoing, q.outgoing) BY ThinnedTwice DEF StartsKept, Entries
<1> QED BY <1>1, <1>2, <1>3 DEF StartsKept

(* A flag that is no start leaves the starts as they were.                 *)
LEMMA FlaggedThins ==
    ASSUME NEW q, NEW l, NEW l2, NEW e, NEW flag, flag \notin StartFlags, Flagged(l2, l, e, flag)
    PROVE  Thinned(q, l2, l)
BY DEF Flagged, Thinned

-----------------------------------------------------------------------------
(* A state is made of its messages and its two lists.                      *)
LEMMA QIs ==
    ASSUME NEW q \in QType
    PROVE  /\ q.msgs \in Seq(MsgType) /\ q.incoming \in [Procs -> PendingType] /\ q.outgoing \in [Procs -> PendingType]
           /\ q = [msgs |-> q.msgs, incoming |-> q.incoming, outgoing |-> q.outgoing]
BY DEF QType

(* A message is written again. *)
MsgWritten(q, m, msg) == [q EXCEPT !.msgs = [@ EXCEPT ![m] = msg]]

(* A message is written, without changing what it starts.                  *)
LEMMA MsgWrittenIs ==
    ASSUME NEW q \in QType, NEW m \in DOMAIN q.msgs, NEW msg \in MsgType
    PROVE  /\ MsgWritten(q, m, msg) \in QType
           /\ DOMAIN MsgWritten(q, m, msg).msgs = DOMAIN q.msgs
           /\ MsgWritten(q, m, msg).msgs[m] = msg
           /\ \A n \in DOMAIN q.msgs : n # m => MsgWritten(q, m, msg).msgs[n] = q.msgs[n]
           /\ MsgWritten(q, m, msg).incoming = q.incoming /\ MsgWritten(q, m, msg).outgoing = q.outgoing
<1> DEFINE msgs == [q.msgs EXCEPT ![m] = msg]
<1>1. q.msgs \in Seq(MsgType) BY QIs
<1>2. /\ msgs \in Seq(MsgType) /\ DOMAIN msgs = DOMAIN q.msgs /\ msgs[m] = msg
      /\ \A n \in DOMAIN q.msgs : n # m => msgs[n] = q.msgs[n]
      BY <1>1
<1> HIDE DEF msgs
<1>3. MsgWritten(q, m, msg) = [q EXCEPT !.msgs = msgs] BY DEF MsgWritten, msgs
<1> QED BY <1>2, <1>3 DEF QType

SetTimeMsg(msg, time, now) == [msg EXCEPT !.times = [@ EXCEPT ![time] = now]]

(* A time of a message is set, other than those of its starts.             *)
LEMMA SetTimeMsgIs ==
    ASSUME NEW msg \in MsgType, NEW time \in TimeIds, NEW now \in Nat
    PROVE  /\ SetTimeMsg(msg, time, now) \in MsgType
           /\ SetTimeMsg(msg, time, now).src = msg.src /\ SetTimeMsg(msg, time, now).dest = msg.dest
           /\ SetTimeMsg(msg, time, now).tag = msg.tag
           /\ SetTimeMsg(msg, time, now).times[time] = now
           /\ \A t \in TimeIds : t # time => SetTimeMsg(msg, time, now).times[t] = msg.times[t]
<1> DEFINE times == [msg.times EXCEPT ![time] = now]
<1>1. msg.times \in [TimeIds -> Nat] BY DEF MsgType
<1>2. times \in [TimeIds -> Nat] /\ times[time] = now /\ \A t \in TimeIds : t # time => times[t] = msg.times[t]
      BY <1>1
<1> HIDE DEF times
<1>3. SetTimeMsg(msg, time, now) = [msg EXCEPT !.times = times] BY DEF SetTimeMsg, times
<1> QED BY <1>2, <1>3 DEF MsgType

(* So is one of a message of the state: the starts are kept.               *)
LEMMA SetTimeIs ==
    ASSUME NEW q \in QType, NEW m \in DOMAIN q.msgs, NEW time \in TimeIds, NEW now \in Nat
    PROVE  SetTime(q, m, time, now) = MsgWritten(q, m, SetTimeMsg(q.msgs[m], time, now))
BY DEF SetTime, MsgWritten, SetTimeMsg

(* A time that is not that of a start is set. *)
LEMMA SetTimeKeeps ==
    ASSUME NEW q \in QType, NEW m \in DOMAIN q.msgs, NEW now \in Nat,
           NEW time \in TimeIds \ {"start_send", "start_recv"}
    PROVE  StartsKept(SetTime(q, m, time, now), q) /\ StartsKept(SetTimeOnce(q, m, time, now), q)
<1> DEFINE msg == SetTimeMsg(q.msgs[m], time, now)
           q2 == MsgWritten(q, m, msg)
<1>1. q.msgs[m] \in MsgType BY MsgsAre
<1>2. /\ msg \in MsgType /\ msg.src = q.msgs[m].src /\ msg.dest = q.msgs[m].dest /\ msg.tag = q.msgs[m].tag
      /\ msg.times["start_send"] = q.msgs[m].times["start_send"]
      /\ msg.times["start_recv"] = q.msgs[m].times["start_recv"]
  <2>1. "start_send" \in TimeIds /\ "start_recv" \in TimeIds BY DEF TimeIds
  <2> QED BY <1>1, <2>1, SetTimeMsgIs
<1> HIDE DEF msg
<1>3. /\ q2 \in QType /\ DOMAIN q2.msgs = DOMAIN q.msgs /\ q2.msgs[m] = msg
      /\ \A n \in DOMAIN q.msgs : n # m => q2.msgs[n] = q.msgs[n]
      /\ q2.incoming = q.incoming /\ q2.outgoing = q.outgoing
      BY <1>2, MsgWrittenIs
<1>4. SetTime(q, m, time, now) = q2 BY SetTimeIs DEF msg
<1> HIDE DEF q2
<1>5. StartsKept(q2, q) BY <1>2, <1>3, ThinnedSame DEF StartsKept, SameStarts, StartS, StartR
<1>6. SetTimeOnce(q, m, time, now) = q2 \/ SetTimeOnce(q, m, time, now) = q BY <1>4 DEF SetTimeOnce
<1> QED BY <1>4, <1>5, <1>6, KeptSame

(* A set of numbers that is not empty has a least one.                     *)
LEMMA LeastIs ==
    ASSUME NEW S \in SUBSET Nat, S # {}
    PROVE  \E m \in S : \A n \in S : m <= n
<1> DEFINE R == OpToRel(<, Nat)
<1>1. PICK m \in S : \A n \in S : ~(<<n, m>> \in R) BY NatLessThanWellFounded, WFMin
<1>2. \A n \in S : ~(n < m) BY <1>1 DEF OpToRel
<1>3. S \subseteq Nat OBVIOUS
<1> QED BY <1>2, <1>3

(* Such a set below a bound has a greatest one, and Max is it.             *)
LEMMA GreatestIs ==
    ASSUME NEW n \in Nat, NEW S \in SUBSET (1 .. n), S # {}
    PROVE  /\ Max(S) \in S
           /\ \A k \in S : k <= Max(S)
<1> DEFINE T == {k \in Nat : \A x \in S : x <= k}
<1>1. n \in T OBVIOUS
<1>2. PICK m \in T : \A k \in T : m <= k
  <2>1. T \in SUBSET Nat /\ T # {} BY <1>1
  <2> HIDE DEF T
  <2> QED BY <2>1, LeastIs
<1>3. m \in S
  <2> SUFFICES ASSUME m \notin S PROVE FALSE OBVIOUS
  <2>1. PICK x : x \in S OBVIOUS
  <2>2. x \in 1 .. n /\ x <= m /\ x # m /\ m \in Nat BY <1>2, <2>1
  <2>3. m - 1 \in Nat BY <2>2
  <2>4. \A y \in S : y \in 1 .. n /\ y <= m /\ y # m BY <1>2
  <2>5. \A y \in S : y <= m - 1 BY <2>2, <2>4
  <2>6. m - 1 \in T BY <2>3, <2>5
  <2> QED BY <1>2, <2>2, <2>6
<1>4. \A k \in S : m >= k
  <2>1. \A k \in S : k \in Nat OBVIOUS
  <2> QED BY <1>2, <2>1
<1>5. Max(S) \in S /\ \A k \in S : Max(S) >= k BY <1>3, <1>4 DEF Max
<1>6. \A k \in S : k \in Nat OBVIOUS
<1> QED BY <1>5, <1>6

-----------------------------------------------------------------------------
(* The searches. *)

(* The first entry of a set, if there is one.                              *)
LEMMA FirstIs ==
    ASSUME NEW p \in Procs, NEW S \in SUBSET (Nat \ {0})
    PROVE  /\ S = {} => FirstOf(p, S) = None
           /\ S # {} => /\ FirstOf(p, S) # None /\ FirstOf(p, S).proc = p
                        /\ FirstOf(p, S).i \in S /\ \A j \in S : FirstOf(p, S).i <= j
<1>1. CASE S = {} BY <1>1 DEF FirstOf
<1>2. CASE S # {}
  <2> DEFINE i == CHOOSE i \in S : \A j \in S : i <= j
  <2>1. i \in S /\ \A j \in S : i <= j
    <3>1. S \in SUBSET Nat OBVIOUS
    <3>2. \E m \in S : \A n \in S : m <= n BY <1>2, <3>1, LeastIs
    <3> QED BY <3>2
  <2> HIDE DEF i
  <2>2. FirstOf(p, S) = [proc |-> p, i |-> i] BY <1>2 DEF FirstOf, i
  <2>3. FirstOf(p, S).proc = p /\ FirstOf(p, S).i = i BY <2>2
  <2>4. None.proc = -1 BY DEF None
  <2>5. p # -1 BY NbProcsAssumption DEF Procs
  <2>6. FirstOf(p, S) # None BY <2>3, <2>4, <2>5
  <2> QED BY <1>2, <2>1, <2>3, <2>6
<1> QED BY <1>1, <1>2

(* What a search finds: the entry e of a list. *)
Found(q, list, e, src, dest, tag, ok, notOk) ==
    /\ e.i \in DOMAIN list
    /\ Compatible(q.msgs[list[e.i].msg], src, dest, tag)
    /\ ok \in list[e.i].status /\ notOk \notin list[e.i].status
    /\ \A j \in Candidates(q, list, src, dest, tag, ok, notOk) : e.i <= j

(* The candidates of a search are entries of the list.                     *)
LEMMA CandidatesIn ==
    ASSUME NEW q, NEW list \in PendingType, NEW src, NEW dest, NEW tag, NEW ok, NEW notOk
    PROVE  Candidates(q, list, src, dest, tag, ok, notOk) \in SUBSET (Nat \ {0})
BY PendingIs DEF Candidates

(* A search finds an entry when there is a candidate, and the first one.   *)
LEMMA FirstFound ==
    ASSUME NEW q, NEW list \in PendingType, NEW p \in Procs,
           NEW src, NEW dest, NEW tag, NEW ok, NEW notOk, NEW e,
           Candidates(q, list, src, dest, tag, ok, notOk) # {},
           e = FirstOf(p, Candidates(q, list, src, dest, tag, ok, notOk))
    PROVE  e # None /\ e.proc = p /\ Found(q, list, e, src, dest, tag, ok, notOk)
<1> DEFINE S == Candidates(q, list, src, dest, tag, ok, notOk)
<1>1. S \in SUBSET (Nat \ {0}) BY CandidatesIn
<1> HIDE DEF S
<1>2. e # None /\ e.proc = p /\ e.i \in S /\ \A j \in S : e.i <= j BY <1>1, FirstIs DEF S
<1>3. e.i \in Candidates(q, list, src, dest, tag, ok, notOk) BY <1>2 DEF S
<1>4. /\ e.i \in DOMAIN list /\ Compatible(q.msgs[list[e.i].msg], src, dest, tag)
      /\ ok \in list[e.i].status /\ notOk \notin list[e.i].status
      BY <1>3 DEF Candidates
<1> QED BY <1>2, <1>4 DEF Found, S

(* What the search of a receive finds, in the list of the receiver.        *)
LEMMA FindIrecvIs ==
    ASSUME NEW q \in QType, NEW src, NEW dest \in Procs, NEW tag, NEW ok, NEW notOk, NEW e,
           e = FindIrecv(q, src, dest, tag, ok, notOk)
    PROVE  /\ e # None => /\ e.proc = dest
                          /\ Found(q, q.incoming[dest], e, src, dest, tag, ok, notOk)
           /\ e = None => Candidates(q, q.incoming[dest], src, dest, tag, ok, notOk) = {}
<1>1. q.incoming[dest] \in PendingType BY QIs
<1>2. e = FirstOf(dest, Candidates(q, q.incoming[dest], src, dest, tag, ok, notOk)) BY DEF FindIrecv
<1>3. CASE Candidates(q, q.incoming[dest], src, dest, tag, ok, notOk) = {}
      BY <1>2, <1>3 DEF FirstOf
<1>4. CASE Candidates(q, q.incoming[dest], src, dest, tag, ok, notOk) # {}
  <2>1. e # None /\ e.proc = dest /\ Found(q, q.incoming[dest], e, src, dest, tag, ok, notOk)
        BY <1>1, <1>2, <1>4, FirstFound
  <2> QED BY <1>4, <2>1
<1> QED BY <1>3, <1>4

(* What the search of a send finds, in the list of its sender or, for a    *)
(* wildcard, of a process.                                                 *)
LEMMA FindIsendIs ==
    ASSUME NEW q \in QType, NEW src \in Peers, NEW dest, NEW tag, NEW ok, NEW notOk, NEW e,
           e = FindIsend(q, src, dest, tag, ok, notOk)
    PROVE  /\ e # None => /\ e.proc \in Procs /\ (src # Wild => e.proc = src)
                          /\ Found(q, q.outgoing[e.proc], e, e.proc, dest, tag, ok, notOk)
           /\ e = None /\ src # Wild => Candidates(q, q.outgoing[src], src, dest, tag, ok, notOk) = {}
<1> DEFINE in(p) == Candidates(q, q.outgoing[p], p, dest, tag, ok, notOk)
           having == {p \in Procs : in(p) # {}}
<1>1. \A p \in Procs : q.outgoing[p] \in PendingType BY QIs
<1>2. CASE src # Wild
  <2>1. src \in Procs BY <1>2 DEF Peers
  <2>2. e = FirstOf(src, in(src)) BY <1>2 DEF FindIsend
  <2>3. CASE in(src) = {} BY <2>2, <2>3 DEF FirstOf
  <2>4. CASE in(src) # {}
    <3>1. e # None /\ e.proc = src /\ Found(q, q.outgoing[src], e, src, dest, tag, ok, notOk)
          BY <1>1, <2>1, <2>2, <2>4, FirstFound
    <3> QED BY <2>1, <3>1
  <2> QED BY <2>3, <2>4, <1>2
<1>3. CASE src = Wild
  <2>1. CASE having = {} BY <1>3, <2>1 DEF FindIsend
  <2>2. CASE having # {}
    <3>1. having \in SUBSET Nat BY DEF Procs
    <3>2. \E p \in having : \A r \in having : p <= r BY <2>2, <3>1, LeastIs
    <3>3. PICK p : p = CHOOSE x \in having : \A r \in having : x <= r OBVIOUS
    <3>4. p \in having BY <3>2, <3>3
    <3>5. e = FirstOf(p, in(p)) BY <1>3, <2>2, <3>3 DEF FindIsend
    <3>6. p \in Procs /\ in(p) # {} BY <3>4
    <3>7. e # None /\ e.proc = p /\ Found(q, q.outgoing[p], e, p, dest, tag, ok, notOk)
          BY <1>1, <3>5, <3>6, FirstFound
    <3> QED BY <1>3, <3>6, <3>7
  <2> QED BY <2>1, <2>2
<1> QED BY <1>2, <1>3

SameKind(q, m, n) ==
    q.msgs[m].src = q.msgs[n].src /\ q.msgs[m].dest = q.msgs[n].dest /\ q.msgs[m].tag = q.msgs[n].tag
Between(q, s, d, t) == {m \in DOMAIN q.msgs : q.msgs[m].src = s /\ q.msgs[m].dest = d /\ q.msgs[m].tag = t}

(* The sends of s to d with tag t before the n-th event, and the receives. *)
SentBefore(s, n, d, t) == {j \in Sends(s) : j < n /\ Params(s, j).peer = d /\ Params(s, j).tag = t}
RecvdBefore(d, n, s, t) == {j \in Recvs(d) : j < n /\ RecvSource(d, j) = <<s, t>>}

IncomingOK(q, b) ==
    \A d \in Procs : \A k \in DOMAIN q.incoming[d] :
        LET entry == q.incoming[d][k] IN
        /\ k < b[d] /\ entry.msg \in DOMAIN q.msgs
        /\ q.msgs[entry.msg].dest = d /\ StartR(q, entry.msg) = k
        /\ "NONE_DONE" \in entry.status /\ "IRECV_DONE" \in entry.status
        /\ "ISEND_DONE" \in entry.status <=> StartS(q, entry.msg) # 0
OutgoingOK(q, a) ==
    \A s \in Procs : \A k \in DOMAIN q.outgoing[s] :
        LET entry == q.outgoing[s][k] IN
        /\ k < a[s] /\ entry.msg \in DOMAIN q.msgs
        /\ q.msgs[entry.msg].src = s /\ StartS(q, entry.msg) = k
        /\ "NONE_DONE" \in entry.status /\ "ISEND_DONE" \in entry.status
        /\ "IRECV_DONE" \in entry.status <=> StartR(q, entry.msg) # 0

(* A message that one side has not started yet is in the list of the       *)
(* other.                                                                  *)
OneSided(q) ==
    \A m \in DOMAIN q.msgs : LET msg == q.msgs[m] IN
        /\ StartS(q, m) = 0 => /\ StartR(q, m) \in DOMAIN q.incoming[msg.dest]
                               /\ q.incoming[msg.dest][StartR(q, m)].msg = m
        /\ StartR(q, m) = 0 => /\ msg.src \in Procs /\ StartS(q, m) \in DOMAIN q.outgoing[msg.src]
                               /\ q.outgoing[msg.src][StartS(q, m)].msg = m

Resolves(q) ==
    \A m \in DOMAIN q.msgs : StartS(q, m) # 0 \/ NoWildcard(q.msgs[m].dest) =>
        q.msgs[m].src \in Procs /\ q.msgs[m].tag \in Tags

(* Both sides start the messages of a kind in the order of the messages.   *)
InOrder(q) ==
    \A m, n \in DOMAIN q.msgs : m < n /\ SameKind(q, m, n) /\ NoWildcard(q.msgs[n].dest) =>
        /\ StartS(q, n) # 0 => StartS(q, m) # 0 /\ StartS(q, m) < StartS(q, n)
        /\ StartR(q, n) # 0 => StartR(q, m) # 0 /\ StartR(q, m) < StartR(q, n)

StartsOf(q, S) == {StartS(q, m) : m \in S} \ {0}
RecvsOf(q, S) == {StartR(q, m) : m \in S} \ {0}
AllThere(q, a, b) ==
    \A s, d \in Procs, t \in Tags : NoWildcard(d) =>
        /\ StartsOf(q, Between(q, s, d, t)) = SentBefore(s, a[s], d, t)
        /\ RecvsOf(q, Between(q, s, d, t)) = RecvdBefore(d, b[d], s, t)

(* The sends of the events before a and the receives of those before b are *)
(* those of the messages q.                                                *)
Paired(q, a, b) ==
    /\ q \in QType /\ IncomingOK(q, b) /\ OutgoingOK(q, a) /\ OneSided(q) /\ Resolves(q)
    /\ InOrder(q) /\ AllThere(q, a, b)

(* The entries of paired lists are about messages of the state.            *)
LEMMA PairedEntries == ASSUME NEW q, NEW a, NEW b, Paired(q, a, b) PROVE Entries(q)
BY DEF Paired, Entries, IncomingOK, OutgoingOK

(* An operation that keeps the starts keeps the messages paired.           *)
LEMMA PairedKept ==
    ASSUME NEW q, NEW q2, NEW a, NEW b, Paired(q, a, b), StartsKept(q2, q)
    PROVE  Paired(q2, a, b)
<1>1. /\ q2 \in QType /\ q \in QType /\ DOMAIN q2.msgs = DOMAIN q.msgs
      /\ \A n \in DOMAIN q.msgs : SameStarts(q2, q, n)
      BY DEF StartsKept, Paired
<1>2. IncomingOK(q2, b)
  <2> SUFFICES ASSUME NEW d \in Procs, NEW k \in DOMAIN q2.incoming[d]
               PROVE  LET entry == q2.incoming[d][k] IN
                      /\ k < b[d] /\ entry.msg \in DOMAIN q2.msgs
                      /\ q2.msgs[entry.msg].dest = d /\ StartR(q2, entry.msg) = k
                      /\ "NONE_DONE" \in entry.status /\ "IRECV_DONE" \in entry.status
                      /\ "ISEND_DONE" \in entry.status <=> StartS(q2, entry.msg) # 0
      BY DEF IncomingOK
  <2>1. /\ k \in DOMAIN q.incoming[d] /\ q2.incoming[d][k].msg = q.incoming[d][k].msg
        /\ \A f \in StartFlags : f \in q2.incoming[d][k].status <=> f \in q.incoming[d][k].status
        BY DEF StartsKept, Thinned
  <2>2. LET entry == q.incoming[d][k] IN
        /\ k < b[d] /\ entry.msg \in DOMAIN q.msgs
        /\ q.msgs[entry.msg].dest = d /\ StartR(q, entry.msg) = k
        /\ "NONE_DONE" \in entry.status /\ "IRECV_DONE" \in entry.status
        /\ "ISEND_DONE" \in entry.status <=> StartS(q, entry.msg) # 0
        BY <2>1 DEF Paired, IncomingOK
  <2> QED BY <1>1, <2>1, <2>2 DEF SameStarts, StartFlags
<1>3. OutgoingOK(q2, a)
  <2> SUFFICES ASSUME NEW s \in Procs, NEW k \in DOMAIN q2.outgoing[s]
               PROVE  LET entry == q2.outgoing[s][k] IN
                      /\ k < a[s] /\ entry.msg \in DOMAIN q2.msgs
                      /\ q2.msgs[entry.msg].src = s /\ StartS(q2, entry.msg) = k
                      /\ "NONE_DONE" \in entry.status /\ "ISEND_DONE" \in entry.status
                      /\ "IRECV_DONE" \in entry.status <=> StartR(q2, entry.msg) # 0
      BY DEF OutgoingOK
  <2>1. /\ k \in DOMAIN q.outgoing[s] /\ q2.outgoing[s][k].msg = q.outgoing[s][k].msg
        /\ \A f \in StartFlags : f \in q2.outgoing[s][k].status <=> f \in q.outgoing[s][k].status
        BY DEF StartsKept, Thinned
  <2>2. LET entry == q.outgoing[s][k] IN
        /\ k < a[s] /\ entry.msg \in DOMAIN q.msgs
        /\ q.msgs[entry.msg].src = s /\ StartS(q, entry.msg) = k
        /\ "NONE_DONE" \in entry.status /\ "ISEND_DONE" \in entry.status
        /\ "IRECV_DONE" \in entry.status <=> StartR(q, entry.msg) # 0
        BY <2>1 DEF Paired, OutgoingOK
  <2> QED BY <1>1, <2>1, <2>2 DEF SameStarts, StartFlags
<1>4. OneSided(q2)
  <2> SUFFICES ASSUME NEW m \in DOMAIN q2.msgs
               PROVE  LET msg == q2.msgs[m] IN
                      /\ StartS(q2, m) = 0 => /\ StartR(q2, m) \in DOMAIN q2.incoming[msg.dest]
                                              /\ q2.incoming[msg.dest][StartR(q2, m)].msg = m
                      /\ StartR(q2, m) = 0 => /\ msg.src \in Procs /\ StartS(q2, m) \in DOMAIN q2.outgoing[msg.src]
                                              /\ q2.outgoing[msg.src][StartS(q2, m)].msg = m
      BY DEF OneSided
  <2>1. m \in DOMAIN q.msgs /\ SameStarts(q2, q, m) /\ q.msgs[m].dest \in Procs BY <1>1, MsgsAre
  <2>2. ASSUME StartS(q2, m) = 0
        PROVE  /\ StartR(q2, m) \in DOMAIN q2.incoming[q2.msgs[m].dest]
               /\ q2.incoming[q2.msgs[m].dest][StartR(q2, m)].msg = m
    <3>1. /\ StartS(q, m) = 0 /\ StartR(q, m) \in DOMAIN q.incoming[q.msgs[m].dest]
          /\ q.incoming[q.msgs[m].dest][StartR(q, m)].msg = m
          BY <2>1, <2>2 DEF Paired, OneSided, SameStarts
    <3>2. StartR(q, m) \in DOMAIN q2.incoming[q.msgs[m].dest]
          BY <2>1, <3>1 DEF StartsKept, Thinned
    <3>3. q2.incoming[q.msgs[m].dest][StartR(q, m)].msg = m
          BY <2>1, <3>1, <3>2 DEF StartsKept, Thinned
    <3> QED BY <2>1, <3>2, <3>3 DEF SameStarts
  <2>3. ASSUME StartR(q2, m) = 0
        PROVE  /\ q2.msgs[m].src \in Procs /\ StartS(q2, m) \in DOMAIN q2.outgoing[q2.msgs[m].src]
               /\ q2.outgoing[q2.msgs[m].src][StartS(q2, m)].msg = m
    <3>1. /\ StartR(q, m) = 0 /\ q.msgs[m].src \in Procs /\ StartS(q, m) \in DOMAIN q.outgoing[q.msgs[m].src]
          /\ q.outgoing[q.msgs[m].src][StartS(q, m)].msg = m
          BY <2>1, <2>3 DEF Paired, OneSided, SameStarts
    <3>2. StartS(q, m) \in DOMAIN q2.outgoing[q.msgs[m].src]
          BY <2>1, <3>1 DEF StartsKept, Thinned
    <3>3. q2.outgoing[q.msgs[m].src][StartS(q, m)].msg = m
          BY <2>1, <3>1, <3>2 DEF StartsKept, Thinned
    <3> QED BY <2>1, <3>1, <3>2, <3>3 DEF SameStarts
  <2> QED BY <2>2, <2>3
<1>5. Resolves(q2) BY <1>1 DEF Paired, Resolves, SameStarts
<1>6. InOrder(q2) BY <1>1 DEF Paired, InOrder, SameKind, SameStarts
<1>7. AllThere(q2, a, b)
  <2>1. ASSUME NEW s, NEW d, NEW t
        PROVE  /\ Between(q2, s, d, t) = Between(q, s, d, t)
               /\ StartsOf(q2, Between(q2, s, d, t)) = StartsOf(q, Between(q, s, d, t))
               /\ RecvsOf(q2, Between(q2, s, d, t)) = RecvsOf(q, Between(q, s, d, t))
    <3>1. Between(q2, s, d, t) = Between(q, s, d, t) BY <1>1 DEF Between, SameStarts
    <3>2. \A m \in Between(q, s, d, t) : StartS(q2, m) = StartS(q, m) /\ StartR(q2, m) = StartR(q, m)
          BY <1>1 DEF Between, SameStarts
    <3> QED BY <3>1, <3>2 DEF StartsOf, RecvsOf
  <2> QED BY <2>1 DEF Paired, AllThere
<1> QED BY <1>1, <1>2, <1>3, <1>4, <1>5, <1>6, <1>7 DEF Paired

(* Entries of complete messages leave a list: the starts are kept.         *)
LEMMA WithoutIs ==
    ASSUME NEW q, NEW l \in [Procs -> PendingType], NEW p \in Procs, NEW S \in SUBSET (DOMAIN l[p]),
           \A i \in S : StartS(q, l[p][i].msg) # 0 /\ StartR(q, l[p][i].msg) # 0
    PROVE  /\ [l EXCEPT ![p] = Without(@, S)] \in [Procs -> PendingType]
           /\ Thinned(q, [l EXCEPT ![p] = Without(@, S)], l)
<1> DEFINE D == DOMAIN l[p] \ S
           list2 == [i \in D |-> l[p][i]]
           l2 == [l EXCEPT ![p] = list2]
<1>1. [l EXCEPT ![p] = Without(@, S)] = l2 BY DEF Without
<1>2. D \in SUBSET (Nat \ {0}) /\ \A i \in D : l[p][i] \in EntryType BY PendingIs
<1>3. list2 \in [D -> EntryType] BY <1>2
<1>4. list2 \in PendingType BY <1>2, <1>3, PendingMade
<1>5. DOMAIN list2 = D /\ \A i \in D : list2[i] = l[p][i] OBVIOUS
<1> HIDE DEF list2
<1>6. l2 \in [Procs -> PendingType] /\ l2[p] = list2 /\ \A r \in Procs : r # p => l2[r] = l[r] BY <1>4
<1> HIDE DEF l2
<1>7. Thinned(q, l2, l) BY <1>5, <1>6 DEF Thinned
<1> QED BY <1>1, <1>6, <1>7

(* A message that both sides have ended leaves the lists, and no start is  *)
(* lost.                                                                   *)
LEMMA CompletedKeeps ==
    ASSUME NEW q, NEW a, NEW b, Paired(q, a, b), NEW m \in DOMAIN q.msgs
    PROVE  StartsKept(SetCompleted(q, m), q)
<1> DEFINE msg == q.msgs[m]
<1>1. q \in QType BY DEF Paired
<1>2. CASE \E t \in TimeIds : msg.times[t] = 0
  <2>1. SetCompleted(q, m) = q BY <1>2 DEF SetCompleted
  <2> QED BY <1>1, <2>1, KeptSame
<1>3. CASE ~\E t \in TimeIds : msg.times[t] = 0
  <2>1. StartS(q, m) # 0 /\ StartR(q, m) # 0 BY <1>3 DEF StartS, StartR, TimeIds
  <2>2. msg.src \in Procs /\ msg.dest \in Procs BY <1>1, <2>1, MsgsAre DEF Paired, Resolves
  <2> DEFINE outgoing == [q.outgoing EXCEPT ![msg.src] = Without(@, EntriesOf(@, m))]
             incoming == [q.incoming EXCEPT ![msg.dest] = Without(@, EntriesOf(@, m))]
             q2 == [q EXCEPT !.outgoing = outgoing, !.incoming = incoming]
  <2>3. SetCompleted(q, m) = q2 BY <1>3 DEF SetCompleted
  <2>4. /\ EntriesOf(q.outgoing[msg.src], m) \in SUBSET (DOMAIN q.outgoing[msg.src])
        /\ \A i \in EntriesOf(q.outgoing[msg.src], m) : q.outgoing[msg.src][i].msg = m
        /\ EntriesOf(q.incoming[msg.dest], m) \in SUBSET (DOMAIN q.incoming[msg.dest])
        /\ \A i \in EntriesOf(q.incoming[msg.dest], m) : q.incoming[msg.dest][i].msg = m
        BY DEF EntriesOf
  <2>5. outgoing \in [Procs -> PendingType] /\ Thinned(q, outgoing, q.outgoing)
        BY <1>1, <2>1, <2>2, <2>4, QIs, WithoutIs
  <2>6. incoming \in [Procs -> PendingType] /\ Thinned(q, incoming, q.incoming)
        BY <1>1, <2>1, <2>2, <2>4, QIs, WithoutIs
  <2> HIDE DEF outgoing, incoming
  <2>7. q2 \in QType /\ q2.msgs = q.msgs /\ q2.outgoing = outgoing /\ q2.incoming = incoming
        BY <1>1, <2>5, <2>6 DEF QType
  <2> HIDE DEF q2
  <2>8. StartsKept(q2, q) BY <2>5, <2>6, <2>7 DEF StartsKept, SameStarts, StartS, StartR
  <2> QED BY <2>3, <2>8
<1> QED BY <1>2, <1>3

(* A list whose entries are marked. *)
LEMMA MarkKeeps ==
    ASSUME NEW q \in QType, NEW in \in [Procs -> PendingType], NEW out \in [Procs -> PendingType],
           Thinned(q, in, q.incoming), Thinned(q, out, q.outgoing)
    PROVE  StartsKept([q EXCEPT !.incoming = in, !.outgoing = out], q)
<1> DEFINE q2 == [q EXCEPT !.incoming = in, !.outgoing = out]
<1>1. q2 \in QType /\ q2.msgs = q.msgs /\ q2.incoming = in /\ q2.outgoing = out BY DEF QType
<1> HIDE DEF q2
<1>2. StartsKept(q2, q) BY <1>1 DEF StartsKept, SameStarts, StartS, StartR
<1> QED BY <1>2 DEF q2

(* The ends of one side are marked in both lists.                          *)
LEMMA MarksKeep ==
    ASSUME NEW q \in QType, NEW l, l \in {q.incoming, q.outgoing}, NEW e,
           e # None => e.proc \in Procs /\ e.i \in DOMAIN l[e.proc],
           NEW flag \in AllDone \ StartFlags
    PROVE  AddStatus(l, e, flag) \in [Procs -> PendingType] /\ Thinned(q, AddStatus(l, e, flag), l)
<1>1. l \in [Procs -> PendingType] BY QIs
<1>2. /\ AddStatus(l, e, flag) \in [Procs -> PendingType]
      /\ e # None => Flagged(AddStatus(l, e, flag), l, e, flag)
      /\ e = None => AddStatus(l, e, flag) = l
      BY <1>1, AddStatusIs
<1> QED BY <1>2, FlaggedThins, ThinnedSame

(* The end of one side, once its entries are marked.                       *)
(* The end of one side, once its entries are marked.                       *)
LEMMA EndKeeps ==
    ASSUME NEW q, NEW a, NEW b, Paired(q, a, b), NEW q2, StartsKept(q2, q), NEW m \in DOMAIN q.msgs, NEW now \in Nat,
           NEW wait \in {"start_rwait", "start_swait"}, NEW stop \in {"stop_recv", "stop_send"}
    PROVE  StartsKept(SetCompleted(SetTime(SetTimeOnce(q2, m, wait, now), m, stop, now), m), q)
<1> DEFINE q3 == SetTimeOnce(q2, m, wait, now)
           q4 == SetTime(q3, m, stop, now)
           q5 == SetCompleted(q4, m)
<1>1. wait \in TimeIds \ {"start_send", "start_recv"} /\ stop \in TimeIds \ {"start_send", "start_recv"} BY DEF TimeIds
<1>2. q2 \in QType /\ m \in DOMAIN q2.msgs BY DEF StartsKept
<1>3. StartsKept(q3, q2) BY <1>1, <1>2, SetTimeKeeps
<1>4. q3 \in QType /\ m \in DOMAIN q3.msgs BY <1>2, <1>3 DEF StartsKept
<1>5. StartsKept(q4, q3) BY <1>1, <1>4, SetTimeKeeps
<1>6. Entries(q) /\ Entries(q2) /\ Entries(q3) BY <1>3, PairedEntries, EntriesKept
<1> HIDE DEF q3, q4
<1>7. StartsKept(q3, q) BY <1>3, <1>6, KeptTwice
<1>8. StartsKept(q4, q) BY <1>5, <1>6, <1>7, KeptTwice
<1>9. Paired(q4, a, b) BY <1>8, PairedKept
<1>10. m \in DOMAIN q4.msgs BY <1>8 DEF StartsKept
<1>11. StartsKept(q5, q4) BY <1>9, <1>10, CompletedKeeps
<1>12. StartsKept(q5, q) BY <1>6, <1>8, <1>11, KeptTwice
<1> QED BY <1>12 DEF q3, q4

(* The end of a receive keeps the starts.                                  *)
LEMMA StopRecvKeeps ==
    ASSUME NEW q, NEW a, NEW b, Paired(q, a, b), NEW src \in Peers, NEW dest \in Procs, NEW tag, NEW now \in Nat,
           EndingRecv(q, src, dest, tag) # None
    PROVE  StartsKept(StopRecv(q, src, dest, tag, now), q)
<1>0. q \in QType BY DEF Paired
<1>1. PICK e : e = EndingRecv(q, src, dest, tag) OBVIOUS
<1>2. PICK other : other = FindIsend(q, src, dest, tag, "NONE_DONE", "RWAIT_DONE") OBVIOUS
<1>3. e # None /\ e.proc = dest /\ Found(q, q.incoming[dest], e, src, dest, tag, "IRECV_DONE", "RWAIT_DONE")
      BY <1>0, <1>1, FindIrecvIs DEF EndingRecv
<1>4. e.i \in DOMAIN q.incoming[dest] BY <1>3 DEF Found
<1>5. other # None => other.proc \in Procs /\ other.i \in DOMAIN q.outgoing[other.proc]
  <2>1. other # None => other.proc \in Procs
                        /\ Found(q, q.outgoing[other.proc], other, other.proc, dest, tag, "NONE_DONE", "RWAIT_DONE")
        BY <1>0, <1>2, FindIsendIs
  <2> QED BY <2>1 DEF Found
<1>6. PICK in : in = AddStatus(q.incoming, e, "RWAIT_DONE") OBVIOUS
<1>7. PICK out : out = AddStatus(q.outgoing, other, "RWAIT_DONE") OBVIOUS
<1>8. "RWAIT_DONE" \in AllDone \ StartFlags BY DEF AllDone, StartFlags
<1>9. /\ in \in [Procs -> PendingType] /\ Thinned(q, in, q.incoming)
      /\ out \in [Procs -> PendingType] /\ Thinned(q, out, q.outgoing)
      BY <1>0, <1>3, <1>4, <1>5, <1>6, <1>7, <1>8, MarksKeep
<1>10. PICK marked : marked = [q EXCEPT !.incoming = in, !.outgoing = out] OBVIOUS
<1>11. StartsKept(marked, q) BY <1>0, <1>9, <1>10, MarkKeeps
<1>12. PICK m : m = q.incoming[dest][e.i].msg OBVIOUS
<1>13. m \in DOMAIN q.msgs BY <1>4, <1>12 DEF Paired, IncomingOK
<1>14. StopRecv(q, src, dest, tag, now)
         = SetCompleted(SetTime(SetTimeOnce(marked, m, "start_rwait", now), m, "stop_recv", now), m)
       BY <1>1, <1>2, <1>3, <1>6, <1>7, <1>10, <1>12 DEF StopRecv
<1> QED BY <1>11, <1>13, <1>14, EndKeeps

(* A message without wildcards is already resolved.                        *)
LEMMA ResolvedSame ==
    ASSUME NEW msg \in MsgType, msg.src # Wild, msg.tag # Wild, NEW src, NEW tag
    PROVE  Resolved(msg, src, tag) = msg
BY DEF Resolved, MsgType

(* The end of a send keeps the starts: the message it resolves has been    *)
(* resolved by the start.                                                  *)
LEMMA StopSendKeeps ==
    ASSUME NEW q, NEW a, NEW b, Paired(q, a, b), NEW src \in Procs, NEW dest \in Procs, NEW tag, NEW now \in Nat,
           EndingSend(q, src, dest, tag) # None
    PROVE  StartsKept(StopSend(q, src, dest, tag, now), q)
<1>0. q \in QType BY DEF Paired
<1>1. PICK e : e = EndingSend(q, src, dest, tag) OBVIOUS
<1>2. PICK other : other = FindIrecv(q, src, dest, tag, "NONE_DONE", "SWAIT_DONE") OBVIOUS
<1>3. e # None /\ e.proc = src /\ Found(q, q.outgoing[src], e, src, dest, tag, "ISEND_DONE", "SWAIT_DONE")
  <2>1. src # Wild /\ src \in Peers BY WildIs DEF Peers
  <2> QED BY <1>0, <1>1, <2>1, FindIsendIs DEF EndingSend
<1>4. e.i \in DOMAIN q.outgoing[src] BY <1>3 DEF Found
<1>5. other # None => other.proc \in Procs /\ other.i \in DOMAIN q.incoming[other.proc]
  <2>1. other # None => other.proc = dest
                        /\ Found(q, q.incoming[dest], other, src, dest, tag, "NONE_DONE", "SWAIT_DONE")
        BY <1>0, <1>2, FindIrecvIs
  <2> QED BY <2>1 DEF Found
<1>6. PICK out : out = AddStatus(q.outgoing, e, "SWAIT_DONE") OBVIOUS
<1>7. PICK in : in = AddStatus(q.incoming, other, "SWAIT_DONE") OBVIOUS
<1>8. "SWAIT_DONE" \in AllDone \ StartFlags BY DEF AllDone, StartFlags
<1>9. /\ in \in [Procs -> PendingType] /\ Thinned(q, in, q.incoming)
      /\ out \in [Procs -> PendingType] /\ Thinned(q, out, q.outgoing)
      BY <1>0, <1>3, <1>4, <1>5, <1>6, <1>7, <1>8, MarksKeep
<1>10. PICK marked : marked = [q EXCEPT !.incoming = in, !.outgoing = out] OBVIOUS
<1>11. StartsKept(marked, q) BY <1>0, <1>9, <1>10, MarkKeeps
<1>12. PICK m : m = q.outgoing[src][e.i].msg OBVIOUS
<1>13. m \in DOMAIN q.msgs /\ StartS(q, m) # 0
  <2>1. m \in DOMAIN q.msgs /\ StartS(q, m) = e.i BY <1>4, <1>12 DEF Paired, OutgoingOK
  <2>2. q.outgoing[src] \in PendingType BY <1>0, QIs
  <2>3. e.i # 0 BY <1>4, <2>2, PendingIs
  <2> QED BY <2>1, <2>3
<1>14. q.msgs[m] \in MsgType /\ q.msgs[m].src # Wild /\ q.msgs[m].tag # Wild
       BY <1>0, <1>13, MsgsAre, WildIs DEF Paired, Resolves
<1>15. Resolved(q.msgs[m], src, tag) = q.msgs[m] BY <1>14, ResolvedSame
<1>16. [q EXCEPT !.outgoing = out, !.incoming = in, !.msgs[m] = Resolved(@, src, tag)] = marked
  <2>1. PICK msgs : msgs = [q.msgs EXCEPT ![m] = Resolved(q.msgs[m], src, tag)] OBVIOUS
  <2>2. [q EXCEPT !.outgoing = out, !.incoming = in, !.msgs[m] = Resolved(@, src, tag)]
          = [q EXCEPT !.outgoing = out, !.incoming = in, !.msgs = msgs]
        BY <2>1
  <2>3. [q.msgs EXCEPT ![m] = q.msgs[m]] = q.msgs BY <1>0, <1>13, QIs
  <2>4. msgs = q.msgs BY <1>15, <2>1, <2>3
  <2>5. [q EXCEPT !.outgoing = out, !.incoming = in, !.msgs = q.msgs]
          = [q EXCEPT !.incoming = in, !.outgoing = out]
        BY <1>0 DEF QType
  <2> QED BY <1>10, <2>2, <2>4, <2>5
<1>17. StopSend(q, src, dest, tag, now)
         = SetCompleted(SetTime(SetTimeOnce(marked, m, "start_swait", now), m, "stop_send", now), m)
  BY <1>1, <1>2, <1>3, <1>6, <1>7, <1>12, <1>16 DEF StopSend
<1> QED BY <1>11, <1>13, <1>17, EndKeeps

(* A message that is started. *)
SentMsg(x, src, tag, req, now) == [Resolved(x, src, tag) EXCEPT !.sreq = req, !.times["start_send"] = now]
RecvdMsg(x, req, now) == [x EXCEPT !.rreq = req, !.times["start_recv"] = now]

(* The wildcards of a message are replaced by what the send says.          *)
LEMMA ResolvedIs ==
    ASSUME NEW x \in MsgType, NEW src \in Procs, NEW tag \in Tags
    PROVE  /\ Resolved(x, src, tag) \in MsgType
           /\ Resolved(x, src, tag).src = IF x.src = Wild THEN src ELSE x.src
           /\ Resolved(x, src, tag).tag = IF x.tag = Wild THEN tag ELSE x.tag
           /\ Resolved(x, src, tag).dest = x.dest /\ Resolved(x, src, tag).times = x.times
<1>1. PICK s \in Peers : s = IF x.src = Wild THEN src ELSE x.src BY DEF MsgType, Peers
<1>2. PICK t \in AnyTags : t = IF x.tag = Wild THEN tag ELSE x.tag BY DEF MsgType, AnyTags
<1>3. Resolved(x, src, tag) = [x EXCEPT !.src = s, !.tag = t] BY <1>1, <1>2 DEF Resolved
<1> QED BY <1>1, <1>2, <1>3 DEF MsgType

IsSent(y, x, src, tag, now) ==
    /\ y \in MsgType /\ y.dest = x.dest
    /\ y.src = IF x.src = Wild THEN src ELSE x.src
    /\ y.tag = IF x.tag = Wild THEN tag ELSE x.tag
    /\ y.times["start_send"] = now /\ y.times["start_recv"] = x.times["start_recv"]
IsRecvd(y, x, now) ==
    /\ y \in MsgType /\ y.dest = x.dest /\ y.src = x.src /\ y.tag = x.tag
    /\ y.times["start_recv"] = now /\ y.times["start_send"] = x.times["start_send"]

(* The message that the start of a send writes.                            *)
LEMMA SentMsgIs ==
    ASSUME NEW x \in MsgType, NEW src \in Procs, NEW tag \in Tags, NEW req \in Nat, NEW now \in Nat
    PROVE  IsSent(SentMsg(x, src, tag, req, now), x, src, tag, now)
<1>0. PICK y : y = SentMsg(x, src, tag, req, now) OBVIOUS
<1>1. PICK r : r = Resolved(x, src, tag) OBVIOUS
<1>2. /\ r \in MsgType /\ r.dest = x.dest /\ r.times = x.times
      /\ r.src = IF x.src = Wild THEN src ELSE x.src
      /\ r.tag = IF x.tag = Wild THEN tag ELSE x.tag
      BY <1>1, ResolvedIs
<1>3. PICK times : times = [r.times EXCEPT !["start_send"] = now] OBVIOUS
<1>4. r.times \in [TimeIds -> Nat] /\ "start_send" \in TimeIds /\ "start_recv" \in TimeIds
      BY <1>2 DEF MsgType, TimeIds
<1>5. times \in [TimeIds -> Nat] /\ times["start_send"] = now /\ times["start_recv"] = x.times["start_recv"]
      BY <1>2, <1>3, <1>4
<1>6. y = [r EXCEPT !.sreq = req, !.times = times] BY <1>0, <1>1, <1>3 DEF SentMsg
<1>7. IsSent(y, x, src, tag, now) BY <1>2, <1>5, <1>6 DEF MsgType, IsSent
<1> QED BY <1>0, <1>7

(* The message that the start of a receive writes.                         *)
LEMMA RecvdMsgIs ==
    ASSUME NEW x \in MsgType, NEW req \in Nat, NEW now \in Nat
    PROVE  IsRecvd(RecvdMsg(x, req, now), x, now)
<1>0. PICK y : y = RecvdMsg(x, req, now) OBVIOUS
<1>3. PICK times : times = [x.times EXCEPT !["start_recv"] = now] OBVIOUS
<1>4. x.times \in [TimeIds -> Nat] /\ "start_send" \in TimeIds /\ "start_recv" \in TimeIds
      BY DEF MsgType, TimeIds
<1>5. times \in [TimeIds -> Nat] /\ times["start_recv"] = now /\ times["start_send"] = x.times["start_send"]
      BY <1>3, <1>4
<1>6. y = [x EXCEPT !.rreq = req, !.times = times] BY <1>0, <1>3 DEF RecvdMsg
<1>7. IsRecvd(y, x, now) BY <1>5, <1>6 DEF MsgType, IsRecvd
<1> QED BY <1>0, <1>7

(* A new message has no start.                                             *)
LEMMA NewMsgIs ==
    ASSUME NEW src \in Peers, NEW dest \in Procs, NEW tag \in AnyTags, NEW x, x = NewMsg(src, dest, tag)
    PROVE  /\ x \in MsgType /\ x.src = src /\ x.dest = dest /\ x.tag = tag
           /\ x.times["start_send"] = 0 /\ x.times["start_recv"] = 0
<1>1. "start_send" \in TimeIds /\ "start_recv" \in TimeIds BY DEF TimeIds
<1>2. [t \in TimeIds |-> 0] \in [TimeIds -> Nat] OBVIOUS
<1> QED BY <1>1, <1>2 DEF NewMsg, MsgType, NoReq

(* The messages msgs are those of q but for the one at m.                  *)
IsMsgs(msgs, q, m, msg) ==
    /\ msgs \in Seq(MsgType) /\ DOMAIN msgs = DOMAIN q.msgs \cup {m} /\ msgs[m] = msg
    /\ \A n \in DOMAIN q.msgs : n # m => msgs[n] = q.msgs[n]
IsNext(m, q) == m \notin DOMAIN q.msgs /\ m \in Nat \ {0} /\ \A n \in DOMAIN q.msgs : n < m

(* A message is added after the others.                                    *)
LEMMA MsgAdded ==
    ASSUME NEW q \in QType, NEW msg \in MsgType
    PROVE  /\ IsMsgs(Append(q.msgs, msg), q, Len(q.msgs) + 1, msg)
           /\ IsNext(Len(q.msgs) + 1, q)
<1>a. PICK m : m = Len(q.msgs) + 1 OBVIOUS
<1>b. PICK msgs : msgs = Append(q.msgs, msg) OBVIOUS
<1>1. q.msgs \in Seq(MsgType) BY QIs
<1>2. DOMAIN q.msgs = 1 .. Len(q.msgs) /\ Len(q.msgs) \in Nat BY <1>1
<1>3. msgs \in Seq(MsgType) /\ Len(msgs) = Len(q.msgs) + 1 /\ DOMAIN msgs = 1 .. Len(msgs) BY <1>b, <1>1
<1>4. msgs[m] = msg /\ \A n \in 1 .. Len(q.msgs) : msgs[n] = q.msgs[n] BY <1>a, <1>b, <1>1, <1>2
<1>5. DOMAIN msgs = DOMAIN q.msgs \cup {m} BY <1>a, <1>2, <1>3
<1>6. IsNext(m, q) BY <1>a, <1>2 DEF IsNext
<1>7. IsMsgs(msgs, q, m, msg) BY <1>2, <1>3, <1>4, <1>5 DEF IsMsgs
<1> QED BY <1>a, <1>b, <1>6, <1>7

(* A message is changed, the others stay.                                  *)
LEMMA MsgChanged ==
    ASSUME NEW q \in QType, NEW msg \in MsgType, NEW m \in DOMAIN q.msgs
    PROVE  IsMsgs([q.msgs EXCEPT ![m] = msg], q, m, msg)
<1>1. q.msgs \in Seq(MsgType) BY QIs
<1> QED BY <1>1 DEF IsMsgs

-----------------------------------------------------------------------------
(* What the start of a send does. *)
Sent(q, q2, m, p, dest, tag, now) ==
    /\ q2 \in QType /\ m \in Nat \ {0} /\ DOMAIN q2.msgs = DOMAIN q.msgs \cup {m}
    /\ \A n \in DOMAIN q.msgs : n # m => SameStarts(q2, q, n)
    /\ q2.msgs[m].src = p /\ q2.msgs[m].dest = dest /\ q2.msgs[m].tag = tag /\ StartS(q2, m) = now
    /\ \E status \in SUBSET AllDone :
          /\ Added(q2.outgoing, q.outgoing, p, m, status, now)
          /\ "NONE_DONE" \in status /\ "ISEND_DONE" \in status
          /\ "IRECV_DONE" \in status <=> StartR(q2, m) # 0
MessageNew(q, q2, m) ==
    m \notin DOMAIN q.msgs /\ \A n \in DOMAIN q.msgs : n < m
SentNew(q, q2, m, p, dest, tag) ==
    /\ MessageNew(q, q2, m) /\ StartR(q2, m) = 0 /\ q2.incoming = q.incoming
    /\ Candidates(q, q.incoming[dest], p, dest, tag, "NONE_DONE", "ISEND_DONE") = {}
SentFound(q, q2, m, p, dest, tag, e) ==
    /\ m \in DOMAIN q.msgs /\ StartR(q2, m) = StartR(q, m)
    /\ e.proc = dest /\ Found(q, q.incoming[dest], e, p, dest, tag, "NONE_DONE", "ISEND_DONE")
    /\ m = q.incoming[dest][e.i].msg
    /\ Flagged(q2.incoming, q.incoming, e, "ISEND_DONE")

(* The start of a send: it takes the message of a receive that waits for   *)
(* it, or a new one.                                                       *)
LEMMA StartSendIs ==
    ASSUME NEW q, NEW a, NEW b, Paired(q, a, b), NEW p \in Procs, NEW dest \in Procs, NEW tag \in Tags,
           NEW req \in Nat, NEW now \in Nat \ {0}, NEW r, r = StartSend(q, p, dest, tag, req, now)
    PROVE  /\ Sent(q, r.q, r.msg, p, dest, tag, now)
           /\ \/ SentNew(q, r.q, r.msg, p, dest, tag)
              \/ \E e : SentFound(q, r.q, r.msg, p, dest, tag, e)
<1>0. q \in QType /\ p # Wild /\ tag # Wild /\ p \in Peers /\ tag \in AnyTags
      BY WildIs DEF Paired, Peers, AnyTags
<1>1. PICK e : e = FindIrecv(q, p, dest, tag, "NONE_DONE", "ISEND_DONE") OBVIOUS
<1>2. "ISEND_DONE" \in AllDone /\ "NONE_DONE" \in AllDone BY DEF AllDone
<1>3. CASE e = None
  <2>1. PICK m : m = Len(q.msgs) + 1 OBVIOUS
  <2>2. PICK x : x = NewMsg(p, dest, tag) OBVIOUS
  <2>3. PICK msg : msg = SentMsg(x, p, tag, req, now) OBVIOUS
  <2>4. PICK msgs : msgs = Append(q.msgs, msg) OBVIOUS
  <2>5. PICK out : out = AddEntry(q.outgoing, p, m, {"NONE_DONE", "ISEND_DONE"}, now) OBVIOUS
  <2>6. AddStatus(q.incoming, e, "ISEND_DONE") = q.incoming BY <1>3 DEF AddStatus
  <2>7. /\ r.msg = m
        /\ r.q = [msgs |-> msgs, incoming |-> q.incoming, outgoing |-> out]
        BY <1>1, <1>3, <2>1, <2>2, <2>3, <2>4, <2>5, <2>6 DEF StartSend, SentMsg
  <2>8. /\ x \in MsgType /\ x.src = p /\ x.dest = dest /\ x.tag = tag
        /\ x.times["start_send"] = 0 /\ x.times["start_recv"] = 0
        BY <1>0, <2>2, NewMsgIs
  <2>9. /\ msg \in MsgType /\ msg.src = p /\ msg.dest = dest /\ msg.tag = tag
        /\ msg.times["start_send"] = now /\ msg.times["start_recv"] = 0
    <3>1. IsSent(msg, x, p, tag, now) BY <2>3, <2>8, SentMsgIs
    <3> QED BY <1>0, <2>8, <3>1 DEF IsSent
  <2>10. /\ msgs \in Seq(MsgType) /\ DOMAIN msgs = DOMAIN q.msgs \cup {m} /\ msgs[m] = msg
         /\ \A n \in DOMAIN q.msgs : msgs[n] = q.msgs[n] /\ n < m
         /\ m \notin DOMAIN q.msgs /\ m \in Nat \ {0}
    <3>1. IsMsgs(msgs, q, m, msg) /\ IsNext(m, q) BY <1>0, <2>1, <2>4, <2>9, MsgAdded
    <3> QED BY <3>1 DEF IsMsgs, IsNext
  <2>11. out \in [Procs -> PendingType] /\ Added(out, q.outgoing, p, m, {"NONE_DONE", "ISEND_DONE"}, now)
         BY <1>0, <1>2, <2>5, <2>10, QIs, AddEntryIs
  <2>12. r.q \in QType /\ r.q.msgs = msgs /\ r.q.incoming = q.incoming /\ r.q.outgoing = out
         BY <1>0, <2>7, <2>10, <2>11, QIs DEF QType
  <2>13. StartR(r.q, m) = 0 /\ StartS(r.q, m) = now BY <2>9, <2>10, <2>12 DEF StartR, StartS
  <2>14. Sent(q, r.q, m, p, dest, tag, now)
    <3>1. \A n \in DOMAIN q.msgs : n # m => SameStarts(r.q, q, n)
          BY <2>10, <2>12 DEF SameStarts, StartS, StartR
    <3>2. "IRECV_DONE" \notin {"NONE_DONE", "ISEND_DONE"} OBVIOUS
    <3>3. {"NONE_DONE", "ISEND_DONE"} \in SUBSET AllDone BY <1>2
    <3> QED BY <2>9, <2>10, <2>11, <2>12, <2>13, <3>1, <3>2, <3>3 DEF Sent
  <2>15. SentNew(q, r.q, m, p, dest, tag)
    <3>1. Candidates(q, q.incoming[dest], p, dest, tag, "NONE_DONE", "ISEND_DONE") = {}
          BY <1>0, <1>1, <1>3, FindIrecvIs
    <3>2. MessageNew(q, r.q, m) BY <2>10 DEF MessageNew
    <3> QED BY <2>12, <2>13, <3>1, <3>2 DEF SentNew
  <2> QED BY <2>7, <2>14, <2>15
<1>4. CASE e # None
  <2>1. e.proc = dest /\ Found(q, q.incoming[dest], e, p, dest, tag, "NONE_DONE", "ISEND_DONE")
        BY <1>0, <1>1, <1>4, FindIrecvIs
  <2>2. e.i \in DOMAIN q.incoming[dest] BY <2>1 DEF Found
  <2>3. PICK m : m = q.incoming[dest][e.i].msg OBVIOUS
  <2>4. /\ m \in DOMAIN q.msgs /\ q.msgs[m].dest = dest /\ StartR(q, m) = e.i /\ e.i # 0
        /\ "NONE_DONE" \in q.incoming[dest][e.i].status /\ "IRECV_DONE" \in q.incoming[dest][e.i].status
    <3>1. q.incoming[dest] \in PendingType BY <1>0, QIs
    <3>2. e.i # 0 BY <2>2, <3>1, PendingIs
    <3> QED BY <2>2, <2>3, <3>2 DEF Paired, IncomingOK
  <2>5. PICK msg : msg = SentMsg(q.msgs[m], p, tag, req, now) OBVIOUS
  <2>6. PICK msgs : msgs = [q.msgs EXCEPT ![m] = msg] OBVIOUS
  <2>7. PICK in : in = AddStatus(q.incoming, e, "ISEND_DONE") OBVIOUS
  <2>8. PICK status : status = {"NONE_DONE"} \cup in[dest][e.i].status OBVIOUS
  <2>9. PICK out : out = AddEntry(q.outgoing, p, m, status, now) OBVIOUS
  <2>10. /\ r.msg = m
         /\ r.q = [msgs |-> msgs, incoming |-> in, outgoing |-> out]
         BY <1>1, <1>4, <2>1, <2>3, <2>5, <2>6, <2>7, <2>8, <2>9 DEF StartSend, SentMsg
  <2>11. q.msgs[m] \in MsgType /\ m \in Nat \ {0} BY <1>0, <2>4, MsgsAre
  <2>12. Compatible(q.msgs[m], p, dest, tag) BY <2>1, <2>3 DEF Found
  <2>13. /\ msg \in MsgType /\ msg.src = p /\ msg.dest = dest /\ msg.tag = tag
         /\ msg.times["start_send"] = now /\ msg.times["start_recv"] = q.msgs[m].times["start_recv"]
    <3>1. /\ msg \in MsgType /\ msg.dest = dest
          /\ msg.src = IF q.msgs[m].src = Wild THEN p ELSE q.msgs[m].src
          /\ msg.tag = IF q.msgs[m].tag = Wild THEN tag ELSE q.msgs[m].tag
          /\ msg.times["start_send"] = now /\ msg.times["start_recv"] = q.msgs[m].times["start_recv"]
      <4>1. IsSent(msg, q.msgs[m], p, tag, now) BY <2>5, <2>11, SentMsgIs
      <4> QED BY <2>4, <4>1 DEF IsSent
    <3>2. msg.src = p /\ msg.tag = tag BY <1>0, <2>12, <3>1 DEF Compatible
    <3> QED BY <3>1, <3>2
  <2>14. /\ msgs \in Seq(MsgType) /\ DOMAIN msgs = DOMAIN q.msgs \cup {m} /\ msgs[m] = msg
         /\ \A n \in DOMAIN q.msgs : n # m => msgs[n] = q.msgs[n]
    <3>1. IsMsgs(msgs, q, m, msg) BY <1>0, <2>4, <2>6, <2>13, MsgChanged
    <3> QED BY <3>1 DEF IsMsgs
  <2>15. in \in [Procs -> PendingType] /\ Flagged(in, q.incoming, e, "ISEND_DONE")
         BY <1>0, <1>2, <1>4, <2>1, <2>2, <2>7, QIs, AddStatusIs
  <2>16. in[dest][e.i].status = q.incoming[dest][e.i].status \cup {"ISEND_DONE"}
         BY <2>1, <2>2, <2>15 DEF Flagged
  <2>17. status \in SUBSET AllDone
    <3>1. q.incoming[dest] \in PendingType BY <1>0, QIs
    <3>2. q.incoming[dest][e.i].status \in SUBSET AllDone BY <2>2, <3>1, PendingIs
    <3> QED BY <1>2, <2>8, <2>16, <3>2
  <2>18. out \in [Procs -> PendingType] /\ Added(out, q.outgoing, p, m, status, now)
         BY <1>0, <2>9, <2>11, <2>17, QIs, AddEntryIs
  <2>19. r.q \in QType /\ r.q.msgs = msgs /\ r.q.incoming = in /\ r.q.outgoing = out
         BY <2>10, <2>14, <2>15, <2>18 DEF QType
  <2>20. StartR(r.q, m) = StartR(q, m) /\ StartS(r.q, m) = now BY <2>13, <2>14, <2>19 DEF StartR, StartS
  <2>21. Sent(q, r.q, m, p, dest, tag, now)
    <3>1. \A n \in DOMAIN q.msgs : n # m => SameStarts(r.q, q, n)
          BY <2>14, <2>19 DEF SameStarts, StartS, StartR
    <3>2. "NONE_DONE" \in status /\ "ISEND_DONE" \in status /\ "IRECV_DONE" \in status
          BY <2>4, <2>8, <2>16
    <3>3. StartR(r.q, m) # 0 BY <2>4, <2>20
    <3> QED BY <2>11, <2>13, <2>14, <2>17, <2>18, <2>19, <2>20, <3>1, <3>2, <3>3 DEF Sent
  <2>22. SentFound(q, r.q, m, p, dest, tag, e)
         BY <2>1, <2>3, <2>4, <2>15, <2>19, <2>20 DEF SentFound
  <2> QED BY <2>10, <2>21, <2>22
<1> QED BY <1>3, <1>4

(* What the start of a receive does. *)
Recvd(q, q2, m, p, now) ==
    /\ q2 \in QType /\ m \in Nat \ {0} /\ DOMAIN q2.msgs = DOMAIN q.msgs \cup {m}
    /\ \A n \in DOMAIN q.msgs : n # m => SameStarts(q2, q, n)
    /\ q2.msgs[m].dest = p /\ StartR(q2, m) = now
    /\ \E status \in SUBSET AllDone :
          /\ Added(q2.incoming, q.incoming, p, m, status, now)
          /\ "NONE_DONE" \in status /\ "IRECV_DONE" \in status
          /\ "ISEND_DONE" \in status <=> StartS(q2, m) # 0
RecvdNew(q, q2, m, src, p, tag) ==
    /\ MessageNew(q, q2, m) /\ StartS(q2, m) = 0 /\ q2.outgoing = q.outgoing
    /\ q2.msgs[m].src = src /\ q2.msgs[m].tag = tag
    /\ src # Wild => Candidates(q, q.outgoing[src], src, p, tag, "NONE_DONE", "IRECV_DONE") = {}
RecvdFound(q, q2, m, src, p, tag, e) ==
    /\ m \in DOMAIN q.msgs /\ StartS(q2, m) = StartS(q, m)
    /\ q2.msgs[m].src = q.msgs[m].src /\ q2.msgs[m].tag = q.msgs[m].tag
    /\ e.proc \in Procs /\ (src # Wild => e.proc = src)
    /\ Found(q, q.outgoing[e.proc], e, e.proc, p, tag, "NONE_DONE", "IRECV_DONE")
    /\ m = q.outgoing[e.proc][e.i].msg
    /\ Flagged(q2.outgoing, q.outgoing, e, "IRECV_DONE")

(* The start of a receive: it takes the message of a send that waits for   *)
(* it, or a new one.                                                       *)
LEMMA StartRecvIs ==
    ASSUME NEW q, NEW a, NEW b, Paired(q, a, b), NEW p \in Procs, NEW src \in Peers, NEW tag \in AnyTags,
           NEW req \in Nat, NEW now \in Nat \ {0}, NEW r, r = StartRecv(q, src, p, tag, req, now)
    PROVE  /\ Recvd(q, r.q, r.msg, p, now)
           /\ \/ RecvdNew(q, r.q, r.msg, src, p, tag)
              \/ \E e : RecvdFound(q, r.q, r.msg, src, p, tag, e)
<1>0. q \in QType BY DEF Paired
<1>1. PICK e : e = FindIsend(q, src, p, tag, "NONE_DONE", "IRECV_DONE") OBVIOUS
<1>2. "IRECV_DONE" \in AllDone /\ "NONE_DONE" \in AllDone BY DEF AllDone
<1>3. CASE e = None
  <2>1. PICK m : m = Len(q.msgs) + 1 OBVIOUS
  <2>2. PICK x : x = NewMsg(src, p, tag) OBVIOUS
  <2>3. PICK msg : msg = RecvdMsg(x, req, now) OBVIOUS
  <2>4. PICK msgs : msgs = Append(q.msgs, msg) OBVIOUS
  <2>5. PICK in : in = AddEntry(q.incoming, p, m, {"NONE_DONE", "IRECV_DONE"}, now) OBVIOUS
  <2>6. AddStatus(q.outgoing, e, "IRECV_DONE") = q.outgoing BY <1>3 DEF AddStatus
  <2>7. /\ r.msg = m
        /\ r.q = [msgs |-> msgs, incoming |-> in, outgoing |-> q.outgoing]
        BY <1>1, <1>3, <2>1, <2>2, <2>3, <2>4, <2>5, <2>6 DEF StartRecv, RecvdMsg
  <2>8. /\ x \in MsgType /\ x.src = src /\ x.dest = p /\ x.tag = tag
        /\ x.times["start_send"] = 0 /\ x.times["start_recv"] = 0
        BY <2>2, NewMsgIs
  <2>9. /\ msg \in MsgType /\ msg.src = src /\ msg.dest = p /\ msg.tag = tag
        /\ msg.times["start_recv"] = now /\ msg.times["start_send"] = 0
    <3>1. IsRecvd(msg, x, now) BY <2>3, <2>8, RecvdMsgIs
    <3> QED BY <2>8, <3>1 DEF IsRecvd
  <2>10. /\ msgs \in Seq(MsgType) /\ DOMAIN msgs = DOMAIN q.msgs \cup {m} /\ msgs[m] = msg
         /\ \A n \in DOMAIN q.msgs : msgs[n] = q.msgs[n] /\ n < m
         /\ m \notin DOMAIN q.msgs /\ m \in Nat \ {0}
    <3>1. IsMsgs(msgs, q, m, msg) /\ IsNext(m, q) BY <1>0, <2>1, <2>4, <2>9, MsgAdded
    <3> QED BY <3>1 DEF IsMsgs, IsNext
  <2>11. in \in [Procs -> PendingType] /\ Added(in, q.incoming, p, m, {"NONE_DONE", "IRECV_DONE"}, now)
         BY <1>0, <1>2, <2>5, <2>10, QIs, AddEntryIs
  <2>12. r.q \in QType /\ r.q.msgs = msgs /\ r.q.incoming = in /\ r.q.outgoing = q.outgoing
         BY <1>0, <2>7, <2>10, <2>11, QIs DEF QType
  <2>13. StartS(r.q, m) = 0 /\ StartR(r.q, m) = now BY <2>9, <2>10, <2>12 DEF StartR, StartS
  <2>14. Recvd(q, r.q, m, p, now)
    <3>1. \A n \in DOMAIN q.msgs : n # m => SameStarts(r.q, q, n)
          BY <2>10, <2>12 DEF SameStarts, StartS, StartR
    <3>2. "ISEND_DONE" \notin {"NONE_DONE", "IRECV_DONE"} OBVIOUS
    <3>3. {"NONE_DONE", "IRECV_DONE"} \in SUBSET AllDone BY <1>2
    <3> QED BY <2>9, <2>10, <2>11, <2>12, <2>13, <3>1, <3>2, <3>3 DEF Recvd
  <2>15. RecvdNew(q, r.q, m, src, p, tag)
    <3>1. src # Wild => Candidates(q, q.outgoing[src], src, p, tag, "NONE_DONE", "IRECV_DONE") = {}
          BY <1>0, <1>1, <1>3, FindIsendIs
    <3>2. MessageNew(q, r.q, m) BY <2>10 DEF MessageNew
    <3> QED BY <2>9, <2>10, <2>12, <2>13, <3>1, <3>2 DEF RecvdNew
  <2> QED BY <2>7, <2>14, <2>15
<1>4. CASE e # None
  <2>1. /\ e.proc \in Procs /\ (src # Wild => e.proc = src)
        /\ Found(q, q.outgoing[e.proc], e, e.proc, p, tag, "NONE_DONE", "IRECV_DONE")
        BY <1>0, <1>1, <1>4, FindIsendIs
  <2>2. e.i \in DOMAIN q.outgoing[e.proc] BY <2>1 DEF Found
  <2>3. PICK m : m = q.outgoing[e.proc][e.i].msg OBVIOUS
  <2>4. /\ m \in DOMAIN q.msgs /\ StartS(q, m) = e.i /\ e.i # 0
        /\ "NONE_DONE" \in q.outgoing[e.proc][e.i].status /\ "ISEND_DONE" \in q.outgoing[e.proc][e.i].status
    <3>1. q.outgoing[e.proc] \in PendingType BY <1>0, <2>1, QIs
    <3>2. e.i # 0 BY <2>2, <3>1, PendingIs
    <3> QED BY <2>1, <2>2, <2>3, <3>2 DEF Paired, OutgoingOK
  <2>5. PICK msg : msg = RecvdMsg(q.msgs[m], req, now) OBVIOUS
  <2>6. PICK msgs : msgs = [q.msgs EXCEPT ![m] = msg] OBVIOUS
  <2>7. PICK out : out = AddStatus(q.outgoing, e, "IRECV_DONE") OBVIOUS
  <2>8. PICK status : status = {"NONE_DONE"} \cup out[e.proc][e.i].status OBVIOUS
  <2>9. PICK in : in = AddEntry(q.incoming, p, m, status, now) OBVIOUS
  <2>10. /\ r.msg = m
         /\ r.q = [msgs |-> msgs, incoming |-> in, outgoing |-> out]
         BY <1>1, <1>4, <2>3, <2>5, <2>6, <2>7, <2>8, <2>9 DEF StartRecv, RecvdMsg
  <2>11. q.msgs[m] \in MsgType /\ m \in Nat \ {0} BY <1>0, <2>4, MsgsAre
  <2>12. q.msgs[m].dest = p BY <2>1, <2>3 DEF Found, Compatible
  <2>13. /\ msg \in MsgType /\ msg.src = q.msgs[m].src /\ msg.dest = p /\ msg.tag = q.msgs[m].tag
         /\ msg.times["start_recv"] = now /\ msg.times["start_send"] = q.msgs[m].times["start_send"]
    <3>1. IsRecvd(msg, q.msgs[m], now) BY <2>5, <2>11, RecvdMsgIs
    <3> QED BY <2>12, <3>1 DEF IsRecvd
  <2>14. /\ msgs \in Seq(MsgType) /\ DOMAIN msgs = DOMAIN q.msgs \cup {m} /\ msgs[m] = msg
         /\ \A n \in DOMAIN q.msgs : n # m => msgs[n] = q.msgs[n]
    <3>1. IsMsgs(msgs, q, m, msg) BY <1>0, <2>4, <2>6, <2>13, MsgChanged
    <3> QED BY <3>1 DEF IsMsgs
  <2>15. out \in [Procs -> PendingType] /\ Flagged(out, q.outgoing, e, "IRECV_DONE")
         BY <1>0, <1>2, <1>4, <2>1, <2>2, <2>7, QIs, AddStatusIs
  <2>16. out[e.proc][e.i].status = q.outgoing[e.proc][e.i].status \cup {"IRECV_DONE"}
         BY <2>1, <2>2, <2>15 DEF Flagged
  <2>17. status \in SUBSET AllDone
    <3>1. q.outgoing[e.proc] \in PendingType BY <1>0, <2>1, QIs
    <3>2. q.outgoing[e.proc][e.i].status \in SUBSET AllDone BY <2>2, <3>1, PendingIs
    <3> QED BY <1>2, <2>8, <2>16, <3>2
  <2>18. in \in [Procs -> PendingType] /\ Added(in, q.incoming, p, m, status, now)
         BY <1>0, <2>9, <2>11, <2>17, QIs, AddEntryIs
  <2>19. r.q \in QType /\ r.q.msgs = msgs /\ r.q.incoming = in /\ r.q.outgoing = out
         BY <2>10, <2>14, <2>15, <2>18 DEF QType
  <2>20. StartS(r.q, m) = StartS(q, m) /\ StartR(r.q, m) = now BY <2>13, <2>14, <2>19 DEF StartR, StartS
  <2>21. Recvd(q, r.q, m, p, now)
    <3>1. \A n \in DOMAIN q.msgs : n # m => SameStarts(r.q, q, n)
          BY <2>14, <2>19 DEF SameStarts, StartS, StartR
    <3>2. "NONE_DONE" \in status /\ "ISEND_DONE" \in status /\ "IRECV_DONE" \in status
          BY <2>4, <2>8, <2>16
    <3>3. StartS(r.q, m) # 0 BY <2>4, <2>20
    <3> QED BY <2>11, <2>13, <2>14, <2>17, <2>18, <2>19, <2>20, <3>1, <3>2, <3>3 DEF Recvd
  <2>22. RecvdFound(q, r.q, m, src, p, tag, e)
         BY <2>1, <2>3, <2>4, <2>13, <2>14, <2>15, <2>19, <2>20 DEF RecvdFound
  <2> QED BY <2>10, <2>21, <2>22
<1> QED BY <1>3, <1>4

(* The messages of a process without wildcards name their sender and their *)
(* tag.                                                                    *)
LEMMA SourcesConcrete ==
    ASSUME NEW q, NEW a, NEW b, Paired(q, a, b), NEW m \in DOMAIN q.msgs, NoWildcard(q.msgs[m].dest)
    PROVE  q.msgs[m].src \in Procs /\ q.msgs[m].tag \in Tags /\ q.msgs[m].src # Wild /\ q.msgs[m].tag # Wild
BY WildIs DEF Paired, Resolves

(* A message that has not been sent is one that a send of its kind finds.  *)
LEMMA UnsentIsCandidate ==
    ASSUME NEW q, NEW a, NEW b, Paired(q, a, b), NEW s \in Procs, NEW d \in Procs, NEW t \in Tags,
           NEW m \in Between(q, s, d, t), StartS(q, m) = 0
    PROVE  /\ StartR(q, m) \in Candidates(q, q.incoming[d], s, d, t, "NONE_DONE", "ISEND_DONE")
           /\ q.incoming[d][StartR(q, m)].msg = m
<1>1. m \in DOMAIN q.msgs /\ q.msgs[m].src = s /\ q.msgs[m].dest = d /\ q.msgs[m].tag = t BY DEF Between
<1>2. PICK k : k = StartR(q, m) OBVIOUS
<1>3. k \in DOMAIN q.incoming[d] /\ q.incoming[d][k].msg = m BY <1>1, <1>2 DEF Paired, OneSided
<1>4. "NONE_DONE" \in q.incoming[d][k].status /\ "ISEND_DONE" \notin q.incoming[d][k].status
      BY <1>3 DEF Paired, IncomingOK
<1>5. Compatible(q.msgs[q.incoming[d][k].msg], s, d, t) BY <1>1, <1>3 DEF Compatible
<1> QED BY <1>2, <1>3, <1>4, <1>5 DEF Candidates

(* A message sent and not received can be found by a receive of its kind.  *)
LEMMA UnreceivedIsCandidate ==
    ASSUME NEW q, NEW a, NEW b, Paired(q, a, b), NEW s \in Procs, NEW d \in Procs, NEW t \in Tags,
           NEW m \in Between(q, s, d, t), StartR(q, m) = 0
    PROVE  /\ StartS(q, m) \in Candidates(q, q.outgoing[s], s, d, t, "NONE_DONE", "IRECV_DONE")
           /\ q.outgoing[s][StartS(q, m)].msg = m
<1>1. m \in DOMAIN q.msgs /\ q.msgs[m].src = s /\ q.msgs[m].dest = d /\ q.msgs[m].tag = t BY DEF Between
<1>2. PICK k : k = StartS(q, m) OBVIOUS
<1>3. k \in DOMAIN q.outgoing[s] /\ q.outgoing[s][k].msg = m BY <1>1, <1>2 DEF Paired, OneSided
<1>4. "NONE_DONE" \in q.outgoing[s][k].status /\ "IRECV_DONE" \notin q.outgoing[s][k].status
      BY <1>3 DEF Paired, OutgoingOK
<1>5. Compatible(q.msgs[q.outgoing[s][k].msg], s, d, t) BY <1>1, <1>3 DEF Compatible
<1> QED BY <1>2, <1>3, <1>4, <1>5 DEF Candidates

(* Without wildcards a send starts the first message of its kind that was  *)
(* not sent, and makes a new one only if there is none.                    *)
StartsNext(q, m, s, d, t) ==
    /\ m \in DOMAIN q.msgs => m \in Between(q, s, d, t) /\ StartS(q, m) = 0
    /\ \A n \in Between(q, s, d, t) : n < m => StartS(q, n) # 0
    /\ \A n \in Between(q, s, d, t) : m < n => StartS(q, n) = 0
(* The start of a send takes the first message of its kind that is not     *)
(* sent.                                                                   *)
LEMMA SendStartsNext ==
    ASSUME NEW q, NEW a, NEW b, Paired(q, a, b), NEW p \in Procs, NEW dest \in Procs, NEW tag \in Tags,
           NEW q2, NEW m,
           SentNew(q, q2, m, p, dest, tag) \/ \E e : SentFound(q, q2, m, p, dest, tag, e),
           m \in Nat, NoWildcard(dest)
    PROVE  StartsNext(q, m, p, dest, tag)
<1>0. q \in QType /\ DOMAIN q.msgs \subseteq Nat BY MsgsAre DEF Paired
<1>1. CASE SentNew(q, q2, m, p, dest, tag)
  <2>1. \A n \in Between(q, p, dest, tag) : StartS(q, n) # 0 BY <1>1, UnsentIsCandidate DEF SentNew
  <2>2. m \notin DOMAIN q.msgs /\ \A n \in DOMAIN q.msgs : n < m BY <1>1 DEF SentNew, MessageNew
  <2>3. \A n \in Between(q, p, dest, tag) : n < m /\ ~(m < n) BY <1>0, <2>2 DEF Between
  <2> QED BY <2>1, <2>2, <2>3 DEF StartsNext
<1>2. CASE \E e : SentFound(q, q2, m, p, dest, tag, e)
  <2>1. PICK e : SentFound(q, q2, m, p, dest, tag, e) BY <1>2
  <2>2. /\ m \in DOMAIN q.msgs /\ e.i \in DOMAIN q.incoming[dest] /\ m = q.incoming[dest][e.i].msg
        /\ Compatible(q.msgs[m], p, dest, tag) /\ "ISEND_DONE" \notin q.incoming[dest][e.i].status
        /\ \A j \in Candidates(q, q.incoming[dest], p, dest, tag, "NONE_DONE", "ISEND_DONE") : e.i <= j
        BY <2>1 DEF SentFound, Found
  <2>3. StartS(q, m) = 0 /\ StartR(q, m) = e.i BY <2>2 DEF Paired, IncomingOK
  <2>4. m \in Between(q, p, dest, tag)
    <3>1. q.msgs[m].dest = dest BY <2>2 DEF Compatible
    <3>2. q.msgs[m].src # Wild /\ q.msgs[m].tag # Wild BY <2>2, <3>1, SourcesConcrete
    <3> QED BY <2>2, <3>1, <3>2, WildIs DEF Compatible, Between
  <2>5. e.i \in Nat \ {0}
    <3>1. q.incoming[dest] \in PendingType BY <1>0, QIs
    <3> QED BY <2>2, <3>1, PendingIs
  <2>6. ASSUME NEW n \in Between(q, p, dest, tag) PROVE n \in DOMAIN q.msgs /\ n \in Nat /\ SameKind(q, n, m) /\ SameKind(q, m, n)
                                                        /\ q.msgs[n].dest = dest /\ q.msgs[m].dest = dest
        BY <1>0, <2>4 DEF Between, SameKind
  <2>7. ASSUME NEW n \in Between(q, p, dest, tag), n < m PROVE StartS(q, n) # 0
    <3> SUFFICES ASSUME StartS(q, n) = 0 PROVE FALSE OBVIOUS
    <3>1. StartR(q, n) < StartR(q, m) BY <2>2, <2>3, <2>5, <2>6, <2>7 DEF Paired, InOrder
    <3>2. e.i <= StartR(q, n) BY <2>2, UnsentIsCandidate
    <3>3. StartR(q, n) \in Nat BY <1>0, <2>6, MsgsAre
    <3> QED BY <2>3, <2>5, <3>1, <3>2, <3>3
  <2>8. ASSUME NEW n \in Between(q, p, dest, tag), m < n PROVE StartS(q, n) = 0
        BY <2>2, <2>3, <2>6, <2>8 DEF Paired, InOrder
  <2> QED BY <2>3, <2>4, <2>7, <2>8 DEF StartsNext
<1> QED BY <1>1, <1>2

ReceivesNext(q, m, s, d, t) ==
    /\ m \in DOMAIN q.msgs => m \in Between(q, s, d, t) /\ StartR(q, m) = 0
    /\ \A n \in Between(q, s, d, t) : n < m => StartR(q, n) # 0
    /\ \A n \in Between(q, s, d, t) : m < n => StartR(q, n) = 0
(* The start of a receive takes the first message of its kind that is not  *)
(* received.                                                               *)
LEMMA RecvStartsNext ==
    ASSUME NEW q, NEW a, NEW b, Paired(q, a, b), NEW p \in Procs, NEW src \in Procs, NEW tag \in Tags,
           NEW q2, NEW m,
           RecvdNew(q, q2, m, src, p, tag) \/ \E e : RecvdFound(q, q2, m, src, p, tag, e),
           m \in Nat, NoWildcard(p)
    PROVE  ReceivesNext(q, m, src, p, tag)
<1>0. q \in QType /\ DOMAIN q.msgs \subseteq Nat /\ src # Wild BY MsgsAre, WildIs DEF Paired
<1>1. CASE RecvdNew(q, q2, m, src, p, tag)
  <2>1. \A n \in Between(q, src, p, tag) : StartR(q, n) # 0 BY <1>0, <1>1, UnreceivedIsCandidate DEF RecvdNew
  <2>2. m \notin DOMAIN q.msgs /\ \A n \in DOMAIN q.msgs : n < m BY <1>1 DEF RecvdNew, MessageNew
  <2>3. \A n \in Between(q, src, p, tag) : n < m /\ ~(m < n) BY <1>0, <2>2 DEF Between
  <2> QED BY <2>1, <2>2, <2>3 DEF ReceivesNext
<1>2. CASE \E e : RecvdFound(q, q2, m, src, p, tag, e)
  <2>1. PICK e : RecvdFound(q, q2, m, src, p, tag, e) BY <1>2
  <2>2. /\ m \in DOMAIN q.msgs /\ e.proc = src /\ e.i \in DOMAIN q.outgoing[src] /\ m = q.outgoing[src][e.i].msg
        /\ Compatible(q.msgs[m], src, p, tag) /\ "IRECV_DONE" \notin q.outgoing[src][e.i].status
        /\ \A j \in Candidates(q, q.outgoing[src], src, p, tag, "NONE_DONE", "IRECV_DONE") : e.i <= j
        BY <1>0, <2>1 DEF RecvdFound, Found
  <2>3. StartR(q, m) = 0 /\ StartS(q, m) = e.i BY <2>2 DEF Paired, OutgoingOK
  <2>4. m \in Between(q, src, p, tag)
    <3>1. q.msgs[m].dest = p BY <2>2 DEF Compatible
    <3>2. q.msgs[m].src # Wild /\ q.msgs[m].tag # Wild BY <2>2, <3>1, SourcesConcrete
    <3> QED BY <2>2, <3>1, <3>2, WildIs DEF Compatible, Between
  <2>5. e.i \in Nat \ {0}
    <3>1. q.outgoing[src] \in PendingType BY <1>0, QIs
    <3> QED BY <2>2, <3>1, PendingIs
  <2>6. ASSUME NEW n \in Between(q, src, p, tag) PROVE n \in DOMAIN q.msgs /\ n \in Nat /\ SameKind(q, n, m) /\ SameKind(q, m, n)
                                                       /\ q.msgs[n].dest = p /\ q.msgs[m].dest = p
        BY <1>0, <2>4 DEF Between, SameKind
  <2>7. ASSUME NEW n \in Between(q, src, p, tag), n < m PROVE StartR(q, n) # 0
    <3> SUFFICES ASSUME StartR(q, n) = 0 PROVE FALSE OBVIOUS
    <3>1. StartS(q, n) < StartS(q, m) BY <2>2, <2>3, <2>5, <2>6, <2>7 DEF Paired, InOrder
    <3>2. e.i <= StartS(q, n) BY <2>2, UnreceivedIsCandidate
    <3>3. StartS(q, n) \in Nat BY <1>0, <2>6, MsgsAre
    <3> QED BY <2>3, <2>5, <3>1, <3>2, <3>3
  <2>8. ASSUME NEW n \in Between(q, src, p, tag), m < n PROVE StartR(q, n) = 0
        BY <2>2, <2>3, <2>6, <2>8 DEF Paired, InOrder
  <2> QED BY <2>3, <2>4, <2>7, <2>8 DEF ReceivesNext
<1> QED BY <1>1, <1>2

(* One more event of a trace was read. *)
Next1(a, p) == [a EXCEPT ![p] = @ + 1]

(* One process has read one more event.                                    *)
LEMMA NextIs ==
    ASSUME NEW a \in [Procs -> Nat \ {0}], NEW p \in Procs
    PROVE  /\ Next1(a, p) \in [Procs -> Nat \ {0}] /\ Next1(a, p)[p] = a[p] + 1 /\ a[p] \in Nat \ {0}
           /\ \A r \in Procs : r # p => Next1(a, p)[r] = a[r]
           /\ \A r \in Procs, i \in Nat : i < a[r] => i < Next1(a, p)[r]
<1>1. a[p] \in Nat \ {0} /\ \A r \in Procs : a[r] \in Nat \ {0} OBVIOUS
<1>2. Next1(a, p)[p] = a[p] + 1 /\ \A r \in Procs : r # p => Next1(a, p)[r] = a[r] BY DEF Next1
<1>3. Next1(a, p) \in [Procs -> Nat \ {0}] BY <1>1 DEF Next1
<1>4. ASSUME NEW r \in Procs, NEW i \in Nat, i < a[r] PROVE i < Next1(a, p)[r]
  <2>1. CASE r = p BY <1>1, <1>2, <1>4, <2>1
  <2>2. CASE r # p BY <1>2, <1>4, <2>2
  <2> QED BY <2>1, <2>2
<1> QED BY <1>1, <1>2, <1>3, <1>4

(* The events that start a send or a receive are numbered.                 *)
LEMMA EventsAre ==
    ASSUME \A p \in Procs : prog[p] \in Seq(MpiEvent), NEW p \in Procs
    PROVE  Sends(p) \subseteq Nat /\ Recvs(p) \subseteq Nat
<1>1. prog[p] \in Seq(MpiEvent) OBVIOUS
<1>2. DOMAIN prog[p] \subseteq Nat BY <1>1
<1> QED BY <1>2 DEF Sends, Recvs

(* What was sent and received before the next event. *)
LEMMA SentBeforeNext ==
    ASSUME \A r \in Procs : prog[r] \in Seq(MpiEvent),
           NEW s \in Procs, NEW n \in Nat, NEW d, NEW t
    PROVE  SentBefore(s, n + 1, d, t) = SentBefore(s, n, d, t) \cup
               (IF n \in Sends(s) /\ Params(s, n).peer = d /\ Params(s, n).tag = t THEN {n} ELSE {})
<1>1. Sends(s) \subseteq Nat BY EventsAre
<1>2. \A j \in Sends(s) : j < n + 1 <=> (j < n \/ j = n) BY <1>1
<1>3. \A j \in Sends(s) : j < n => j # n BY <1>1
<1> QED BY <1>2, <1>3 DEF SentBefore

(* And what was received.                                                  *)
LEMMA RecvdBeforeNext ==
    ASSUME \A r \in Procs : prog[r] \in Seq(MpiEvent),
           NEW d \in Procs, NEW n \in Nat, NEW s, NEW t
    PROVE  RecvdBefore(d, n + 1, s, t) = RecvdBefore(d, n, s, t) \cup
               (IF n \in Recvs(d) /\ RecvSource(d, n) = <<s, t>> THEN {n} ELSE {})
<1>1. Recvs(d) \subseteq Nat BY EventsAre
<1>2. \A j \in Recvs(d) : j < n + 1 <=> (j < n \/ j = n) BY <1>1
<1>3. \A j \in Recvs(d) : j < n => j # n BY <1>1
<1> QED BY <1>2, <1>3 DEF RecvdBefore

-----------------------------------------------------------------------------
(* The start of a send keeps both sides in the order of the messages.      *)
LEMMA SentOrder ==
    ASSUME NEW q, NEW a, NEW b, Paired(q, a, b), NEW p \in Procs, NEW dest \in Procs, NEW tag \in Tags,
           NEW now \in Nat \ {0}, now = a[p], NEW q2, NEW m, Sent(q, q2, m, p, dest, tag, now),
           SentNew(q, q2, m, p, dest, tag) \/ \E e : SentFound(q, q2, m, p, dest, tag, e),
           \A r \in Procs : prog[r] \in Seq(MpiEvent)
    PROVE  InOrder(q2)
<1>0. q \in QType /\ q2 \in QType /\ DOMAIN q2.msgs \subseteq Nat /\ m \in Nat BY MsgsAre DEF Paired, Sent
<1>1. SUFFICES ASSUME NEW x \in DOMAIN q2.msgs, NEW y \in DOMAIN q2.msgs, x < y, SameKind(q2, x, y),
                      NoWildcard(q2.msgs[y].dest)
               PROVE  /\ StartS(q2, y) # 0 => StartS(q2, x) # 0 /\ StartS(q2, x) < StartS(q2, y)
                      /\ StartR(q2, y) # 0 => StartR(q2, x) # 0 /\ StartR(q2, x) < StartR(q2, y)
      BY DEF InOrder
<1>2. /\ DOMAIN q2.msgs = DOMAIN q.msgs \cup {m}
      /\ \A n \in DOMAIN q.msgs : n # m => SameStarts(q2, q, n)
      /\ q2.msgs[m].src = p /\ q2.msgs[m].dest = dest /\ q2.msgs[m].tag = tag /\ StartS(q2, m) = now
      BY DEF Sent
<1>3. CASE x # m /\ y # m
  <2>1. x \in DOMAIN q.msgs /\ y \in DOMAIN q.msgs /\ SameStarts(q2, q, x) /\ SameStarts(q2, q, y) BY <1>2, <1>3
  <2>2. SameKind(q, x, y) /\ NoWildcard(q.msgs[y].dest) BY <1>1, <2>1 DEF SameKind, SameStarts
  <2> QED BY <1>1, <2>1, <2>2 DEF Paired, InOrder, SameStarts
<1>4. CASE y = m
  <2>1. x # m BY <1>0, <1>1, <1>4
  <2>2. x \in DOMAIN q.msgs /\ SameStarts(q2, q, x) BY <1>2, <2>1
  <2>3. NoWildcard(dest) BY <1>1, <1>2, <1>4
  <2>4. StartsNext(q, m, p, dest, tag) BY <1>0, <2>3, SendStartsNext
  <2>5. x \in Between(q, p, dest, tag) BY <1>1, <1>2, <1>4, <2>2 DEF SameKind, SameStarts, Between
  <2>6. StartS(q, x) # 0 BY <1>1, <1>4, <2>4, <2>5 DEF StartsNext
  <2>7. StartS(q, x) < now
    <3>1. StartS(q, x) \in StartsOf(q, Between(q, p, dest, tag)) BY <2>5, <2>6 DEF StartsOf
    <3>2. StartS(q, x) \in SentBefore(p, now, dest, tag) BY <2>3, <3>1 DEF Paired, AllThere
    <3> QED BY <3>2 DEF SentBefore
  <2>8. ASSUME StartR(q2, m) # 0 PROVE StartR(q, x) # 0 /\ StartR(q, x) < StartR(q2, m)
    <3>1. ~SentNew(q, q2, m, p, dest, tag) BY <2>8 DEF SentNew
    <3>2. m \in DOMAIN q.msgs /\ StartR(q2, m) = StartR(q, m) BY <3>1 DEF SentFound
    <3>3. m \in Between(q, p, dest, tag) BY <2>4, <3>2 DEF StartsNext
    <3>4. SameKind(q, x, m) /\ q.msgs[m].dest = dest BY <2>5, <3>3 DEF SameKind, Between
    <3> QED BY <1>1, <1>4, <2>2, <2>3, <2>8, <3>2, <3>4 DEF Paired, InOrder
  <2> QED BY <1>2, <1>4, <2>2, <2>6, <2>7, <2>8 DEF SameStarts
<1>5. CASE x = m
  <2>1. y # m BY <1>0, <1>1, <1>5
  <2>2. y \in DOMAIN q.msgs /\ SameStarts(q2, q, y) BY <1>2, <2>1
  <2>3. NoWildcard(dest) /\ y \in Between(q, p, dest, tag)
        BY <1>1, <1>2, <1>5, <2>2 DEF SameKind, SameStarts, Between
  <2>4. StartsNext(q, m, p, dest, tag) BY <1>0, <2>3, SendStartsNext
  <2>5. StartS(q, y) = 0 BY <1>1, <1>5, <2>3, <2>4 DEF StartsNext
  <2>6. ~SentNew(q, q2, m, p, dest, tag)
    <3> SUFFICES ASSUME SentNew(q, q2, m, p, dest, tag) PROVE FALSE OBVIOUS
    <3>1. y < m BY <2>2 DEF SentNew, MessageNew
    <3> QED BY <1>0, <1>1, <1>5, <3>1
  <2>7. m \in DOMAIN q.msgs /\ StartR(q2, m) = StartR(q, m) BY <2>6 DEF SentFound
  <2>8. SameKind(q, m, y) /\ q.msgs[y].dest = dest
    <3>1. m \in Between(q, p, dest, tag) BY <2>4, <2>7 DEF StartsNext
    <3> QED BY <2>3, <3>1 DEF SameKind, Between
  <2>9. StartR(q, y) # 0 => StartR(q, m) # 0 /\ StartR(q, m) < StartR(q, y)
        BY <1>1, <1>5, <2>2, <2>3, <2>7, <2>8 DEF Paired, InOrder
  <2> QED BY <1>5, <2>2, <2>5, <2>7, <2>9 DEF SameStarts
<1> QED BY <1>3, <1>4, <1>5

(* So does the start of a receive.                                         *)
LEMMA RecvdOrder ==
    ASSUME NEW q, NEW a, NEW b, Paired(q, a, b), NEW p \in Procs, NEW src \in Peers, NEW tag \in AnyTags,
           NEW now \in Nat \ {0}, now = b[p], NEW q2, NEW m, Recvd(q, q2, m, p, now),
           RecvdNew(q, q2, m, src, p, tag) \/ \E e : RecvdFound(q, q2, m, src, p, tag, e),
           NoWildcard(p) => src \in Procs /\ tag \in Tags,
           \A r \in Procs : prog[r] \in Seq(MpiEvent)
    PROVE  InOrder(q2)
<1>0. q \in QType /\ q2 \in QType /\ DOMAIN q2.msgs \subseteq Nat /\ m \in Nat BY MsgsAre DEF Paired, Recvd
<1>1. SUFFICES ASSUME NEW x \in DOMAIN q2.msgs, NEW y \in DOMAIN q2.msgs, x < y, SameKind(q2, x, y),
                      NoWildcard(q2.msgs[y].dest)
               PROVE  /\ StartS(q2, y) # 0 => StartS(q2, x) # 0 /\ StartS(q2, x) < StartS(q2, y)
                      /\ StartR(q2, y) # 0 => StartR(q2, x) # 0 /\ StartR(q2, x) < StartR(q2, y)
      BY DEF InOrder
<1>2. /\ DOMAIN q2.msgs = DOMAIN q.msgs \cup {m}
      /\ \A n \in DOMAIN q.msgs : n # m => SameStarts(q2, q, n)
      /\ q2.msgs[m].dest = p /\ StartR(q2, m) = now
      BY DEF Recvd
<1>3. CASE x # m /\ y # m
  <2>1. x \in DOMAIN q.msgs /\ y \in DOMAIN q.msgs /\ SameStarts(q2, q, x) /\ SameStarts(q2, q, y) BY <1>2, <1>3
  <2>2. SameKind(q, x, y) /\ NoWildcard(q.msgs[y].dest) BY <1>1, <2>1 DEF SameKind, SameStarts
  <2> QED BY <1>1, <2>1, <2>2 DEF Paired, InOrder, SameStarts
<1>6. CASE x = m \/ y = m
  <2>1. NoWildcard(p) BY <1>1, <1>2, <1>6 DEF SameKind
  <2>2. src \in Procs /\ tag \in Tags BY <2>1
  <2>3. ReceivesNext(q, m, src, p, tag) BY <1>0, <2>1, <2>2, RecvStartsNext
  <2>4. /\ q2.msgs[m].src = src /\ q2.msgs[m].tag = tag
        /\ m \in DOMAIN q.msgs => m \in Between(q, src, p, tag) /\ StartS(q2, m) = StartS(q, m)
        /\ m \notin DOMAIN q.msgs => StartS(q2, m) = 0 /\ \A n \in DOMAIN q.msgs : n < m
    <3>1. CASE RecvdNew(q, q2, m, src, p, tag) BY <3>1 DEF RecvdNew, MessageNew
    <3>2. CASE \E e : RecvdFound(q, q2, m, src, p, tag, e)
      <4>1. /\ m \in DOMAIN q.msgs /\ StartS(q2, m) = StartS(q, m)
            /\ q2.msgs[m].src = q.msgs[m].src /\ q2.msgs[m].tag = q.msgs[m].tag
            BY <3>2 DEF RecvdFound
      <4>2. m \in Between(q, src, p, tag) BY <2>3, <4>1 DEF ReceivesNext
      <4> QED BY <4>1, <4>2 DEF Between
    <3> QED BY <3>1, <3>2
  <2>5. CASE y = m
    <3>1. x # m BY <1>0, <1>1, <2>5
    <3>2. x \in DOMAIN q.msgs /\ SameStarts(q2, q, x) BY <1>2, <3>1
    <3>5. x \in Between(q, src, p, tag) BY <1>1, <1>2, <2>4, <2>5, <3>2 DEF SameKind, SameStarts, Between
    <3>6. StartR(q, x) # 0 BY <1>1, <2>5, <2>3, <3>5 DEF ReceivesNext
    <3>7. StartR(q, x) < now
      <4>1. StartR(q, x) \in RecvsOf(q, Between(q, src, p, tag)) BY <3>5, <3>6 DEF RecvsOf
      <4>2. StartR(q, x) \in RecvdBefore(p, now, src, tag) BY <2>1, <2>2, <4>1 DEF Paired, AllThere
      <4> QED BY <4>2 DEF RecvdBefore
    <3>8. ASSUME StartS(q2, m) # 0 PROVE StartS(q, x) # 0 /\ StartS(q, x) < StartS(q2, m)
      <4>1. m \in DOMAIN q.msgs /\ StartS(q2, m) = StartS(q, m) /\ m \in Between(q, src, p, tag) BY <2>4, <3>8
      <4>2. SameKind(q, x, m) /\ q.msgs[m].dest = p BY <3>5, <4>1 DEF SameKind, Between
      <4> QED BY <1>1, <2>5, <3>2, <2>1, <3>8, <4>1, <4>2 DEF Paired, InOrder
    <3> QED BY <1>2, <2>5, <3>2, <3>6, <3>7, <3>8 DEF SameStarts
  <2>6. CASE x = m
    <3>1. y # m BY <1>0, <1>1, <2>6
    <3>2. y \in DOMAIN q.msgs /\ SameStarts(q2, q, y) BY <1>2, <3>1
    <3>3. y \in Between(q, src, p, tag)
          BY <1>1, <1>2, <2>4, <2>6, <3>2 DEF SameKind, SameStarts, Between
    <3>5. StartR(q, y) = 0 BY <1>1, <2>6, <3>3, <2>3 DEF ReceivesNext
    <3>6. m \in DOMAIN q.msgs
      <4> SUFFICES ASSUME m \notin DOMAIN q.msgs PROVE FALSE OBVIOUS
      <4>1. y < m BY <2>4, <3>2
      <4> QED BY <1>0, <1>1, <2>6, <4>1
    <3>7. StartS(q2, m) = StartS(q, m) /\ m \in Between(q, src, p, tag) BY <2>4, <3>6
    <3>8. SameKind(q, m, y) /\ q.msgs[y].dest = p BY <3>3, <3>7 DEF SameKind, Between
    <3>9. StartS(q, y) # 0 => StartS(q, m) # 0 /\ StartS(q, m) < StartS(q, y)
          BY <1>1, <2>1, <2>6, <3>2, <3>6, <3>8 DEF Paired, InOrder
    <3> QED BY <2>6, <3>2, <3>5, <3>7, <3>9 DEF SameStarts
  <2> QED BY <1>6, <2>5, <2>6
<1> QED BY <1>3, <1>6

(* The sends of each kind, after the start of one more.                    *)
LEMMA SentKinds ==
    ASSUME NEW q, NEW a, NEW b, Paired(q, a, b), NEW p \in Procs, NEW dest \in Procs, NEW tag \in Tags,
           NEW now \in Nat \ {0}, NEW q2, NEW m, Sent(q, q2, m, p, dest, tag, now),
           SentNew(q, q2, m, p, dest, tag) \/ \E e : SentFound(q, q2, m, p, dest, tag, e),
           NEW s \in Procs, NEW d \in Procs, NEW t \in Tags, NoWildcard(d)
    PROVE  /\ RecvsOf(q2, Between(q2, s, d, t)) = RecvsOf(q, Between(q, s, d, t))
           /\ StartsOf(q2, Between(q2, s, d, t)) = StartsOf(q, Between(q, s, d, t)) \cup
                 (IF s = p /\ d = dest /\ t = tag THEN {now} ELSE {})
<1>0. q \in QType /\ m \in Nat BY DEF Paired, Sent
<1>1. /\ DOMAIN q2.msgs = DOMAIN q.msgs \cup {m}
      /\ \A n \in DOMAIN q.msgs : n # m => SameStarts(q2, q, n)
      /\ q2.msgs[m].src = p /\ q2.msgs[m].dest = dest /\ q2.msgs[m].tag = tag /\ StartS(q2, m) = now
      BY DEF Sent
<1>2. d = dest /\ m \in DOMAIN q.msgs => m \in Between(q, p, dest, tag) /\ StartS(q, m) = 0
  <2> SUFFICES ASSUME d = dest PROVE m \in DOMAIN q.msgs => m \in Between(q, p, dest, tag) /\ StartS(q, m) = 0
      OBVIOUS
  <2>1. NoWildcard(dest) OBVIOUS
  <2>2. StartsNext(q, m, p, dest, tag) BY <1>0, <2>1, SendStartsNext
  <2> QED BY <2>2 DEF StartsNext
<1>3. m \in DOMAIN q.msgs => q.msgs[m].dest = dest
  <2>1. SentNew(q, q2, m, p, dest, tag) => m \notin DOMAIN q.msgs BY DEF SentNew, MessageNew
  <2>2. (\E e : SentFound(q, q2, m, p, dest, tag, e)) => q.msgs[m].dest = dest BY DEF SentFound, Found, Compatible
  <2> QED BY <2>1, <2>2
<1>4. \/ m \in DOMAIN q.msgs /\ StartR(q2, m) = StartR(q, m)
      \/ m \notin DOMAIN q.msgs /\ StartR(q2, m) = 0
      BY DEF SentNew, SentFound, MessageNew
<1>5. \A n \in DOMAIN q.msgs : n # m => StartS(q2, n) = StartS(q, n) /\ StartR(q2, n) = StartR(q, n)
      BY <1>1 DEF SameStarts
<1>6. CASE s = p /\ d = dest /\ t = tag
  <2>1. Between(q2, s, d, t) = Between(q, s, d, t) \cup {m} BY <1>1, <1>6 DEF Between, SameStarts
  <2>2. Between(q, s, d, t) \subseteq DOMAIN q.msgs BY DEF Between
  <2>3. RecvsOf(q2, Between(q2, s, d, t)) = RecvsOf(q, Between(q, s, d, t))
    <3>1. CASE m \in DOMAIN q.msgs
      <4>1. Between(q2, s, d, t) = Between(q, s, d, t) BY <1>2, <1>6, <2>1, <3>1
      <4>2. \A n \in Between(q, s, d, t) : StartR(q2, n) = StartR(q, n) BY <1>4, <1>5, <2>2, <3>1
      <4> QED BY <4>1, <4>2 DEF RecvsOf
    <3>2. CASE m \notin DOMAIN q.msgs
      <4>1. \A n \in Between(q, s, d, t) : StartR(q2, n) = StartR(q, n) BY <1>5, <2>2, <3>2
      <4>2. StartR(q2, m) = 0 BY <1>4, <3>2
      <4> QED BY <2>1, <4>1, <4>2 DEF RecvsOf
    <3> QED BY <3>1, <3>2
  <2>4. StartsOf(q2, Between(q2, s, d, t)) = StartsOf(q, Between(q, s, d, t)) \cup {now}
    <3>1. \A n \in Between(q, s, d, t) : n # m => StartS(q2, n) = StartS(q, n) BY <1>5, <2>2
    <3>2. m \in Between(q, s, d, t) => StartS(q, m) = 0 BY <1>2, <1>6, <2>2
    <3> QED BY <1>1, <2>1, <3>1, <3>2 DEF StartsOf
  <2> QED BY <1>6, <2>3, <2>4
<1>7. CASE ~(s = p /\ d = dest /\ t = tag)
  <2>1. m \notin Between(q, s, d, t) /\ m \notin Between(q2, s, d, t)
        BY <1>1, <1>2, <1>3, <1>7 DEF Between
  <2>2. Between(q2, s, d, t) = Between(q, s, d, t) BY <1>1, <2>1 DEF Between, SameStarts
  <2>3. \A n \in Between(q, s, d, t) : StartS(q2, n) = StartS(q, n) /\ StartR(q2, n) = StartR(q, n)
        BY <1>5, <2>1 DEF Between
  <2> QED BY <1>7, <2>2, <2>3 DEF StartsOf, RecvsOf
<1> QED BY <1>6, <1>7

(* The n-th event of p sends to dest with tag.                             *)
SendsTo(p, n, dest, tag) == n \in Sends(p) /\ Params(p, n).peer = dest /\ Params(p, n).tag = tag

(* The messages that the start r gives, after q.                           *)
Starts(q, r, a, b) == Paired(r.q, a, b) /\ r.msg \in DOMAIN r.q.msgs /\ DOMAIN q.msgs \subseteq DOMAIN r.q.msgs

(* The start of a send keeps the messages paired.                          *)
LEMMA StartSendPairs ==
    ASSUME NEW q, NEW a \in [Procs -> Nat \ {0}], NEW b, Paired(q, a, b),
           NEW p \in Procs, NEW dest \in Procs, NEW tag \in Tags, NEW req \in Nat,
           \A x \in Procs : prog[x] \in Seq(MpiEvent), SendsTo(p, a[p], dest, tag)
    PROVE  Starts(q, StartSend(q, p, dest, tag, req, a[p]), Next1(a, p), b)
<1>0. PICK r : r = StartSend(q, p, dest, tag, req, a[p]) OBVIOUS
<1>1. PICK now : now = a[p] OBVIOUS
<1>2. PICK q2 : q2 = r.q OBVIOUS
<1>3. PICK m : m = r.msg OBVIOUS
<1>4. PICK a2 : a2 = Next1(a, p) OBVIOUS
<1>5. now \in Nat \ {0} BY <1>1
<1>6. /\ Sent(q, q2, m, p, dest, tag, now)
      /\ SentNew(q, q2, m, p, dest, tag) \/ \E e : SentFound(q, q2, m, p, dest, tag, e)
      BY <1>0, <1>1, <1>2, <1>3, <1>5, StartSendIs
<1>7. /\ a2 \in [Procs -> Nat \ {0}] /\ a2[p] = now + 1
      /\ \A x \in Procs : x # p => a2[x] = a[x]
      /\ \A x \in Procs, i \in Nat : i < a[x] => i < a2[x]
      BY <1>1, <1>4, NextIs
<1>8. /\ q2 \in QType /\ DOMAIN q2.msgs = DOMAIN q.msgs \cup {m}
      /\ \A n \in DOMAIN q.msgs : n # m => SameStarts(q2, q, n)
      /\ q2.msgs[m].src = p /\ q2.msgs[m].dest = dest /\ q2.msgs[m].tag = tag /\ StartS(q2, m) = now
      BY <1>6 DEF Sent
<1>9. PICK status \in SUBSET AllDone :
          /\ Added(q2.outgoing, q.outgoing, p, m, status, now)
          /\ "NONE_DONE" \in status /\ "ISEND_DONE" \in status
          /\ "IRECV_DONE" \in status <=> StartR(q2, m) # 0
      BY <1>6 DEF Sent
<1>10. q \in QType BY DEF Paired
<1>11. \A x \in Procs : \A k \in DOMAIN q.outgoing[x] : k \in Nat \ {0}
  <2>1. \A x \in Procs : q.outgoing[x] \in PendingType BY <1>10, QIs
  <2> QED BY <2>1, PendingIs
<1>12. \/ m \notin DOMAIN q.msgs /\ StartR(q2, m) = 0 /\ q2.incoming = q.incoming
       \/ m \in DOMAIN q.msgs /\ StartR(q2, m) = StartR(q, m)
       BY <1>6 DEF SentNew, SentFound, MessageNew
<1>13. \/ q.msgs[m].dest = dest /\ StartS(q, m) = 0
       \/ m \notin DOMAIN q.msgs
  <2>1. SentNew(q, q2, m, p, dest, tag) => m \notin DOMAIN q.msgs BY DEF SentNew, MessageNew
  <2>2. ASSUME NEW e, SentFound(q, q2, m, p, dest, tag, e) PROVE q.msgs[m].dest = dest /\ StartS(q, m) = 0
    <3>1. /\ e.i \in DOMAIN q.incoming[dest] /\ m = q.incoming[dest][e.i].msg
          /\ Compatible(q.msgs[m], p, dest, tag) /\ "ISEND_DONE" \notin q.incoming[dest][e.i].status
          BY <2>2 DEF SentFound, Found
    <3> QED BY <3>1 DEF Compatible, Paired, IncomingOK
  <2> QED BY <1>6, <2>1, <2>2
<1>14. IncomingOK(q2, b)
  <2> SUFFICES ASSUME NEW d \in Procs, NEW k \in DOMAIN q2.incoming[d]
               PROVE  LET entry == q2.incoming[d][k] IN
                      /\ k < b[d] /\ entry.msg \in DOMAIN q2.msgs
                      /\ q2.msgs[entry.msg].dest = d /\ StartR(q2, entry.msg) = k
                      /\ "NONE_DONE" \in entry.status /\ "IRECV_DONE" \in entry.status
                      /\ "ISEND_DONE" \in entry.status <=> StartS(q2, entry.msg) # 0
      BY DEF IncomingOK
  <2>1. CASE SentNew(q, q2, m, p, dest, tag)
    <3>1. q2.incoming = q.incoming /\ m \notin DOMAIN q.msgs BY <2>1 DEF SentNew, MessageNew
    <3>2. LET entry == q.incoming[d][k] IN
          /\ k < b[d] /\ entry.msg \in DOMAIN q.msgs
          /\ q.msgs[entry.msg].dest = d /\ StartR(q, entry.msg) = k
          /\ "NONE_DONE" \in entry.status /\ "IRECV_DONE" \in entry.status
          /\ "ISEND_DONE" \in entry.status <=> StartS(q, entry.msg) # 0
          BY <3>1 DEF Paired, IncomingOK
    <3>3. SameStarts(q2, q, q.incoming[d][k].msg) BY <1>8, <3>1, <3>2
    <3> QED BY <1>8, <3>1, <3>2, <3>3 DEF SameStarts
  <2>2. CASE \E e : SentFound(q, q2, m, p, dest, tag, e)
    <3>1. PICK e : SentFound(q, q2, m, p, dest, tag, e) BY <2>2
    <3>2. /\ m \in DOMAIN q.msgs /\ StartR(q2, m) = StartR(q, m) /\ e.proc = dest
          /\ e.i \in DOMAIN q.incoming[dest] /\ m = q.incoming[dest][e.i].msg
          /\ Flagged(q2.incoming, q.incoming, e, "ISEND_DONE")
          BY <3>1 DEF SentFound, Found
    <3>3. /\ k \in DOMAIN q.incoming[d] /\ q2.incoming[d][k].msg = q.incoming[d][k].msg
          /\ q2.incoming[d][k].status = q.incoming[d][k].status \cup
                (IF d = e.proc /\ k = e.i THEN {"ISEND_DONE"} ELSE {})
          BY <3>2 DEF Flagged
    <3>4. LET entry == q.incoming[d][k] IN
          /\ k < b[d] /\ entry.msg \in DOMAIN q.msgs
          /\ q.msgs[entry.msg].dest = d /\ StartR(q, entry.msg) = k
          /\ "NONE_DONE" \in entry.status /\ "IRECV_DONE" \in entry.status
          /\ "ISEND_DONE" \in entry.status <=> StartS(q, entry.msg) # 0
          BY <3>3 DEF Paired, IncomingOK
    <3>5. q.msgs[m].dest = dest /\ StartR(q, m) = e.i BY <3>2 DEF Paired, IncomingOK
    <3>6. CASE q.incoming[d][k].msg = m
      <4>1. d = e.proc /\ k = e.i BY <3>2, <3>4, <3>5, <3>6
      <4> QED BY <1>5, <1>8, <3>2, <3>3, <3>4, <3>6, <4>1
    <3>7. CASE q.incoming[d][k].msg # m
      <4>1. ~(d = e.proc /\ k = e.i) BY <3>2, <3>7
      <4>2. SameStarts(q2, q, q.incoming[d][k].msg) BY <1>8, <3>4, <3>7
      <4> QED BY <1>8, <3>3, <3>4, <4>1, <4>2 DEF SameStarts
    <3> QED BY <3>6, <3>7
  <2> QED BY <1>6, <2>1, <2>2
<1>15. OutgoingOK(q2, a2)
  <2> SUFFICES ASSUME NEW s \in Procs, NEW k \in DOMAIN q2.outgoing[s]
               PROVE  LET entry == q2.outgoing[s][k] IN
                      /\ k < a2[s] /\ entry.msg \in DOMAIN q2.msgs
                      /\ q2.msgs[entry.msg].src = s /\ StartS(q2, entry.msg) = k
                      /\ "NONE_DONE" \in entry.status /\ "ISEND_DONE" \in entry.status
                      /\ "IRECV_DONE" \in entry.status <=> StartR(q2, entry.msg) # 0
      BY DEF OutgoingOK
  <2>1. CASE s = p /\ k = now
    <3>1. q2.outgoing[s][k].msg = m /\ q2.outgoing[s][k].status = status BY <1>9, <2>1 DEF Added
    <3> QED BY <1>5, <1>7, <1>8, <1>9, <2>1, <3>1
  <2>2. CASE ~(s = p /\ k = now)
    <3>1. k \in DOMAIN q.outgoing[s] /\ q2.outgoing[s][k] = q.outgoing[s][k] BY <1>9, <2>2 DEF Added
    <3>2. LET entry == q.outgoing[s][k] IN
          /\ k < a[s] /\ entry.msg \in DOMAIN q.msgs
          /\ q.msgs[entry.msg].src = s /\ StartS(q, entry.msg) = k
          /\ "NONE_DONE" \in entry.status /\ "ISEND_DONE" \in entry.status
          /\ "IRECV_DONE" \in entry.status <=> StartR(q, entry.msg) # 0
          BY <3>1 DEF Paired, OutgoingOK
    <3>3. k \in Nat \ {0} BY <1>11, <3>1
    <3>4. q.outgoing[s][k].msg # m BY <1>13, <3>2, <3>3
    <3>5. SameStarts(q2, q, q.outgoing[s][k].msg) BY <1>8, <3>2, <3>4
    <3>6. k < a2[s] BY <1>7, <3>2, <3>3
    <3> QED BY <1>8, <3>1, <3>2, <3>5, <3>6 DEF SameStarts
  <2> QED BY <2>1, <2>2
<1>16. OneSided(q2)
  <2> SUFFICES ASSUME NEW n \in DOMAIN q2.msgs
               PROVE  LET msg == q2.msgs[n] IN
                      /\ StartS(q2, n) = 0 => /\ StartR(q2, n) \in DOMAIN q2.incoming[msg.dest]
                                              /\ q2.incoming[msg.dest][StartR(q2, n)].msg = n
                      /\ StartR(q2, n) = 0 => /\ msg.src \in Procs /\ StartS(q2, n) \in DOMAIN q2.outgoing[msg.src]
                                              /\ q2.outgoing[msg.src][StartS(q2, n)].msg = n
      BY DEF OneSided
  <2>1. CASE n = m
    <3>1. now \in DOMAIN q2.outgoing[p] /\ q2.outgoing[p][now].msg = m BY <1>9 DEF Added
    <3>2. StartS(q2, n) # 0 /\ q2.msgs[n].src \in Procs BY <1>5, <1>8, <2>1
    <3> QED BY <1>8, <2>1, <3>1, <3>2
  <2>2. CASE n # m
    <3>1. n \in DOMAIN q.msgs /\ SameStarts(q2, q, n) /\ q.msgs[n].dest \in Procs BY <1>8, <1>10, <2>2, MsgsAre
    <3>2. ASSUME StartS(q2, n) = 0
          PROVE  /\ StartR(q2, n) \in DOMAIN q2.incoming[q2.msgs[n].dest]
                 /\ q2.incoming[q2.msgs[n].dest][StartR(q2, n)].msg = n
      <4>1. /\ StartS(q, n) = 0 /\ StartR(q, n) \in DOMAIN q.incoming[q.msgs[n].dest]
            /\ q.incoming[q.msgs[n].dest][StartR(q, n)].msg = n
            BY <3>1, <3>2 DEF Paired, OneSided, SameStarts
      <4>2. \A d \in Procs : DOMAIN q2.incoming[d] = DOMAIN q.incoming[d]
                             /\ \A k \in DOMAIN q.incoming[d] : q2.incoming[d][k].msg = q.incoming[d][k].msg
            BY <1>6 DEF SentNew, SentFound, Flagged
      <4> QED BY <3>1, <4>1, <4>2 DEF SameStarts
    <3>3. ASSUME StartR(q2, n) = 0
          PROVE  /\ q2.msgs[n].src \in Procs /\ StartS(q2, n) \in DOMAIN q2.outgoing[q2.msgs[n].src]
                 /\ q2.outgoing[q2.msgs[n].src][StartS(q2, n)].msg = n
      <4>1. /\ StartR(q, n) = 0 /\ q.msgs[n].src \in Procs /\ StartS(q, n) \in DOMAIN q.outgoing[q.msgs[n].src]
            /\ q.outgoing[q.msgs[n].src][StartS(q, n)].msg = n
            BY <3>1, <3>3 DEF Paired, OneSided, SameStarts
      <4>2. /\ StartS(q, n) \in DOMAIN q2.outgoing[q.msgs[n].src]
            /\ q2.outgoing[q.msgs[n].src][StartS(q, n)].msg = n
        <5>1. CASE q.msgs[n].src # p BY <1>9, <4>1, <5>1 DEF Added
        <5>2. CASE q.msgs[n].src = p
          <6>1. now # StartS(q, n)
            <7>1. StartS(q, n) < now BY <1>1, <4>1, <5>2 DEF Paired, OutgoingOK
            <7> QED BY <1>5, <7>1
          <6> QED BY <1>9, <4>1, <5>2, <6>1 DEF Added
        <5> QED BY <5>1, <5>2
      <4> QED BY <3>1, <4>1, <4>2 DEF SameStarts
    <3> QED BY <3>2, <3>3
  <2> QED BY <2>1, <2>2
<1>17. Resolves(q2)
  <2> SUFFICES ASSUME NEW n \in DOMAIN q2.msgs, StartS(q2, n) # 0 \/ NoWildcard(q2.msgs[n].dest)
               PROVE  q2.msgs[n].src \in Procs /\ q2.msgs[n].tag \in Tags
      BY DEF Resolves
  <2>1. CASE n = m BY <1>8, <2>1
  <2>2. CASE n # m
    <3>1. n \in DOMAIN q.msgs /\ SameStarts(q2, q, n) BY <1>8, <2>2
    <3> QED BY <3>1 DEF Paired, Resolves, SameStarts
  <2> QED BY <2>1, <2>2
<1>18. InOrder(q2) BY <1>1, <1>5, <1>6, SentOrder
<1>19. AllThere(q2, a2, b)
  <2> SUFFICES ASSUME NEW s \in Procs, NEW d \in Procs, NEW t \in Tags, NoWildcard(d)
               PROVE  /\ StartsOf(q2, Between(q2, s, d, t)) = SentBefore(s, a2[s], d, t)
                      /\ RecvsOf(q2, Between(q2, s, d, t)) = RecvdBefore(d, b[d], s, t)
      BY DEF AllThere
  <2>1. /\ RecvsOf(q2, Between(q2, s, d, t)) = RecvsOf(q, Between(q, s, d, t))
        /\ StartsOf(q2, Between(q2, s, d, t)) = StartsOf(q, Between(q, s, d, t)) \cup
              (IF s = p /\ d = dest /\ t = tag THEN {now} ELSE {})
        BY <1>5, <1>6, SentKinds
  <2>2. /\ StartsOf(q, Between(q, s, d, t)) = SentBefore(s, a[s], d, t)
        /\ RecvsOf(q, Between(q, s, d, t)) = RecvdBefore(d, b[d], s, t)
        BY DEF Paired, AllThere
  <2>3. SentBefore(s, a2[s], d, t) = SentBefore(s, a[s], d, t) \cup
              (IF s = p /\ d = dest /\ t = tag THEN {now} ELSE {})
    <3>1. CASE s # p BY <1>7, <3>1
    <3>2. CASE s = p
      <4>1. SentBefore(s, now + 1, d, t) = SentBefore(s, now, d, t) \cup
               (IF now \in Sends(s) /\ Params(s, now).peer = d /\ Params(s, now).tag = t THEN {now} ELSE {})
            BY <1>5, SentBeforeNext
      <4> QED BY <1>1, <1>7, <3>2, <4>1 DEF SendsTo
    <3> QED BY <3>1, <3>2
  <2> QED BY <2>1, <2>2, <2>3
<1>20. Paired(q2, a2, b) BY <1>8, <1>14, <1>15, <1>16, <1>17, <1>18, <1>19 DEF Paired
<1>21. Starts(q, r, a2, b) BY <1>2, <1>3, <1>8, <1>20 DEF Starts
<1> QED BY <1>0, <1>4, <1>21

(* The receives of each kind, after the start of one more.                 *)
LEMMA RecvdKinds ==
    ASSUME NEW q, NEW a, NEW b, Paired(q, a, b), NEW p \in Procs, NEW src \in Peers, NEW tag \in AnyTags,
           NEW now \in Nat \ {0}, NEW q2, NEW m, Recvd(q, q2, m, p, now),
           RecvdNew(q, q2, m, src, p, tag) \/ \E e : RecvdFound(q, q2, m, src, p, tag, e),
           NoWildcard(p) => src \in Procs /\ tag \in Tags,
           NEW s \in Procs, NEW d \in Procs, NEW t \in Tags, NoWildcard(d)
    PROVE  /\ StartsOf(q2, Between(q2, s, d, t)) = StartsOf(q, Between(q, s, d, t))
           /\ RecvsOf(q2, Between(q2, s, d, t)) = RecvsOf(q, Between(q, s, d, t)) \cup
                 (IF s = src /\ d = p /\ t = tag THEN {now} ELSE {})
<1>0. q \in QType /\ m \in Nat BY DEF Paired, Recvd
<1>1. /\ DOMAIN q2.msgs = DOMAIN q.msgs \cup {m}
      /\ \A n \in DOMAIN q.msgs : n # m => SameStarts(q2, q, n)
      /\ q2.msgs[m].dest = p /\ StartR(q2, m) = now
      BY DEF Recvd
<1>2. ASSUME d = p
      PROVE  /\ q2.msgs[m].src = src /\ q2.msgs[m].tag = tag /\ src \in Procs /\ tag \in Tags
             /\ m \in DOMAIN q.msgs => m \in Between(q, src, p, tag) /\ StartR(q, m) = 0
  <2>1. NoWildcard(p) /\ src \in Procs /\ tag \in Tags BY <1>2
  <2>2. ReceivesNext(q, m, src, p, tag) BY <1>0, <2>1, RecvStartsNext
  <2>3. m \in DOMAIN q.msgs => m \in Between(q, src, p, tag) /\ StartR(q, m) = 0 BY <2>2 DEF ReceivesNext
  <2>4. q2.msgs[m].src = src /\ q2.msgs[m].tag = tag
    <3>1. CASE RecvdNew(q, q2, m, src, p, tag) BY <3>1 DEF RecvdNew
    <3>2. CASE \E e : RecvdFound(q, q2, m, src, p, tag, e)
          BY <2>3, <3>2 DEF RecvdFound, Between
    <3> QED BY <3>1, <3>2
  <2> QED BY <2>1, <2>3, <2>4
<1>3. m \in DOMAIN q.msgs => q.msgs[m].dest = p
  <2>1. RecvdNew(q, q2, m, src, p, tag) => m \notin DOMAIN q.msgs BY DEF RecvdNew, MessageNew
  <2>2. (\E e : RecvdFound(q, q2, m, src, p, tag, e)) => q.msgs[m].dest = p BY DEF RecvdFound, Found, Compatible
  <2> QED BY <2>1, <2>2
<1>4. \/ m \in DOMAIN q.msgs /\ StartS(q2, m) = StartS(q, m)
      \/ m \notin DOMAIN q.msgs /\ StartS(q2, m) = 0
      BY DEF RecvdNew, RecvdFound, MessageNew
<1>5. \A n \in DOMAIN q.msgs : n # m => StartS(q2, n) = StartS(q, n) /\ StartR(q2, n) = StartR(q, n)
      BY <1>1 DEF SameStarts
<1>6. CASE s = src /\ d = p /\ t = tag
  <2>1. Between(q2, s, d, t) = Between(q, s, d, t) \cup {m} BY <1>1, <1>2, <1>6 DEF Between, SameStarts
  <2>2. Between(q, s, d, t) \subseteq DOMAIN q.msgs BY DEF Between
  <2>3. StartsOf(q2, Between(q2, s, d, t)) = StartsOf(q, Between(q, s, d, t))
    <3>1. CASE m \in DOMAIN q.msgs
      <4>1. Between(q2, s, d, t) = Between(q, s, d, t) BY <1>2, <1>6, <2>1, <3>1
      <4>2. \A n \in Between(q, s, d, t) : StartS(q2, n) = StartS(q, n) BY <1>4, <1>5, <2>2, <3>1
      <4> QED BY <4>1, <4>2 DEF StartsOf
    <3>2. CASE m \notin DOMAIN q.msgs
      <4>1. \A n \in Between(q, s, d, t) : StartS(q2, n) = StartS(q, n) BY <1>5, <2>2, <3>2
      <4>2. StartS(q2, m) = 0 BY <1>4, <3>2
      <4> QED BY <2>1, <4>1, <4>2 DEF StartsOf
    <3> QED BY <3>1, <3>2
  <2>4. RecvsOf(q2, Between(q2, s, d, t)) = RecvsOf(q, Between(q, s, d, t)) \cup {now}
    <3>1. \A n \in Between(q, s, d, t) : n # m => StartR(q2, n) = StartR(q, n) BY <1>5, <2>2
    <3>2. m \in Between(q, s, d, t) => StartR(q, m) = 0 BY <1>2, <1>6, <2>2
    <3> QED BY <1>1, <2>1, <3>1, <3>2 DEF RecvsOf
  <2> QED BY <1>6, <2>3, <2>4
<1>7. CASE ~(s = src /\ d = p /\ t = tag)
  <2>1. m \notin Between(q, s, d, t) /\ m \notin Between(q2, s, d, t)
        BY <1>1, <1>2, <1>3, <1>7 DEF Between
  <2>2. Between(q2, s, d, t) = Between(q, s, d, t) BY <1>1, <2>1 DEF Between, SameStarts
  <2>3. \A n \in Between(q, s, d, t) : StartS(q2, n) = StartS(q, n) /\ StartR(q2, n) = StartR(q, n)
        BY <1>5, <2>1 DEF Between
  <2> QED BY <1>7, <2>2, <2>3 DEF StartsOf, RecvsOf
<1> QED BY <1>6, <1>7

(* A receive of a process without wildcards names its source and its tag.  *)
LEMMA NoWildSource ==
    ASSUME NEW p \in Procs, NEW i \in Recvs(p), NEW src \in Peers, NEW tag \in AnyTags,
           RecvSource(p, i) = <<src, tag>>, NoWildcard(p)
    PROVE  src \in Procs /\ tag \in Tags
BY DEF NoWildcard, Peers, AnyTags

(* The start of a receive keeps the messages paired.                       *)
LEMMA StartRecvPairs ==
    ASSUME NEW q, NEW a, NEW b \in [Procs -> Nat \ {0}], Paired(q, a, b),
           NEW p \in Procs, NEW src \in Peers, NEW tag \in AnyTags, NEW req \in Nat,
           \A x \in Procs : prog[x] \in Seq(MpiEvent),
           b[p] \in Recvs(p), RecvSource(p, b[p]) = <<src, tag>>
    PROVE  Starts(q, StartRecv(q, src, p, tag, req, b[p]), a, Next1(b, p))
<1>0. PICK r : r = StartRecv(q, src, p, tag, req, b[p]) OBVIOUS
<1>1. PICK now : now = b[p] OBVIOUS
<1>2. PICK q2 : q2 = r.q OBVIOUS
<1>3. PICK m : m = r.msg OBVIOUS
<1>4. PICK b2 : b2 = Next1(b, p) OBVIOUS
<1>5. now \in Nat \ {0} BY <1>1
<1>6. /\ Recvd(q, q2, m, p, now)
      /\ RecvdNew(q, q2, m, src, p, tag) \/ \E e : RecvdFound(q, q2, m, src, p, tag, e)
      BY <1>0, <1>1, <1>2, <1>3, <1>5, StartRecvIs
<1>7. /\ b2 \in [Procs -> Nat \ {0}] /\ b2[p] = now + 1
      /\ \A x \in Procs : x # p => b2[x] = b[x]
      /\ \A x \in Procs, i \in Nat : i < b[x] => i < b2[x]
      BY <1>1, <1>4, NextIs
<1>8. /\ q2 \in QType /\ DOMAIN q2.msgs = DOMAIN q.msgs \cup {m}
      /\ \A n \in DOMAIN q.msgs : n # m => SameStarts(q2, q, n)
      /\ q2.msgs[m].dest = p /\ StartR(q2, m) = now
      BY <1>6 DEF Recvd
<1>9. PICK status \in SUBSET AllDone :
          /\ Added(q2.incoming, q.incoming, p, m, status, now)
          /\ "NONE_DONE" \in status /\ "IRECV_DONE" \in status
          /\ "ISEND_DONE" \in status <=> StartS(q2, m) # 0
      BY <1>6 DEF Recvd
<1>10. q \in QType BY DEF Paired
<1>11. \A x \in Procs : \A k \in DOMAIN q.incoming[x] : k \in Nat \ {0}
  <2>1. \A x \in Procs : q.incoming[x] \in PendingType BY <1>10, QIs
  <2> QED BY <2>1, PendingIs
<1>12. NoWildcard(p) => src \in Procs /\ tag \in Tags BY NoWildSource
<1>13. \/ /\ q.msgs[m].dest = p /\ StartR(q, m) = 0 /\ StartS(q, m) # 0 /\ StartS(q2, m) = StartS(q, m)
          /\ q2.msgs[m].src = q.msgs[m].src /\ q2.msgs[m].tag = q.msgs[m].tag /\ m \in DOMAIN q.msgs
       \/ m \notin DOMAIN q.msgs /\ StartS(q2, m) = 0 /\ q2.msgs[m].src = src /\ q2.msgs[m].tag = tag
  <2>1. RecvdNew(q, q2, m, src, p, tag) =>
            m \notin DOMAIN q.msgs /\ StartS(q2, m) = 0 /\ q2.msgs[m].src = src /\ q2.msgs[m].tag = tag
        BY DEF RecvdNew, MessageNew
  <2>2. ASSUME NEW e, RecvdFound(q, q2, m, src, p, tag, e)
        PROVE  /\ q.msgs[m].dest = p /\ StartR(q, m) = 0 /\ StartS(q, m) # 0 /\ StartS(q2, m) = StartS(q, m)
               /\ q2.msgs[m].src = q.msgs[m].src /\ q2.msgs[m].tag = q.msgs[m].tag /\ m \in DOMAIN q.msgs
    <3>1. /\ e.proc \in Procs /\ e.i \in DOMAIN q.outgoing[e.proc] /\ m = q.outgoing[e.proc][e.i].msg
          /\ Compatible(q.msgs[m], e.proc, p, tag) /\ "IRECV_DONE" \notin q.outgoing[e.proc][e.i].status
          /\ m \in DOMAIN q.msgs /\ StartS(q2, m) = StartS(q, m)
          /\ q2.msgs[m].src = q.msgs[m].src /\ q2.msgs[m].tag = q.msgs[m].tag
          BY <2>2 DEF RecvdFound, Found
    <3>2. q.outgoing[e.proc] \in PendingType BY <1>10, <3>1, QIs
    <3>3. e.i # 0 BY <3>1, <3>2, PendingIs
    <3> QED BY <3>1, <3>3 DEF Compatible, Paired, OutgoingOK
  <2> QED BY <1>6, <2>1, <2>2
<1>14. OutgoingOK(q2, a)
  <2> SUFFICES ASSUME NEW s \in Procs, NEW k \in DOMAIN q2.outgoing[s]
               PROVE  LET entry == q2.outgoing[s][k] IN
                      /\ k < a[s] /\ entry.msg \in DOMAIN q2.msgs
                      /\ q2.msgs[entry.msg].src = s /\ StartS(q2, entry.msg) = k
                      /\ "NONE_DONE" \in entry.status /\ "ISEND_DONE" \in entry.status
                      /\ "IRECV_DONE" \in entry.status <=> StartR(q2, entry.msg) # 0
      BY DEF OutgoingOK
  <2>1. CASE RecvdNew(q, q2, m, src, p, tag)
    <3>1. q2.outgoing = q.outgoing /\ m \notin DOMAIN q.msgs BY <2>1 DEF RecvdNew, MessageNew
    <3>2. LET entry == q.outgoing[s][k] IN
          /\ k < a[s] /\ entry.msg \in DOMAIN q.msgs
          /\ q.msgs[entry.msg].src = s /\ StartS(q, entry.msg) = k
          /\ "NONE_DONE" \in entry.status /\ "ISEND_DONE" \in entry.status
          /\ "IRECV_DONE" \in entry.status <=> StartR(q, entry.msg) # 0
          BY <3>1 DEF Paired, OutgoingOK
    <3>3. SameStarts(q2, q, q.outgoing[s][k].msg) BY <1>8, <3>1, <3>2
    <3> QED BY <1>8, <3>1, <3>2, <3>3 DEF SameStarts
  <2>2. CASE \E e : RecvdFound(q, q2, m, src, p, tag, e)
    <3>1. PICK e : RecvdFound(q, q2, m, src, p, tag, e) BY <2>2
    <3>2. /\ m \in DOMAIN q.msgs /\ StartS(q2, m) = StartS(q, m) /\ e.proc \in Procs
          /\ q2.msgs[m].src = q.msgs[m].src
          /\ e.i \in DOMAIN q.outgoing[e.proc] /\ m = q.outgoing[e.proc][e.i].msg
          /\ Flagged(q2.outgoing, q.outgoing, e, "IRECV_DONE")
          BY <3>1 DEF RecvdFound, Found
    <3>3. /\ k \in DOMAIN q.outgoing[s] /\ q2.outgoing[s][k].msg = q.outgoing[s][k].msg
          /\ q2.outgoing[s][k].status = q.outgoing[s][k].status \cup
                (IF s = e.proc /\ k = e.i THEN {"IRECV_DONE"} ELSE {})
      <4>1. Flagged(q2.outgoing, q.outgoing, e, "IRECV_DONE") BY <3>2
      <4>2. DOMAIN q2.outgoing[s] = DOMAIN q.outgoing[s] BY <4>1 DEF Flagged
      <4>3. k \in DOMAIN q.outgoing[s] BY <4>2
      <4> QED BY <4>1, <4>3 DEF Flagged
    <3>4. LET entry == q.outgoing[s][k] IN
          /\ k < a[s] /\ entry.msg \in DOMAIN q.msgs
          /\ q.msgs[entry.msg].src = s /\ StartS(q, entry.msg) = k
          /\ "NONE_DONE" \in entry.status /\ "ISEND_DONE" \in entry.status
          /\ "IRECV_DONE" \in entry.status <=> StartR(q, entry.msg) # 0
          BY <3>3 DEF Paired, OutgoingOK
    <3>5. q.msgs[m].src = e.proc /\ StartS(q, m) = e.i BY <3>2 DEF Paired, OutgoingOK
    <3>6. CASE q.outgoing[s][k].msg = m
      <4>1. s = e.proc /\ k = e.i BY <3>2, <3>4, <3>5, <3>6
      <4> QED BY <1>5, <1>8, <3>2, <3>3, <3>4, <3>6, <4>1
    <3>7. CASE q.outgoing[s][k].msg # m
      <4>1. ~(s = e.proc /\ k = e.i) BY <3>2, <3>7
      <4>2. SameStarts(q2, q, q.outgoing[s][k].msg) BY <1>8, <3>4, <3>7
      <4> QED BY <1>8, <3>3, <3>4, <4>1, <4>2 DEF SameStarts
    <3> QED BY <3>6, <3>7
  <2> QED BY <1>6, <2>1, <2>2
<1>15. IncomingOK(q2, b2)
  <2> SUFFICES ASSUME NEW d \in Procs, NEW k \in DOMAIN q2.incoming[d]
               PROVE  LET entry == q2.incoming[d][k] IN
                      /\ k < b2[d] /\ entry.msg \in DOMAIN q2.msgs
                      /\ q2.msgs[entry.msg].dest = d /\ StartR(q2, entry.msg) = k
                      /\ "NONE_DONE" \in entry.status /\ "IRECV_DONE" \in entry.status
                      /\ "ISEND_DONE" \in entry.status <=> StartS(q2, entry.msg) # 0
      BY DEF IncomingOK
  <2>1. CASE d = p /\ k = now
    <3>1. q2.incoming[d][k].msg = m /\ q2.incoming[d][k].status = status BY <1>9, <2>1 DEF Added
    <3> QED BY <1>5, <1>7, <1>8, <1>9, <2>1, <3>1
  <2>2. CASE ~(d = p /\ k = now)
    <3>1. k \in DOMAIN q.incoming[d] /\ q2.incoming[d][k] = q.incoming[d][k] BY <1>9, <2>2 DEF Added
    <3>2. LET entry == q.incoming[d][k] IN
          /\ k < b[d] /\ entry.msg \in DOMAIN q.msgs
          /\ q.msgs[entry.msg].dest = d /\ StartR(q, entry.msg) = k
          /\ "NONE_DONE" \in entry.status /\ "IRECV_DONE" \in entry.status
          /\ "ISEND_DONE" \in entry.status <=> StartS(q, entry.msg) # 0
          BY <3>1 DEF Paired, IncomingOK
    <3>3. k \in Nat \ {0} BY <1>11, <3>1
    <3>4. q.incoming[d][k].msg # m BY <1>13, <3>2, <3>3
    <3>5. SameStarts(q2, q, q.incoming[d][k].msg) BY <1>8, <3>2, <3>4
    <3>6. k < b2[d] BY <1>7, <3>2, <3>3
    <3> QED BY <1>8, <3>1, <3>2, <3>5, <3>6 DEF SameStarts
  <2> QED BY <2>1, <2>2
<1>16. OneSided(q2)
  <2> SUFFICES ASSUME NEW n \in DOMAIN q2.msgs
               PROVE  LET msg == q2.msgs[n] IN
                      /\ StartS(q2, n) = 0 => /\ StartR(q2, n) \in DOMAIN q2.incoming[msg.dest]
                                              /\ q2.incoming[msg.dest][StartR(q2, n)].msg = n
                      /\ StartR(q2, n) = 0 => /\ msg.src \in Procs /\ StartS(q2, n) \in DOMAIN q2.outgoing[msg.src]
                                              /\ q2.outgoing[msg.src][StartS(q2, n)].msg = n
      BY DEF OneSided
  <2>1. CASE n = m
    <3>1. now \in DOMAIN q2.incoming[p] /\ q2.incoming[p][now].msg = m BY <1>9 DEF Added
    <3>2. StartR(q2, n) # 0 BY <1>5, <1>8, <2>1
    <3> QED BY <1>8, <2>1, <3>1, <3>2
  <2>2. CASE n # m
    <3>1. n \in DOMAIN q.msgs /\ SameStarts(q2, q, n) /\ q.msgs[n].dest \in Procs BY <1>8, <1>10, <2>2, MsgsAre
    <3>2. ASSUME StartR(q2, n) = 0
          PROVE  /\ q2.msgs[n].src \in Procs /\ StartS(q2, n) \in DOMAIN q2.outgoing[q2.msgs[n].src]
                 /\ q2.outgoing[q2.msgs[n].src][StartS(q2, n)].msg = n
      <4>1. /\ StartR(q, n) = 0 /\ q.msgs[n].src \in Procs /\ StartS(q, n) \in DOMAIN q.outgoing[q.msgs[n].src]
            /\ q.outgoing[q.msgs[n].src][StartS(q, n)].msg = n
            BY <3>1, <3>2 DEF Paired, OneSided, SameStarts
      <4>2. \A s \in Procs : DOMAIN q2.outgoing[s] = DOMAIN q.outgoing[s]
                             /\ \A k \in DOMAIN q.outgoing[s] : q2.outgoing[s][k].msg = q.outgoing[s][k].msg
            BY <1>6 DEF RecvdNew, RecvdFound, Flagged
      <4> QED BY <3>1, <4>1, <4>2 DEF SameStarts
    <3>3. ASSUME StartS(q2, n) = 0
          PROVE  /\ StartR(q2, n) \in DOMAIN q2.incoming[q2.msgs[n].dest]
                 /\ q2.incoming[q2.msgs[n].dest][StartR(q2, n)].msg = n
      <4>1. /\ StartS(q, n) = 0 /\ StartR(q, n) \in DOMAIN q.incoming[q.msgs[n].dest]
            /\ q.incoming[q.msgs[n].dest][StartR(q, n)].msg = n
            BY <3>1, <3>3 DEF Paired, OneSided, SameStarts
      <4>2. /\ StartR(q, n) \in DOMAIN q2.incoming[q.msgs[n].dest]
            /\ q2.incoming[q.msgs[n].dest][StartR(q, n)].msg = n
        <5>1. CASE q.msgs[n].dest # p BY <1>9, <3>1, <4>1, <5>1 DEF Added
        <5>2. CASE q.msgs[n].dest = p
          <6>1. now # StartR(q, n)
            <7>1. StartR(q, n) < now BY <1>1, <4>1, <5>2 DEF Paired, IncomingOK
            <7> QED BY <1>5, <7>1
          <6> QED BY <1>9, <4>1, <5>2, <6>1 DEF Added
        <5> QED BY <5>1, <5>2
      <4> QED BY <3>1, <4>1, <4>2 DEF SameStarts
    <3> QED BY <3>2, <3>3
  <2> QED BY <2>1, <2>2
<1>17. Resolves(q2)
  <2> SUFFICES ASSUME NEW n \in DOMAIN q2.msgs, StartS(q2, n) # 0 \/ NoWildcard(q2.msgs[n].dest)
               PROVE  q2.msgs[n].src \in Procs /\ q2.msgs[n].tag \in Tags
      BY DEF Resolves
  <2>1. CASE n = m
    <3>1. CASE m \in DOMAIN q.msgs BY <1>13, <2>1, <3>1 DEF Paired, Resolves
    <3>2. CASE m \notin DOMAIN q.msgs BY <1>8, <1>12, <1>13, <2>1, <3>2
    <3> QED BY <3>1, <3>2
  <2>2. CASE n # m
    <3>1. n \in DOMAIN q.msgs /\ SameStarts(q2, q, n) BY <1>8, <2>2
    <3> QED BY <3>1 DEF Paired, Resolves, SameStarts
  <2> QED BY <2>1, <2>2
<1>18. InOrder(q2) BY <1>1, <1>5, <1>6, <1>12, RecvdOrder
<1>19. AllThere(q2, a, b2)
  <2> SUFFICES ASSUME NEW s \in Procs, NEW d \in Procs, NEW t \in Tags, NoWildcard(d)
               PROVE  /\ StartsOf(q2, Between(q2, s, d, t)) = SentBefore(s, a[s], d, t)
                      /\ RecvsOf(q2, Between(q2, s, d, t)) = RecvdBefore(d, b2[d], s, t)
      BY DEF AllThere
  <2>1. /\ StartsOf(q2, Between(q2, s, d, t)) = StartsOf(q, Between(q, s, d, t))
        /\ RecvsOf(q2, Between(q2, s, d, t)) = RecvsOf(q, Between(q, s, d, t)) \cup
              (IF s = src /\ d = p /\ t = tag THEN {now} ELSE {})
        BY <1>5, <1>6, <1>12, RecvdKinds
  <2>2. /\ StartsOf(q, Between(q, s, d, t)) = SentBefore(s, a[s], d, t)
        /\ RecvsOf(q, Between(q, s, d, t)) = RecvdBefore(d, b[d], s, t)
        BY DEF Paired, AllThere
  <2>3. RecvdBefore(d, b2[d], s, t) = RecvdBefore(d, b[d], s, t) \cup
              (IF s = src /\ d = p /\ t = tag THEN {now} ELSE {})
    <3>1. CASE d # p BY <1>7, <3>1
    <3>2. CASE d = p
      <4>1. RecvdBefore(d, now + 1, s, t) = RecvdBefore(d, now, s, t) \cup
               (IF now \in Recvs(d) /\ RecvSource(d, now) = <<s, t>> THEN {now} ELSE {})
            BY <1>5, RecvdBeforeNext
      <4> QED BY <1>1, <1>7, <3>2, <4>1
    <3> QED BY <3>1, <3>2
  <2> QED BY <2>1, <2>2, <2>3
<1>20. Paired(q2, a, b2) BY <1>8, <1>14, <1>15, <1>16, <1>17, <1>18, <1>19 DEF Paired
<1>21. Starts(q, r, a, b2) BY <1>2, <1>3, <1>8, <1>20 DEF Starts
<1> QED BY <1>0, <1>4, <1>21

(* An event that starts no send, or no receive, is passed.                 *)
LEMMA PassedSend ==
    ASSUME NEW q, NEW a \in [Procs -> Nat \ {0}], NEW b, Paired(q, a, b), NEW p \in Procs,
           \A x \in Procs : prog[x] \in Seq(MpiEvent), a[p] \notin Sends(p)
    PROVE  Paired(q, Next1(a, p), b)
<1>1. PICK a2 : a2 = Next1(a, p) OBVIOUS
<1>2. /\ a[p] \in Nat \ {0} /\ a2[p] = a[p] + 1
      /\ \A x \in Procs : x # p => a2[x] = a[x]
      /\ \A x \in Procs, i \in Nat : i < a[x] => i < a2[x]
      BY <1>1, NextIs
<1>3. \A x \in Procs : \A k \in DOMAIN q.outgoing[x] : k \in Nat
  <2>1. \A x \in Procs : q.outgoing[x] \in PendingType BY QIs DEF Paired
  <2> QED BY <2>1, PendingIs
<1>4. OutgoingOK(q, a2) BY <1>2, <1>3 DEF Paired, OutgoingOK
<1>5. ASSUME NEW s \in Procs, NEW d, NEW t PROVE SentBefore(s, a2[s], d, t) = SentBefore(s, a[s], d, t)
  <2>1. CASE s # p BY <1>2, <2>1
  <2>2. CASE s = p
    <3>1. SentBefore(p, a[p] + 1, d, t) = SentBefore(p, a[p], d, t) \cup
              (IF a[p] \in Sends(p) /\ Params(p, a[p]).peer = d /\ Params(p, a[p]).tag = t THEN {a[p]} ELSE {})
          BY <1>2, SentBeforeNext
    <3> QED BY <1>2, <2>2, <3>1
  <2> QED BY <2>1, <2>2
<1>6. AllThere(q, a2, b) BY <1>5 DEF Paired, AllThere
<1> QED BY <1>1, <1>4, <1>6 DEF Paired

(* An event that starts no receive is passed by the receiving side.        *)
LEMMA PassedRecv ==
    ASSUME NEW q, NEW a, NEW b \in [Procs -> Nat \ {0}], Paired(q, a, b), NEW p \in Procs,
           \A x \in Procs : prog[x] \in Seq(MpiEvent), b[p] \notin Recvs(p)
    PROVE  Paired(q, a, Next1(b, p))
<1>1. PICK b2 : b2 = Next1(b, p) OBVIOUS
<1>2. /\ b[p] \in Nat \ {0} /\ b2[p] = b[p] + 1
      /\ \A x \in Procs : x # p => b2[x] = b[x]
      /\ \A x \in Procs, i \in Nat : i < b[x] => i < b2[x]
      BY <1>1, NextIs
<1>3. \A x \in Procs : \A k \in DOMAIN q.incoming[x] : k \in Nat
  <2>1. \A x \in Procs : q.incoming[x] \in PendingType BY QIs DEF Paired
  <2> QED BY <2>1, PendingIs
<1>4. IncomingOK(q, b2) BY <1>2, <1>3 DEF Paired, IncomingOK
<1>5. ASSUME NEW d \in Procs, NEW s, NEW t PROVE RecvdBefore(d, b2[d], s, t) = RecvdBefore(d, b[d], s, t)
  <2>1. CASE d # p BY <1>2, <2>1
  <2>2. CASE d = p
    <3>1. RecvdBefore(p, b[p] + 1, s, t) = RecvdBefore(p, b[p], s, t) \cup
              (IF b[p] \in Recvs(p) /\ RecvSource(p, b[p]) = <<s, t>> THEN {b[p]} ELSE {})
          BY <1>2, RecvdBeforeNext
    <3> QED BY <1>2, <2>2, <3>1
  <2> QED BY <2>1, <2>2
<1>6. AllThere(q, a, b2) BY <1>5 DEF Paired, AllThere
<1> QED BY <1>1, <1>4, <1>6 DEF Paired

ReqType == [id : Nat, type : {"send", "recv"}, msg : Nat, persistent : BOOLEAN, peer : Peers, tag : AnyTags]
RqType == UNION {[D -> ReqType] : D \in SUBSET Ptrs}

(* The last event before n that makes a persistent request at an address.  *)
InitsBefore(p, n, r) ==
    {j \in 1 .. n - 1 : prog[p][j].op \in {"send_init", "recv_init"} /\ prog[p][j].reqs[1] = r}
LastInit(p, n, r) == prog[p][Max(InitsBefore(p, n, r))]

SaysInit(req, e) ==
    /\ e.op = (IF req.type = "send" THEN "send_init" ELSE "recv_init")
    /\ e.peer = req.peer /\ e.tag = req.tag
    /\ req.type = "send" => req.peer \in Procs /\ req.tag \in Tags
MsgsOK(rq, q) == \A r \in DOMAIN rq : rq[r].msg # NoMsg => rq[r].msg \in DOMAIN q.msgs
PersistentOK(rq, p, n) == \A r \in DOMAIN rq : rq[r].persistent => SaysInit(rq[r], LastInit(p, n, r))
RqOK(rq, q, p, n) == rq \in RqType /\ MsgsOK(rq, q) /\ PersistentOK(rq, p, n)

Good(q, rqs, a) ==
    /\ a \in [Procs -> Nat \ {0}] /\ rqs \in [Procs -> RqType]
    /\ Paired(q, a, a)
    /\ \A p \in Procs : RqOK(rqs[p], q, p, a[p])
PInv == prog \in Programs /\ Good(p2p, reqs, at)

(* The events of a program, and what it says of its calls.                 *)
LEMMA ProgramIs ==
    ASSUME prog \in Programs, NEW p \in Procs
    PROVE  /\ prog[p] \in Seq(MpiEvent)
           /\ \A i \in DOMAIN prog[p] :
                 /\ i \in Nat \ {0} /\ prog[p][i] \in MpiEvent /\ Named(prog[p][i]) /\ HasRequest(prog[p][i])
                 /\ prog[p][i].peer \in Peers /\ prog[p][i].tag \in AnyTags
                 /\ prog[p][i].src \in Peers /\ prog[p][i].stag \in AnyTags
                 /\ prog[p][i].reqs \in Seq(Ptrs)
<1>1. prog \in [Procs -> Seq(MpiEvent)] BY ProgramsAssumption
<1>2. prog[p] \in Seq(MpiEvent) BY <1>1
<1>3. \A i \in DOMAIN prog[p] : prog[p][i] \in MpiEvent /\ i \in Nat \ {0} BY <1>2
<1>4. \A i \in DOMAIN prog[p] : Named(prog[p][i]) /\ HasRequest(prog[p][i]) BY CallsAssumption
<1> QED BY <1>2, <1>3, <1>4 DEF MpiEvent, Peers, AnyTags

(* What the requests of a process are made of.                             *)
LEMMA RqIs ==
    ASSUME NEW rq \in RqType
    PROVE  /\ DOMAIN rq \in SUBSET Ptrs /\ rq \in [DOMAIN rq -> ReqType]
           /\ \A r \in DOMAIN rq : rq[r] \in ReqType /\ rq[r].msg \in Nat /\ rq[r].type \in {"send", "recv"}
                                   /\ rq[r].id \in Nat /\ rq[r].peer \in Peers /\ rq[r].tag \in AnyTags
<1>1. PICK D \in SUBSET Ptrs : rq \in [D -> ReqType] BY DEF RqType
<1>2. DOMAIN rq = D BY <1>1
<1>3. \A r \in DOMAIN rq : rq[r] \in ReqType BY <1>1
<1> QED BY <1>1, <1>2, <1>3 DEF ReqType

(* A function from addresses to requests is what a process records.        *)
LEMMA RqMade ==
    ASSUME NEW D \in SUBSET Ptrs, NEW rq \in [D -> ReqType]
    PROVE  rq \in RqType
BY DEF RqType

(* An event that makes no persistent request is passed.                    *)
LEMMA RqPassed ==
    ASSUME NEW rq, NEW q, NEW q2, NEW p \in Procs, NEW n \in Nat \ {0}, RqOK(rq, q, p, n),
           DOMAIN q.msgs \subseteq DOMAIN q2.msgs, prog[p][n].op \notin {"send_init", "recv_init"}
    PROVE  RqOK(rq, q2, p, n + 1)
<1>1. ASSUME NEW r PROVE LastInit(p, n + 1, r) = LastInit(p, n, r)
  <2>1. InitsBefore(p, n + 1, r) = InitsBefore(p, n, r) BY DEF InitsBefore
  <2> QED BY <2>1 DEF LastInit
<1> QED BY <1>1 DEF RqOK, MsgsOK, PersistentOK

(* A request gets the message of its new communication, or none.           *)
LEMMA RqWithMsg ==
    ASSUME NEW rq, NEW q, NEW p, NEW n, RqOK(rq, q, p, n), NEW r \in DOMAIN rq, NEW m \in Nat,
           m # NoMsg => m \in DOMAIN q.msgs
    PROVE  RqOK([rq EXCEPT ![r].msg = m], q, p, n)
<1>1. PICK new : new = [rq[r] EXCEPT !.msg = m] OBVIOUS
<1>2. PICK rq2 : rq2 = [rq EXCEPT ![r].msg = m] OBVIOUS
<1>3. rq \in RqType /\ DOMAIN rq \in SUBSET Ptrs /\ rq \in [DOMAIN rq -> ReqType] /\ rq[r] \in ReqType
      BY RqIs DEF RqOK
<1>4. /\ new \in ReqType /\ new.msg = m /\ new.type = rq[r].type /\ new.persistent = rq[r].persistent
      /\ new.peer = rq[r].peer /\ new.tag = rq[r].tag
      BY <1>1, <1>3 DEF ReqType
<1>5. rq2 = [rq EXCEPT ![r] = new] BY <1>1, <1>2
<1>6. /\ rq2 \in [DOMAIN rq -> ReqType] /\ DOMAIN rq2 = DOMAIN rq /\ rq2[r] = new
      /\ \A x \in DOMAIN rq : x # r => rq2[x] = rq[x]
      BY <1>3, <1>4, <1>5
<1>7. rq2 \in RqType BY <1>3, <1>6, RqMade
<1>8. MsgsOK(rq2, q) BY <1>4, <1>6 DEF RqOK, MsgsOK
<1>9. PersistentOK(rq2, p, n)
  <2> SUFFICES ASSUME NEW x \in DOMAIN rq2, rq2[x].persistent PROVE SaysInit(rq2[x], LastInit(p, n, x))
      BY DEF PersistentOK
  <2>1. rq[x].persistent /\ x \in DOMAIN rq BY <1>4, <1>6
  <2>2. SaysInit(rq[x], LastInit(p, n, x)) BY <2>1 DEF RqOK, PersistentOK
  <2> QED BY <1>4, <1>6, <2>2 DEF SaysInit
<1> QED BY <1>2, <1>7, <1>8, <1>9 DEF RqOK

(* The state after an event of p that changes the requests of p.           *)
LEMMA GoodAfter ==
    ASSUME NEW q, NEW rqs, NEW a, Good(q, rqs, a), NEW p \in Procs, NEW q2, NEW rq2,
           Paired(q2, Next1(a, p), Next1(a, p)), DOMAIN q.msgs \subseteq DOMAIN q2.msgs,
           RqOK(rq2, q2, p, a[p] + 1)
    PROVE  Good(q2, [rqs EXCEPT ![p] = rq2], Next1(a, p))
<1>1. PICK a2 : a2 = Next1(a, p) OBVIOUS
<1>2. PICK rqs2 : rqs2 = [rqs EXCEPT ![p] = rq2] OBVIOUS
<1>3. /\ a2 \in [Procs -> Nat \ {0}] /\ a2[p] = a[p] + 1
      /\ \A r \in Procs : r # p => a2[r] = a[r]
      BY <1>1, NextIs DEF Good
<1>4. rq2 \in RqType /\ rqs \in [Procs -> RqType] BY DEF RqOK, Good
<1>5. rqs2 \in [Procs -> RqType] /\ rqs2[p] = rq2 /\ \A x \in Procs : x # p => rqs2[x] = rqs[x]
      BY <1>2, <1>4
<1>6. ASSUME NEW x \in Procs PROVE RqOK(rqs2[x], q2, x, a2[x])
  <2>1. CASE x = p BY <1>3, <1>5, <2>1
  <2>2. CASE x # p
    <3>1. RqOK(rqs[x], q, x, a[x]) BY DEF Good
    <3>2. RqOK(rqs[x], q2, x, a[x]) BY <3>1 DEF RqOK, MsgsOK
    <3> QED BY <1>3, <1>5, <2>2, <3>2
  <2> QED BY <2>1, <2>2
<1> QED BY <1>1, <1>2, <1>3, <1>5, <1>6 DEF Good

(* The state after an event of p that changes no request.                  *)
LEMMA GoodPassed ==
    ASSUME NEW q, NEW rqs, NEW a, Good(q, rqs, a), NEW p \in Procs, NEW q2,
           Paired(q2, Next1(a, p), Next1(a, p)), DOMAIN q.msgs \subseteq DOMAIN q2.msgs,
           prog[p][a[p]].op \notin {"send_init", "recv_init"}
    PROVE  Good(q2, rqs, Next1(a, p))
<1>1. RqOK(rqs[p], q, p, a[p]) /\ a[p] \in Nat \ {0} BY DEF Good
<1>2. RqOK(rqs[p], q2, p, a[p] + 1) BY <1>1, RqPassed
<1>3. Good(q2, [rqs EXCEPT ![p] = rqs[p]], Next1(a, p)) BY <1>2, GoodAfter
<1>4. [rqs EXCEPT ![p] = rqs[p]] = rqs BY DEF Good
<1> QED BY <1>3, <1>4

-----------------------------------------------------------------------------
(* Which events start what. *)
StartOps == {"start_send", "start_sendrecv", "isend", "start_recv", "irecv", "start"}

(* The other events start no send and no receive.                          *)
LEMMA NoStart ==
    ASSUME NEW p, NEW n, prog[p][n].op \notin StartOps
    PROVE  n \notin Sends(p) /\ n \notin Recvs(p)
BY DEF StartOps, Sends, Recvs

(* An event that starts a send is one of the sends of its process.         *)
LEMMA StartIsSend ==
    ASSUME NEW p, NEW n \in DOMAIN prog[p], prog[p][n].op \in {"start_send", "start_sendrecv", "isend"}
    PROVE  /\ n \in Sends(p) /\ Params(p, n) = prog[p][n]
           /\ prog[p][n].op # "start_sendrecv" => n \notin Recvs(p)
BY DEF Sends, Recvs, Params

(* An event that starts a receive is one of its receives.                  *)
LEMMA StartIsRecv ==
    ASSUME NEW p, NEW n \in DOMAIN prog[p], prog[p][n].op \in {"start_recv", "start_sendrecv", "irecv"}
    PROVE  /\ n \in Recvs(p)
           /\ prog[p][n].op # "start_sendrecv" => n \notin Sends(p) /\ RecvSource(p, n) = <<prog[p][n].peer, prog[p][n].tag>>
           /\ prog[p][n].op = "start_sendrecv" => RecvSource(p, n) = <<prog[p][n].src, prog[p][n].stag>>
BY DEF Sends, Recvs, Params, RecvSource

(* The start of a persistent request is a send or a receive, as the last   *)
(* init of its address said.                                               *)
LEMMA StartIsInit ==
    ASSUME NEW p, NEW n \in DOMAIN prog[p], prog[p][n].op = "start", NEW r, r = prog[p][n].reqs[1],
           NEW req, SaysInit(req, LastInit(p, n, r)), req.type \in {"send", "recv"}
    PROVE  /\ req.type = "send" => /\ n \in Sends(p) /\ n \notin Recvs(p)
                                   /\ Params(p, n).peer = req.peer /\ Params(p, n).tag = req.tag
                                   /\ req.peer \in Procs /\ req.tag \in Tags
           /\ req.type = "recv" => /\ n \in Recvs(p) /\ n \notin Sends(p)
                                   /\ RecvSource(p, n) = <<req.peer, req.tag>>
<1>1. InitOf(p, n) = LastInit(p, n, r) BY DEF InitOf, LastInit, InitsBefore
<1>2. Params(p, n) = LastInit(p, n, r) BY <1>1 DEF Params
<1>3. CASE req.type = "send"
  <2>1. InitOf(p, n).op = "send_init" BY <1>1, <1>3 DEF SaysInit
  <2>2. n \in Sends(p) /\ n \notin Recvs(p) BY <2>1 DEF Sends, Recvs
  <2> QED BY <1>2, <1>3, <2>2 DEF SaysInit
<1>4. CASE req.type = "recv"
  <2>1. InitOf(p, n).op = "recv_init" BY <1>1, <1>4 DEF SaysInit
  <2>2. n \notin Sends(p) /\ n \in Recvs(p) BY <2>1 DEF Sends, Recvs
  <2>3. RecvSource(p, n) = <<req.peer, req.tag>> BY <1>2, <1>4 DEF SaysInit, RecvSource
  <2> QED BY <1>4, <2>2, <2>3
<1> QED BY <1>3, <1>4

(* An event that starts nothing is passed by both sides.                   *)
LEMMA PassedBoth ==
    ASSUME NEW q, NEW a \in [Procs -> Nat \ {0}], Paired(q, a, a), NEW p \in Procs,
           \A x \in Procs : prog[x] \in Seq(MpiEvent), prog[p][a[p]].op \notin StartOps
    PROVE  Paired(q, Next1(a, p), Next1(a, p))
<1>1. a[p] \notin Sends(p) /\ a[p] \notin Recvs(p) BY NoStart
<1>2. PICK a2 : a2 = Next1(a, p) OBVIOUS
<1>3. Paired(q, a2, a) BY <1>1, <1>2, PassedSend
<1>4. Paired(q, a2, a2) BY <1>1, <1>2, <1>3, PassedRecv
<1> QED BY <1>2, <1>4

(* Setting the time of a wait, or of an end, keeps the messages paired.    *)
LEMMA SetTimePairs ==
    ASSUME NEW q, NEW a, NEW b, Paired(q, a, b), NEW m \in DOMAIN q.msgs, NEW now \in Nat,
           NEW time \in TimeIds \ {"start_send", "start_recv"}
    PROVE  /\ Paired(SetTime(q, m, time, now), a, b) /\ DOMAIN SetTime(q, m, time, now).msgs = DOMAIN q.msgs
           /\ Paired(SetTimeOnce(q, m, time, now), a, b) /\ DOMAIN SetTimeOnce(q, m, time, now).msgs = DOMAIN q.msgs
<1>1. q \in QType BY DEF Paired
<1>2. StartsKept(SetTime(q, m, time, now), q) /\ StartsKept(SetTimeOnce(q, m, time, now), q) BY <1>1, SetTimeKeeps
<1> QED BY <1>2, PairedKept DEF StartsKept

(* The invariant after a step, from what the step makes of the state.      *)
LEMMA PInvKept ==
    ASSUME PInv, prog' = prog, NEW q, NEW rqs, NEW a, Good(q, rqs, a), p2p' = q, reqs' = rqs, at' = a
    PROVE  PInv'
<1>1. \A x, i : InitOf(x, i)' = InitOf(x, i) BY DEF InitOf
<1>2. \A x, i : Params(x, i)' = Params(x, i) BY <1>1 DEF Params
<1>3. \A x : Sends(x)' = Sends(x) /\ Recvs(x)' = Recvs(x) BY <1>1 DEF Sends, Recvs
<1>4. \A x, i : RecvSource(x, i)' = RecvSource(x, i) BY <1>2 DEF RecvSource
<1>5. \A x : NoWildcard(x)' <=> NoWildcard(x) BY <1>3, <1>4 DEF NoWildcard
<1>6. \A s, n, d, t : SentBefore(s, n, d, t)' = SentBefore(s, n, d, t) BY <1>2, <1>3 DEF SentBefore
<1>7. \A s, n, d, t : RecvdBefore(d, n, s, t)' = RecvdBefore(d, n, s, t) BY <1>3, <1>4 DEF RecvdBefore
<1>8. \A x, n, r : LastInit(x, n, r)' = LastInit(x, n, r) BY DEF LastInit, InitsBefore
<1>9. Resolves(p2p)' BY <1>5 DEF Good, Paired, Resolves
<1>10. InOrder(p2p)' BY <1>5 DEF Good, Paired, InOrder
<1>11. AllThere(p2p, at, at)' BY <1>5, <1>6, <1>7 DEF Good, Paired, AllThere
<1>12. Paired(p2p, at, at)' BY <1>9, <1>10, <1>11 DEF Good, Paired
<1>13. ASSUME NEW x \in Procs PROVE RqOK(reqs[x], p2p, x, at[x])'
  <2>1. RqOK(rqs[x], q, x, a[x]) BY DEF Good
  <2> QED BY <1>8, <2>1 DEF RqOK, PersistentOK, MsgsOK
<1>14. at' \in [Procs -> Nat \ {0}] /\ reqs' \in [Procs -> RqType] BY DEF Good
<1>15. Good(p2p, reqs, at)' BY <1>12, <1>13, <1>14 DEF Good
<1> QED BY <1>15 DEF PInv

(* What the current event of a process is.                                 *)
LEMMA EventIs ==
    ASSUME PInv, NEW p \in Procs, NEW op, Current(p, op)
    PROVE  /\ at[p] \in DOMAIN prog[p] /\ at[p] \in Nat \ {0} /\ prog[p][at[p]].op = op /\ Ev(p) = prog[p][at[p]]
           /\ \A x \in Procs : prog[x] \in Seq(MpiEvent)
           /\ Ev(p).peer \in Peers /\ Ev(p).tag \in AnyTags /\ Ev(p).src \in Peers /\ Ev(p).stag \in AnyTags
           /\ Ev(p).reqs \in Seq(Ptrs) /\ Named(Ev(p)) /\ HasRequest(Ev(p))
<1>1. at[p] \in Nat \ {0} /\ at[p] <= Len(prog[p]) BY DEF PInv, Good, Current
<1>2. prog[p] \in Seq(MpiEvent) BY ProgramIs DEF PInv
<1>3. at[p] \in DOMAIN prog[p] BY <1>1, <1>2
<1>4. \A x \in Procs : prog[x] \in Seq(MpiEvent) BY ProgramIs DEF PInv
<1>5. prog[p][at[p]].op = op BY DEF Current, Ev
<1> QED BY <1>1, <1>3, <1>4, <1>5, ProgramIs DEF PInv, Ev

(* The numbers for none, and the times that are no starts.                 *)
LEMMA NatsAre ==
    /\ NoReq \in Nat /\ NoMsg \in Nat
    /\ TimeIds \ {"start_send", "start_recv"} = {"start_swait", "stop_send", "start_rwait", "stop_recv"}
BY DEF NoReq, NoMsg, TimeIds

(* A blocking send starts.                                                 *)
LEMMA StartSendStep ==
    ASSUME PInv, NEW p \in Procs, HandleStartSend(p)
    PROVE  PInv'
<1>1. Current(p, "start_send") BY DEF HandleStartSend
<1>2. PICK now : now = at[p] OBVIOUS
<1>3. PICK dest \in Procs, tag \in Tags : dest = Ev(p).peer /\ tag = Ev(p).tag
      BY <1>1, EventIs DEF Named, Current
<1>4. PICK r : r = StartSend(p2p, p, dest, tag, NoReq, at[p]) OBVIOUS
<1>5. PICK q : q = SetTimeOnce(r.q, r.msg, "start_swait", now) OBVIOUS
<1>6. p2p' = q BY <1>2, <1>3, <1>4, <1>5 DEF HandleStartSend
<1>7. Paired(p2p, at, at) /\ at \in [Procs -> Nat \ {0}] /\ now \in Nat BY <1>2 DEF PInv, Good
<1>8. \A x \in Procs : prog[x] \in Seq(MpiEvent) BY <1>1, EventIs
<1>9. at[p] \in Sends(p) /\ at[p] \notin Recvs(p) /\ Params(p, at[p]) = Ev(p) BY <1>1, EventIs, StartIsSend
<1>17. SendsTo(p, at[p], dest, tag) /\ NoReq \in Nat BY <1>3, <1>9, NatsAre DEF SendsTo
<1>10. PICK a : a = Next1(at, p) OBVIOUS
<1>11. Paired(r.q, a, at) /\ r.msg \in DOMAIN r.q.msgs /\ DOMAIN p2p.msgs \subseteq DOMAIN r.q.msgs
       BY <1>3, <1>4, <1>7, <1>8, <1>9, <1>10, <1>17, StartSendPairs DEF Starts
<1>12. Paired(r.q, a, a) BY <1>7, <1>8, <1>9, <1>10, <1>11, PassedRecv
<1>13. Paired(q, a, a) /\ DOMAIN p2p.msgs \subseteq DOMAIN q.msgs
       BY <1>5, <1>7, <1>11, <1>12, NatsAre, SetTimePairs
<1>14. prog[p][at[p]].op \notin {"send_init", "recv_init"} BY <1>1, EventIs
<1>15. Good(q, reqs, a) BY <1>10, <1>13, <1>14, GoodPassed DEF PInv
<1>16. at' = a /\ prog' = prog /\ reqs' = reqs BY <1>10 DEF HandleStartSend, Advance, Next1
<1> QED BY <1>6, <1>15, <1>16, PInvKept

(* A blocking receive starts.                                              *)
LEMMA StartRecvStep ==
    ASSUME PInv, NEW p \in Procs, HandleStartRecv(p)
    PROVE  PInv'
<1>1. Current(p, "start_recv") BY DEF HandleStartRecv
<1>2. PICK now : now = at[p] OBVIOUS
<1>3. PICK src \in Peers, tag \in AnyTags : src = Ev(p).peer /\ tag = Ev(p).tag BY <1>1, EventIs
<1>4. PICK r : r = StartRecv(p2p, src, p, tag, NoReq, at[p]) OBVIOUS
<1>5. PICK q : q = SetTimeOnce(r.q, r.msg, "start_rwait", now) OBVIOUS
<1>6. p2p' = q BY <1>2, <1>3, <1>4, <1>5 DEF HandleStartRecv
<1>7. Paired(p2p, at, at) /\ at \in [Procs -> Nat \ {0}] /\ now \in Nat BY <1>2 DEF PInv, Good
<1>8. \A x \in Procs : prog[x] \in Seq(MpiEvent) BY <1>1, EventIs
<1>9. at[p] \in Recvs(p) /\ at[p] \notin Sends(p) /\ RecvSource(p, at[p]) = <<src, tag>>
      BY <1>1, <1>3, EventIs, StartIsRecv
<1>10. PICK a : a = Next1(at, p) OBVIOUS
<1>11. Paired(r.q, at, a) /\ r.msg \in DOMAIN r.q.msgs /\ DOMAIN p2p.msgs \subseteq DOMAIN r.q.msgs
       BY <1>4, <1>7, <1>8, <1>9, <1>10, NatsAre, StartRecvPairs DEF Starts
<1>12. Paired(r.q, a, a) BY <1>7, <1>8, <1>9, <1>10, <1>11, PassedSend
<1>13. Paired(q, a, a) /\ DOMAIN p2p.msgs \subseteq DOMAIN q.msgs
       BY <1>5, <1>7, <1>11, <1>12, NatsAre, SetTimePairs
<1>14. prog[p][at[p]].op \notin {"send_init", "recv_init"} BY <1>1, EventIs
<1>15. Good(q, reqs, a) BY <1>10, <1>13, <1>14, GoodPassed DEF PInv
<1>16. at' = a /\ prog' = prog /\ reqs' = reqs BY <1>10 DEF HandleStartRecv, Advance, Next1
<1> QED BY <1>6, <1>15, <1>16, PInvKept

(* A sendrecv starts: a send, then a receive.                              *)
LEMMA StartSendrecvStep ==
    ASSUME PInv, NEW p \in Procs, HandleStartSendrecv(p)
    PROVE  PInv'
<1>1. Current(p, "start_sendrecv") BY DEF HandleStartSendrecv
<1>2. PICK now : now = at[p] OBVIOUS
<1>3. PICK dest \in Procs, tag \in Tags : dest = Ev(p).peer /\ tag = Ev(p).tag
      BY <1>1, EventIs DEF Named, Current
<1>4. PICK src \in Peers, stag \in AnyTags : src = Ev(p).src /\ stag = Ev(p).stag BY <1>1, EventIs
<1>5. PICK s : s = StartSend(p2p, p, dest, tag, NoReq, at[p]) OBVIOUS
<1>6. PICK q1 : q1 = SetTimeOnce(s.q, s.msg, "start_swait", now) OBVIOUS
<1>7. PICK r : r = StartRecv(q1, src, p, stag, NoReq, at[p]) OBVIOUS
<1>8. PICK q : q = SetTimeOnce(r.q, r.msg, "start_rwait", now) OBVIOUS
<1>9. p2p' = q BY <1>2, <1>3, <1>4, <1>5, <1>6, <1>7, <1>8 DEF HandleStartSendrecv
<1>10. Paired(p2p, at, at) /\ at \in [Procs -> Nat \ {0}] /\ now \in Nat BY <1>2 DEF PInv, Good
<1>11. \A x \in Procs : prog[x] \in Seq(MpiEvent) BY <1>1, EventIs
<1>12. at[p] \in Sends(p) /\ Params(p, at[p]) = Ev(p) BY <1>1, EventIs, StartIsSend
<1>22. SendsTo(p, at[p], dest, tag) /\ NoReq \in Nat BY <1>3, <1>12, NatsAre DEF SendsTo
<1>13. at[p] \in Recvs(p) /\ RecvSource(p, at[p]) = <<src, stag>> BY <1>1, <1>4, EventIs, StartIsRecv
<1>14. PICK a : a = Next1(at, p) OBVIOUS
<1>15. Paired(s.q, a, at) /\ s.msg \in DOMAIN s.q.msgs /\ DOMAIN p2p.msgs \subseteq DOMAIN s.q.msgs
       BY <1>3, <1>5, <1>10, <1>11, <1>12, <1>14, <1>22, StartSendPairs DEF Starts
<1>16. Paired(q1, a, at) /\ DOMAIN p2p.msgs \subseteq DOMAIN q1.msgs
       BY <1>6, <1>10, <1>15, NatsAre, SetTimePairs
<1>17. Paired(r.q, a, a) /\ r.msg \in DOMAIN r.q.msgs /\ DOMAIN q1.msgs \subseteq DOMAIN r.q.msgs
       BY <1>7, <1>10, <1>11, <1>13, <1>14, <1>16, NatsAre, StartRecvPairs DEF Starts
<1>18. Paired(q, a, a) /\ DOMAIN p2p.msgs \subseteq DOMAIN q.msgs
       BY <1>8, <1>10, <1>16, <1>17, NatsAre, SetTimePairs
<1>19. prog[p][at[p]].op \notin {"send_init", "recv_init"} BY <1>1, EventIs
<1>20. Good(q, reqs, a) BY <1>14, <1>18, <1>19, GoodPassed DEF PInv
<1>21. at' = a /\ prog' = prog /\ reqs' = reqs BY <1>14 DEF HandleStartSendrecv, Advance, Next1
<1> QED BY <1>9, <1>20, <1>21, PInvKept

(* A pending send names its destination.                                   *)
LEMMA EndingSendTo ==
    ASSUME NEW q, NEW a, NEW b, Paired(q, a, b), NEW p \in Procs, NEW dest, NEW tag,
           EndingSend(q, p, dest, tag) # None
    PROVE  dest \in Procs
<1>1. PICK e : e = EndingSend(q, p, dest, tag) OBVIOUS
<1>2. q \in QType /\ p # Wild /\ p \in Peers BY WildIs DEF Paired, Peers
<1>3. e.proc = p /\ Found(q, q.outgoing[p], e, p, dest, tag, "ISEND_DONE", "SWAIT_DONE")
  <2>1. e = FindIsend(q, p, dest, tag, "ISEND_DONE", "SWAIT_DONE") BY <1>1 DEF EndingSend
  <2> QED BY <1>1, <1>2, <2>1, FindIsendIs
<1>4. PICK m : m = q.outgoing[p][e.i].msg OBVIOUS
<1>5. m \in DOMAIN q.msgs /\ q.msgs[m].dest = dest BY <1>3, <1>4 DEF Found, Compatible, Paired, OutgoingOK
<1> QED BY <1>2, <1>5, MsgsAre

Stops(q, q2, a, b) == Paired(q2, a, b) /\ DOMAIN q2.msgs = DOMAIN q.msgs

(* The end of a send keeps the messages paired.                            *)
LEMMA StopSendPairs ==
    ASSUME NEW q, NEW a, NEW b, Paired(q, a, b), NEW p \in Procs, NEW dest, NEW tag, NEW now \in Nat,
           EndingSend(q, p, dest, tag) # None
    PROVE  Stops(q, StopSend(q, p, dest, tag, now), a, b)
<1>1. dest \in Procs BY EndingSendTo
<1>2. StartsKept(StopSend(q, p, dest, tag, now), q) BY <1>1, StopSendKeeps
<1> QED BY <1>2, PairedKept DEF StartsKept, Stops

(* The end of a receive keeps the messages paired.                         *)
LEMMA StopRecvPairs ==
    ASSUME NEW q, NEW a, NEW b, Paired(q, a, b), NEW p \in Procs, NEW src \in Peers, NEW tag, NEW now \in Nat,
           EndingRecv(q, src, p, tag) # None
    PROVE  Stops(q, StopRecv(q, src, p, tag, now), a, b)
<1>1. StartsKept(StopRecv(q, src, p, tag, now), q) BY StopRecvKeeps
<1> QED BY <1>1, PairedKept DEF StartsKept, Stops

(* An event that starts nothing and changes no request. *)
LEMMA PassedStep ==
    ASSUME PInv, NEW p \in Procs, NEW op, Current(p, op), op \notin StartOps \cup {"send_init", "recv_init"},
           NEW q, Stops(p2p, q, at, at), p2p' = q, Advance(p), reqs' = reqs
    PROVE  PInv'
<1>1. PICK a : a = Next1(at, p) OBVIOUS
<1>2. Paired(q, at, at) /\ DOMAIN q.msgs = DOMAIN p2p.msgs BY DEF Stops
<1>3. /\ at \in [Procs -> Nat \ {0}] /\ \A x \in Procs : prog[x] \in Seq(MpiEvent)
      /\ prog[p][at[p]].op = op
      BY EventIs DEF PInv, Good
<1>4. Paired(q, a, a) BY <1>1, <1>2, <1>3, PassedBoth
<1>5. Good(q, reqs, a) BY <1>1, <1>2, <1>3, <1>4, GoodPassed DEF PInv
<1>6. at' = a /\ prog' = prog BY <1>1 DEF Advance, Next1
<1> QED BY <1>5, <1>6, PInvKept

(* In a state of the invariant the messages are paired.                    *)
LEMMA PairedNow == ASSUME PInv PROVE Paired(p2p, at, at) /\ \A p \in Procs : at[p] \in Nat /\ at[p] \in Nat \ {0}
BY DEF PInv, Good

(* A blocking send ends.                                                   *)
LEMMA StopSendStep ==
    ASSUME PInv, NEW p \in Procs, HandleStopSend(p)
    PROVE  PInv'
<1>1. Current(p, "stop_send") /\ Advance(p) /\ reqs' = reqs BY DEF HandleStopSend
<1>2. PICK q : q = StopSend(p2p, p, Ev(p).peer, Ev(p).tag, at[p]) OBVIOUS
<1>3. p2p' = q /\ EndingSend(p2p, p, Ev(p).peer, Ev(p).tag) # None BY <1>2 DEF HandleStopSend
<1>4. Stops(p2p, q, at, at) BY <1>2, <1>3, PairedNow, StopSendPairs
<1>5. "stop_send" \notin StartOps \cup {"send_init", "recv_init"} BY DEF StartOps
<1> QED BY <1>1, <1>3, <1>4, <1>5, PassedStep

(* A blocking receive ends.                                                *)
LEMMA StopRecvStep ==
    ASSUME PInv, NEW p \in Procs, HandleStopRecv(p)
    PROVE  PInv'
<1>1. Current(p, "stop_recv") /\ Advance(p) /\ reqs' = reqs BY DEF HandleStopRecv
<1>2. PICK q : q = StopRecv(p2p, Ev(p).peer, p, Ev(p).tag, at[p]) OBVIOUS
<1>3. p2p' = q /\ EndingRecv(p2p, Ev(p).peer, p, Ev(p).tag) # None BY <1>2 DEF HandleStopRecv, CanStopRecv
<1>4. Ev(p).peer \in Peers BY <1>1, EventIs
<1>5. Stops(p2p, q, at, at) BY <1>2, <1>3, <1>4, PairedNow, StopRecvPairs
<1>6. "stop_recv" \notin StartOps \cup {"send_init", "recv_init"} BY DEF StartOps
<1> QED BY <1>1, <1>3, <1>5, <1>6, PassedStep

(* A sendrecv ends: its receive, then its send.                            *)
LEMMA StopSendrecvStep ==
    ASSUME PInv, NEW p \in Procs, HandleStopSendrecv(p)
    PROVE  PInv'
<1>1. Current(p, "stop_sendrecv") /\ Advance(p) /\ reqs' = reqs BY DEF HandleStopSendrecv
<1>2. PICK q1 : q1 = StopRecv(p2p, Ev(p).src, p, Ev(p).stag, at[p]) OBVIOUS
<1>3. PICK q : q = StopSend(q1, p, Ev(p).peer, Ev(p).tag, at[p]) OBVIOUS
<1>4. /\ p2p' = q /\ EndingSend(q1, p, Ev(p).peer, Ev(p).tag) # None
      /\ EndingRecv(p2p, Ev(p).src, p, Ev(p).stag) # None
      BY <1>2, <1>3 DEF HandleStopSendrecv, CanStopRecv
<1>5. Ev(p).src \in Peers BY <1>1, EventIs
<1>6. Stops(p2p, q1, at, at) BY <1>2, <1>4, <1>5, PairedNow, StopRecvPairs
<1>7. Paired(q1, at, at) BY <1>6 DEF Stops
<1>8. Stops(q1, q, at, at) BY <1>3, <1>4, <1>7, PairedNow, StopSendPairs
<1>9. Stops(p2p, q, at, at) BY <1>6, <1>8 DEF Stops
<1>10. "stop_sendrecv" \notin StartOps \cup {"send_init", "recv_init"} BY DEF StartOps
<1> QED BY <1>1, <1>4, <1>9, <1>10, PassedStep

-----------------------------------------------------------------------------
(* Requests. *)

Renewed(rq, ptr, new) == [r \in DOMAIN rq \cup {ptr} |-> IF r # ptr THEN rq[r] ELSE new]

(* A new request hides the older one of its address.                       *)
LEMMA RqRenewed ==
    ASSUME NEW rq, NEW q, NEW p \in Procs, NEW n \in Nat \ {0}, RqOK(rq, q, p, n), NEW q2,
           DOMAIN q.msgs \subseteq DOMAIN q2.msgs, NEW new \in ReqType, NEW ptr \in Ptrs,
           new.msg # NoMsg => new.msg \in DOMAIN q2.msgs,
           prog[p][n].reqs[1] = ptr,
           new.persistent => prog[p][n].op \in {"send_init", "recv_init"} /\ SaysInit(new, prog[p][n])
    PROVE  RqOK(Renewed(rq, ptr, new), q2, p, n + 1)
<1>1. PICK rq2 : rq2 = Renewed(rq, ptr, new) OBVIOUS
<1>2. PICK D : D = DOMAIN rq \cup {ptr} OBVIOUS
<1>3. DOMAIN rq \in SUBSET Ptrs /\ \A r \in DOMAIN rq : rq[r] \in ReqType BY RqIs DEF RqOK
<1>4. /\ rq2 \in [D -> ReqType] /\ rq2[ptr] = new /\ DOMAIN rq2 = D
      /\ \A r \in DOMAIN rq : r # ptr => rq2[r] = rq[r]
      BY <1>1, <1>2, <1>3 DEF Renewed
<1>5. rq2 \in RqType
  <2>1. D \in SUBSET Ptrs BY <1>2, <1>3
  <2> QED BY <1>4, <2>1, RqMade
<1>6. MsgsOK(rq2, q2)
  <2> SUFFICES ASSUME NEW r \in DOMAIN rq2, rq2[r].msg # NoMsg PROVE rq2[r].msg \in DOMAIN q2.msgs
      BY DEF MsgsOK
  <2>1. CASE r = ptr BY <1>4, <2>1
  <2>2. CASE r # ptr BY <1>2, <1>4, <2>2 DEF RqOK, MsgsOK
  <2> QED BY <2>1, <2>2
<1>7. PersistentOK(rq2, p, n + 1)
  <2> SUFFICES ASSUME NEW r \in DOMAIN rq2, rq2[r].persistent PROVE SaysInit(rq2[r], LastInit(p, n + 1, r))
      BY DEF PersistentOK
  <2>1. CASE r = ptr
    <3>1. new.persistent BY <1>4, <2>1
    <3>2. InitsBefore(p, n + 1, r) \in SUBSET (1 .. n) /\ n \in InitsBefore(p, n + 1, r)
          BY <2>1, <3>1 DEF InitsBefore
    <3>3. PICK S : S = InitsBefore(p, n + 1, r) OBVIOUS
    <3>4. S \in SUBSET (1 .. n) /\ n \in S BY <3>2, <3>3
    <3>5. Max(S) \in S /\ n <= Max(S) BY <3>4, GreatestIs
    <3>6. Max(S) \in 1 .. n BY <3>4, <3>5
    <3>7. Max(S) = n BY <3>5, <3>6
    <3>8. LastInit(p, n + 1, r) = prog[p][n] BY <3>3, <3>7 DEF LastInit
    <3> QED BY <1>4, <2>1, <3>1, <3>8
  <2>2. CASE r # ptr
    <3>1. InitsBefore(p, n + 1, r) = InitsBefore(p, n, r) BY <2>2 DEF InitsBefore
    <3>2. LastInit(p, n + 1, r) = LastInit(p, n, r) BY <3>1 DEF LastInit
    <3>3. r \in DOMAIN rq /\ rq2[r] = rq[r] BY <1>2, <1>4, <2>2
    <3>4. SaysInit(rq[r], LastInit(p, n, r)) BY <3>3 DEF RqOK, PersistentOK
    <3> QED BY <3>2, <3>3, <3>4
  <2> QED BY <2>1, <2>2
<1> QED BY <1>1, <1>5, <1>6, <1>7 DEF RqOK

Request(p, type, m, persistent) ==
    [id |-> at[p], type |-> type, msg |-> m, persistent |-> persistent, peer |-> Ev(p).peer, tag |-> Ev(p).tag]

(* What the handlers record for a new request.                             *)
LEMMA NewRequestIs ==
    ASSUME NEW p \in Procs, NEW type, NEW m, NEW persistent, NewRequest(p, type, m, persistent)
    PROVE  reqs' = [reqs EXCEPT ![p] = Renewed(reqs[p], Ev(p).reqs[1], Request(p, type, m, persistent))]
BY DEF NewRequest, Renewed, Request

(* A request is made for the message m, or for none. *)
LEMMA RequestMade ==
    ASSUME PInv, NEW p \in Procs, NEW op \in {"isend", "irecv", "send_init", "recv_init"}, Current(p, op), Advance(p),
           NEW q, p2p' = q, Paired(q, Next1(at, p), Next1(at, p)), DOMAIN p2p.msgs \subseteq DOMAIN q.msgs,
           NEW type \in {"send", "recv"}, NEW m \in Nat, m # NoMsg => m \in DOMAIN q.msgs,
           NEW persistent \in BOOLEAN, NewRequest(p, type, m, persistent),
           persistent => op = (IF type = "send" THEN "send_init" ELSE "recv_init")
    PROVE  PInv'
<1>1. PICK new : new = Request(p, type, m, persistent) OBVIOUS
<1>2. PICK ptr : ptr = Ev(p).reqs[1] OBVIOUS
<1>3. PICK rqs : rqs = [reqs EXCEPT ![p] = Renewed(reqs[p], ptr, new)] OBVIOUS
<1>4. PICK a : a = Next1(at, p) OBVIOUS
<1>5. /\ at[p] \in Nat \ {0} /\ prog[p][at[p]].op = op /\ Ev(p) = prog[p][at[p]]
      /\ Ev(p).peer \in Peers /\ Ev(p).tag \in AnyTags /\ Ev(p).reqs \in Seq(Ptrs)
      /\ Named(Ev(p)) /\ HasRequest(Ev(p))
      BY EventIs
<1>6. ptr \in Ptrs
  <2>1. Ev(p).reqs # << >> BY <1>5 DEF HasRequest
  <2> QED BY <1>2, <1>5, <2>1
<1>7. new \in ReqType /\ new.msg = m /\ new.type = type /\ new.persistent = persistent
      /\ new.peer = Ev(p).peer /\ new.tag = Ev(p).tag
      BY <1>1, <1>5 DEF Request, ReqType
<1>8. RqOK(reqs[p], p2p, p, at[p]) BY DEF PInv, Good
<1>9. ASSUME new.persistent PROVE prog[p][at[p]].op \in {"send_init", "recv_init"} /\ SaysInit(new, prog[p][at[p]])
  <2>1. op = (IF type = "send" THEN "send_init" ELSE "recv_init") BY <1>7, <1>9
  <2>2. type = "send" => Ev(p).peer \in Procs /\ Ev(p).tag \in Tags BY <1>5, <2>1 DEF Named
  <2> QED BY <1>5, <1>7, <2>1, <2>2 DEF SaysInit
<1>10. prog[p][at[p]].reqs[1] = ptr BY <1>2, <1>5
<1>11. RqOK(Renewed(reqs[p], ptr, new), q, p, at[p] + 1) BY <1>5, <1>6, <1>7, <1>8, <1>9, <1>10, RqRenewed
<1>12. Good(q, rqs, a) BY <1>3, <1>4, <1>11, GoodAfter DEF PInv
<1>13. reqs' = rqs BY <1>1, <1>2, <1>3, NewRequestIs
<1>14. at' = a /\ prog' = prog BY <1>4 DEF Advance, Next1
<1> QED BY <1>12, <1>13, <1>14, PInvKept

(* A send starts, with a request.                                          *)
LEMMA IsendStep ==
    ASSUME PInv, NEW p \in Procs, HandleIsend(p)
    PROVE  PInv'
<1>1. Current(p, "isend") /\ Advance(p) BY DEF HandleIsend
<1>2. PICK dest \in Procs, tag \in Tags : dest = Ev(p).peer /\ tag = Ev(p).tag
      BY <1>1, EventIs DEF Named, Current
<1>3. PICK r : r = StartSend(p2p, p, dest, tag, at[p], at[p]) OBVIOUS
<1>4. p2p' = r.q /\ NewRequest(p, "send", r.msg, FALSE) BY <1>2, <1>3 DEF HandleIsend
<1>5. Paired(p2p, at, at) /\ at \in [Procs -> Nat \ {0}] /\ at[p] \in Nat BY DEF PInv, Good
<1>6. \A x \in Procs : prog[x] \in Seq(MpiEvent) BY <1>1, EventIs
<1>7. at[p] \in Sends(p) /\ at[p] \notin Recvs(p) /\ Params(p, at[p]) = Ev(p) BY <1>1, EventIs, StartIsSend
<1>8. SendsTo(p, at[p], dest, tag) BY <1>2, <1>7 DEF SendsTo
<1>9. PICK a : a = Next1(at, p) OBVIOUS
<1>10. Paired(r.q, a, at) /\ r.msg \in DOMAIN r.q.msgs /\ DOMAIN p2p.msgs \subseteq DOMAIN r.q.msgs
       BY <1>2, <1>3, <1>5, <1>6, <1>7, <1>8, <1>9, StartSendPairs DEF Starts
<1>11. Paired(r.q, a, a) BY <1>5, <1>6, <1>7, <1>9, <1>10, PassedRecv
<1>12. r.msg \in Nat BY <1>10, <1>11, MsgsAre DEF Paired
<1> QED BY <1>1, <1>4, <1>9, <1>10, <1>11, <1>12, RequestMade

(* A receive starts, with a request.                                       *)
LEMMA IrecvStep ==
    ASSUME PInv, NEW p \in Procs, HandleIrecv(p)
    PROVE  PInv'
<1>1. Current(p, "irecv") /\ Advance(p) BY DEF HandleIrecv
<1>2. PICK src \in Peers, tag \in AnyTags : src = Ev(p).peer /\ tag = Ev(p).tag BY <1>1, EventIs
<1>3. PICK r : r = StartRecv(p2p, src, p, tag, at[p], at[p]) OBVIOUS
<1>4. p2p' = r.q /\ NewRequest(p, "recv", r.msg, FALSE) BY <1>2, <1>3 DEF HandleIrecv
<1>5. Paired(p2p, at, at) /\ at \in [Procs -> Nat \ {0}] /\ at[p] \in Nat BY DEF PInv, Good
<1>6. \A x \in Procs : prog[x] \in Seq(MpiEvent) BY <1>1, EventIs
<1>7. at[p] \in Recvs(p) /\ at[p] \notin Sends(p) /\ RecvSource(p, at[p]) = <<src, tag>>
      BY <1>1, <1>2, EventIs, StartIsRecv
<1>9. PICK a : a = Next1(at, p) OBVIOUS
<1>10. Paired(r.q, at, a) /\ r.msg \in DOMAIN r.q.msgs /\ DOMAIN p2p.msgs \subseteq DOMAIN r.q.msgs
       BY <1>3, <1>5, <1>6, <1>7, <1>9, StartRecvPairs DEF Starts
<1>11. Paired(r.q, a, a) BY <1>5, <1>6, <1>7, <1>9, <1>10, PassedSend
<1>12. r.msg \in Nat BY <1>10, <1>11, MsgsAre DEF Paired
<1> QED BY <1>1, <1>4, <1>9, <1>10, <1>11, <1>12, RequestMade

(* A persistent request is made, for no message yet.                       *)
LEMMA PersInitStep ==
    ASSUME PInv, NEW p \in Procs, HandlePersInit(p)
    PROVE  PInv'
<1>1. Advance(p) /\ p2p' = p2p BY DEF HandlePersInit
<1>2. \/ Current(p, "send_init") /\ NewRequest(p, "send", NoMsg, TRUE)
      \/ Current(p, "recv_init") /\ NewRequest(p, "recv", NoMsg, TRUE)
      BY DEF HandlePersInit
<1>3. PICK op \in {"send_init", "recv_init"}, type \in {"send", "recv"} :
          /\ Current(p, op) /\ NewRequest(p, type, NoMsg, TRUE)
          /\ op = (IF type = "send" THEN "send_init" ELSE "recv_init")
      BY <1>2
<1>4. Paired(p2p, at, at) /\ at \in [Procs -> Nat \ {0}] BY DEF PInv, Good
<1>5. PICK a : a = Next1(at, p) OBVIOUS
<1>6. Paired(p2p, a, a)
  <2>1. prog[p][at[p]].op \notin StartOps /\ \A x \in Procs : prog[x] \in Seq(MpiEvent)
        BY <1>3, EventIs DEF StartOps
  <2> QED BY <1>4, <1>5, <2>1, PassedBoth
<1>7. NoMsg \in Nat BY NatsAre
<1> QED BY <1>1, <1>3, <1>5, <1>6, <1>7, RequestMade

(* A persistent request starts what its init said.                         *)
LEMMA StartStep ==
    ASSUME PInv, NEW p \in Procs, HandleStart(p)
    PROVE  PInv'
<1>1. Current(p, "start") /\ Known(p) /\ Req(p).persistent /\ Advance(p) BY DEF HandleStart
<1>2. PICK ptr : ptr = Ev(p).reqs[1] OBVIOUS
<1>3. PICK rq : rq = reqs[p] OBVIOUS
<1>4. PICK req : req = rq[ptr] OBVIOUS
<1>5. ptr \in DOMAIN rq /\ req.persistent /\ Req(p) = req BY <1>1, <1>2, <1>3, <1>4 DEF Known, Req
<1>6. RqOK(rq, p2p, p, at[p]) BY <1>3 DEF PInv, Good
<1>7. /\ req \in ReqType /\ req.type \in {"send", "recv"} /\ req.id \in Nat /\ req.peer \in Peers /\ req.tag \in AnyTags
      BY <1>4, <1>5, <1>6, RqIs DEF RqOK
<1>8. Paired(p2p, at, at) /\ at \in [Procs -> Nat \ {0}] /\ at[p] \in Nat BY DEF PInv, Good
<1>9. /\ \A x \in Procs : prog[x] \in Seq(MpiEvent)
      /\ at[p] \in DOMAIN prog[p] /\ prog[p][at[p]].op = "start" /\ Ev(p) = prog[p][at[p]] /\ at[p] \in Nat \ {0}
      BY <1>1, EventIs
<1>10. SaysInit(req, LastInit(p, at[p], ptr)) BY <1>4, <1>5, <1>6 DEF RqOK, PersistentOK
<1>11. ptr = prog[p][at[p]].reqs[1] BY <1>2, <1>9
<1>12. PICK a : a = Next1(at, p) OBVIOUS
<1>13. PICK r : r = IF req.type = "send" THEN StartSend(p2p, p, req.peer, req.tag, req.id, at[p])
                    ELSE StartRecv(p2p, req.peer, p, req.tag, req.id, at[p])
       OBVIOUS
<1>14. Paired(r.q, a, a) /\ r.msg \in DOMAIN r.q.msgs /\ DOMAIN p2p.msgs \subseteq DOMAIN r.q.msgs
  <2>1. CASE req.type = "send"
    <3>1. PICK dest, tag : dest = req.peer /\ tag = req.tag OBVIOUS
    <3>2. r = StartSend(p2p, p, dest, tag, req.id, at[p]) BY <1>13, <2>1, <3>1
    <3>3. /\ at[p] \in Sends(p) /\ at[p] \notin Recvs(p)
          /\ Params(p, at[p]).peer = dest /\ Params(p, at[p]).tag = tag /\ dest \in Procs /\ tag \in Tags
          BY <1>7, <1>9, <1>10, <1>11, <2>1, <3>1, StartIsInit
    <3>4. SendsTo(p, at[p], dest, tag) BY <3>3 DEF SendsTo
    <3>5. Paired(r.q, a, at) /\ r.msg \in DOMAIN r.q.msgs /\ DOMAIN p2p.msgs \subseteq DOMAIN r.q.msgs
          BY <1>7, <1>8, <1>9, <1>12, <3>2, <3>3, <3>4, StartSendPairs DEF Starts
    <3>6. Paired(r.q, a, a) BY <1>8, <1>9, <1>12, <3>3, <3>5, PassedRecv
    <3> QED BY <3>5, <3>6
  <2>2. CASE req.type = "recv"
    <3>1. PICK src \in Peers, tag \in AnyTags : src = req.peer /\ tag = req.tag BY <1>7
    <3>2. r = StartRecv(p2p, src, p, tag, req.id, at[p]) BY <1>13, <2>2, <3>1
    <3>3. at[p] \in Recvs(p) /\ at[p] \notin Sends(p) /\ RecvSource(p, at[p]) = <<src, tag>>
          BY <1>7, <1>9, <1>10, <1>11, <2>2, <3>1, StartIsInit
    <3>5. Paired(r.q, at, a) /\ r.msg \in DOMAIN r.q.msgs /\ DOMAIN p2p.msgs \subseteq DOMAIN r.q.msgs
          BY <1>7, <1>8, <1>9, <1>12, <3>1, <3>2, <3>3, StartRecvPairs DEF Starts
    <3>6. Paired(r.q, a, a) BY <1>8, <1>9, <1>12, <3>3, <3>5, PassedSend
    <3> QED BY <3>5, <3>6
  <2> QED BY <1>7, <2>1, <2>2
<1>15. r.msg \in Nat BY <1>14, MsgsAre DEF Paired
<1>16. PICK rq2 : rq2 = [rq EXCEPT ![ptr].msg = r.msg] OBVIOUS
<1>17. RqOK(rq, r.q, p, at[p] + 1)
  <2>1. prog[p][at[p]].op \notin {"send_init", "recv_init"} BY <1>9
  <2> QED BY <1>6, <1>9, <1>14, <2>1, RqPassed
<1>18. RqOK(rq2, r.q, p, at[p] + 1) BY <1>5, <1>14, <1>15, <1>16, <1>17, RqWithMsg
<1>19. PICK rqs : rqs = [reqs EXCEPT ![p] = rq2] OBVIOUS
<1>20. Good(r.q, rqs, a) BY <1>12, <1>14, <1>18, <1>19, GoodAfter DEF PInv
<1>21. p2p' = r.q /\ reqs' = [reqs EXCEPT ![p][ptr].msg = r.msg]
       BY <1>2, <1>5, <1>13 DEF HandleStart
<1>22. reqs' = rqs BY <1>3, <1>16, <1>19, <1>21
<1>23. at' = a /\ prog' = prog BY <1>1, <1>12 DEF Advance, Next1
<1> QED BY <1>20, <1>21, <1>22, <1>23, PInvKept

(* The message that is found for a request is one of the state.            *)
LEMMA MessageOfIs ==
    ASSUME NEW q \in QType, NEW p, NEW req, req.msg # NoMsg => req.msg \in DOMAIN q.msgs,
           MessageOf(q, p, req) # NoMsg
    PROVE  MessageOf(q, p, req) \in DOMAIN q.msgs
<1>1. CASE req.msg # NoMsg BY <1>1 DEF MessageOf
<1>2. CASE req.msg = NoMsg
  <2> DEFINE found == {m \in DOMAIN q.msgs :
                    /\ q.msgs[m].dest = p
                    /\ IF req.type = "recv" THEN q.msgs[m].rreq = req.id
                       ELSE q.msgs[m].src = p /\ q.msgs[m].sreq = req.id}
  <2>1. PICK S : S = found OBVIOUS
  <2>2. MessageOf(q, p, req) = IF S = {} THEN NoMsg ELSE Max(S) BY <1>2, <2>1 DEF MessageOf
  <2>3. S \in SUBSET (1 .. Len(q.msgs)) /\ DOMAIN q.msgs = 1 .. Len(q.msgs) /\ Len(q.msgs) \in Nat
    <3>1. DOMAIN q.msgs = 1 .. Len(q.msgs) /\ Len(q.msgs) \in Nat BY MsgsAre
    <3>2. S \subseteq DOMAIN q.msgs BY <2>1
    <3> QED BY <3>1, <3>2
  <2>4. S # {} => Max(S) \in S BY <2>3, GreatestIs
  <2> QED BY <2>2, <2>3, <2>4
<1> QED BY <1>1, <1>2

(* So it is for a request that a process has recorded.                     *)
LEMMA RequestMsg ==
    ASSUME NEW rq, NEW q, NEW a, NEW b, Paired(q, a, b), NEW p, NEW n, RqOK(rq, q, p, n), NEW r \in DOMAIN rq,
           MessageOf(q, p, rq[r]) # NoMsg
    PROVE  MessageOf(q, p, rq[r]) \in DOMAIN q.msgs
BY MessageOfIs DEF RqOK, MsgsOK, Paired

(* A wait begins.                                                          *)
LEMMA StartWaitStep ==
    ASSUME PInv, NEW p \in Procs, HandleStartWait(p)
    PROVE  PInv'
<1>1. Current(p, "start_wait") /\ Advance(p) /\ reqs' = reqs BY DEF HandleStartWait
<1>2. PICK m : m = MessageOf(p2p, p, Req(p)) OBVIOUS
<1>3. PICK time : time = WaitTime(Req(p)) OBVIOUS
<1>4. PICK q : q = SetTime(p2p, m, time, at[p]) OBVIOUS
<1>5. p2p' = q BY <1>2, <1>3, <1>4 DEF HandleStartWait
<1>6. Paired(p2p, at, at) /\ RqOK(reqs[p], p2p, p, at[p]) /\ at[p] \in Nat BY DEF PInv, Good
<1>7. m \in DOMAIN p2p.msgs
  <2>1. Known(p) /\ MessageOf(p2p, p, Req(p)) # NoMsg BY DEF HandleStartWait
  <2> QED BY <1>2, <1>6, <2>1, RequestMsg DEF Known, Req
<1>8. time \in TimeIds \ {"start_send", "start_recv"} BY <1>3, NatsAre DEF WaitTime
<1>9. Stops(p2p, q, at, at) BY <1>4, <1>6, <1>7, <1>8, SetTimePairs DEF Stops
<1>10. "start_wait" \notin StartOps \cup {"send_init", "recv_init"} BY DEF StartOps
<1> QED BY <1>1, <1>5, <1>9, <1>10, PassedStep

-----------------------------------------------------------------------------
(* The state that __handle_mpi_test_success works on, alone or in the loop *)
(* of a waitall.                                                           *)
OneState(s) == s = [q |-> s.q, rq |-> s.rq]
LoopState(s) == s = [q |-> s.q, rq |-> s.rq, ended |-> s.ended, stop |-> s.stop]
EndState(s, q, a, p, n) ==
    Paired(s.q, a, a) /\ DOMAIN s.q.msgs = DOMAIN q.msgs /\ RqOK(s.rq, s.q, p, n)

Written(s2, s, q, rq) == s2.q = q /\ s2.rq = rq /\ (LoopState(s) => LoopState(s2))

With(s, q, rq) == [s EXCEPT !.q = q, !.rq = rq]

(* The messages and the requests of a state are replaced.                  *)
LEMMA StateWritten ==
    ASSUME NEW s, OneState(s) \/ LoopState(s), NEW q, NEW rq
    PROVE  Written(With(s, q, rq), s, q, rq)
<1>1. PICK s2 : s2 = [s EXCEPT !.q = q, !.rq = rq] OBVIOUS
<1>2. s2.q = q /\ s2.rq = rq /\ (LoopState(s) => LoopState(s2)) BY <1>1 DEF OneState, LoopState
<1> QED BY <1>1, <1>2 DEF Written, With

(* The end of a request keeps the messages paired.                         *)
LEMMA EndRequestIs ==
    ASSUME NEW s, OneState(s) \/ LoopState(s), NEW q, NEW a, NEW p \in Procs, NEW n, EndState(s, q, a, p, n),
           NEW r, NEW now \in Nat, EndAsserts(s, p, r)
    PROVE  /\ EndState(EndRequest(s, p, r, now), q, a, p, n)
           /\ LoopState(s) => LoopState(EndRequest(s, p, r, now))
<1>1. CASE r \notin DOMAIN s.rq BY <1>1 DEF EndRequest
<1>2. CASE r \in DOMAIN s.rq
  <2>1. PICK m : m = MessageOf(s.q, p, s.rq[r]) OBVIOUS
  <2>2. PICK msg : msg = s.q.msgs[m] OBVIOUS
  <2>3. PICK q2 : q2 = IF s.rq[r].type = "recv" THEN StopRecv(s.q, msg.src, p, msg.tag, now)
                       ELSE StopSend(s.q, p, msg.dest, msg.tag, now)
        OBVIOUS
  <2>4. PICK rq2 : rq2 = [s.rq EXCEPT ![r].msg = NoMsg] OBVIOUS
  <2>5. PICK s2 : s2 = With(s, q2, rq2) OBVIOUS
  <2>6. EndRequest(s, p, r, now) = s2 BY <1>2, <2>1, <2>2, <2>3, <2>4, <2>5 DEF EndRequest, With
  <2>7. /\ m # NoMsg
        /\ s.rq[r].type = "recv" => EndingRecv(s.q, msg.src, p, msg.tag) # None
        /\ s.rq[r].type # "recv" => EndingSend(s.q, p, msg.dest, msg.tag) # None
        BY <1>2, <2>1, <2>2 DEF EndAsserts
  <2>8. m \in DOMAIN s.q.msgs BY <1>2, <2>1, <2>7, RequestMsg DEF EndState
  <2>9. msg.src \in Peers BY <2>2, <2>8, MsgsAre DEF EndState, Paired
  <2>10. Stops(s.q, q2, a, a)
    <3>1. CASE s.rq[r].type = "recv"
      <4>1. q2 = StopRecv(s.q, msg.src, p, msg.tag, now) BY <2>3, <3>1
      <4> QED BY <2>7, <2>9, <3>1, <4>1, StopRecvPairs DEF EndState
    <3>2. CASE s.rq[r].type # "recv"
      <4>1. q2 = StopSend(s.q, p, msg.dest, msg.tag, now) BY <2>3, <3>2
      <4> QED BY <2>7, <3>2, <4>1, StopSendPairs DEF EndState
    <3> QED BY <3>1, <3>2
  <2>11. RqOK(s.rq, q2, p, n) BY <2>10 DEF EndState, RqOK, MsgsOK, Stops
  <2>12. RqOK(rq2, q2, p, n) BY <1>2, <2>4, <2>11, NatsAre, RqWithMsg
  <2>13. s2.q = q2 /\ s2.rq = rq2 /\ (LoopState(s) => LoopState(s2)) BY <2>5, StateWritten DEF Written
  <2>14. EndState(s2, q, a, p, n) BY <2>10, <2>12, <2>13 DEF EndState, Stops
  <2> QED BY <2>6, <2>13, <2>14
<1> QED BY <1>1, <1>2

(* The state that a process ends its requests in.                          *)
LEMMA StateIs ==
    ASSUME PInv, NEW p \in Procs
    PROVE  OneState(StateOf(p)) /\ EndState(StateOf(p), p2p, at, p, at[p])
BY DEF StateOf, OneState, EndState, PInv, Good

(* Requests of a process end with its event.                               *)
LEMMA EndedStep ==
    ASSUME PInv, NEW p \in Procs, NEW op, Current(p, op), op \notin StartOps \cup {"send_init", "recv_init"},
           NEW s, EndState(s, p2p, at, p, at[p]), p2p' = s.q, reqs' = [reqs EXCEPT ![p] = s.rq], Advance(p)
    PROVE  PInv'
<1>1. PICK a : a = Next1(at, p) OBVIOUS
<1>2. PICK rqs : rqs = [reqs EXCEPT ![p] = s.rq] OBVIOUS
<1>3. Paired(s.q, at, at) /\ DOMAIN s.q.msgs = DOMAIN p2p.msgs /\ RqOK(s.rq, s.q, p, at[p]) BY DEF EndState
<1>4. /\ at \in [Procs -> Nat \ {0}] /\ \A x \in Procs : prog[x] \in Seq(MpiEvent)
      /\ prog[p][at[p]].op = op /\ at[p] \in Nat \ {0}
      BY EventIs DEF PInv, Good
<1>5. Paired(s.q, a, a) BY <1>1, <1>3, <1>4, PassedBoth
<1>6. RqOK(s.rq, s.q, p, at[p] + 1) BY <1>3, <1>4, RqPassed
<1>7. Good(s.q, rqs, a) BY <1>1, <1>2, <1>3, <1>5, <1>6, GoodAfter DEF PInv
<1>8. at' = a /\ prog' = prog /\ reqs' = rqs BY <1>1, <1>2 DEF Advance, Next1
<1> QED BY <1>7, <1>8, PInvKept

(* A wait ends, or a test succeeds.                                        *)
LEMMA StopWaitStep ==
    ASSUME PInv, NEW p \in Procs, HandleStopWait(p)
    PROVE  PInv'
<1>1. PICK op \in {"stop_wait", "test_success"} : Current(p, op) BY DEF HandleStopWait
<1>2. PICK s : s = EndRequest(StateOf(p), p, Ev(p).reqs[1], at[p]) OBVIOUS
<1>3. Advance(p) /\ p2p' = s.q /\ reqs' = [reqs EXCEPT ![p] = s.rq] /\ EndAsserts(StateOf(p), p, Ev(p).reqs[1])
      BY <1>2 DEF HandleStopWait
<1>4. EndState(s, p2p, at, p, at[p]) BY <1>2, <1>3, StateIs, PairedNow, EndRequestIs
<1>5. op \notin StartOps \cup {"send_init", "recv_init"} BY DEF StartOps
<1> QED BY <1>1, <1>3, <1>4, <1>5, EndedStep

(* A step that changes no message and no request.                          *)
LEMMA NothingStep ==
    ASSUME PInv, UNCHANGED <<prog, at, p2p, reqs>>
    PROVE  PInv'
<1>1. Good(p2p, reqs, at) BY DEF PInv
<1> QED BY <1>1, PInvKept

(* Every event of MpiP2P keeps the invariant.                              *)
LEMMA HandleEventStep ==
    ASSUME PInv, NEW p \in Procs, HandleEvent(p)
    PROVE  PInv'
<1>1. CASE AssertionFails(p)
  <2>1. UNCHANGED <<prog, at, p2p, reqs>> BY <1>1 DEF AssertionFails
  <2> QED BY <2>1, NothingStep
<1>2. CASE HandleStartSend(p) \/ HandleStopSend(p) \/ HandleStartRecv(p) \/ HandleStopRecv(p)
      BY <1>2, StartSendStep, StopSendStep, StartRecvStep, StopRecvStep
<1>3. CASE HandleStartSendrecv(p) \/ HandleStopSendrecv(p) \/ HandleIsend(p) \/ HandleIrecv(p)
      BY <1>3, StartSendrecvStep, StopSendrecvStep, IsendStep, IrecvStep
<1>4. CASE HandlePersInit(p) \/ HandleStart(p) \/ HandleStartWait(p) \/ HandleStopWait(p)
      BY <1>4, PersInitStep, StartStep, StartWaitStep, StopWaitStep
<1> QED BY <1>1, <1>2, <1>3, <1>4 DEF HandleEvent

WaitsOf(p, S, m) == {WaitTime(reqs[p][r]) : r \in {r \in S : MessageOf(p2p, p, reqs[p][r]) = m}}
TimesWith(times, W, time) == [t \in TimeIds |-> IF t \in W THEN time[t] ELSE times[t]]
MsgWith(msg, W, time) == [msg EXCEPT !.times = TimesWith(msg.times, W, time)]

(* Messages that differ in the times of waits only. *)
SameButWaits(q2, q) ==
    /\ DOMAIN q2.msgs = DOMAIN q.msgs /\ q2.incoming = q.incoming /\ q2.outgoing = q.outgoing
    /\ \A m \in DOMAIN q.msgs :
          /\ q2.msgs[m].src = q.msgs[m].src /\ q2.msgs[m].dest = q.msgs[m].dest /\ q2.msgs[m].tag = q.msgs[m].tag
          /\ q2.msgs[m].sreq = q.msgs[m].sreq /\ q2.msgs[m].rreq = q.msgs[m].rreq

(* Times of waits are set in a message: its starts stay.                   *)
LEMMA MsgWithIs ==
    ASSUME NEW msg \in MsgType, NEW W \in SUBSET {"start_rwait", "start_swait"}, NEW time \in [TimeIds -> Nat],
           NEW new, new = MsgWith(msg, W, time)
    PROVE  /\ new \in MsgType /\ new.src = msg.src /\ new.dest = msg.dest /\ new.tag = msg.tag
           /\ new.sreq = msg.sreq /\ new.rreq = msg.rreq
           /\ new.times["start_send"] = msg.times["start_send"] /\ new.times["start_recv"] = msg.times["start_recv"]
<1>1. PICK times : times = TimesWith(msg.times, W, time) OBVIOUS
<1>2. msg.times \in [TimeIds -> Nat] BY DEF MsgType
<1>3. "start_send" \in TimeIds /\ "start_recv" \in TimeIds BY DEF TimeIds
<1>4. times \in [TimeIds -> Nat] BY <1>1, <1>2 DEF TimesWith
<1>5. times["start_send"] = msg.times["start_send"] /\ times["start_recv"] = msg.times["start_recv"]
      BY <1>1, <1>3 DEF TimesWith
<1>6. new = [msg EXCEPT !.times = times] BY <1>1 DEF MsgWith
<1> QED BY <1>4, <1>5, <1>6 DEF MsgType

(* A call that waits for several requests changes times of waits only.     *)
LEMMA WaitsSetIs ==
    ASSUME PInv, NEW p \in Procs, NEW S, NEW time \in [TimeIds -> Nat]
    PROVE  StartsKept(WaitsSet(p, S, time), p2p) /\ SameButWaits(WaitsSet(p, S, time), p2p)
<1>1. PICK q : q = WaitsSet(p, S, time) OBVIOUS
<1>2. PICK msgs : msgs = [m \in DOMAIN p2p.msgs |-> MsgWith(p2p.msgs[m], WaitsOf(p, S, m), time)] OBVIOUS
<1>3. q = [p2p EXCEPT !.msgs = msgs] BY <1>1, <1>2 DEF WaitsSet, MsgWith, TimesWith, WaitsOf
<1>4. p2p \in QType BY DEF PInv, Good, Paired
<1>5. \A m : WaitsOf(p, S, m) \in SUBSET {"start_rwait", "start_swait"} BY DEF WaitsOf, WaitTime
<1>6. ASSUME NEW m \in DOMAIN p2p.msgs
      PROVE  /\ msgs[m] \in MsgType
             /\ msgs[m].src = p2p.msgs[m].src /\ msgs[m].dest = p2p.msgs[m].dest /\ msgs[m].tag = p2p.msgs[m].tag
             /\ msgs[m].sreq = p2p.msgs[m].sreq /\ msgs[m].rreq = p2p.msgs[m].rreq
             /\ msgs[m].times["start_send"] = p2p.msgs[m].times["start_send"]
             /\ msgs[m].times["start_recv"] = p2p.msgs[m].times["start_recv"]
  <2>1. PICK W : W = WaitsOf(p, S, m) OBVIOUS
  <2>2. W \in SUBSET {"start_rwait", "start_swait"} BY <1>5, <2>1
  <2>3. msgs[m] = MsgWith(p2p.msgs[m], W, time) BY <1>2, <2>1
  <2>4. p2p.msgs[m] \in MsgType BY <1>4, MsgsAre
  <2> QED BY <2>2, <2>3, <2>4, MsgWithIs
<1>7. DOMAIN msgs = DOMAIN p2p.msgs BY <1>2
<1>8. msgs \in Seq(MsgType)
  <2>1. DOMAIN p2p.msgs = 1 .. Len(p2p.msgs) /\ Len(p2p.msgs) \in Nat BY <1>4, MsgsAre
  <2>2. PICK n \in Nat : n = Len(p2p.msgs) BY <2>1
  <2>3. msgs = [m \in 1 .. n |-> msgs[m]] BY <1>2, <2>1, <2>2
  <2>4. \A m \in 1 .. n : msgs[m] \in MsgType BY <1>6, <2>1, <2>2
  <2> QED BY <2>2, <2>3, <2>4
<1>9. q \in QType /\ q.msgs = msgs /\ q.incoming = p2p.incoming /\ q.outgoing = p2p.outgoing
      BY <1>3, <1>4, <1>8 DEF QType
<1>10. SameButWaits(q, p2p) BY <1>6, <1>7, <1>9 DEF SameButWaits
<1>11. \A m \in DOMAIN p2p.msgs : SameStarts(q, p2p, m) BY <1>6, <1>9 DEF SameStarts, StartS, StartR
<1>12. StartsKept(q, p2p) BY <1>7, <1>9, <1>11, ThinnedSame DEF StartsKept
<1> QED BY <1>1, <1>10, <1>12

(* Messages that differ in those times are found by the same searches.     *)
LEMMA SearchesSame ==
    ASSUME NEW q, NEW q2, Entries(q), SameButWaits(q2, q), NEW p \in Procs
    PROVE  /\ \A req : MessageOf(q2, p, req) = MessageOf(q, p, req)
           /\ \A src, tag : EndingRecv(q2, src, p, tag) = EndingRecv(q, src, p, tag)
           /\ \A dest, tag : EndingSend(q2, p, dest, tag) = EndingSend(q, p, dest, tag)
<1>1. ASSUME NEW req PROVE MessageOf(q2, p, req) = MessageOf(q, p, req)
  <2>1. {m \in DOMAIN q2.msgs : /\ q2.msgs[m].dest = p
                                /\ IF req.type = "recv" THEN q2.msgs[m].rreq = req.id
                                   ELSE q2.msgs[m].src = p /\ q2.msgs[m].sreq = req.id}
        = {m \in DOMAIN q.msgs : /\ q.msgs[m].dest = p
                                 /\ IF req.type = "recv" THEN q.msgs[m].rreq = req.id
                                    ELSE q.msgs[m].src = p /\ q.msgs[m].sreq = req.id}
        BY DEF SameButWaits
  <2> QED BY <2>1 DEF MessageOf
<1>2. ASSUME NEW x \in Procs, NEW src, NEW dest, NEW tag, NEW ok, NEW notOk
      PROVE  /\ Candidates(q2, q.incoming[x], src, dest, tag, ok, notOk) = Candidates(q, q.incoming[x], src, dest, tag, ok, notOk)
             /\ Candidates(q2, q.outgoing[x], src, dest, tag, ok, notOk) = Candidates(q, q.outgoing[x], src, dest, tag, ok, notOk)
  <2>1. /\ \A i \in DOMAIN q.incoming[x] : q.incoming[x][i].msg \in DOMAIN q.msgs
        /\ \A i \in DOMAIN q.outgoing[x] : q.outgoing[x][i].msg \in DOMAIN q.msgs
        BY DEF Entries
  <2>2. \A m \in DOMAIN q.msgs : Compatible(q2.msgs[m], src, dest, tag) <=> Compatible(q.msgs[m], src, dest, tag)
        BY DEF SameButWaits, Compatible
  <2> QED BY <2>1, <2>2 DEF Candidates
<1>3. q2.incoming = q.incoming /\ q2.outgoing = q.outgoing BY DEF SameButWaits
<1>4. ASSUME NEW src, NEW tag PROVE EndingRecv(q2, src, p, tag) = EndingRecv(q, src, p, tag)
      BY <1>2, <1>3 DEF EndingRecv, FindIrecv
<1>5. ASSUME NEW dest, NEW tag PROVE EndingSend(q2, p, dest, tag) = EndingSend(q, p, dest, tag)
  <2>1. p # Wild BY WildIs
  <2> QED BY <1>2, <1>3, <2>1 DEF EndingSend, FindIsend
<1> QED BY <1>1, <1>4, <1>5

(* The times that the waits of an event begin at.                          *)
LEMMA BeginIs ==
    ASSUME PInv, NEW p \in Procs
    PROVE  Begin(p) \in [TimeIds -> Nat] /\ StopBegin(p) \in [TimeIds -> Nat]
<1>1. at[p] \in Nat BY PairedNow
<1>2. Begin(p) \in [TimeIds -> Nat] BY <1>1 DEF Begin
<1> QED BY <1>2 DEF StopBegin

(* So the messages stay paired.                                            *)
LEMMA WaitsStop ==
    ASSUME PInv, NEW p \in Procs, NEW S, NEW time \in [TimeIds -> Nat]
    PROVE  Stops(p2p, WaitsSet(p, S, time), at, at)
<1>1. StartsKept(WaitsSet(p, S, time), p2p) BY WaitsSetIs
<1> QED BY <1>1, PairedNow, PairedKept DEF StartsKept, Stops

(* A waitany or a waitall begins.                                          *)
LEMMA StartWaitsStep ==
    ASSUME PInv, NEW p \in Procs, HandleStartWaitany(p) \/ HandleStartWaitall(p)
    PROVE  PInv'
<1>0. \E op \in {"start_waitany", "start_waitall"} : \E S :
          Current(p, op) /\ Advance(p) /\ reqs' = reqs /\ p2p' = WaitsSet(p, S, Begin(p))
      BY DEF HandleStartWaitany, HandleStartWaitall
<1>a. PICK op \in {"start_waitany", "start_waitall"} : \E S :
          Current(p, op) /\ Advance(p) /\ reqs' = reqs /\ p2p' = WaitsSet(p, S, Begin(p))
      BY <1>0
<1>1. PICK S : Current(p, op) /\ Advance(p) /\ reqs' = reqs /\ p2p' = WaitsSet(p, S, Begin(p))
      BY <1>a
<1>2. op \notin StartOps \cup {"send_init", "recv_init"} BY <1>a DEF StartOps
<1>3. PICK q : q = WaitsSet(p, S, Begin(p)) OBVIOUS
<1>4. Stops(p2p, q, at, at) BY <1>3, BeginIs, WaitsStop
<1> QED BY <1>1, <1>2, <1>3, <1>4, PassedStep

(* A waitany that cannot end its request is dropped.                       *)
LEMMA TooEarlyStep ==
    ASSUME PInv, NEW p \in Procs, StopWaitanyTooEarly(p)
    PROVE  PInv'
<1>1. Current(p, "stop_waitany") /\ Advance(p) /\ reqs' = reqs BY DEF StopWaitanyTooEarly
<1>2. PICK q : q = WaitsSet(p, LookedAt(p, FALSE), StopBegin(p)) OBVIOUS
<1>3. p2p' = q BY <1>2 DEF StopWaitanyTooEarly
<1>4. Stops(p2p, q, at, at) BY <1>2, BeginIs, WaitsStop
<1>5. "stop_waitany" \notin StartOps \cup {"send_init", "recv_init"} BY DEF StartOps
<1> QED BY <1>1, <1>3, <1>4, <1>5, PassedStep

(* The state s with other messages. *)
Renew(s, q) == [s EXCEPT !.q = q]

(* A waitany ends its request.                                             *)
LEMMA StopWaitanyStep ==
    ASSUME PInv, NEW p \in Procs, HandleStopWaitany(p)
    PROVE  PInv'
<1>1. Current(p, "stop_waitany") /\ Advance(p) BY DEF HandleStopWaitany
<1>2. PICK q : q = WaitsSet(p, LookedAt(p, TRUE), StopBegin(p)) OBVIOUS
<1>3. PICK s0 : s0 = Renew(StateOf(p), q) OBVIOUS
<1>4. PICK s : s = EndRequest(s0, p, Successful(p), at[p]) OBVIOUS
<1>5. [StateOf(p) EXCEPT !.q = WaitsSet(p, LookedAt(p, TRUE), StopBegin(p))] = s0 BY <1>2, <1>3 DEF Renew
<1>6. p2p' = s.q /\ reqs' = [reqs EXCEPT ![p] = s.rq] BY <1>4, <1>5 DEF HandleStopWaitany
<1>7. Stops(p2p, q, at, at) /\ SameButWaits(q, p2p) BY <1>2, BeginIs, WaitsStop, WaitsSetIs
<1>8. OneState(s0) /\ s0.q = q /\ s0.rq = reqs[p]
  <2>1. s0 = [q |-> q, rq |-> reqs[p]] BY <1>3 DEF Renew, StateOf
  <2> QED BY <2>1 DEF OneState
<1>9. EndState(s0, p2p, at, p, at[p])
  <2>1. RqOK(reqs[p], p2p, p, at[p]) BY DEF PInv, Good
  <2>2. RqOK(reqs[p], q, p, at[p]) BY <1>7, <2>1 DEF Stops, RqOK, MsgsOK
  <2> QED BY <1>7, <1>8, <2>2 DEF Stops, EndState
<1>10. EndAsserts(s0, p, Successful(p))
  <2>1. EndAsserts(StateOf(p), p, Successful(p)) BY DEF HandleStopWaitany, WaitanyAsserts
  <2>2. StateOf(p).q = p2p /\ StateOf(p).rq = reqs[p] BY DEF StateOf
  <2>3. Entries(p2p) /\ p2p \in QType BY PairedNow, PairedEntries DEF Paired
  <2>4. /\ \A req : MessageOf(q, p, req) = MessageOf(p2p, p, req)
        /\ \A src, tag : EndingRecv(q, src, p, tag) = EndingRecv(p2p, src, p, tag)
        /\ \A dest, tag : EndingSend(q, p, dest, tag) = EndingSend(p2p, p, dest, tag)
        BY <1>7, <2>3, SearchesSame
  <2>5. SUFFICES ASSUME Successful(p) \in DOMAIN reqs[p]
                 PROVE  LET m == MessageOf(q, p, reqs[p][Successful(p)]) IN
                        /\ m # NoMsg
                        /\ IF reqs[p][Successful(p)].type = "recv"
                           THEN /\ q.msgs[m].rreq = reqs[p][Successful(p)].id
                                /\ EndingRecv(q, q.msgs[m].src, p, q.msgs[m].tag) # None
                           ELSE /\ q.msgs[m].sreq = reqs[p][Successful(p)].id
                                /\ EndingSend(q, p, q.msgs[m].dest, q.msgs[m].tag) # None
        BY <1>8 DEF EndAsserts
  <2>6. PICK m : m = MessageOf(p2p, p, reqs[p][Successful(p)]) OBVIOUS
  <2>7. /\ m # NoMsg
        /\ IF reqs[p][Successful(p)].type = "recv"
           THEN /\ p2p.msgs[m].rreq = reqs[p][Successful(p)].id
                /\ EndingRecv(p2p, p2p.msgs[m].src, p, p2p.msgs[m].tag) # None
           ELSE /\ p2p.msgs[m].sreq = reqs[p][Successful(p)].id
                /\ EndingSend(p2p, p, p2p.msgs[m].dest, p2p.msgs[m].tag) # None
        BY <2>1, <2>2, <2>5, <2>6 DEF EndAsserts
  <2>8. m \in DOMAIN p2p.msgs
    <3>1. RqOK(reqs[p], p2p, p, at[p]) /\ Paired(p2p, at, at) BY DEF PInv, Good
    <3> QED BY <2>5, <2>6, <2>7, <3>1, RequestMsg
  <2> QED BY <1>7, <2>4, <2>6, <2>7, <2>8 DEF SameButWaits
<1>11. EndState(s, p2p, at, p, at[p]) BY <1>4, <1>8, <1>9, <1>10, PairedNow, EndRequestIs
<1>12. "stop_waitany" \notin StartOps \cup {"send_init", "recv_init"} BY DEF StartOps
<1> QED BY <1>1, <1>6, <1>11, <1>12, EndedStep

-----------------------------------------------------------------------------
(* The loop of a waitall. *)

LoopFirst(p, n) == [q |-> p2p, rq |-> reqs[p], ended |-> n, stop |-> "no"]
IsLoop(f, p, n, k) ==
    f = [i \in n .. k |-> IF i = n THEN LoopFirst(p, n)
                          ELSE CHOOSE s \in {EndNext(t, p, Ev(p).reqs[i]) : t \in {f[i - 1]}} : TRUE]

(* The loop of the first k requests exists, and its steps are EndNext. *)
LEMMA LoopSteps ==
    ASSUME NEW p, NEW n \in Nat, NEW k \in Nat, NEW f, IsLoop(f, p, n, k)
    PROVE  /\ n <= k => f[n] = LoopFirst(p, n)
           /\ \A i \in n + 1 .. k : f[i] = EndNext(f[i - 1], p, Ev(p).reqs[i])
<1>1. \A i \in n .. k : f[i] = IF i = n THEN LoopFirst(p, n)
                          ELSE CHOOSE s \in {EndNext(t, p, Ev(p).reqs[i]) : t \in {f[i - 1]}} : TRUE
      BY DEF IsLoop
<1>2. ASSUME NEW x PROVE (CHOOSE s \in {x} : TRUE) = x OBVIOUS
<1>3. ASSUME NEW i \in n + 1 .. k PROVE f[i] = EndNext(f[i - 1], p, Ev(p).reqs[i])
  <2>1. i \in n .. k /\ i # n OBVIOUS
  <2>2. PICK x : x = EndNext(f[i - 1], p, Ev(p).reqs[i]) OBVIOUS
  <2>3. {EndNext(t, p, Ev(p).reqs[i]) : t \in {f[i - 1]}} = {x} BY <2>2
  <2>4. f[i] = CHOOSE s \in {x} : TRUE BY <1>1, <2>1, <2>3
  <2> QED BY <1>2, <2>2, <2>4
<1>4. n <= k => f[n] = LoopFirst(p, n) BY <1>1
<1> QED BY <1>3, <1>4

(* There is such a loop for every k.                                       *)
LEMMA LoopExists ==
    ASSUME NEW p, NEW n \in Nat, NEW k \in Nat, n <= k
    PROVE  \E f : IsLoop(f, p, n, k)
<1> SUFFICES ASSUME ~ \E f : IsLoop(f, p, n, k) PROVE FALSE OBVIOUS
<1> DEFINE T == {j \in Nat : n <= j /\ ~ \E f : IsLoop(f, p, n, j)}
<1>1. T \in SUBSET Nat /\ k \in T OBVIOUS
<1>2. PICK j \in T : \A x \in T : j <= x BY <1>1, LeastIs
<1>3. j \in Nat /\ n <= j /\ ~ \E f : IsLoop(f, p, n, j) BY <1>2
<1>4. CASE j = n
  <2>1. PICK f : f = [i \in n .. n |-> LoopFirst(p, n)] OBVIOUS
  <2>2. IsLoop(f, p, n, n)
    <3>1. f = [i \in n .. n |-> IF i = n THEN LoopFirst(p, n)
                          ELSE CHOOSE s \in {EndNext(t, p, Ev(p).reqs[i]) : t \in {f[i - 1]}} : TRUE]
          BY <2>1
    <3> QED BY <3>1 DEF IsLoop
  <2> QED BY <1>3, <1>4, <2>2
<1>5. CASE j # n
  <2>1. j - 1 \in Nat /\ n <= j - 1 /\ ~(j <= j - 1) BY <1>3, <1>5
  <2>2. j - 1 \notin T BY <1>2, <2>1
  <2>3. PICK g : IsLoop(g, p, n, j - 1) BY <2>1, <2>2
  <2> DEFINE Step(x, i) == CHOOSE s \in {EndNext(t, p, Ev(p).reqs[i]) : t \in {x}} : TRUE
  <2>4. PICK f : f = [i \in n .. j |-> IF i = n THEN LoopFirst(p, n) ELSE Step(g[i - 1], i)] OBVIOUS
  <2>5. g = [i \in n .. j - 1 |-> IF i = n THEN LoopFirst(p, n) ELSE Step(g[i - 1], i)]
        BY <2>3 DEF IsLoop
  <2> HIDE DEF Step
  <2>6. \A i \in n .. j - 1 : f[i] = g[i]
    <3>1. \A i \in n .. j - 1 : i \in n .. j BY <1>3
    <3> QED BY <2>4, <2>5, <3>1
  <2>7. \A i \in n .. j : i # n => f[i - 1] = g[i - 1]
    <3>1. \A i \in n .. j : i # n => i - 1 \in n .. j - 1 BY <1>3
    <3> QED BY <2>6, <3>1
  <2>8. f = [i \in n .. j |-> IF i = n THEN LoopFirst(p, n) ELSE Step(f[i - 1], i)]
        BY <2>4, <2>7
  <2>9. IsLoop(f, p, n, j) BY <2>8 DEF IsLoop, Step
  <2> QED BY <1>3, <2>9
<1> QED BY <1>4, <1>5

(* What a waitall computes is the last state of its loop.                  *)
LEMMA EndFromIs ==
    ASSUME NEW p, NEW n \in Nat, Len(Ev(p).reqs) \in Nat, n <= Len(Ev(p).reqs)
    PROVE  \E f : IsLoop(f, p, n, Len(Ev(p).reqs)) /\ EndFrom(p, n) = f[Len(Ev(p).reqs)]
<1>1. PICK k \in Nat : k = Len(Ev(p).reqs) OBVIOUS
<1>2. \E f : IsLoop(f, p, n, k) BY <1>1, LoopExists
<1>3. PICK f : f = CHOOSE g : IsLoop(g, p, n, k) OBVIOUS
<1>4. IsLoop(f, p, n, k) BY <1>2, <1>3
<1>5. EndFrom(p, n) = f[k] BY <1>1, <1>3 DEF EndFrom, IsLoop, LoopFirst
<1> QED BY <1>1, <1>4, <1>5

(* What the loop keeps: the messages stay paired, and no more requests are *)
(* counted as ended than were looked at.                                   *)
LoopOK(s, p, i) ==
    LoopState(s) /\ EndState(s, p2p, at, p, at[p]) /\ s.ended \in Nat /\ s.ended <= i

(* The loop stops.                                                         *)
LEMMA LoopStopped ==
    ASSUME NEW s, NEW p, NEW i, LoopOK(s, p, i), NEW why
    PROVE  LoopOK([s EXCEPT !.stop = why], p, i)
<1>1. PICK s2 : s2 = [s EXCEPT !.stop = why] OBVIOUS
<1>2. LoopState(s2) /\ s2.q = s.q /\ s2.rq = s.rq /\ s2.ended = s.ended BY <1>1 DEF LoopOK, LoopState
<1>3. EndState(s2, p2p, at, p, at[p]) BY <1>2 DEF LoopOK, EndState
<1> QED BY <1>1, <1>2, <1>3 DEF LoopOK

(* The loop has ended one more request.                                    *)
LEMMA LoopEnded ==
    ASSUME NEW s, NEW p, NEW i \in Nat, NEW s1, LoopState(s1), EndState(s1, p2p, at, p, at[p]),
           s1.ended \in Nat, s1.ended <= i
    PROVE  LoopOK([s1 EXCEPT !.ended = @ + 1], p, i + 1)
<1>1. PICK s2 : s2 = [s1 EXCEPT !.ended = @ + 1] OBVIOUS
<1>2. LoopState(s2) /\ s2.q = s1.q /\ s2.rq = s1.rq /\ s2.ended = s1.ended + 1 BY <1>1 DEF LoopState
<1>3. EndState(s2, p2p, at, p, at[p]) BY <1>2 DEF EndState
<1> QED BY <1>1, <1>2, <1>3 DEF LoopOK

(* The end of a request does not count itself.                             *)
LEMMA EndRequestEnded ==
    ASSUME NEW s, LoopState(s), NEW p, NEW r, NEW now
    PROVE  EndRequest(s, p, r, now).ended = s.ended
<1>1. CASE r \notin DOMAIN s.rq BY <1>1 DEF EndRequest
<1>2. CASE r \in DOMAIN s.rq
  <2>1. PICK msg : msg = s.q.msgs[MessageOf(s.q, p, s.rq[r])] OBVIOUS
  <2>2. PICK q2 : q2 = IF s.rq[r].type = "recv" THEN StopRecv(s.q, msg.src, p, msg.tag, now)
                       ELSE StopSend(s.q, p, msg.dest, msg.tag, now)
        OBVIOUS
  <2>3. PICK rq2 : rq2 = [s.rq EXCEPT ![r].msg = NoMsg] OBVIOUS
  <2>4. EndRequest(s, p, r, now) = [s EXCEPT !.q = q2, !.rq = rq2] BY <1>2, <2>1, <2>2, <2>3 DEF EndRequest
  <2>5. [s EXCEPT !.q = q2, !.rq = rq2].ended = s.ended BY DEF LoopState
  <2> QED BY <2>4, <2>5
<1> QED BY <1>1, <1>2

(* One step of the loop.                                                   *)
LEMMA EndNextOK ==
    ASSUME PInv, NEW s, NEW p \in Procs, NEW i \in Nat, LoopOK(s, p, i), NEW r
    PROVE  LoopOK(EndNext(s, p, r), p, i + 1)
<1>1. LoopOK(s, p, i + 1) BY DEF LoopOK
<1>2. CASE s.stop # "no" BY <1>1, <1>2 DEF EndNext
<1>3. CASE s.stop = "no" /\ ~EndAsserts(s, p, r)
  <2>1. EndNext(s, p, r) = [s EXCEPT !.stop = "assertion"] BY <1>3 DEF EndNext
  <2>2. LoopOK([s EXCEPT !.stop = "assertion"], p, i + 1) BY <1>1, LoopStopped
  <2> QED BY <2>1, <2>2
<1>4. CASE s.stop = "no" /\ EndAsserts(s, p, r) /\ ~CanEnd(s, p, r)
  <2>1. EndNext(s, p, r) = [s EXCEPT !.stop = "pending"] BY <1>4 DEF EndNext
  <2>2. LoopOK([s EXCEPT !.stop = "pending"], p, i + 1) BY <1>1, LoopStopped
  <2> QED BY <2>1, <2>2
<1>5. CASE s.stop = "no" /\ EndAsserts(s, p, r) /\ CanEnd(s, p, r)
  <2>1. PICK s1 : s1 = EndRequest(s, p, r, at[p]) OBVIOUS
  <2>2. EndNext(s, p, r) = [s1 EXCEPT !.ended = @ + 1] BY <1>5, <2>1 DEF EndNext
  <2>3. LoopState(s) /\ EndState(s, p2p, at, p, at[p]) /\ s.ended \in Nat /\ s.ended <= i BY DEF LoopOK
  <2>4. at[p] \in Nat BY PairedNow
  <2>5. LoopState(s1) /\ EndState(s1, p2p, at, p, at[p]) BY <1>5, <2>1, <2>3, <2>4, EndRequestIs
  <2>6. s1.ended = s.ended BY <2>1, <2>3, EndRequestEnded
  <2> QED BY <2>2, <2>3, <2>5, <2>6, LoopEnded
<1>6. CASE s.stop = "no"
  <2>1. CASE ~EndAsserts(s, p, r) BY <1>3, <1>6, <2>1
  <2>2. CASE EndAsserts(s, p, r)
    <3>1. CASE ~CanEnd(s, p, r) BY <1>4, <1>6, <2>2, <3>1
    <3>2. CASE CanEnd(s, p, r) BY <1>5, <1>6, <2>2, <3>2
    <3> QED BY <3>1, <3>2
  <2> QED BY <2>1, <2>2
<1> QED BY <1>2, <1>6

(* The whole loop.                                                         *)
LEMMA LoopKeeps ==
    ASSUME PInv, NEW p \in Procs, NEW n \in Nat, Len(Ev(p).reqs) \in Nat, n <= Len(Ev(p).reqs)
    PROVE  LoopOK(EndFrom(p, n), p, Len(Ev(p).reqs))
<1>1. PICK k \in Nat : k = Len(Ev(p).reqs) OBVIOUS
<1>2. PICK f : IsLoop(f, p, n, k) /\ EndFrom(p, n) = f[k] BY <1>1, EndFromIs
<1>3. f[n] = LoopFirst(p, n) /\ \A i \in n + 1 .. k : f[i] = EndNext(f[i - 1], p, Ev(p).reqs[i])
      BY <1>1, <1>2, LoopSteps
<1>4. LoopOK(f[n], p, n)
  <2>1. PICK s : s = LoopFirst(p, n) OBVIOUS
  <2>2. LoopState(s) /\ s.q = p2p /\ s.rq = reqs[p] /\ s.ended = n BY <2>1 DEF LoopFirst, LoopState
  <2>3. EndState(s, p2p, at, p, at[p]) BY <2>2 DEF EndState, PInv, Good
  <2> QED BY <1>3, <2>1, <2>2, <2>3 DEF LoopOK
<1> DEFINE T == {j \in Nat : n <= j /\ j <= k /\ ~LoopOK(f[j], p, j)}
<1>5. T = {}
  <2>1. SUFFICES ASSUME T # {} PROVE FALSE OBVIOUS
  <2>2. T \in SUBSET Nat OBVIOUS
  <2>3. PICK j \in T : \A x \in T : j <= x BY <2>1, <2>2, LeastIs
  <2>4. j \in Nat /\ n <= j /\ j <= k /\ ~LoopOK(f[j], p, j) BY <2>3
  <2>5. j # n BY <1>4, <2>4
  <2>6. j - 1 \in Nat /\ n <= j - 1 /\ j - 1 <= k /\ ~(j <= j - 1) BY <1>1, <2>4, <2>5
  <2>7. LoopOK(f[j - 1], p, j - 1) BY <2>3, <2>6
  <2>8. j \in n + 1 .. k BY <1>1, <2>4, <2>5
  <2>9. LoopOK(f[j], p, (j - 1) + 1) BY <1>3, <2>6, <2>7, <2>8, EndNextOK
  <2>10. (j - 1) + 1 = j BY <2>4
  <2> QED BY <2>4, <2>9, <2>10
<1>6. LoopOK(f[k], p, k) BY <1>1, <1>5
<1> QED BY <1>1, <1>2, <1>6

(* A process resumes in the waitall that it is at, at one of its requests. *)
ResumeOK ==
    /\ resume \in [Procs -> Nat]
    /\ \A p \in Procs : resume[p] > 0 =>
          Ev(p).op = "stop_waitall" /\ resume[p] <= Len(Ev(p).reqs)
RInv == PInv /\ ResumeOK

(* The loop of a waitall, from the first request or from the one it        *)
(* resumes at.                                                             *)
LEMMA WaitallLoop ==
    ASSUME RInv, NEW p \in Procs, Current(p, "stop_waitall")
    PROVE  LoopOK(WaitallFrom(p), p, Len(Ev(p).reqs)) /\ Len(Ev(p).reqs) \in Nat
<1>1. PInv BY DEF RInv
<1>2. Ev(p).reqs \in Seq(Ptrs) BY <1>1, EventIs
<1>3. PICK k \in Nat : k = Len(Ev(p).reqs) BY <1>2
<1>4. resume[p] \in Nat /\ (resume[p] > 0 => resume[p] <= k) BY <1>3 DEF RInv, ResumeOK
<1>5. resume[p] <= k BY <1>3, <1>4
<1> QED BY <1>1, <1>3, <1>4, <1>5, LoopKeeps DEF WaitallFrom

(* The other events leave each waitall where it resumes.                   *)
LEMMA ResumeElsewhere ==
    ASSUME RInv, NEW p \in Procs, NEW op, op # "stop_waitall", Current(p, op), Advance(p), UNCHANGED resume
    PROVE  ResumeOK'
<1>1. resume \in [Procs -> Nat] /\ at \in [Procs -> Nat \ {0}] BY DEF RInv, ResumeOK, PInv, Good
<1>2. resume[p] = 0
  <2>1. Ev(p).op = op BY DEF Current
  <2> QED BY <1>1, <2>1 DEF RInv, ResumeOK
<1>3. ASSUME NEW x \in Procs, resume'[x] > 0
      PROVE  Ev(x)'.op = "stop_waitall" /\ resume'[x] <= Len(Ev(x)'.reqs)
  <2>1. x # p /\ resume'[x] = resume[x] BY <1>2, <1>3
  <2>2. at'[x] = at[x] /\ prog' = prog BY <1>1, <2>1 DEF Advance
  <2>3. Ev(x)' = Ev(x) BY <2>2 DEF Ev
  <2> QED BY <1>3, <2>1, <2>3 DEF RInv, ResumeOK
<1> QED BY <1>1, <1>3 DEF ResumeOK

(* And so does a step that reads no event.                                 *)
LEMMA ResumeSame ==
    ASSUME RInv, UNCHANGED <<prog, at, resume>>
    PROVE  ResumeOK'
<1>1. \A x \in Procs : Ev(x)' = Ev(x) BY DEF Ev
<1> QED BY <1>1 DEF RInv, ResumeOK

(* A waitall has ended its requests.                                       *)
LEMMA StopWaitallStep ==
    ASSUME RInv, NEW p \in Procs, HandleStopWaitall(p)
    PROVE  RInv'
<1>1. Current(p, "stop_waitall") /\ Advance(p) /\ WaitallDone(p) /\ PInv BY DEF HandleStopWaitall, RInv
<1>2. PICK s : s = WaitallFrom(p) OBVIOUS
<1>3. p2p' = s.q /\ reqs' = [reqs EXCEPT ![p] = s.rq] BY <1>2 DEF HandleStopWaitall
<1>4. EndState(s, p2p, at, p, at[p]) BY <1>1, <1>2, WaitallLoop DEF LoopOK
<1>5. "stop_waitall" \notin StartOps \cup {"send_init", "recv_init"} BY DEF StartOps
<1>6. PInv' BY <1>1, <1>3, <1>4, <1>5, EndedStep
<1>7. ResumeOK'
  <2>1. resume \in [Procs -> Nat] /\ at \in [Procs -> Nat \ {0}] BY DEF RInv, ResumeOK, PInv, Good
  <2>2. resume' \in [Procs -> Nat] /\ resume'[p] = 0 /\ \A x \in Procs : x # p => resume'[x] = resume[x]
        BY <1>1, <2>1 DEF WaitallDone
  <2>3. ASSUME NEW x \in Procs, resume'[x] > 0
        PROVE  Ev(x)'.op = "stop_waitall" /\ resume'[x] <= Len(Ev(x)'.reqs)
    <3>1. x # p /\ resume'[x] = resume[x] BY <2>2, <2>3
    <3>2. at'[x] = at[x] /\ prog' = prog BY <1>1, <2>1, <3>1 DEF Advance
    <3>3. Ev(x)' = Ev(x) BY <3>2 DEF Ev
    <3> QED BY <2>3, <3>1, <3>3 DEF RInv, ResumeOK
  <2> QED BY <2>2, <2>3 DEF ResumeOK
<1> QED BY <1>6, <1>7 DEF RInv

(* A waitall has ended some of its requests and asks for a replay.         *)
LEMMA ReplayStep ==
    ASSUME RInv, NEW p \in Procs, AskForReplay(p)
    PROVE  RInv'
<1>1. Current(p, "stop_waitall") /\ UNCHANGED <<prog, at>> /\ PInv BY DEF AskForReplay, RInv
<1>2. PICK s : s = WaitallFrom(p) OBVIOUS
<1>3. p2p' = s.q /\ reqs' = [reqs EXCEPT ![p] = s.rq] /\ resume' = [resume EXCEPT ![p] = s.ended]
      BY <1>2 DEF AskForReplay
<1>4. EndState(s, p2p, at, p, at[p]) /\ s.ended \in Nat /\ s.ended <= Len(Ev(p).reqs)
      BY <1>1, <1>2, WaitallLoop DEF LoopOK
<1>5. Good(s.q, [reqs EXCEPT ![p] = s.rq], at)
  <2>1. PICK rqs : rqs = [reqs EXCEPT ![p] = s.rq] OBVIOUS
  <2>2. /\ at \in [Procs -> Nat \ {0}] /\ reqs \in [Procs -> RqType]
        /\ \A x \in Procs : RqOK(reqs[x], p2p, x, at[x])
        BY <1>1 DEF PInv, Good
  <2>3. Paired(s.q, at, at) /\ DOMAIN s.q.msgs = DOMAIN p2p.msgs /\ RqOK(s.rq, s.q, p, at[p])
        BY <1>4 DEF EndState
  <2>4. rqs \in [Procs -> RqType] /\ rqs[p] = s.rq /\ \A x \in Procs : x # p => rqs[x] = reqs[x]
        BY <2>1, <2>2, <2>3 DEF RqOK
  <2>5. ASSUME NEW x \in Procs PROVE RqOK(rqs[x], s.q, x, at[x])
    <3>1. CASE x = p BY <2>3, <2>4, <3>1
    <3>2. CASE x # p BY <2>2, <2>3, <2>4, <3>2 DEF RqOK, MsgsOK
    <3> QED BY <3>1, <3>2
  <2> QED BY <2>1, <2>2, <2>3, <2>4, <2>5 DEF Good
<1>6. PInv' BY <1>1, <1>3, <1>5, PInvKept
<1>7. ResumeOK'
  <2>1. resume \in [Procs -> Nat] BY DEF RInv, ResumeOK
  <2>2. \A x \in Procs : Ev(x)' = Ev(x) BY <1>1 DEF Ev
  <2>3. Ev(p).op = "stop_waitall" BY <1>1 DEF Current
  <2>4. resume' \in [Procs -> Nat] /\ resume'[p] = s.ended /\ \A x \in Procs : x # p => resume'[x] = resume[x]
        BY <1>3, <1>4, <2>1
  <2> QED BY <1>4, <2>2, <2>3, <2>4 DEF RInv, ResumeOK
<1> QED BY <1>6, <1>7 DEF RInv

(* An event, unless an assertion fails, is passed, and is no end of a      *)
(* waitall.                                                                *)
LEMMA EventPasses ==
    ASSUME NEW p \in Procs, HandleEvent(p)
    PROVE  \/ UNCHANGED <<prog, at>>
           \/ Advance(p) /\ \E op \in Ops \ {"stop_waitall"} : Current(p, op)
<1>1. CASE AssertionFails(p) BY <1>1 DEF AssertionFails
<1>2. CASE HandleStartSend(p) \/ HandleStopSend(p) \/ HandleStartRecv(p) \/ HandleStopRecv(p)
      BY <1>2 DEF HandleStartSend, HandleStopSend, HandleStartRecv, HandleStopRecv, Ops
<1>3. CASE HandleStartSendrecv(p) \/ HandleStopSendrecv(p) \/ HandleIsend(p) \/ HandleIrecv(p)
      BY <1>3 DEF HandleStartSendrecv, HandleStopSendrecv, HandleIsend, HandleIrecv, Ops
<1>4. CASE HandlePersInit(p) \/ HandleStart(p) \/ HandleStartWait(p) \/ HandleStopWait(p)
      BY <1>4 DEF HandlePersInit, HandleStart, HandleStartWait, HandleStopWait, Ops
<1> QED BY <1>1, <1>2, <1>3, <1>4 DEF HandleEvent

(* Every event of MpiRequests keeps the invariant.                         *)
LEMMA WaitsStep ==
    ASSUME RInv, NEW p \in Procs, HandleWaits(p)
    PROVE  RInv'
<1>1. PInv BY DEF RInv
<1>2. CASE HandleStartWaitany(p) \/ HandleStartWaitall(p)
  <2>1. PInv' BY <1>1, <1>2, StartWaitsStep
  <2>2. CASE HandleStartWaitany(p)
    <3>1. ResumeOK' BY <2>2, ResumeElsewhere DEF HandleStartWaitany
    <3> QED BY <2>1, <3>1 DEF RInv
  <2>3. CASE HandleStartWaitall(p)
    <3>1. ResumeOK' BY <2>3, ResumeElsewhere DEF HandleStartWaitall
    <3> QED BY <2>1, <3>1 DEF RInv
  <2> QED BY <1>2, <2>2, <2>3
<1>3. CASE HandleStopWaitany(p)
  <2>1. PInv' BY <1>1, <1>3, StopWaitanyStep
  <2>2. ResumeOK' BY <1>3, ResumeElsewhere DEF HandleStopWaitany
  <2> QED BY <2>1, <2>2 DEF RInv
<1>4. CASE StopWaitanyTooEarly(p)
  <2>1. PInv' BY <1>1, <1>4, TooEarlyStep
  <2>2. ResumeOK' BY <1>4, ResumeElsewhere DEF StopWaitanyTooEarly
  <2> QED BY <2>1, <2>2 DEF RInv
<1>5. CASE HandleStopWaitall(p) BY <1>5, StopWaitallStep
<1>6. CASE AskForReplay(p) BY <1>6, ReplayStep
<1>7. CASE WaitAssertionFails(p)
  <2>1. UNCHANGED <<prog, at, p2p, reqs, resume>> BY <1>7 DEF WaitAssertionFails
  <2>2. PInv' BY <1>1, <2>1, NothingStep
  <2>3. ResumeOK' BY <2>1, ResumeSame
  <2> QED BY <2>2, <2>3 DEF RInv
<1> QED BY <1>2, <1>3, <1>4, <1>5, <1>6, <1>7 DEF HandleWaits

(* The invariant is inductive.                                             *)
LEMMA RInvKept == RInv /\ [NextR]_varsR => RInv'
<1> SUFFICES ASSUME RInv, [NextR]_varsR PROVE RInv' OBVIOUS
<1>1. PInv BY DEF RInv
<1>2. CASE \E p \in Procs : HandleEvent(p) /\ UNCHANGED <<resume, lost>>
  <2>1. PICK p \in Procs : HandleEvent(p) /\ UNCHANGED <<resume, lost>> BY <1>2
  <2>2. PInv' BY <1>1, <2>1, HandleEventStep
  <2>3. ResumeOK'
    <3>1. CASE UNCHANGED <<prog, at>> BY <2>1, <3>1, ResumeSame
    <3>2. CASE Advance(p) /\ \E op \in Ops \ {"stop_waitall"} : Current(p, op)
          BY <2>1, <3>2, ResumeElsewhere
    <3> QED BY <2>1, <3>1, <3>2, EventPasses
  <2> QED BY <2>2, <2>3 DEF RInv
<1>3. CASE \E p \in Procs : HandleWaits(p) BY <1>3, WaitsStep
<1>4. CASE UNCHANGED varsR \/ (Terminated /\ UNCHANGED <<resume, lost>>)
  <2>1. UNCHANGED <<prog, at, p2p, reqs, resume>> BY <1>4 DEF varsR, vars, Terminated
  <2>2. PInv' BY <1>1, <2>1, NothingStep
  <2>3. ResumeOK' BY <2>1, ResumeSame
  <2> QED BY <2>2, <2>3 DEF RInv
<1> QED BY <1>2, <1>3, <1>4 DEF NextR

-----------------------------------------------------------------------------
(* The n-th on both sides. *)

Increasing(f, X) == \A x, y \in X : x < y => f[x] < f[y]
Image(f, X) == {f[x] : x \in X}

(* A function that is 0 at the end of a set only, and increasing before.   *)
StartsIncrease(f, B) == \A x, y \in B : x < y /\ f[y] # 0 => f[x] # 0 /\ f[x] < f[y]

(* An increasing function takes as many values as it has arguments.        *)
LEMMA AsMany ==
    ASSUME NEW n \in Nat, NEW X \in SUBSET (1 .. n), NEW f \in [X -> Nat],
           Increasing(f, X)
    PROVE  Cardinality(Image(f, X)) = Cardinality(X)
<1> DEFINE S == Image(f, X)
<1>0. S = {f[x] : x \in X} BY DEF Image
<1> HIDE DEF S
<1>1. IsFiniteSet(X)
  <2>1. IsFiniteSet(1 .. n) BY FS_Interval
  <2> QED BY <2>1, FS_Subset
<1>2. f \in Surjection(X, S)
  <2>1. f \in [X -> S] BY <1>0
  <2>2. \A t \in S : \E x \in X : f[x] = t BY <1>0
  <2> QED BY <2>1, <2>2 DEF Surjection
<1>3. f \in Injection(X, S)
  <2>1. f \in [X -> S] BY <1>0
  <2>2. ASSUME NEW x \in X, NEW y \in X, f[x] = f[y] PROVE x = y
    <3>1. x \in Nat /\ y \in Nat /\ f[x] \in Nat OBVIOUS
    <3>2. ~(x < y) /\ ~(y < x) BY <2>2, <3>1 DEF Increasing
    <3> QED BY <3>1, <3>2
  <2> QED BY <2>1, <2>2 DEF Injection, IsInjective
<1>4. ExistsBijection(X, S) BY <1>2, <1>3 DEF ExistsBijection, Bijection
<1>5. Cardinality(S) = Cardinality(X) BY <1>1, <1>4, FS_Bijection
<1> QED BY <1>5 DEF S

UpTo(S, i) == {j \in S : j <= i}

(* Among the messages of a kind, those up to m are as many as the events   *)
(* that start them, up to the one that starts m.                           *)
LEMMA CountedByMessages ==
    ASSUME NEW n \in Nat, NEW B \in SUBSET (1 .. n), NEW f \in [B -> Nat], NEW m \in B, f[m] # 0,
           StartsIncrease(f, B)
    PROVE  Cardinality(UpTo(Image(f, B) \ {0}, f[m])) = Cardinality(UpTo(B, m))
<1> DEFINE S == Image(f, B) \ {0}
<1>0. S = {f[x] : x \in B} \ {0} BY DEF Image
<1> HIDE DEF S
<1>1. PICK X : X = UpTo(B, m) OBVIOUS
<1>2. X \in SUBSET (1 .. n) /\ X \subseteq B BY <1>1 DEF UpTo
<1>3. \A x \in B : x \in Nat /\ f[x] \in Nat OBVIOUS
<1>4. ASSUME NEW x \in B, x <= m PROVE f[x] # 0 /\ f[x] <= f[m]
  <2>1. x < m \/ x = m BY <1>3, <1>4
  <2> QED BY <1>3, <2>1 DEF StartsIncrease
<1>5. ASSUME NEW x \in B, f[x] # 0, f[x] <= f[m] PROVE x <= m
  <2>1. ~(f[m] < f[x]) BY <1>3, <1>5
  <2>2. ~(m < x) BY <1>5, <2>1 DEF StartsIncrease
  <2> QED BY <1>3, <2>2
<1>6. PICK g : g = [x \in X |-> f[x]] OBVIOUS
<1>7. g \in [X -> Nat] /\ \A x \in X : g[x] = f[x] BY <1>2, <1>3, <1>6
<1>8. UpTo(S, f[m]) = Image(g, X)
  <2>1. \A x \in B : x \in X <=> x <= m BY <1>1 DEF UpTo
  <2>2. ASSUME NEW j \in UpTo(S, f[m]) PROVE \E x \in X : j = g[x]
    <3>1. PICK x \in B : j = f[x] /\ j # 0 /\ j <= f[m] BY <1>0, <2>2 DEF UpTo
    <3>2. x \in X BY <1>5, <2>1, <3>1
    <3> QED BY <1>7, <3>1, <3>2
  <2>3. ASSUME NEW x \in X PROVE g[x] \in UpTo(S, f[m])
    <3>1. x \in B /\ x <= m BY <1>2, <2>1
    <3>2. f[x] # 0 /\ f[x] <= f[m] BY <1>4, <3>1
    <3> QED BY <1>0, <1>7, <3>1, <3>2 DEF UpTo
  <2> QED BY <2>2, <2>3 DEF Image
<1>9. Increasing(g, X)
  <2>1. \A x \in X : x \in B /\ f[x] # 0 /\ g[x] = f[x]
    <3>1. \A x \in X : x \in B /\ x <= m BY <1>1 DEF UpTo
    <3> QED BY <1>4, <1>7, <3>1
  <2> QED BY <2>1 DEF Increasing, StartsIncrease
<1>10. Cardinality(UpTo(S, f[m])) = Cardinality(X) BY <1>2, <1>7, <1>8, <1>9, AsMany
<1> QED BY <1>1, <1>10 DEF S

(* Both sides of a message have the same number among those of its kind.   *)
LEMMA NumbersEqual ==
    ASSUME NEW q, NEW a \in [Procs -> Nat \ {0}], Paired(q, a, a), NEW m \in DOMAIN q.msgs,
           NEW p \in Procs, NEW d \in Procs, NEW t \in Tags, q.msgs[m].src = p, q.msgs[m].dest = d, q.msgs[m].tag = t,
           StartS(q, m) # 0, StartR(q, m) # 0, NoWildcard(d)
    PROVE  Cardinality(UpTo(SentBefore(p, a[p], d, t), StartS(q, m))) =
           Cardinality(UpTo(RecvdBefore(d, a[d], p, t), StartR(q, m)))
<1>1. /\ q \in QType /\ InOrder(q) /\ AllThere(q, a, a) BY DEF Paired
<1>2. PICK n \in Nat : DOMAIN q.msgs = 1 .. n BY <1>1, MsgsAre
<1>3. PICK B : B = Between(q, p, d, t) OBVIOUS
<1>4. B \in SUBSET (1 .. n) /\ m \in B BY <1>2, <1>3 DEF Between
<1>5. PICK f : f = [x \in B |-> StartS(q, x)] OBVIOUS
<1>6. PICK g : g = [x \in B |-> StartR(q, x)] OBVIOUS
<1>7. \A x \in DOMAIN q.msgs : StartS(q, x) \in Nat /\ StartR(q, x) \in Nat BY <1>1, MsgsAre
<1>8. f \in [B -> Nat] /\ g \in [B -> Nat] BY <1>2, <1>4, <1>5, <1>6, <1>7
<1>9. \A x \in B : f[x] = StartS(q, x) /\ g[x] = StartR(q, x) BY <1>5, <1>6
<1>10. \A x, y \in B : x < y => /\ StartS(q, y) # 0 => StartS(q, x) # 0 /\ StartS(q, x) < StartS(q, y)
                                /\ StartR(q, y) # 0 => StartR(q, x) # 0 /\ StartR(q, x) < StartR(q, y)
  <2>1. \A x \in B : x \in DOMAIN q.msgs /\ q.msgs[x].src = p /\ q.msgs[x].dest = d /\ q.msgs[x].tag = t
        BY <1>3 DEF Between
  <2> QED BY <1>1, <2>1 DEF InOrder, SameKind
<1>11. StartsIncrease(f, B) /\ StartsIncrease(g, B) BY <1>9, <1>10 DEF StartsIncrease
<1>12. SentBefore(p, a[p], d, t) = Image(f, B) \ {0}
  <2>1. SentBefore(p, a[p], d, t) = {StartS(q, x) : x \in B} \ {0} BY <1>1, <1>3 DEF AllThere, StartsOf
  <2> QED BY <1>9, <2>1 DEF Image
<1>13. RecvdBefore(d, a[d], p, t) = Image(g, B) \ {0}
  <2>1. RecvdBefore(d, a[d], p, t) = {StartR(q, x) : x \in B} \ {0} BY <1>1, <1>3 DEF AllThere, RecvsOf
  <2> QED BY <1>9, <2>1 DEF Image
<1>14. f[m] = StartS(q, m) /\ g[m] = StartR(q, m) BY <1>4, <1>9
<1>15. Cardinality(UpTo(Image(f, B) \ {0}, f[m])) = Cardinality(UpTo(B, m))
       BY <1>4, <1>8, <1>11, <1>14, CountedByMessages
<1>16. Cardinality(UpTo(Image(g, B) \ {0}, g[m])) = Cardinality(UpTo(B, m))
       BY <1>4, <1>8, <1>11, <1>14, CountedByMessages
<1> QED BY <1>12, <1>13, <1>14, <1>15, <1>16

(* The starts of a message were read.                                      *)
LEMMA StartedBefore ==
    ASSUME NEW q, NEW a \in [Procs -> Nat \ {0}], Paired(q, a, a), NEW m \in DOMAIN q.msgs,
           NEW p \in Procs, NEW d \in Procs, NEW t \in Tags, q.msgs[m].src = p, q.msgs[m].dest = d, q.msgs[m].tag = t,
           NoWildcard(d)
    PROVE  /\ StartS(q, m) # 0 => StartS(q, m) < a[p]
           /\ StartR(q, m) # 0 => StartR(q, m) < a[d]
<1>1. m \in Between(q, p, d, t) BY DEF Between
<1>2. StartS(q, m) # 0 => StartS(q, m) \in SentBefore(p, a[p], d, t)
      BY <1>1 DEF Paired, AllThere, StartsOf
<1>3. StartR(q, m) # 0 => StartR(q, m) \in RecvdBefore(d, a[d], p, t)
      BY <1>1 DEF Paired, AllThere, RecvsOf
<1> QED BY <1>2, <1>3 DEF SentBefore, RecvdBefore

(* The invariant implies that messages do not overtake each other.         *)
LEMMA InvPairs == PInv => PairedInOrder
<1> SUFFICES ASSUME PInv, NEW m \in DOMAIN p2p.msgs, StartS(p2p, m) # 0, StartR(p2p, m) # 0,
                    NoWildcard(p2p.msgs[m].dest)
             PROVE  SendNumber(p2p.msgs[m].src, StartS(p2p, m), p2p.msgs[m].dest, p2p.msgs[m].tag) =
                    RecvNumber(p2p.msgs[m].dest, StartR(p2p, m), p2p.msgs[m].src, p2p.msgs[m].tag)
    BY DEF PairedInOrder, StartS, StartR
<1>1. Paired(p2p, at, at) /\ at \in [Procs -> Nat \ {0}] /\ p2p \in QType BY DEF PInv, Good, Paired
<1>2. PICK p \in Procs, d \in Procs, t \in Tags : p2p.msgs[m].src = p /\ p2p.msgs[m].dest = d /\ p2p.msgs[m].tag = t
  <2>1. p2p.msgs[m].src \in Procs /\ p2p.msgs[m].tag \in Tags BY <1>1 DEF Paired, Resolves
  <2>2. p2p.msgs[m].dest \in Procs BY <1>1, MsgsAre
  <2> QED BY <2>1, <2>2
<1>3. PICK s \in Nat, r \in Nat : s = StartS(p2p, m) /\ r = StartR(p2p, m) BY <1>1, MsgsAre
<1>4. s < at[p] /\ r < at[d] BY <1>1, <1>2, <1>3, StartedBefore
<1>5. /\ \A x \in Procs : prog[x] \in Seq(MpiEvent)
      /\ Sends(p) \subseteq Nat /\ Recvs(d) \subseteq Nat /\ at[p] \in Nat /\ at[d] \in Nat
  <2>1. \A x \in Procs : prog[x] \in Seq(MpiEvent) BY ProgramIs DEF PInv
  <2> QED BY <1>1, <2>1, EventsAre
<1>6. SendNumber(p, s, d, t) = Cardinality(UpTo(SentBefore(p, at[p], d, t), s))
  <2>1. \A j \in Sends(p) : j <= s <=> j < at[p] /\ j <= s BY <1>4, <1>5
  <2>2. UpTo(SentBefore(p, at[p], d, t), s)
        = {j \in Sends(p) : j <= s /\ Params(p, j).peer = d /\ Params(p, j).tag = t}
        BY <2>1 DEF UpTo, SentBefore
  <2> QED BY <2>2 DEF SendNumber
<1>7. RecvNumber(d, r, p, t) = Cardinality(UpTo(RecvdBefore(d, at[d], p, t), r))
  <2>1. \A j \in Recvs(d) : j <= r <=> j < at[d] /\ j <= r BY <1>4, <1>5
  <2>2. UpTo(RecvdBefore(d, at[d], p, t), r) = {j \in Recvs(d) : j <= r /\ RecvSource(d, j) = <<p, t>>}
        BY <2>1 DEF UpTo, RecvdBefore
  <2> QED BY <2>2 DEF RecvNumber
<1>8. Cardinality(UpTo(SentBefore(p, at[p], d, t), s)) = Cardinality(UpTo(RecvdBefore(d, at[d], p, t), r))
      BY <1>1, <1>2, <1>3, NumbersEqual
<1> QED BY <1>2, <1>3, <1>6, <1>7, <1>8

(* No message, no event read. *)
LEMMA InitPInv == Init => PInv
<1> SUFFICES ASSUME Init PROVE PInv OBVIOUS
<1>1. /\ prog \in Programs /\ at = [p \in Procs |-> 1]
      /\ p2p = [msgs |-> << >>, incoming |-> [p \in Procs |-> << >>], outgoing |-> [p \in Procs |-> << >>]]
      /\ reqs = [p \in Procs |-> [r \in {} |-> 0]]
      BY DEF Init
<1>2. PICK list : list = << >> OBVIOUS
<1>3. DOMAIN list = {} /\ list \in PendingType
  <2>1. list \in [{} -> EntryType] /\ {} \in SUBSET (Nat \ {0}) BY <1>2
  <2>2. DOMAIN list = {} BY <2>1
  <2> QED BY <2>1, <2>2, PendingMade
<1>4. p2p.msgs = << >> /\ p2p.incoming = [p \in Procs |-> list] /\ p2p.outgoing = [p \in Procs |-> list]
      /\ p2p = [msgs |-> p2p.msgs, incoming |-> p2p.incoming, outgoing |-> p2p.outgoing]
      BY <1>1, <1>2
<1>5. p2p.msgs \in Seq(MsgType) /\ DOMAIN p2p.msgs = {} BY <1>4
<1>6. p2p.incoming \in [Procs -> PendingType] /\ p2p.outgoing \in [Procs -> PendingType] BY <1>3, <1>4
<1>7. p2p \in QType BY <1>4, <1>5, <1>6 DEF QType
<1>8. \A p \in Procs : DOMAIN p2p.incoming[p] = {} /\ DOMAIN p2p.outgoing[p] = {} BY <1>3, <1>4
<1>9. IncomingOK(p2p, at) /\ OutgoingOK(p2p, at) BY <1>8 DEF IncomingOK, OutgoingOK
<1>10. OneSided(p2p) /\ Resolves(p2p) /\ InOrder(p2p) BY <1>5 DEF OneSided, Resolves, InOrder
<1>11. \A p \in Procs : at[p] = 1 BY <1>1
<1>12. AllThere(p2p, at, at)
  <2> SUFFICES ASSUME NEW s \in Procs, NEW d \in Procs, NEW t \in Tags
               PROVE  /\ StartsOf(p2p, Between(p2p, s, d, t)) = SentBefore(s, at[s], d, t)
                      /\ RecvsOf(p2p, Between(p2p, s, d, t)) = RecvdBefore(d, at[d], s, t)
      BY DEF AllThere
  <2>1. Between(p2p, s, d, t) = {} BY <1>5 DEF Between
  <2>2. \A x \in Procs : prog[x] \in Seq(MpiEvent) /\ \A i \in DOMAIN prog[x] : i \in Nat \ {0}
        BY <1>1, ProgramIs
  <2>3. /\ \A j \in Sends(s) : j \in Nat \ {0} /\ ~(j < 1)
        /\ \A j \in Recvs(d) : j \in Nat \ {0} /\ ~(j < 1)
        BY <2>2 DEF Sends, Recvs
  <2>4. SentBefore(s, at[s], d, t) = {} /\ RecvdBefore(d, at[d], s, t) = {}
        BY <1>11, <2>3 DEF SentBefore, RecvdBefore
  <2> QED BY <2>1, <2>4 DEF StartsOf, RecvsOf
<1>13. Paired(p2p, at, at) BY <1>7, <1>9, <1>10, <1>12 DEF Paired
<1>14. PICK rq : rq = [r \in {} |-> 0] OBVIOUS
<1>15. rq \in RqType /\ DOMAIN rq = {}
  <2>1. rq \in [{} -> ReqType] /\ {} \in SUBSET Ptrs BY <1>14
  <2>2. DOMAIN rq = {} BY <2>1
  <2> QED BY <2>1, <2>2, RqMade
<1>16. reqs \in [Procs -> RqType] /\ \A p \in Procs : reqs[p] = rq BY <1>1, <1>14, <1>15
<1>17. \A p \in Procs : RqOK(reqs[p], p2p, p, at[p]) BY <1>15, <1>16 DEF RqOK, MsgsOK, PersistentOK
<1>18. at \in [Procs -> Nat \ {0}] BY <1>1
<1> QED BY <1>1, <1>13, <1>16, <1>17, <1>18 DEF PInv, Good

(* And no waitall to resume.                                              *)
LEMMA InitRInv == InitR => RInv
<1> SUFFICES ASSUME InitR PROVE RInv OBVIOUS
<1>1. PInv BY InitPInv DEF InitR
<1>2. ResumeOK BY DEF InitR, ResumeOK
<1> QED BY <1>1, <1>2 DEF RInv

(* Whatever the order in which the traces are read, and whatever requests  *)
(* are waited for, together or not, a message pairs the n-th send of a     *)
(* process to another with a tag and the n-th receive of the latter from   *)
(* the former with it, when the latter receives without wildcards.         *)
THEOREM PairedInOrderHolds == SpecR => []PairedInOrder
<1>1. RInv => PairedInOrder BY InvPairs DEF RInv
<1> QED BY <1>1, InitRInv, RInvKept, PTL DEF SpecR

(* So it is with the events of MpiP2P alone, where no call waits for       *)
(* several requests.                                                       *)
THEOREM PairedInOrderAlone == Spec => []PairedInOrder
<1>1. PInv /\ [Next]_vars => PInv'
  <2> SUFFICES ASSUME PInv, [Next]_vars PROVE PInv' OBVIOUS
  <2>1. CASE \E p \in Procs : HandleEvent(p) BY <2>1, HandleEventStep
  <2>2. CASE Terminated \/ UNCHANGED vars
    <3>1. UNCHANGED <<prog, at, p2p, reqs>> BY <2>2 DEF Terminated, vars
    <3> QED BY <3>1, NothingStep
  <2> QED BY <2>1, <2>2 DEF Next
<1> QED BY <1>1, InitPInv, InvPairs, PTL DEF Spec

=============================================================================
