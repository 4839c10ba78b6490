--------------------------- MODULE MpiColl_proofs ---------------------------
(* Proofs about the collective communications, for any number of processes *)
(* and any legal program: in whatever order the traces are read, the n-th  *)
(* collective of every process is the n-th message, which none leaves      *)
(* before all have entered it.                                             *)
EXTENDS MpiColl, SequenceTheorems, WellFoundedInduction, TLAPS

Message == [type : Types, len : Lens, start : [Procs -> Nat], stop : [Procs -> Nat],
            thread : [Procs -> Nat], begun : [Links -> Nat], ended : [Links -> Nat]]

TypeInv ==
    /\ prog \in Programs /\ order \in Orders
    /\ at \in [Procs -> Nat \ {0}] /\ delay \in [Procs -> Nat]
    /\ msgs \in Seq(Message)
    /\ joined \in [Procs -> Seq(Nat)] /\ left \in [Procs -> Seq(Nat)]

Entries(p) == Len(joined[p])
Exits(p) == Len(left[p])

(* A process enters and leaves its collectives one after another.          *)
Positions ==
    \A p \in Procs :
        /\ at[p] = Entries(p) + Exits(p) + 1
        /\ at[p] <= Len(prog[p]) + 1
        /\ Entries(p) \in {Exits(p), Exits(p) + 1}
        /\ at[p] <= Len(prog[p]) => (Ev(p).op = "start" <=> Entries(p) = Exits(p))

(* The n-th collective that a process enters or leaves is the n-th message. *)
Numbered ==
    \A p \in Procs :
        /\ Entries(p) <= Len(msgs)
        /\ \A n \in 1 .. Entries(p) : joined[p][n] = n
        /\ \A n \in 1 .. Exits(p) : left[p][n] = n

(* A message knows who has entered it and who has left it. *)
Recorded ==
    \A m \in 1 .. Len(msgs), p \in Procs :
        /\ msgs[m].start[p] # 0 <=> m <= Entries(p)
        /\ msgs[m].thread[p] # NoThread <=> m <= Entries(p)
        /\ msgs[m].stop[p] # 0 <=> m <= Exits(p)

(* The n-th message is of the kind of the n-th collective of any process.  *)
Kinds ==
    \A m \in 1 .. Len(msgs), q \in Procs :
        2 * m - 1 <= Len(prog[q]) =>
            /\ msgs[m].type = prog[q][2 * m - 1].type
            /\ msgs[m].len = prog[q][2 * m - 1].len

(* The entries of a process are in the past of its clock; its exits too    *)
(* when the delays that they cause are its own.                            *)
Clock(p) == IF at[p] = 1 THEN 0 ELSE prog[p][at[p] - 1].time + delay[p]

Past ==
    \A m \in 1 .. Len(msgs), p \in Procs :
        /\ msgs[m].start[p] <= Clock(p)
        /\ Delayed(p) = p => msgs[m].stop[p] <= Clock(p)

(* Two of the properties, with the messages by their numbers. *)
AllEnteredFirst ==
    \A m \in 1 .. Len(msgs), p, q \in Procs :
        msgs[m].stop[p] # 0 => msgs[m].start[q] # 0 /\ msgs[m].start[q] <= msgs[m].stop[p]

EnteredInTurn ==
    \A m \in 1 .. Len(msgs) - 1, p \in Procs :
        Delayed(p) = p /\ m + 1 <= Entries(p) => msgs[m].stop[p] <= msgs[m + 1].start[p]

(* The arrow between two processes was begun once both have entered, and   *)
(* ended once both have left.                                              *)
Both(time, l) == IF time[l[1]] # 0 /\ time[l[2]] # 0 THEN 1 ELSE 0
Drawn(count, time) == \A l \in Links : count[l] = Both(time, l)

LinksDrawnOnce ==
    \A m \in 1 .. Len(msgs) : Drawn(msgs[m].begun, msgs[m].start) /\ Drawn(msgs[m].ended, msgs[m].stop)

IInv == /\ TypeInv /\ Positions /\ Numbered /\ Recorded /\ Kinds /\ Past
        /\ AllEnteredFirst /\ EnteredInTurn /\ LinksDrawnOnce

-----------------------------------------------------------------------------
(* The least and the greatest element of a set *)

LEMMA MinIs ==
    ASSUME NEW S \in SUBSET Int, NEW n \in S, \A m \in S : n <= m
    PROVE  FindMessage(S) = n
<1>1. \E x \in S : \A y \in S : x =< y
  OBVIOUS
<1>2. Min(S) \in S /\ \A y \in S : Min(S) =< y
  BY <1>1 DEF Min
<1>3. Min(S) \in Int /\ Min(S) <= n /\ n <= Min(S) /\ n \in Int
  BY <1>2
<1> QED
  BY <1>3 DEF FindMessage

LEMMA LeastExists ==
    ASSUME NEW S \in SUBSET Nat, S # {}
    PROVE  \E n \in S : \A m \in S : n <= m
<1> DEFINE R == OpToRel(<, Nat)
<1>0. S \subseteq Nat
  OBVIOUS
<1>1. PICK n \in S : \A m \in S : ~ (<<m, n>> \in R)
  BY <1>0, NatLessThanWellFounded, WFMin
<1>2. \A m \in S : ~(m < n)
  BY <1>1 DEF OpToRel
<1> HIDE DEF R
<1>3. \A m \in S : n <= m
  <2> TAKE m \in S
  <2>1. m \in Nat /\ n \in Nat /\ ~(m < n)
    BY <1>0, <1>2
  <2> QED
    BY <2>1
<1> QED
  BY <1>3

LEMMA MinType ==
    ASSUME NEW S \in SUBSET Nat, S # {}
    PROVE  FindMessage(S) \in S
<1>1. PICK n \in S : \A m \in S : n <= m
  BY LeastExists
<1> QED
  BY <1>1, MinIs

(* The times of the processes have a bound. *)
LEMMA Bounded ==
    ASSUME NEW f \in [Procs -> Nat]
    PROVE  \E B \in Nat : \A i \in Procs : f[i] <= B
<1> DEFINE UpTo(k, B) == \A i \in Procs : i < k => f[i] <= B
           T == {k \in Nat : k <= NbProcs /\ \A B \in Nat : ~UpTo(k, B)}
<1>0. NbProcs \in Nat \ {0} /\ \A i \in Procs : i \in Nat /\ i < NbProcs
  BY NbProcsAssumption DEF Procs
<1>1. CASE T = {}
  <2>0. NbProcs \notin T
    BY <1>1
  <2>1. PICK B \in Nat : UpTo(NbProcs, B)
    BY <1>0, <2>0
  <2> QED
    BY <1>0, <2>1
<1>2. CASE T # {}
  <2>1. T \in SUBSET Nat
    OBVIOUS
  <2>2. PICK k \in T : \A j \in T : k <= j
    <3> HIDE DEF T
    <3> QED
      BY <1>2, <2>1, LeastExists
  <2>3. k # 0
    <3>1. UpTo(0, 0)
      BY <1>0
    <3> QED
      BY <2>2, <3>1
  <2>4. k - 1 \in Nat /\ k - 1 <= NbProcs /\ k - 1 \notin T
    BY <1>0, <2>2, <2>3
  <2>5. PICK B \in Nat : UpTo(k - 1, B)
    BY <2>4
  <2>6. k - 1 \in Procs
    BY <1>0, <2>2, <2>3, <2>4 DEF Procs
  <2>7. \E C \in Nat : B <= C /\ f[k - 1] <= C
    <3>1. f[k - 1] \in Nat
      BY <2>6
    <3>2. f[k - 1] <= B \/ B <= f[k - 1]
      BY <3>1
    <3> QED
      BY <3>1, <3>2
  <2>8. PICK C \in Nat : B <= C /\ f[k - 1] <= C
    BY <2>7
  <2>9. UpTo(k, C)
    <3> SUFFICES ASSUME NEW i \in Procs, i < k PROVE f[i] <= C
      OBVIOUS
    <3>1. CASE i = k - 1
      BY <2>8, <3>1
    <3>2. CASE i # k - 1
      <4>1. i < k - 1
        BY <1>0, <2>2, <3>2
      <4>2. f[i] <= B /\ f[i] \in Nat
        BY <2>5, <4>1
      <4> QED
        BY <2>8, <4>2
    <3> QED
      BY <3>1, <3>2
  <2> QED
    BY <2>2, <2>8, <2>9
<1> QED
  BY <1>1, <1>2

LEMMA MaxType ==
    ASSUME NEW S \in SUBSET Nat, S # {}, NEW B \in Nat, \A x \in S : x <= B
    PROVE  Max(S) \in S /\ \A x \in S : x <= Max(S)
<1> DEFINE T == {n \in Nat : B - n \in S}
<1>1. T \in SUBSET Nat /\ T # {}
  <2>1. PICK x \in S : TRUE
    OBVIOUS
  <2>2. B - x \in Nat /\ B - (B - x) = x
    OBVIOUS
  <2> QED
    BY <2>1, <2>2
<1>2. PICK y \in T : \A z \in T : y <= z
  <2> HIDE DEF T
  <2> QED
    BY <1>1, LeastExists
<1>3. \A x \in S : B - x \in T
  OBVIOUS
<1>4. \A x \in S : B - y >= x
  <2> TAKE x \in S
  <2>1. B - x \in T /\ x \in Nat /\ y \in Nat
    BY <1>2, <1>3
  <2>2. y <= B - x
    BY <1>2, <2>1
  <2> QED
    BY <2>1, <2>2
<1>5. \E z \in S : \A x \in S : z >= x
  BY <1>2, <1>4
<1>6. Max(S) \in S /\ \A x \in S : Max(S) >= x
  BY <1>5 DEF Max
<1> QED
  BY <1>6

-----------------------------------------------------------------------------
(* The inputs and the clocks *)

LEMMA Inputs ==
    ASSUME TypeInv, NEW p \in Procs
    PROVE  /\ Len(prog[p]) \in Nat /\ DOMAIN prog[p] = 1 .. Len(prog[p])
           /\ \A i \in 1 .. Len(prog[p]) :
                /\ prog[p][i] \in CollEvent
                /\ prog[p][i].time \in Nat \ {0} /\ prog[p][i].type \in Types
                /\ prog[p][i].len \in Lens /\ prog[p][i].tid \in Nat \ {NoThread}
                /\ i = 1 => prog[p][i].op = "start"
                /\ i > 1 => /\ prog[p][i].op # prog[p][i - 1].op
                            /\ prog[p][i - 1].time <= prog[p][i].time
           /\ \A q \in Procs : \A i \in 1 .. Len(prog[p]) :
                i <= Len(prog[q]) /\ prog[p][i].op = "start" =>
                    prog[q][i].type = prog[p][i].type /\ prog[q][i].len = prog[p][i].len
<1>1. prog \in [Procs -> Seq(CollEvent)]
  BY ProgramsAssumption DEF TypeInv
<1>2. \A q \in Procs : /\ Len(prog[q]) \in Nat /\ DOMAIN prog[q] = 1 .. Len(prog[q])
                       /\ \A i \in 1 .. Len(prog[q]) : prog[q][i] \in CollEvent
  BY <1>1, LenProperties, ElementOfSeq
<1>3. \A i \in 1 .. Len(prog[p]) : prog[p][i].time > 0
  BY <1>2, ProgramsAssumption DEF TypeInv
<1>4. /\ OneAtATime(prog[p])
      /\ \A q \in Procs : SameOrder(prog[p], prog[q])
  BY LegalProgramsAssumption DEF TypeInv
<1>5. \A i \in 1 .. Len(prog[p]) :
         /\ i = 1 => prog[p][i].op = "start"
         /\ i > 1 => prog[p][i].op # prog[p][i - 1].op /\ prog[p][i - 1].time <= prog[p][i].time
  BY <1>2, <1>4 DEF OneAtATime
<1>6. \A q \in Procs : \A i \in 1 .. Len(prog[p]) :
         i <= Len(prog[q]) /\ prog[p][i].op = "start" =>
             prog[q][i].type = prog[p][i].type /\ prog[q][i].len = prog[p][i].len
  BY <1>2, <1>4 DEF SameOrder
<1>7. \A i \in 1 .. Len(prog[p]) :
         /\ prog[p][i].time \in Nat \ {0} /\ prog[p][i].type \in Types
         /\ prog[p][i].len \in Lens /\ prog[p][i].tid \in Nat \ {NoThread}
  <2> TAKE i \in 1 .. Len(prog[p])
  <2>1. prog[p][i] \in CollEvent /\ prog[p][i].time > 0
    BY <1>2, <1>3
  <2>2. /\ prog[p][i].time \in Nat /\ prog[p][i].type \in Types /\ prog[p][i].len \in Lens
        /\ prog[p][i].tid \in Tids
    BY <2>1 DEF CollEvent
  <2>3. prog[p][i].tid \in Nat \ {NoThread}
    BY <2>2, TidsAssumption
  <2> QED
    BY <2>1, <2>2, <2>3
<1> QED
  BY <1>2, <1>5, <1>6, <1>7

LEMMA Alternate ==
    ASSUME TypeInv, NEW p \in Procs, NEW i \in 1 .. Len(prog[p]), i > 1
    PROVE  prog[p][i] \in CollEvent /\ prog[p][i].op # prog[p][i - 1].op
  BY Inputs

LEMMA SameKind ==
    ASSUME TypeInv, NEW p \in Procs, NEW q \in Procs, NEW i \in 1 .. Len(prog[p]),
           i <= Len(prog[q]), prog[p][i].op = "start"
    PROVE  prog[q][i].type = prog[p][i].type /\ prog[q][i].len = prog[p][i].len
  BY Inputs

LEMMA Clocks ==
    ASSUME TypeInv, Positions, NEW p \in Procs, at[p] <= Len(prog[p])
    PROVE  /\ CurTime(p) \in Nat \ {0} /\ Clock(p) \in Nat /\ Clock(p) <= CurTime(p)
           /\ at[p] \in 1 .. Len(prog[p]) /\ Ev(p) = prog[p][at[p]]
           /\ Ev(p).tid \in Nat \ {NoThread} /\ Ev(p).type \in Types /\ Ev(p).len \in Lens
<1>1. at[p] \in 1 .. Len(prog[p]) /\ delay[p] \in Nat
  BY Inputs DEF TypeInv
<1>2. Ev(p) = prog[p][at[p]] /\ Ev(p).time \in Nat \ {0}
  BY <1>1, Inputs DEF Ev
<1>3. at[p] # 1 => /\ at[p] - 1 \in 1 .. Len(prog[p])
                   /\ prog[p][at[p] - 1].time <= prog[p][at[p]].time
  BY <1>1, Inputs
<1>4. at[p] # 1 => prog[p][at[p] - 1].time \in Nat
  BY <1>3, Inputs
<1>5. CurTime(p) = Ev(p).time + delay[p]
  BY DEF CurTime
<1>6. Clock(p) \in Nat /\ Clock(p) <= CurTime(p)
  BY <1>1, <1>2, <1>3, <1>4, <1>5 DEF Clock
<1> QED
  BY <1>1, <1>2, <1>5, <1>6, Inputs

(* The delays go to processes, and every process gets those of one rank.   *)
LEMMA Ranks ==
    ASSUME TypeInv, NEW p \in Procs
    PROVE  Delayed(p) \in Procs /\ RankThatDelays(p) \in Procs
<1>1. order \in [Procs -> Procs] /\ \E i \in Procs : order[i] = p
  BY OrdersAssumption DEF TypeInv
<1> QED
  BY <1>1 DEF Delayed, RankThatDelays

(* The fields of the messages. *)
LEMMA Messages ==
    ASSUME TypeInv
    PROVE  /\ Len(msgs) \in Nat /\ DOMAIN msgs = 1 .. Len(msgs)
           /\ \A m \in 1 .. Len(msgs) :
                /\ msgs[m] \in Message
                /\ msgs[m].start \in [Procs -> Nat] /\ msgs[m].stop \in [Procs -> Nat]
                /\ msgs[m].thread \in [Procs -> Nat]
           /\ \A p \in Procs : Entries(p) \in Nat /\ Exits(p) \in Nat
<1>1. /\ Len(msgs) \in Nat /\ DOMAIN msgs = 1 .. Len(msgs)
      /\ \A m \in 1 .. Len(msgs) : msgs[m] \in Message
  BY LenProperties, ElementOfSeq DEF TypeInv
<1>2. \A p \in Procs : Entries(p) \in Nat /\ Exits(p) \in Nat
  BY LenProperties DEF TypeInv, Entries, Exits
<1> QED
  BY <1>1, <1>2 DEF Message

-----------------------------------------------------------------------------
(* What a process finds *)

(* A process that enters its n-th collective finds the n-th message, if    *)
(* there is one.                                                           *)
LEMMA EnterFindsNext ==
    ASSUME IInv, NEW p \in Procs, Current(p, "start")
    PROVE  EnterFinds(p) = IF Entries(p) + 1 <= Len(msgs) THEN Entries(p) + 1 ELSE NoMsg
<1> DEFINE n == Entries(p) + 1
           S == {m \in OfKind(Ev(p).type, Ev(p).len) : msgs[m].start[p] = 0}
<1>0. /\ Len(msgs) \in Nat /\ DOMAIN msgs = 1 .. Len(msgs) /\ Entries(p) \in Nat /\ Exits(p) \in Nat
      /\ Entries(p) <= Len(msgs)
  BY Messages DEF IInv, Numbered
<1>1. at[p] <= Len(prog[p]) /\ Ev(p).op = "start" /\ at[p] = 2 * n - 1 /\ Ev(p) = prog[p][2 * n - 1]
  BY <1>0 DEF Current, IInv, Positions, Ev
<1>2. S \subseteq n .. Len(msgs)
  BY <1>0 DEF OfKind, IInv, Recorded
<1>3. n <= Len(msgs) => n \in S
  <2> SUFFICES ASSUME n <= Len(msgs) PROVE n \in S
    OBVIOUS
  <2>1. n \in 1 .. Len(msgs) /\ 2 * n - 1 <= Len(prog[p])
    BY <1>0, <1>1
  <2>2. msgs[n].type = Ev(p).type /\ msgs[n].len = Ev(p).len
    BY <1>1, <2>1 DEF IInv, Kinds
  <2>3. msgs[n].start[p] = 0
    BY <1>0, <2>1 DEF IInv, Recorded
  <2> QED
    BY <1>0, <2>1, <2>2, <2>3 DEF OfKind
<1>4. EnterFinds(p) = FindMessage(S)
  BY DEF EnterFinds
<1>5. CASE n <= Len(msgs)
  <2>1. S \in SUBSET Int /\ n \in S /\ \A m \in S : n <= m
    BY <1>0, <1>2, <1>3, <1>5
  <2> HIDE DEF S
  <2> QED
    BY <1>4, <1>5, <2>1, MinIs
<1>6. CASE ~(n <= Len(msgs))
  <2>1. S = {}
    BY <1>0, <1>2, <1>6
  <2> QED
    BY <1>4, <1>6, <2>1 DEF FindMessage
<1> QED
  BY <1>5, <1>6

(* A process that leaves its n-th collective, in the thread that entered   *)
(* it, finds the n-th message, whatever length it reads.                   *)
LEMMA LeaveFindsSame ==
    ASSUME IInv, NEW p \in Procs, Current(p, "stop"), LeaveAsserts(p)
    PROVE  LeaveFinds(p) = Exits(p) + 1 /\ Entries(p) = Exits(p) + 1 /\ Entries(p) <= Len(msgs)
<1> DEFINE S == {m \in OfKind(Ev(p).type, Ev(p).len) : msgs[m].stop[p] = 0}
<1>0. /\ Len(msgs) \in Nat /\ DOMAIN msgs = 1 .. Len(msgs) /\ Entries(p) \in Nat /\ Exits(p) \in Nat
      /\ Entries(p) <= Len(msgs) /\ Ev(p).tid \in Nat \ {NoThread}
  BY Messages, Clocks DEF IInv, Numbered, Current
<1>1. Entries(p) = Exits(p) + 1
  BY <1>0 DEF Current, IInv, Positions
<1>2. S \subseteq Exits(p) + 1 .. Len(msgs)
  BY <1>0 DEF OfKind, IInv, Recorded
<1>3. LeaveFinds(p) = FindMessage(S) /\ FindMessage(S) # NoMsg
  BY DEF LeaveFinds, LeaveAsserts
<1>4. S # {}
  BY <1>3 DEF FindMessage
<1>5. LeaveFinds(p) \in S
  <2>1. S \in SUBSET Nat
    BY <1>0, <1>2
  <2> HIDE DEF S
  <2> QED
    BY <1>3, <1>4, <2>1, MinType
<1>6. LeaveFinds(p) \in Exits(p) + 1 .. Len(msgs) /\ LeaveFinds(p) <= Entries(p)
  <2>1. LeaveFinds(p) \in Exits(p) + 1 .. Len(msgs)
    BY <1>2, <1>5
  <2>2. msgs[LeaveFinds(p)].thread[p] # NoThread
    BY <1>0 DEF LeaveAsserts
  <2>3. LeaveFinds(p) \in 1 .. Len(msgs)
    BY <1>0, <2>1
  <2> QED
    BY <2>1, <2>2, <2>3 DEF IInv, Recorded
<1> QED
  BY <1>0, <1>1, <1>6

-----------------------------------------------------------------------------
(* The initial states *)

LEMMA InitIInv == Init => IInv
<1> SUFFICES ASSUME Init PROVE IInv
  OBVIOUS
<1> USE DEF Init
<1>0. msgs = << >> /\ Len(msgs) = 0 /\ \A p \in Procs : Entries(p) = 0 /\ Exits(p) = 0 /\ at[p] = 1
  BY EmptySeq DEF Entries, Exits
<1>1. TypeInv
  <2>1. << >> \in Seq(Message) /\ << >> \in Seq(Nat)
    BY EmptySeq
  <2> QED
    BY <2>1 DEF TypeInv
<1>2. Positions
  <2> SUFFICES ASSUME NEW p \in Procs
               PROVE  1 <= Len(prog[p]) + 1 /\ (1 <= Len(prog[p]) => Ev(p).op = "start")
    BY <1>0 DEF Positions
  <2> QED
    BY <1>0, <1>1, Inputs DEF Ev
<1>3. Numbered /\ Recorded /\ Kinds /\ Past /\ AllEnteredFirst /\ EnteredInTurn /\ LinksDrawnOnce
  BY <1>0 DEF Numbered, Recorded, Kinds, Past, AllEnteredFirst, EnteredInTurn, LinksDrawnOnce
<1> QED
  BY <1>1, <1>2, <1>3 DEF IInv

-----------------------------------------------------------------------------
(* A process enters a collective. *)

(* The message that it finds or makes: no process has left it.             *)
Found(n, p) == IF n <= Len(msgs) THEN msgs[n] ELSE NewMessage(Ev(p).type, Ev(p).len)

LEMMA FoundMessage ==
    ASSUME IInv, NEW p \in Procs, Current(p, "start"), NEW n, n = Entries(p) + 1
    PROVE  /\ Found(n, p) \in Message
           /\ Found(n, p).type = Ev(p).type /\ Found(n, p).len = Ev(p).len
           /\ Found(n, p).start[p] = 0
           /\ \A q \in Procs : /\ Found(n, p).stop[q] = 0
                               /\ Found(n, p).start[q] # 0 <=> Entries(q) >= n
                               /\ Found(n, p).thread[q] # NoThread <=> Entries(q) >= n
                               /\ Found(n, p).start[q] <= Clock(q)
           /\ \A l \in Links : /\ Found(n, p).begun[l] = Both(Found(n, p).start, l)
                               /\ Found(n, p).ended[l] = 0
<1>0. /\ Len(msgs) \in Nat /\ \A q \in Procs : Entries(q) \in Nat /\ Entries(q) <= Len(msgs)
      /\ n \in Nat \ {0}
  BY Messages DEF IInv, Numbered
<1>1. /\ at[p] <= Len(prog[p]) /\ at[p] = 2 * n - 1 /\ Ev(p) = prog[p][2 * n - 1]
      /\ Ev(p).type \in Types /\ Ev(p).len \in Lens
  <2>1. at[p] <= Len(prog[p]) /\ Ev(p).op = "start"
    BY DEF Current
  <2>2. at[p] = Entries(p) + Exits(p) + 1 /\ Entries(p) = Exits(p)
    BY <2>1 DEF IInv, Positions
  <2>3. at[p] = 2 * n - 1
    BY <1>0, <2>2
  <2>4. Ev(p) = prog[p][2 * n - 1]
    BY <2>3 DEF Ev
  <2>5. TypeInv /\ Positions
    BY DEF IInv
  <2> QED
    BY <2>1, <2>3, <2>4, <2>5, Clocks
<1>2. CASE n <= Len(msgs)
  <2>1. n \in 1 .. Len(msgs) /\ Found(n, p) = msgs[n]
    BY <1>0, <1>2 DEF Found
  <2>2. msgs[n].type = Ev(p).type /\ msgs[n].len = Ev(p).len
    BY <1>1, <2>1 DEF IInv, Kinds
  <2>3. msgs[n].start[p] = 0
    BY <1>0, <2>1 DEF IInv, Recorded
  <2>4. \A q \in Procs : msgs[n].stop[q] = 0
    BY <2>1, <2>3 DEF IInv, AllEnteredFirst
  <2>5. \A q \in Procs : /\ msgs[n].start[q] # 0 <=> Entries(q) >= n
                         /\ msgs[n].thread[q] # NoThread <=> Entries(q) >= n
                         /\ msgs[n].start[q] <= Clock(q)
    BY <1>0, <2>1 DEF IInv, Recorded, Past
  <2>6. \A l \in Links : msgs[n].begun[l] = Both(msgs[n].start, l) /\ msgs[n].ended[l] = 0
    BY <2>1, <2>4 DEF IInv, LinksDrawnOnce, Drawn, Both, Links
  <2> QED
    BY <2>1, <2>2, <2>3, <2>4, <2>5, <2>6, Messages DEF IInv
<1>3. CASE ~(n <= Len(msgs))
  <2>1. Found(n, p) = NewMessage(Ev(p).type, Ev(p).len)
    BY <1>3 DEF Found
  <2>2. Found(n, p) \in Message
    BY <1>1, <2>1 DEF NewMessage, Message, NoThread
  <2>3. \A q \in Procs : ~(Entries(q) >= n) /\ 0 <= Clock(q)
    <3> TAKE q \in Procs
    <3>1. ~(Entries(q) >= n)
      BY <1>0, <1>3
    <3>2. Clock(q) \in Nat
      <4>1. delay[q] \in Nat /\ at[q] \in Nat \ {0} /\ at[q] <= Len(prog[q]) + 1
        BY DEF IInv, TypeInv, Positions
      <4>2. at[q] # 1 => prog[q][at[q] - 1].time \in Nat
        <5>1. at[q] # 1 => at[q] - 1 \in 1 .. Len(prog[q])
          BY <4>1, Inputs DEF IInv
        <5> QED
          BY <5>1, Inputs DEF IInv
      <4> QED
        BY <4>1, <4>2 DEF Clock
    <3> QED
      BY <3>1, <3>2
  <2> QED
    BY <2>1, <2>2, <2>3 DEF NewMessage, Both, Links, NoThread
<1> QED
  BY <1>2, <1>3

LEMMA EnterStep ==
    ASSUME IInv, NEW p \in Procs, HandleStart(p), NEW n, n = Entries(p) + 1
    PROVE  /\ msgs' \in Seq(Message) /\ Len(msgs') \in Nat /\ n \in 1 .. Len(msgs')
           /\ Len(msgs') = IF n <= Len(msgs) THEN Len(msgs) ELSE n
           /\ \A m \in 1 .. Len(msgs) : m # n => msgs'[m] = msgs[m]
           /\ msgs'[n].type = Ev(p).type /\ msgs'[n].len = Ev(p).len
           /\ msgs'[n].start = [Found(n, p).start EXCEPT ![p] = CurTime(p)]
           /\ msgs'[n].thread = [Found(n, p).thread EXCEPT ![p] = Ev(p).tid]
           /\ msgs'[n].stop = Found(n, p).stop /\ msgs'[n].ended = Found(n, p).ended
           /\ msgs'[n].begun = CountLinks(Found(n, p).begun, p, Started(Found(n, p)))
           /\ joined' = [joined EXCEPT ![p] = Append(@, n)]
           /\ at' = [at EXCEPT ![p] = @ + 1]
           /\ UNCHANGED <<prog, order, delay, left>>
<1> DEFINE old == Found(n, p)
           new == Entered(p, old, CurTime(p))
<1>0. /\ Len(msgs) \in Nat /\ Entries(p) \in Nat /\ Entries(p) <= Len(msgs) /\ n \in Nat \ {0}
      /\ msgs \in Seq(Message) /\ delay \in [Procs -> Nat]
  BY Messages DEF IInv, Numbered, TypeInv
<1>1. Current(p, "start") /\ CurTime(p) \in Nat /\ Ev(p).tid \in Nat
  BY Clocks DEF HandleStart, Current, IInv
<1>2. EnterFinds(p) = IF n <= Len(msgs) THEN n ELSE NoMsg
  BY <1>1, EnterFindsNext
<1>3. /\ old \in Message /\ old.type = Ev(p).type /\ old.len = Ev(p).len
      /\ \A q \in Procs : old.stop[q] = 0
  BY <1>1, FoundMessage
<1>4. /\ msgs' = IF n <= Len(msgs) THEN [msgs EXCEPT ![n] = new] ELSE Append(msgs, new)
      /\ delay' = [i \in Procs |-> delay[i] + (new.stop[RankThatDelays(i)] - old.stop[RankThatDelays(i)])]
      /\ joined' = [joined EXCEPT ![p] = Append(@, IF n <= Len(msgs) THEN n ELSE Len(msgs) + 1)]
      /\ at' = [at EXCEPT ![p] = @ + 1]
      /\ UNCHANGED <<prog, order, left>>
  <2> DEFINE m0 == EnterFinds(p)
             Effect(m, msg) ==
               LET nw == Entered(p, msg, CurTime(p)) IN
               /\ msgs' = IF m = NoMsg THEN Append(msgs, nw) ELSE [msgs EXCEPT ![m] = nw]
               /\ delay' = [i \in Procs |-> delay[i] + (nw.stop[RankThatDelays(i)] - msg.stop[RankThatDelays(i)])]
               /\ joined' = [joined EXCEPT ![p] = Append(@, IF m = NoMsg THEN Len(msgs) + 1 ELSE m)]
  <2>1. (m0 = NoMsg) <=> ~(n <= Len(msgs))
    BY <1>0, <1>2 DEF NoMsg
  <2>2. old = IF m0 = NoMsg THEN NewMessage(Ev(p).type, Ev(p).len) ELSE msgs[m0]
    BY <1>2, <2>1 DEF Found
  <2>3. Effect(m0, old)
    <3>1. \E m \in {m0} :
          \E msg \in {IF m = NoMsg THEN NewMessage(Ev(p).type, Ev(p).len) ELSE msgs[m]} : Effect(m, msg)
      BY DEF HandleStart
    <3> HIDE DEF Effect, m0, old
    <3> QED
      BY <2>2, <3>1
  <2>4. at' = [at EXCEPT ![p] = @ + 1] /\ UNCHANGED <<prog, order, left>>
    BY DEF HandleStart
  <2>5. CASE n <= Len(msgs)
    <3>1. m0 = n /\ m0 # NoMsg
      BY <1>2, <2>1, <2>5
    <3> HIDE DEF m0, old
    <3> QED
      BY <2>3, <2>4, <2>5, <3>1
  <2>6. CASE ~(n <= Len(msgs))
    <3>1. m0 = NoMsg
      BY <2>1, <2>6
    <3> HIDE DEF m0, old
    <3> QED
      BY <2>3, <2>4, <2>6, <3>1
  <2> QED
    BY <2>5, <2>6
<1>5. old.stop \in [Procs -> Nat] /\ Stopped(old) = {}
  BY <1>3 DEF Message, Stopped
<1>6. /\ new \in Message
      /\ new.type = old.type /\ new.len = old.len /\ new.ended = old.ended /\ new.stop = old.stop
      /\ new.start = [old.start EXCEPT ![p] = CurTime(p)]
      /\ new.thread = [old.thread EXCEPT ![p] = Ev(p).tid]
      /\ new.begun = CountLinks(old.begun, p, Started(old))
  <2>1. CountLinks(old.begun, p, Started(old)) \in [Links -> Nat]
    BY <1>3 DEF CountLinks, Message
  <2>2. [i \in Procs |-> IF i \in Stopped(old) \cap (Procs \ {p}) THEN CurTime(p) ELSE old.stop[i]] = old.stop
    BY <1>5
  <2>3. new = [old EXCEPT !.start[p] = CurTime(p), !.thread[p] = Ev(p).tid,
                          !.begun = CountLinks(old.begun, p, Started(old)), !.stop = old.stop]
    BY <1>3, <2>2 DEF Entered, Message
  <2>4. /\ old.start \in [Procs -> Nat] /\ old.thread \in [Procs -> Nat]
        /\ old.type \in Types /\ old.len \in Lens /\ old.ended \in [Links -> Nat]
    BY <1>3 DEF Message
  <2>5. /\ [old.start EXCEPT ![p] = CurTime(p)] \in [Procs -> Nat]
        /\ [old.thread EXCEPT ![p] = Ev(p).tid] \in [Procs -> Nat]
    BY <1>1, <2>4
  <2>6. /\ new.type = old.type /\ new.len = old.len /\ new.ended = old.ended /\ new.stop = old.stop
        /\ new.start = [old.start EXCEPT ![p] = CurTime(p)]
        /\ new.thread = [old.thread EXCEPT ![p] = Ev(p).tid]
        /\ new.begun = CountLinks(old.begun, p, Started(old))
    <3> HIDE DEF old, new
    <3> QED
      BY <1>3, <2>3 DEF Message
  <2>7. new = [type |-> new.type, len |-> new.len, start |-> new.start, stop |-> new.stop,
               thread |-> new.thread, begun |-> new.begun, ended |-> new.ended]
    <3> HIDE DEF old, new
    <3> QED
      BY <1>3, <2>3 DEF Message
  <2>8. new \in Message
    <3> HIDE DEF old, new
    <3> QED
      BY <1>5, <2>1, <2>4, <2>5, <2>6, <2>7 DEF Message
  <2> QED
    BY <2>6, <2>8
<1> HIDE DEF old, new
<1>7. delay' = delay
  <2>1. ASSUME NEW i \in Procs
        PROVE  delay[i] + (new.stop[RankThatDelays(i)] - old.stop[RankThatDelays(i)]) = delay[i]
    <3>1. RankThatDelays(i) \in Procs /\ delay[i] \in Nat
      BY <1>0, Ranks DEF IInv
    <3>2. new.stop = old.stop /\ old.stop[RankThatDelays(i)] = 0
      BY <1>3, <1>6, <3>1
    <3> QED
      BY <3>1, <3>2
  <2> QED
    BY <1>0, <1>4, <2>1
<1>8. n > Len(msgs) => n = Len(msgs) + 1
  BY <1>0
<1>9. /\ msgs' \in Seq(Message) /\ Len(msgs') \in Nat /\ n \in 1 .. Len(msgs')
      /\ Len(msgs') = IF n <= Len(msgs) THEN Len(msgs) ELSE n
      /\ \A m \in 1 .. Len(msgs) : m # n => msgs'[m] = msgs[m]
      /\ msgs'[n] = new
  <2>1. CASE n <= Len(msgs)
    <3>1. msgs' = [msgs EXCEPT ![n] = new] /\ n \in 1 .. Len(msgs)
      BY <1>0, <1>4, <2>1
    <3>2. msgs' \in Seq(Message) /\ Len(msgs') = Len(msgs)
      BY <1>0, <1>6, <3>1, ExceptSeq
    <3> QED
      BY <1>0, <2>1, <3>1, <3>2, LenProperties
  <2>2. CASE ~(n <= Len(msgs))
    <3>1. msgs' = Append(msgs, new) /\ n = Len(msgs) + 1
      BY <1>0, <1>4, <1>8, <2>2
    <3>2. /\ msgs' \in Seq(Message) /\ Len(msgs') = Len(msgs) + 1
          /\ \A m \in 1 .. Len(msgs) : msgs'[m] = msgs[m]
          /\ msgs'[Len(msgs) + 1] = new
      BY <1>0, <1>6, <3>1, AppendProperties
    <3> QED
      BY <1>0, <2>2, <3>1, <3>2
  <2> QED
    BY <2>1, <2>2
<1>10. joined' = [joined EXCEPT ![p] = Append(@, n)]
  <2>1. (IF n <= Len(msgs) THEN n ELSE Len(msgs) + 1) = n
    BY <1>0, <1>8
  <2> QED
    BY <1>4, <2>1
<1> QED
  BY <1>3, <1>4, <1>6, <1>7, <1>9, <1>10 DEF old

(* The arrows of a process are drawn when it is the second of the two.     *)
OneMore(time, new, p, S) ==
    /\ time[p] = 0 /\ new[p] # 0 /\ \A i \in Procs : i # p => new[i] = time[i]
    /\ S \in SUBSET Procs /\ \A i \in Procs : i \in S <=> time[i] # 0

LEMMA LinkDrawn ==
    ASSUME NEW time, NEW new, NEW p \in Procs, NEW S, OneMore(time, new, p, S),
           NEW count \in [Links -> Nat], Drawn(count, time)
    PROVE  Drawn(CountLinks(count, p, S), new)
<1> USE DEF OneMore
<1> SUFFICES ASSUME NEW l \in Links PROVE CountLinks(count, p, S)[l] = Both(new, l)
  BY DEF Drawn
<1>1. PICK a \in Procs, b \in Procs : l = <<a, b>> /\ a # b
  BY DEF Links
<1>2. l[1] = a /\ l[2] = b /\ count[l] = Both(time, l) /\ count[l] \in Nat
  BY <1>1 DEF Drawn
<1>3. CountLinks(count, p, S)[l] =
        IF \E i \in S \ {p} : l \in {<<p, i>>, <<i, p>>} THEN count[l] + 1 ELSE count[l]
  BY DEF CountLinks
<1>4. CASE a = p
  <2>1. (\E i \in S \ {p} : l \in {<<p, i>>, <<i, p>>}) <=> time[b] # 0
    BY <1>1, <1>4
  <2>2. Both(time, l) = 0
    BY <1>2, <1>4 DEF Both
  <2>3. Both(new, l) = IF time[b] # 0 THEN 1 ELSE 0
    BY <1>1, <1>2, <1>4 DEF Both
  <2> QED
    BY <1>2, <1>3, <2>1, <2>2, <2>3
<1>5. CASE b = p
  <2>1. (\E i \in S \ {p} : l \in {<<p, i>>, <<i, p>>}) <=> time[a] # 0
    BY <1>1, <1>5
  <2>2. Both(time, l) = 0
    BY <1>2, <1>5 DEF Both
  <2>3. Both(new, l) = IF time[a] # 0 THEN 1 ELSE 0
    BY <1>1, <1>2, <1>5 DEF Both
  <2> QED
    BY <1>2, <1>3, <2>1, <2>2, <2>3
<1>6. CASE a # p /\ b # p
  <2>1. ~\E i \in S \ {p} : l \in {<<p, i>>, <<i, p>>}
    BY <1>1, <1>6
  <2>2. Both(new, l) = Both(time, l)
    BY <1>1, <1>2, <1>6 DEF Both
  <2> QED
    BY <1>2, <1>3, <2>1, <2>2
<1> QED
  BY <1>4, <1>5, <1>6

(* Every clock is a time. *)
LEMMA ClockType ==
    ASSUME TypeInv, Positions, NEW p \in Procs
    PROVE  Clock(p) \in Nat
<1>1. delay[p] \in Nat /\ at[p] \in Nat \ {0} /\ at[p] <= Len(prog[p]) + 1
  BY DEF TypeInv, Positions
<1>2. at[p] # 1 => prog[p][at[p] - 1].time \in Nat
  <2>1. at[p] # 1 => at[p] - 1 \in 1 .. Len(prog[p])
    BY <1>1, Inputs
  <2> QED
    BY <2>1, Inputs
<1> QED
  BY <1>1, <1>2 DEF Clock

LEMMA EnterPreserves ==
    ASSUME IInv, NEW p \in Procs, HandleStart(p)
    PROVE  IInv'
<1> DEFINE n == Entries(p) + 1
           old == Found(n, p)
<1>0. /\ Len(msgs) \in Nat /\ n \in Nat \ {0}
      /\ \A q \in Procs : Entries(q) \in Nat /\ Exits(q) \in Nat /\ Entries(q) <= Len(msgs)
      /\ TypeInv /\ Positions /\ Current(p, "start")
  BY Messages DEF IInv, Numbered, HandleStart
<1>1. /\ CurTime(p) \in Nat \ {0} /\ Clock(p) \in Nat /\ Clock(p) <= CurTime(p)
      /\ at[p] \in 1 .. Len(prog[p]) /\ Ev(p) = prog[p][at[p]] /\ Ev(p).op = "start"
      /\ Ev(p).tid \in Nat \ {NoThread}
  BY <1>0, Clocks DEF Current
<1>2. at[p] = 2 * n - 1 /\ Entries(p) = Exits(p) /\ Len(prog[p]) \in Nat
  <2>1. at[p] = Entries(p) + Exits(p) + 1 /\ Entries(p) = Exits(p)
    BY <1>0, <1>1 DEF Positions
  <2> QED
    BY <1>0, <1>1, <2>1, Inputs
<1>3. /\ old \in Message
      /\ old.type = Ev(p).type /\ old.len = Ev(p).len /\ old.start[p] = 0
      /\ \A q \in Procs : /\ old.stop[q] = 0
                          /\ old.start[q] # 0 <=> Entries(q) >= n
                          /\ old.thread[q] # NoThread <=> Entries(q) >= n
                          /\ old.start[q] <= Clock(q)
      /\ \A l \in Links : old.begun[l] = Both(old.start, l) /\ old.ended[l] = 0
  BY <1>0, FoundMessage
<1>4. /\ old.start \in [Procs -> Nat] /\ old.stop \in [Procs -> Nat] /\ old.thread \in [Procs -> Nat]
      /\ old.begun \in [Links -> Nat]
  BY <1>3 DEF Message
<1>5. /\ msgs' \in Seq(Message) /\ Len(msgs') \in Nat /\ n \in 1 .. Len(msgs')
      /\ Len(msgs') = IF n <= Len(msgs) THEN Len(msgs) ELSE n
      /\ \A m \in 1 .. Len(msgs) : m # n => msgs'[m] = msgs[m]
      /\ msgs'[n].type = Ev(p).type /\ msgs'[n].len = Ev(p).len
      /\ msgs'[n].start = [old.start EXCEPT ![p] = CurTime(p)]
      /\ msgs'[n].thread = [old.thread EXCEPT ![p] = Ev(p).tid]
      /\ msgs'[n].stop = old.stop /\ msgs'[n].ended = old.ended
      /\ msgs'[n].begun = CountLinks(old.begun, p, Started(old))
      /\ joined' = [joined EXCEPT ![p] = Append(@, n)]
      /\ at' = [at EXCEPT ![p] = @ + 1]
      /\ prog' = prog /\ order' = order /\ delay' = delay /\ left' = left
  BY EnterStep
<1>6. n <= Len(msgs) => old = msgs[n]
  BY DEF Found
<1>10. Entries(p) = n - 1 /\ n = Len(joined[p]) + 1 /\ Len(joined[p]) = n - 1 /\ n - 1 \in Nat
  BY <1>0 DEF Entries
<1> HIDE DEF n, old
<1>7. \A m \in 1 .. Len(msgs') : m = n \/ (m \in 1 .. Len(msgs) /\ m # n /\ msgs'[m] = msgs[m])
  <2> TAKE m \in 1 .. Len(msgs')
  <2>1. m = n \/ (m \in 1 .. Len(msgs) /\ m # n)
    <3>1. CASE n <= Len(msgs)
      BY <1>0, <1>5, <3>1
    <3>2. CASE ~(n <= Len(msgs))
      <4>1. n = Len(msgs) + 1 /\ m \in 1 .. n
        BY <1>0, <1>5, <1>10, <3>2
      <4> QED
        BY <1>0, <4>1
    <3> QED
      BY <3>1, <3>2
  <2> QED
    BY <1>5, <2>1
<1>8. /\ at'[p] = 2 * n /\ \A q \in Procs : q # p => at'[q] = at[q]
      /\ \A q \in Procs : joined'[q] = IF q = p THEN Append(joined[p], n) ELSE joined[q]
  BY <1>0, <1>1, <1>2, <1>5 DEF TypeInv
<1>9. /\ Entries(p)' = n /\ \A q \in Procs : q # p => Entries(q)' = Entries(q)
      /\ \A q \in Procs : Exits(q)' = Exits(q)
      /\ \A i \in 1 .. Entries(p) : joined'[p][i] = joined[p][i]
      /\ joined'[p][n] = n
      /\ joined'[p] \in Seq(Nat)
  <2>1. joined[p] \in Seq(Nat) /\ n \in Nat
    BY <1>0 DEF TypeInv
  <2>2. /\ Append(joined[p], n) \in Seq(Nat) /\ Len(Append(joined[p], n)) = Len(joined[p]) + 1
        /\ \A i \in 1 .. Len(joined[p]) : Append(joined[p], n)[i] = joined[p][i]
        /\ Append(joined[p], n)[Len(joined[p]) + 1] = n
    BY <2>1, AppendProperties
  <2>3. joined'[p] = Append(joined[p], n) /\ Len(joined[p]) = n - 1
    BY <1>8, <1>10
  <2>4. Entries(p)' = n
    BY <1>0, <2>1, <2>2, <2>3, LenProperties DEF Entries
  <2>5. (\A q \in Procs : q # p => Entries(q)' = Entries(q)) /\ \A q \in Procs : Exits(q)' = Exits(q)
    BY <1>5, <1>8 DEF Entries, Exits
  <2>6. \A i \in 1 .. Entries(p) : joined'[p][i] = joined[p][i]
    BY <2>2, <2>3 DEF Entries
  <2>7. joined'[p][n] = n /\ joined'[p] \in Seq(Nat)
    BY <1>10, <2>2, <2>3
  <2> QED
    BY <2>4, <2>5, <2>6, <2>7
<1>11. TypeInv'
  <2>0. /\ joined \in [Procs -> Seq(Nat)] /\ at \in [Procs -> Nat \ {0}]
        /\ Append(joined[p], n) \in Seq(Nat) /\ at[p] + 1 \in Nat \ {0}
    <3>1. joined \in [Procs -> Seq(Nat)] /\ at \in [Procs -> Nat \ {0}]
      BY <1>0 DEF TypeInv
    <3>2. joined'[p] = Append(joined[p], n) /\ at[p] \in Nat
      BY <1>8, <3>1
    <3> QED
      BY <1>9, <3>1, <3>2
  <2>1. joined' \in [Procs -> Seq(Nat)] /\ at' \in [Procs -> Nat \ {0}]
    <3>1. at' = [at EXCEPT ![p] = at[p] + 1] /\ joined' = [joined EXCEPT ![p] = Append(joined[p], n)]
      BY <1>5
    <3> QED
      BY <2>0, <3>1
  <2> QED
    BY <1>0, <1>5, <2>1 DEF TypeInv
<1>12. Positions'
  <2> SUFFICES ASSUME NEW q \in Procs
               PROVE  /\ at'[q] = Entries(q)' + Exits(q)' + 1
                      /\ at'[q] <= Len(prog[q]) + 1
                      /\ Entries(q)' \in {Exits(q)', Exits(q)' + 1}
                      /\ at'[q] <= Len(prog[q]) =>
                           (prog[q][at'[q]].op = "start" <=> Entries(q)' = Exits(q)')
    BY <1>5 DEF Positions, Ev
  <2>1. CASE q # p
    <3>1. /\ at[q] = Entries(q) + Exits(q) + 1 /\ at[q] <= Len(prog[q]) + 1
          /\ Entries(q) \in {Exits(q), Exits(q) + 1}
          /\ at[q] <= Len(prog[q]) => (prog[q][at[q]].op = "start" <=> Entries(q) = Exits(q))
      BY <1>0 DEF Positions, Ev
    <3>2. at'[q] = at[q] /\ Entries(q)' = Entries(q) /\ Exits(q)' = Exits(q)
      BY <1>8, <1>9, <2>1
    <3> QED
      BY <3>1, <3>2
  <2>2. CASE q = p
    <3>1. at'[p] <= Len(prog[p]) => prog[p][at'[p]].op # "start"
      <4>1. at'[p] <= Len(prog[p]) => at'[p] \in 1 .. Len(prog[p]) /\ at'[p] > 1 /\ at'[p] - 1 = at[p]
        BY <1>0, <1>1, <1>2, <1>8
      <4>2. at'[p] <= Len(prog[p]) => prog[p][at'[p]].op # prog[p][at'[p] - 1].op
        BY <1>0, <4>1, Alternate
      <4> QED
        BY <1>1, <4>1, <4>2
    <3>2. /\ at'[p] = 2 * n /\ Entries(p)' = n /\ Exits(p)' = n - 1
          /\ at[p] = 2 * n - 1 /\ at[p] <= Len(prog[p]) /\ Len(prog[p]) \in Nat
      <4>1. Exits(p)' = Entries(p)
        BY <1>2, <1>9
      <4>2. at[p] <= Len(prog[p])
        BY <1>1, <1>2
      <4> QED
        BY <1>2, <1>8, <1>9, <1>10, <4>1, <4>2
    <3>3. n - 1 # n /\ 2 * n = n + (n - 1) + 1 /\ n = (n - 1) + 1
      BY <1>0
    <3>4. 2 * n <= Len(prog[p]) + 1
      BY <1>0, <3>2
    <3> QED
      BY <2>2, <3>1, <3>2, <3>3, <3>4
  <2> QED
    BY <2>1, <2>2
<1>13. Numbered'
  <2> SUFFICES ASSUME NEW q \in Procs
               PROVE  /\ Entries(q)' <= Len(msgs')
                      /\ \A i \in 1 .. Entries(q)' : joined'[q][i] = i
                      /\ \A i \in 1 .. Exits(q)' : left'[q][i] = i
    BY DEF Numbered
  <2>1. /\ Entries(q) <= Len(msgs) /\ Len(msgs) <= Len(msgs')
        /\ \A i \in 1 .. Entries(q) : joined[q][i] = i
        /\ \A i \in 1 .. Exits(q) : left[q][i] = i
    BY <1>0, <1>5 DEF IInv, Numbered
  <2>2. CASE q # p
    BY <1>0, <1>5, <1>8, <1>9, <2>1, <2>2
  <2>3. CASE q = p
    <3>1. \A i \in 1 .. n : i = n \/ i \in 1 .. Entries(p)
      BY <1>0, <1>10
    <3>2. \A i \in 1 .. n : joined'[p][i] = i
      BY <1>9, <2>1, <2>3, <3>1
    <3> QED
      BY <1>5, <1>9, <2>1, <2>3, <3>2
  <2> QED
    BY <2>2, <2>3
<1>14. Recorded'
  <2> SUFFICES ASSUME NEW m \in 1 .. Len(msgs'), NEW q \in Procs
               PROVE  /\ msgs'[m].start[q] # 0 <=> m <= Entries(q)'
                      /\ msgs'[m].thread[q] # NoThread <=> m <= Entries(q)'
                      /\ msgs'[m].stop[q] # 0 <=> m <= Exits(q)'
    BY DEF Recorded
  <2>1. CASE m = n
    <3>1. Exits(q) < n
      <4>1. msgs'[n].stop[q] = 0 /\ (n <= Len(msgs) => msgs[n].stop[q] = 0)
        BY <1>3, <1>5, <1>6
      <4>2. Exits(q) <= Len(msgs)
        BY <1>0 DEF Positions
      <4>3. n \in 1 .. Len(msgs) => (msgs[n].stop[q] # 0 <=> n <= Exits(q))
        BY DEF IInv, Recorded
      <4> QED
        BY <1>0, <4>1, <4>2, <4>3
    <3>0. msgs'[n].stop[q] = 0 /\ ~(n <= Exits(q)')
      BY <1>0, <1>3, <1>5, <1>9, <3>1
    <3>2. CASE q = p
      <4>1. msgs'[n].start[p] = CurTime(p) /\ msgs'[n].thread[p] = Ev(p).tid
        BY <1>4, <1>5
      <4>2. n <= Entries(p)'
        BY <1>0, <1>9
      <4> QED
        BY <1>1, <2>1, <3>0, <3>2, <4>1, <4>2
    <3>3. CASE q # p
      <4>1. msgs'[n].start[q] = old.start[q] /\ msgs'[n].thread[q] = old.thread[q]
        BY <1>4, <1>5, <3>3
      <4> QED
        BY <1>3, <1>9, <2>1, <3>0, <3>3, <4>1
    <3> QED
      BY <3>2, <3>3
  <2>2. CASE m # n
    <3>1. m \in 1 .. Len(msgs) /\ msgs'[m] = msgs[m]
      BY <1>7, <2>2
    <3>2. /\ msgs[m].start[q] # 0 <=> m <= Entries(q)
          /\ msgs[m].thread[q] # NoThread <=> m <= Entries(q)
          /\ msgs[m].stop[q] # 0 <=> m <= Exits(q)
      BY <3>1 DEF IInv, Recorded
    <3>3. m <= Entries(q)' <=> m <= Entries(q)
      <4>1. CASE q = p
        <5>1. m <= n <=> m <= n - 1
          BY <1>0, <2>2, <3>1
        <5> QED
          BY <1>9, <1>10, <4>1, <5>1
      <4>2. CASE q # p
        BY <1>9, <4>2
      <4> QED
        BY <4>1, <4>2
    <3> QED
      BY <1>9, <3>1, <3>2, <3>3
  <2> QED
    BY <2>1, <2>2
<1>15. Kinds'
  <2> SUFFICES ASSUME NEW m \in 1 .. Len(msgs'), NEW q \in Procs, 2 * m - 1 <= Len(prog[q])
               PROVE  /\ msgs'[m].type = prog[q][2 * m - 1].type
                      /\ msgs'[m].len = prog[q][2 * m - 1].len
    BY <1>5 DEF Kinds
  <2>1. CASE m = n
    <3>1. /\ 2 * n - 1 \in 1 .. Len(prog[p]) /\ prog[p][2 * n - 1].op = "start"
          /\ Ev(p) = prog[p][2 * n - 1]
      BY <1>1, <1>2
    <3>2. /\ prog[q][2 * n - 1].type = prog[p][2 * n - 1].type
          /\ prog[q][2 * n - 1].len = prog[p][2 * n - 1].len
      BY <1>0, <2>1, <3>1, SameKind
    <3> QED
      BY <1>5, <2>1, <3>1, <3>2
  <2>2. CASE m # n
    BY <1>7, <2>2 DEF IInv, Kinds
  <2> QED
    BY <2>1, <2>2
<1>16. /\ Clock(p)' = CurTime(p) /\ \A q \in Procs : q # p => Clock(q)' = Clock(q)
       /\ \A q \in Procs : Clock(q) \in Nat /\ Clock(q)' \in Nat /\ Clock(q) <= Clock(q)'
  <2>1. at'[p] # 1 /\ at'[p] - 1 = at[p]
    BY <1>0, <1>1, <1>2, <1>8
  <2>2. Clock(p)' = CurTime(p)
    BY <1>1, <1>5, <2>1 DEF Clock, CurTime
  <2>3. \A q \in Procs : q # p => Clock(q)' = Clock(q)
    BY <1>5, <1>8 DEF Clock
  <2>4. \A q \in Procs : Clock(q) \in Nat
    BY <1>0, ClockType
  <2> QED
    BY <1>1, <2>2, <2>3, <2>4
<1>17. Past'
  <2> SUFFICES ASSUME NEW m \in 1 .. Len(msgs'), NEW q \in Procs
               PROVE  /\ msgs'[m].start[q] <= Clock(q)'
                      /\ Delayed(q) = q => msgs'[m].stop[q] <= Clock(q)'
    BY <1>5 DEF Past, Delayed
  <2>1. CASE m = n
    <3>1. CASE q = p
      BY <1>1, <1>3, <1>4, <1>5, <1>16, <2>1, <3>1
    <3>2. CASE q # p
      BY <1>3, <1>4, <1>5, <1>16, <2>1, <3>2
    <3> QED
      BY <3>1, <3>2
  <2>2. CASE m # n
    <3>1. m \in 1 .. Len(msgs) /\ msgs'[m] = msgs[m]
      BY <1>7, <2>2
    <3>2. msgs[m].start[q] <= Clock(q) /\ (Delayed(q) = q => msgs[m].stop[q] <= Clock(q))
      BY <3>1 DEF IInv, Past
    <3>3. msgs[m].start[q] \in Nat /\ msgs[m].stop[q] \in Nat
      BY <1>0, <3>1, Messages
    <3> QED
      BY <1>16, <3>1, <3>2, <3>3
  <2> QED
    BY <2>1, <2>2
<1>4a. AllEnteredFirst'
  <2> SUFFICES ASSUME NEW m \in 1 .. Len(msgs'), NEW q \in Procs, NEW r \in Procs, msgs'[m].stop[q] # 0
               PROVE  msgs'[m].start[r] # 0 /\ msgs'[m].start[r] <= msgs'[m].stop[q]
    BY DEF AllEnteredFirst
  <2>1. m # n
    BY <1>3, <1>5
  <2> QED
    BY <1>7, <2>1 DEF IInv, AllEnteredFirst
<1>19. EnteredInTurn'
  <2> SUFFICES ASSUME NEW m \in 1 .. Len(msgs') - 1, NEW q \in Procs,
                      Delayed(q) = q, m + 1 <= Entries(q)'
               PROVE  msgs'[m].stop[q] <= msgs'[m + 1].start[q]
    BY <1>5 DEF EnteredInTurn, Delayed
  <2>0. m \in 1 .. Len(msgs') /\ m + 1 \in 1 .. Len(msgs')
    BY <1>5
  <2>1. CASE m = n
    <3>1. msgs'[m].stop[q] = 0 /\ m + 1 # n /\ msgs'[m + 1] = msgs[m + 1] /\ m + 1 \in 1 .. Len(msgs)
      BY <1>0, <1>3, <1>5, <1>7, <2>0, <2>1
    <3>2. msgs[m + 1].start[q] \in Nat
      BY <1>0, <3>1, Messages
    <3> QED
      BY <3>1, <3>2
  <2>2. CASE m + 1 = n
    <3>1. m # n /\ msgs'[m] = msgs[m] /\ m \in 1 .. Len(msgs)
      BY <1>0, <1>7, <2>0, <2>2
    <3>2. CASE q = p
      <4>1. msgs'[m + 1].start[q] = CurTime(p)
        BY <1>4, <1>5, <2>2, <3>2
      <4>2. msgs[m].stop[p] <= Clock(p) /\ msgs[m].stop[p] \in Nat
        BY <1>0, <3>1, <3>2, Messages DEF IInv, Past
      <4> QED
        BY <1>1, <3>1, <3>2, <4>1, <4>2
    <3>3. CASE q # p
      <4>1. n <= Entries(q) /\ n <= Len(msgs) /\ m \in 1 .. Len(msgs) - 1
        BY <1>0, <1>9, <2>0, <2>2, <3>3
      <4>2. msgs'[m + 1].start[q] = msgs[m + 1].start[q]
        BY <1>4, <1>5, <1>6, <2>2, <3>3, <4>1
      <4>3. msgs[m].stop[q] <= msgs[m + 1].start[q]
        BY <2>2, <4>1 DEF IInv, EnteredInTurn
      <4> QED
        BY <3>1, <4>2, <4>3
    <3> QED
      BY <3>2, <3>3
  <2>3. CASE m # n /\ m + 1 # n
    <3>1. /\ m \in 1 .. Len(msgs) /\ m + 1 \in 1 .. Len(msgs)
          /\ msgs'[m] = msgs[m] /\ msgs'[m + 1] = msgs[m + 1]
      BY <1>7, <2>0, <2>3
    <3>2. m \in 1 .. Len(msgs) - 1 /\ m + 1 <= Entries(q)
      <4>1. m \in 1 .. Len(msgs) - 1
        BY <1>0, <3>1
      <4>2. CASE q = p
        <5>1. m + 1 <= n => m + 1 <= n - 1
          BY <1>0, <2>3, <4>1
        <5> QED
          BY <1>9, <1>10, <4>1, <4>2, <5>1
      <4>3. CASE q # p
        BY <1>9, <4>1, <4>3
      <4> QED
        BY <4>2, <4>3
    <3> QED
      BY <3>1, <3>2 DEF IInv, EnteredInTurn
  <2> QED
    BY <2>1, <2>2, <2>3
<1>20. LinksDrawnOnce'
  <2> SUFFICES ASSUME NEW m \in 1 .. Len(msgs')
               PROVE  /\ Drawn(msgs'[m].begun, msgs'[m].start)
                      /\ Drawn(msgs'[m].ended, msgs'[m].stop)
    BY DEF LinksDrawnOnce
  <2>1. CASE m = n
    <3>1. Drawn(msgs'[n].begun, msgs'[n].start)
      <4>1. /\ old.start[p] = 0 /\ old.begun \in [Links -> Nat]
            /\ Started(old) \in SUBSET Procs /\ \A i \in Procs : i \in Started(old) <=> old.start[i] # 0
        BY <1>3, <1>4 DEF Started
      <4>2. OneMore(old.start, msgs'[n].start, p, Started(old))
        BY <1>1, <1>4, <1>5, <4>1 DEF OneMore
      <4>3. Drawn(old.begun, old.start)
        BY <1>3 DEF Drawn
      <4>4. Drawn(CountLinks(old.begun, p, Started(old)), msgs'[n].start)
        BY <4>1, <4>2, <4>3, LinkDrawn
      <4> QED
        BY <1>5, <4>4
    <3>2. Drawn(old.ended, old.stop)
      BY <1>3 DEF Drawn, Both, Links
    <3> QED
      BY <1>5, <2>1, <3>1, <3>2
  <2>2. CASE m # n
    BY <1>7, <2>2 DEF IInv, LinksDrawnOnce
  <2> QED
    BY <2>1, <2>2
<1> QED
  BY <1>11, <1>12, <1>13, <1>14, <1>15, <1>17, <1>4a, <1>19, <1>20 DEF IInv

-----------------------------------------------------------------------------
(* A process leaves a collective. *)

(* It leaves it after all the entries, and not before its own event. *)
LEMMA StopTimeIs ==
    ASSUME TypeInv, NEW p \in Procs, CurTime(p) \in Nat, NEW m \in 1 .. Len(msgs)
    PROVE  /\ StopTime(p, msgs[m]) \in Nat /\ CurTime(p) <= StopTime(p, msgs[m])
           /\ \A i \in Procs : i # p => msgs[m].start[i] <= StopTime(p, msgs[m])
<1> DEFINE S == {CurTime(p)} \cup {msgs[m].start[i] : i \in Procs \ {p}}
<1>1. msgs[m].start \in [Procs -> Nat]
  BY Messages
<1>2. PICK B \in Nat : \A i \in Procs : msgs[m].start[i] <= B
  BY <1>1, Bounded
<1>3. PICK C \in Nat : B <= C /\ CurTime(p) <= C
  <2>1. B <= CurTime(p) \/ CurTime(p) <= B
    OBVIOUS
  <2> QED
    BY <2>1
<1>4. S \in SUBSET Nat /\ S # {}
  BY <1>1
<1>5. \A x \in S : x <= C
  <2> SUFFICES ASSUME NEW i \in Procs PROVE msgs[m].start[i] <= C
    BY <1>3
  <2>1. msgs[m].start[i] \in Nat /\ msgs[m].start[i] <= B
    BY <1>1, <1>2
  <2> QED
    BY <1>3, <2>1
<1>6. StopTime(p, msgs[m]) = Max(S)
  BY DEF StopTime
<1>7. CurTime(p) \in S /\ \A i \in Procs : i # p => msgs[m].start[i] \in S
  OBVIOUS
<1> HIDE DEF S
<1>8. Max(S) \in S /\ \A x \in S : x <= Max(S)
  BY <1>4, <1>5, MaxType
<1> QED
  BY <1>4, <1>6, <1>7, <1>8

LEMMA LeaveStep ==
    ASSUME IInv, NEW p \in Procs, HandleStop(p), NEW n, n = Exits(p) + 1, NEW T, T = StopTime(p, msgs[n])
    PROVE  /\ msgs' \in Seq(Message) /\ Len(msgs') = Len(msgs) /\ n \in 1 .. Len(msgs)
           /\ \A m \in 1 .. Len(msgs) : m # n => msgs'[m] = msgs[m]
           /\ msgs'[n].type = msgs[n].type /\ msgs'[n].len = msgs[n].len
           /\ msgs'[n].start = msgs[n].start /\ msgs'[n].thread = msgs[n].thread
           /\ msgs'[n].begun = msgs[n].begun
           /\ msgs'[n].stop = [msgs[n].stop EXCEPT ![p] = T]
           /\ msgs'[n].ended = CountLinks(msgs[n].ended, p, Stopped(msgs[n]))
           /\ Entries(p) = n
           /\ \A q \in Procs : q # p => msgs[n].start[q] # 0
           /\ T \in Nat /\ CurTime(p) <= T /\ \A q \in Procs : q # p => msgs[n].start[q] <= T
           /\ left' = [left EXCEPT ![p] = Append(@, n)]
           /\ at' = [at EXCEPT ![p] = @ + 1]
           /\ delay' = [delay EXCEPT ![Delayed(p)] = @ + (T - CurTime(p))]
           /\ UNCHANGED <<prog, order, joined>>
<1> DEFINE old == msgs[n]
           new == [old EXCEPT !.stop = [old.stop EXCEPT ![p] = T],
                              !.ended = CountLinks(old.ended, p, Stopped(old))]
<1>0. /\ Len(msgs) \in Nat /\ Exits(p) \in Nat /\ TypeInv /\ Positions
      /\ Current(p, "stop") /\ LeaveAsserts(p) /\ msgs \in Seq(Message) /\ DOMAIN msgs = 1 .. Len(msgs)
  BY Messages DEF IInv, TypeInv, HandleStop
<1>1. LeaveFinds(p) = n /\ Entries(p) = n /\ n \in 1 .. Len(msgs)
  BY <1>0, LeaveFindsSame
<1>2. CurTime(p) \in Nat
  BY <1>0, Clocks DEF Current
<1>3. T \in Nat /\ CurTime(p) <= T /\ \A q \in Procs : q # p => msgs[n].start[q] <= T
  BY <1>0, <1>1, <1>2, StopTimeIs
<1>4. /\ OthersEntered(p, old)
      /\ msgs' = [msgs EXCEPT ![n].stop[p] = T, ![n].ended = CountLinks(@, p, Stopped(old))]
      /\ delay' = [delay EXCEPT ![Delayed(p)] = @ + (T - CurTime(p))]
      /\ left' = [left EXCEPT ![p] = Append(@, n)]
      /\ at' = [at EXCEPT ![p] = @ + 1] /\ UNCHANGED <<prog, order, joined>>
  BY <1>1 DEF HandleStop
<1>5. \A q \in Procs : q # p => old.start[q] # 0
  BY <1>4 DEF OthersEntered, Started
<1>6. /\ old \in Message /\ old.stop \in [Procs -> Nat] /\ old.ended \in [Links -> Nat]
      /\ old.type \in Types /\ old.len \in Lens /\ old.start \in [Procs -> Nat]
      /\ old.thread \in [Procs -> Nat] /\ old.begun \in [Links -> Nat]
  BY <1>0, <1>1, Messages DEF Message
<1>7. CountLinks(old.ended, p, Stopped(old)) \in [Links -> Nat]
  BY <1>6 DEF CountLinks
<1> HIDE DEF old
<1>8. /\ new.type = old.type /\ new.len = old.len /\ new.start = old.start /\ new.thread = old.thread
      /\ new.begun = old.begun /\ new.stop = [old.stop EXCEPT ![p] = T]
      /\ new.ended = CountLinks(old.ended, p, Stopped(old))
  BY <1>6 DEF Message
<1>9. new = [type |-> new.type, len |-> new.len, start |-> new.start, stop |-> new.stop,
             thread |-> new.thread, begun |-> new.begun, ended |-> new.ended]
  <2> DEFINE a == [old.stop EXCEPT ![p] = T]
             b == CountLinks(old.ended, p, Stopped(old))
  <2>1. old \in Message /\ new = [old EXCEPT !.stop = a, !.ended = b]
    BY <1>6
  <2> HIDE DEF a, b, new
  <2> QED
    BY <2>1 DEF Message
<1>10. msgs' = [msgs EXCEPT ![n] = new]
  BY <1>0, <1>1, <1>4, <1>6 DEF old, Message
<1> HIDE DEF new
<1>11. new \in Message
  <2>1. [old.stop EXCEPT ![p] = T] \in [Procs -> Nat]
    BY <1>3, <1>6
  <2> QED
    BY <1>6, <1>7, <1>8, <1>9, <2>1 DEF Message
<1>12. /\ msgs' \in Seq(Message) /\ Len(msgs') = Len(msgs)
       /\ \A m \in 1 .. Len(msgs) : m # n => msgs'[m] = msgs[m]
       /\ msgs'[n] = new
  <2>1. msgs' \in Seq(Message) /\ Len(msgs') = Len(msgs)
    BY <1>0, <1>1, <1>10, <1>11, ExceptSeq
  <2> QED
    BY <1>0, <1>1, <1>10, <2>1
<1> QED
  BY <1>1, <1>3, <1>4, <1>5, <1>8, <1>12 DEF old

LEMMA LeavePreserves ==
    ASSUME IInv, NEW p \in Procs, HandleStop(p)
    PROVE  IInv'
<1> DEFINE n == Exits(p) + 1
           T == StopTime(p, msgs[n])
<1>0. /\ Len(msgs) \in Nat /\ n \in Nat \ {0} /\ Exits(p) = n - 1 /\ n - 1 \in Nat /\ Len(left[p]) = n - 1
      /\ \A q \in Procs : Entries(q) \in Nat /\ Exits(q) \in Nat /\ Entries(q) <= Len(msgs)
      /\ \A m \in 1 .. Len(msgs) : msgs[m] \in Message
      /\ TypeInv /\ Positions /\ Current(p, "stop")
  BY Messages DEF IInv, Numbered, HandleStop, Exits
<1>1. /\ CurTime(p) \in Nat \ {0} /\ Clock(p) \in Nat /\ Clock(p) <= CurTime(p)
      /\ at[p] \in 1 .. Len(prog[p]) /\ Ev(p) = prog[p][at[p]] /\ Ev(p).op = "stop"
      /\ CurTime(p) = Ev(p).time + delay[p] /\ Ev(p).time \in Nat /\ delay[p] \in Nat
  <2>1. at[p] <= Len(prog[p]) /\ Ev(p).op = "stop" /\ delay[p] \in Nat
    BY <1>0 DEF Current, TypeInv
  <2>2. at[p] \in 1 .. Len(prog[p]) /\ Ev(p) = prog[p][at[p]]
    BY <1>0, <2>1, Clocks
  <2> QED
    BY <1>0, <2>1, <2>2, Clocks, Inputs DEF CurTime
<1>2. /\ msgs' \in Seq(Message) /\ Len(msgs') = Len(msgs) /\ n \in 1 .. Len(msgs)
      /\ \A m \in 1 .. Len(msgs) : m # n => msgs'[m] = msgs[m]
      /\ msgs'[n].type = msgs[n].type /\ msgs'[n].len = msgs[n].len
      /\ msgs'[n].start = msgs[n].start /\ msgs'[n].thread = msgs[n].thread
      /\ msgs'[n].begun = msgs[n].begun
      /\ msgs'[n].stop = [msgs[n].stop EXCEPT ![p] = T]
      /\ msgs'[n].ended = CountLinks(msgs[n].ended, p, Stopped(msgs[n]))
      /\ Entries(p) = n
      /\ \A q \in Procs : q # p => msgs[n].start[q] # 0
      /\ T \in Nat /\ CurTime(p) <= T /\ \A q \in Procs : q # p => msgs[n].start[q] <= T
      /\ left' = [left EXCEPT ![p] = Append(@, n)]
      /\ at' = [at EXCEPT ![p] = @ + 1]
      /\ delay' = [delay EXCEPT ![Delayed(p)] = @ + (T - CurTime(p))]
      /\ prog' = prog /\ order' = order /\ joined' = joined
  BY LeaveStep
<1> HIDE DEF n, T
<1>3. /\ msgs[n].start \in [Procs -> Nat] /\ msgs[n].stop \in [Procs -> Nat]
      /\ msgs[n].ended \in [Links -> Nat]
  BY <1>0, <1>2 DEF Message
<1>4. /\ \A q \in Procs : msgs[n].start[q] # 0 /\ msgs[n].start[q] <= T
      /\ msgs[n].stop[p] = 0 /\ msgs[n].start[p] \in Nat
  <2>1. msgs[n].start[p] # 0 /\ msgs[n].stop[p] = 0
    BY <1>0, <1>2 DEF IInv, Recorded
  <2>2. msgs[n].start[p] <= Clock(p)
    BY <1>2 DEF IInv, Past
  <2>3. msgs[n].start[p] \in Nat
    BY <1>3
  <2>4. msgs[n].start[p] <= T
    BY <1>1, <1>2, <2>2, <2>3
  <2> QED
    BY <1>2, <2>1, <2>3, <2>4
<1> DEFINE Stops == \A m \in 1 .. Len(msgs), q \in Procs :
                     msgs'[m].stop[q] = IF m = n /\ q = p THEN T ELSE msgs[m].stop[q]
<1>4a. Stops /\ T # 0
  <2>1. ASSUME NEW m \in 1 .. Len(msgs), NEW q \in Procs
        PROVE  msgs'[m].stop[q] = IF m = n /\ q = p THEN T ELSE msgs[m].stop[q]
    <3>1. CASE m # n
      BY <1>2, <3>1
    <3>2. CASE m = n
      <4>1. msgs'[n].stop[q] = IF q = p THEN T ELSE msgs[n].stop[q]
        BY <1>2, <1>3
      <4> QED
        BY <3>2, <4>1
    <3> QED
      BY <3>1, <3>2
  <2>2. T # 0
    BY <1>1, <1>2
  <2> QED
    BY <2>1, <2>2
<1>5. at[p] = 2 * n /\ Len(prog[p]) \in Nat
  <2>1. at[p] = Entries(p) + Exits(p) + 1
    BY <1>0 DEF Positions
  <2> QED
    BY <1>0, <1>2, <2>1, Inputs
<1>6. /\ at'[p] = 2 * n + 1 /\ \A q \in Procs : q # p => at'[q] = at[q]
      /\ \A q \in Procs : left'[q] = IF q = p THEN Append(left[p], n) ELSE left[q]
  <2>1. at \in [Procs -> Nat \ {0}] /\ left \in [Procs -> Seq(Nat)]
    BY <1>0 DEF TypeInv
  <2> QED
    BY <1>2, <1>5, <2>1
<1>6a. /\ delay' \in [Procs -> Nat] /\ \A q \in Procs : delay[q] \in Nat /\ delay[q] <= delay'[q]
       /\ Delayed(p) = p => delay'[p] = delay[p] + (T - CurTime(p))
  <2> DEFINE r == Delayed(p)
             d == T - CurTime(p)
  <2>1. delay \in [Procs -> Nat] /\ r \in Procs
    BY <1>0, Ranks DEF TypeInv
  <2>2. d \in Nat
    BY <1>1, <1>2
  <2>3. delay' = [delay EXCEPT ![r] = delay[r] + d]
    BY <1>2
  <2>4. (r = p) <=> Delayed(p) = p
    OBVIOUS
  <2> HIDE DEF r
  <2>5. \A q \in Procs : delay[q] \in Nat /\ delay'[q] = IF q = r THEN delay[q] + d ELSE delay[q]
    BY <2>1, <2>3
  <2>6. delay[r] + d \in Nat
    BY <2>1, <2>2
  <2>7. delay' \in [Procs -> Nat]
    BY <2>1, <2>3, <2>6
  <2>8. r = p => delay'[p] = delay[p] + (T - CurTime(p))
    BY <2>5
  <2> HIDE DEF d
  <2>9. \A q \in Procs : delay[q] \in Nat /\ delay[q] <= delay'[q]
    BY <2>2, <2>5
  <2> QED
    BY <2>4, <2>7, <2>8, <2>9
<1>7. /\ Exits(p)' = n /\ \A q \in Procs : q # p => Exits(q)' = Exits(q)
      /\ \A q \in Procs : Entries(q)' = Entries(q)
      /\ \A i \in 1 .. n - 1 : left'[p][i] = left[p][i]
      /\ left'[p][n] = n /\ left'[p] \in Seq(Nat)
  <2>1. left[p] \in Seq(Nat) /\ n \in Nat
    BY <1>0 DEF TypeInv
  <2>2. /\ Append(left[p], n) \in Seq(Nat) /\ Len(Append(left[p], n)) = Len(left[p]) + 1
        /\ \A i \in 1 .. Len(left[p]) : Append(left[p], n)[i] = left[p][i]
        /\ Append(left[p], n)[Len(left[p]) + 1] = n
    BY <2>1, AppendProperties
  <2>3. left'[p] = Append(left[p], n) /\ Len(left[p]) = n - 1 /\ n - 1 + 1 = n
    <3>1. n - 1 + 1 = n
      BY <2>1
    <3> QED
      BY <1>0, <1>6, <3>1
  <2>4. Exits(p)' = n
    BY <2>2, <2>3 DEF Exits
  <2>5. (\A q \in Procs : q # p => Exits(q)' = Exits(q)) /\ \A q \in Procs : Entries(q)' = Entries(q)
    BY <1>2, <1>6 DEF Entries, Exits
  <2>6. \A i \in 1 .. n - 1 : left'[p][i] = left[p][i]
    BY <2>2, <2>3
  <2>7. left'[p][n] = n /\ left'[p] \in Seq(Nat)
    BY <2>2, <2>3
  <2> QED
    BY <2>4, <2>5, <2>6, <2>7
<1>8. TypeInv'
  <2>1. /\ at \in [Procs -> Nat \ {0}] /\ delay \in [Procs -> Nat]
        /\ left \in [Procs -> Seq(Nat)] /\ joined \in [Procs -> Seq(Nat)]
        /\ prog \in Programs /\ order \in Orders
    BY <1>0 DEF TypeInv
  <2>2. at[p] + 1 \in Nat \ {0} /\ Append(left[p], n) \in Seq(Nat)
    <3>1. at[p] + 1 \in Nat \ {0}
      BY <1>0, <1>5
    <3>2. left'[p] = Append(left[p], n)
      BY <1>6
    <3> QED
      BY <1>7, <3>1, <3>2
  <2>3. at' \in [Procs -> Nat \ {0}] /\ delay' \in [Procs -> Nat] /\ left' \in [Procs -> Seq(Nat)]
    <3>1. at' = [at EXCEPT ![p] = at[p] + 1] /\ left' = [left EXCEPT ![p] = Append(left[p], n)]
      BY <1>2
    <3> QED
      BY <1>6a, <2>1, <2>2, <3>1
  <2> QED
    BY <1>2, <2>1, <2>3 DEF TypeInv
<1>9. Positions'
  <2> SUFFICES ASSUME NEW q \in Procs
               PROVE  /\ at'[q] = Entries(q)' + Exits(q)' + 1
                      /\ at'[q] <= Len(prog[q]) + 1
                      /\ Entries(q)' \in {Exits(q)', Exits(q)' + 1}
                      /\ at'[q] <= Len(prog[q]) =>
                           (prog[q][at'[q]].op = "start" <=> Entries(q)' = Exits(q)')
    BY <1>2 DEF Positions, Ev
  <2>1. CASE q # p
    <3>1. /\ at[q] = Entries(q) + Exits(q) + 1 /\ at[q] <= Len(prog[q]) + 1
          /\ Entries(q) \in {Exits(q), Exits(q) + 1}
          /\ at[q] <= Len(prog[q]) => (prog[q][at[q]].op = "start" <=> Entries(q) = Exits(q))
      BY <1>0 DEF Positions, Ev
    <3>2. at'[q] = at[q] /\ Entries(q)' = Entries(q) /\ Exits(q)' = Exits(q)
      BY <1>6, <1>7, <2>1
    <3> QED
      BY <3>1, <3>2
  <2>2. CASE q = p
    <3>1. at'[p] <= Len(prog[p]) => prog[p][at'[p]].op = "start"
      <4>1. at'[p] <= Len(prog[p]) => at'[p] \in 1 .. Len(prog[p]) /\ at'[p] > 1 /\ at'[p] - 1 = at[p]
        BY <1>0, <1>5, <1>6
      <4>2. at'[p] <= Len(prog[p]) => /\ prog[p][at'[p]] \in CollEvent
                                      /\ prog[p][at'[p]].op # prog[p][at[p]].op
        BY <1>0, <4>1, Alternate
      <4> QED
        BY <1>1, <4>2 DEF CollEvent
    <3>2. /\ at'[p] = 2 * n + 1 /\ Entries(p)' = n /\ Exits(p)' = n
          /\ at[p] = 2 * n /\ at[p] <= Len(prog[p]) /\ Len(prog[p]) \in Nat
      <4>1. at[p] <= Len(prog[p])
        BY <1>1, <1>5
      <4> QED
        BY <1>2, <1>5, <1>6, <1>7, <4>1
    <3>3. 2 * n + 1 = n + n + 1 /\ 2 * n + 1 <= Len(prog[p]) + 1
      BY <1>0, <3>2
    <3> QED
      BY <2>2, <3>1, <3>2, <3>3
  <2> QED
    BY <2>1, <2>2
<1>10. Numbered'
  <2> SUFFICES ASSUME NEW q \in Procs
               PROVE  /\ Entries(q)' <= Len(msgs')
                      /\ \A i \in 1 .. Entries(q)' : joined'[q][i] = i
                      /\ \A i \in 1 .. Exits(q)' : left'[q][i] = i
    BY DEF Numbered
  <2>1. /\ Entries(q) <= Len(msgs)
        /\ \A i \in 1 .. Entries(q) : joined[q][i] = i
        /\ \A i \in 1 .. Exits(q) : left[q][i] = i
    BY DEF IInv, Numbered
  <2>2. CASE q # p
    BY <1>2, <1>6, <1>7, <2>1, <2>2
  <2>3. CASE q = p
    <3>1. \A i \in 1 .. n : i = n \/ i \in 1 .. n - 1
      BY <1>0
    <3>2. \A i \in 1 .. n : left'[p][i] = i
      BY <1>0, <1>7, <2>1, <2>3, <3>1
    <3> QED
      BY <1>2, <1>7, <2>1, <2>3, <3>2
  <2> QED
    BY <2>2, <2>3
<1>11. Recorded'
  <2> SUFFICES ASSUME NEW m \in 1 .. Len(msgs), NEW q \in Procs
               PROVE  /\ msgs'[m].start[q] # 0 <=> m <= Entries(q)
                      /\ msgs'[m].thread[q] # NoThread <=> m <= Entries(q)
                      /\ msgs'[m].stop[q] # 0 <=> m <= Exits(q)'
    BY <1>2, <1>7 DEF Recorded
  <2>1. /\ msgs[m].start[q] # 0 <=> m <= Entries(q)
        /\ msgs[m].thread[q] # NoThread <=> m <= Entries(q)
        /\ msgs[m].stop[q] # 0 <=> m <= Exits(q)
    BY DEF IInv, Recorded
  <2>2. msgs'[m].start = msgs[m].start /\ msgs'[m].thread = msgs[m].thread
    BY <1>2
  <2>3. msgs'[m].stop[q] # 0 <=> m <= Exits(q)'
    <3>1. CASE q = p /\ m = n
      <4>1. msgs'[m].stop[q] = T /\ T # 0
        BY <1>4a, <3>1
      <4> QED
        BY <1>0, <1>7, <3>1, <4>1
    <3>2. CASE q = p /\ m # n
      <4>1. m <= n <=> m <= n - 1
        BY <1>0, <3>2
      <4> QED
        BY <1>0, <1>2, <1>7, <2>1, <3>2, <4>1
    <3>3. CASE q # p
      <4>1. msgs'[m].stop[q] = msgs[m].stop[q]
        BY <1>4a, <3>3
      <4> QED
        BY <1>7, <2>1, <3>3, <4>1
    <3> QED
      BY <3>1, <3>2, <3>3
  <2> QED
    BY <2>1, <2>2, <2>3
<1>12. Kinds'
  <2>1. \A m \in 1 .. Len(msgs) : msgs'[m].type = msgs[m].type /\ msgs'[m].len = msgs[m].len
    BY <1>2
  <2> QED
    BY <1>2, <2>1 DEF IInv, Kinds
<1>13. /\ Delayed(p) = p => Clock(p)' = T
       /\ \A q \in Procs : Clock(q) \in Nat /\ Clock(q)' \in Nat /\ Clock(q) <= Clock(q)'
  <2>1. at'[p] # 1 /\ at'[p] - 1 = at[p]
    BY <1>0, <1>5, <1>6
  <2>2. Clock(p)' = Ev(p).time + delay'[p]
    BY <1>1, <1>2, <2>1 DEF Clock
  <2>3. Delayed(p) = p => Clock(p)' = T
    <3> DEFINE e == Ev(p).time  d == delay[p]
    <3>1. e \in Nat /\ d \in Nat /\ CurTime(p) = e + d /\ T \in Nat
      BY <1>1, <1>2
    <3>2. Delayed(p) = p => Clock(p)' = e + (d + (T - CurTime(p)))
      BY <1>6a, <2>2
    <3> HIDE DEF e, d
    <3>3. e + (d + (T - (e + d))) = T
      BY <3>1
    <3> QED
      BY <3>1, <3>2, <3>3
  <2>4. \A q \in Procs : Clock(q) \in Nat
    BY <1>0, ClockType
  <2>5. Clock(p)' \in Nat /\ Clock(p) <= Clock(p)'
    <3>1. CurTime(p) <= Clock(p)' /\ Clock(p)' \in Nat
      BY <1>1, <1>6a, <2>2
    <3> QED
      BY <1>1, <3>1
  <2>6. ASSUME NEW q \in Procs, q # p PROVE Clock(q)' \in Nat /\ Clock(q) <= Clock(q)'
    <3>1. at'[q] = at[q] /\ delay[q] \in Nat /\ delay'[q] \in Nat /\ delay[q] <= delay'[q]
      BY <1>6, <1>6a, <2>6
    <3>2. CASE at[q] = 1
      BY <2>4, <3>1, <3>2 DEF Clock
    <3>3. CASE at[q] # 1
      <4>1. at[q] - 1 \in 1 .. Len(prog[q])
        <5>1. at[q] \in Nat \ {0} /\ at[q] <= Len(prog[q]) + 1 /\ Len(prog[q]) \in Nat
          BY <1>0, Inputs DEF TypeInv, Positions
        <5> QED
          BY <3>3, <5>1
      <4>2. prog[q][at[q] - 1].time \in Nat
        BY <1>0, <4>1, Inputs
      <4>3. /\ Clock(q) = prog[q][at[q] - 1].time + delay[q]
            /\ Clock(q)' = prog[q][at[q] - 1].time + delay'[q]
        BY <1>2, <3>1, <3>3 DEF Clock
      <4> QED
        BY <3>1, <4>2, <4>3
    <3> QED
      BY <3>2, <3>3
  <2> QED
    BY <2>3, <2>4, <2>5, <2>6
<1>14. Past'
  <2> SUFFICES ASSUME NEW m \in 1 .. Len(msgs), NEW q \in Procs
               PROVE  /\ msgs'[m].start[q] <= Clock(q)'
                      /\ Delayed(q) = q => msgs'[m].stop[q] <= Clock(q)'
    BY <1>2 DEF Past, Delayed
  <2>1. /\ msgs[m].start[q] <= Clock(q) /\ (Delayed(q) = q => msgs[m].stop[q] <= Clock(q))
        /\ msgs[m].start[q] \in Nat /\ msgs[m].stop[q] \in Nat
    BY <1>0, Messages DEF IInv, Past
  <2>2. msgs'[m].start = msgs[m].start
    BY <1>2
  <2>3. CASE q = p /\ m = n
    <3>1. msgs'[m].stop[q] = T
      BY <1>4a, <2>3
    <3> QED
      BY <1>2, <1>13, <2>1, <2>2, <2>3, <3>1
  <2>4. CASE ~(q = p /\ m = n)
    <3>1. msgs'[m].stop[q] = msgs[m].stop[q]
      BY <1>4a, <2>4
    <3> QED
      BY <1>13, <2>1, <2>2, <3>1
  <2> QED
    BY <2>3, <2>4
<1>15. AllEnteredFirst'
  <2> SUFFICES ASSUME NEW m \in 1 .. Len(msgs), NEW q \in Procs, NEW r \in Procs, msgs'[m].stop[q] # 0
               PROVE  msgs'[m].start[r] # 0 /\ msgs'[m].start[r] <= msgs'[m].stop[q]
    BY <1>2 DEF AllEnteredFirst
  <2>1. CASE q = p /\ m = n
    BY <1>2, <1>3, <1>4, <2>1
  <2>2. CASE ~(q = p /\ m = n)
    <3>1. msgs'[m].stop[q] = msgs[m].stop[q] /\ msgs'[m].start = msgs[m].start
      BY <1>2, <1>4a, <2>2
    <3> QED
      BY <3>1 DEF IInv, AllEnteredFirst
  <2> QED
    BY <2>1, <2>2
<1>16. EnteredInTurn'
  <2> SUFFICES ASSUME NEW m \in 1 .. Len(msgs) - 1, NEW q \in Procs,
                      Delayed(q) = q, m + 1 <= Entries(q)
               PROVE  msgs'[m].stop[q] <= msgs'[m + 1].start[q]
    BY <1>2, <1>7 DEF EnteredInTurn, Delayed
  <2>1. m \in 1 .. Len(msgs) /\ m + 1 \in 1 .. Len(msgs)
    BY <1>0
  <2>2. ~(q = p /\ m = n)
    BY <1>0, <1>2
  <2>3. msgs'[m].stop[q] = msgs[m].stop[q] /\ msgs'[m + 1].start = msgs[m + 1].start
    BY <1>2, <1>4a, <2>1, <2>2
  <2> QED
    BY <2>3 DEF IInv, EnteredInTurn
<1>17. LinksDrawnOnce'
  <2> SUFFICES ASSUME NEW m \in 1 .. Len(msgs)
               PROVE  /\ Drawn(msgs'[m].begun, msgs'[m].start)
                      /\ Drawn(msgs'[m].ended, msgs'[m].stop)
    BY <1>2 DEF LinksDrawnOnce
  <2>0. Drawn(msgs[m].begun, msgs[m].start) /\ Drawn(msgs[m].ended, msgs[m].stop)
    BY DEF IInv, LinksDrawnOnce
  <2>1. CASE m = n
    <3>1. /\ Stopped(msgs[n]) \in SUBSET Procs
          /\ \A i \in Procs : i \in Stopped(msgs[n]) <=> msgs[n].stop[i] # 0
      BY DEF Stopped
    <3>2. OneMore(msgs[n].stop, msgs'[n].stop, p, Stopped(msgs[n]))
      <4>1. msgs'[n].stop[p] # 0 /\ \A i \in Procs : i # p => msgs'[n].stop[i] = msgs[n].stop[i]
        BY <1>2, <1>4a
      <4> QED
        BY <1>4, <3>1, <4>1 DEF OneMore
    <3>3. Drawn(CountLinks(msgs[n].ended, p, Stopped(msgs[n])), msgs'[n].stop)
      BY <1>3, <2>0, <2>1, <3>2, LinkDrawn
    <3> QED
      BY <1>2, <2>0, <2>1, <3>3
  <2>2. CASE m # n
    BY <1>2, <2>0, <2>2
  <2> QED
    BY <2>1, <2>2
<1> QED
  BY <1>8, <1>9, <1>10, <1>11, <1>12, <1>14, <1>15, <1>16, <1>17 DEF IInv

-----------------------------------------------------------------------------
(* The theorems *)

LEMMA StepPreserves == IInv /\ [Next]_vars => IInv'
<1> SUFFICES ASSUME IInv, [Next]_vars PROVE IInv'
  OBVIOUS
<1>1. ASSUME NEW p \in Procs, HandleStart(p) PROVE IInv'
  BY <1>1, EnterPreserves
<1>2. ASSUME NEW p \in Procs, HandleStop(p) PROVE IInv'
  BY <1>2, LeavePreserves
<1>3. ASSUME UNCHANGED <<prog, order, at, delay, msgs, joined, left>> PROVE IInv'
  <2>1. \A p \in Procs : Entries(p)' = Entries(p) /\ Exits(p)' = Exits(p) /\ Ev(p)' = Ev(p)
                         /\ Clock(p)' = Clock(p) /\ Delayed(p)' = Delayed(p)
    BY <1>3 DEF Entries, Exits, Ev, Clock, Delayed
  <2>2. TypeInv' /\ Positions' /\ Numbered'
    BY <1>3, <2>1 DEF IInv, TypeInv, Positions, Numbered
  <2>3. Recorded' /\ Kinds' /\ Past' /\ AllEnteredFirst' /\ EnteredInTurn' /\ LinksDrawnOnce'
    BY <1>3, <2>1 DEF IInv, Recorded, Kinds, Past, AllEnteredFirst, EnteredInTurn, LinksDrawnOnce
  <2> QED
    BY <2>2, <2>3 DEF IInv
<1>4. ASSUME NEW p \in Procs, LeaveAssertionFails(p) PROVE IInv'
  BY <1>3, <1>4 DEF LeaveAssertionFails
<1>5. ASSUME Terminated \/ UNCHANGED vars PROVE IInv'
  BY <1>3, <1>5 DEF Terminated, vars
<1> QED
  BY <1>1, <1>2, <1>4, <1>5 DEF Next

THEOREM Typing == Spec => []IInv
<1> QED
  BY InitIInv, StepPreserves, PTL DEF Spec

(* What follows of the inductive invariant for the messages that a process *)
(* entered and left, in order.                                             *)
LEMMA Domains ==
    ASSUME IInv, NEW p \in Procs
    PROVE  /\ DOMAIN joined[p] = 1 .. Entries(p) /\ DOMAIN left[p] = 1 .. Exits(p)
           /\ Entries(p) \in Nat /\ Exits(p) \in Nat /\ Exits(p) <= Entries(p) /\ Entries(p) <= Len(msgs)
           /\ \A n \in 1 .. Entries(p) : joined[p][n] = n
           /\ \A n \in 1 .. Exits(p) : left[p][n] = n
<1>1. joined[p] \in Seq(Nat) /\ left[p] \in Seq(Nat)
  BY DEF IInv, TypeInv
<1>2. Entries(p) \in Nat /\ Exits(p) \in Nat /\ Entries(p) \in {Exits(p), Exits(p) + 1}
  BY Messages DEF IInv, Positions
<1> QED
  BY <1>1, <1>2, LenProperties DEF IInv, Numbered, Entries, Exits

(* Whatever the order in which the traces are read, the n-th collective of *)
(* every process is the same message, and a process leaves the collective  *)
(* that it entered (__mpi_find_coll_message).                              *)
THEOREM CollectivesMatched == Spec => []SameCollective
<1>1. IInv => SameCollective
  <2> SUFFICES ASSUME IInv PROVE SameCollective
    OBVIOUS
  <2>1. ASSUME NEW p \in Procs, NEW q \in Procs, NEW n \in DOMAIN joined[p] \cap DOMAIN joined[q]
        PROVE  joined[p][n] = joined[q][n]
    BY Domains
  <2>2. ASSUME NEW p \in Procs, NEW n \in DOMAIN left[p]
        PROVE  n \in DOMAIN joined[p] /\ left[p][n] = joined[p][n]
    BY Domains
  <2> QED
    BY <2>1, <2>2 DEF SameCollective
<1> QED
  BY <1>1, Typing, PTL

(* No process leaves a collective before every process has entered it: the *)
(* exits are deferred until then and delayed to the last entry.            *)
THEOREM NoneLeavesEarly == Spec => []LeftAfterAllEntered
<1>1. IInv => LeftAfterAllEntered
  <2> SUFFICES ASSUME IInv, NEW m \in DOMAIN msgs, NEW p \in Stopped(msgs[m]), NEW q \in Procs
               PROVE  0 < msgs[m].start[q] /\ msgs[m].start[q] <= msgs[m].stop[p]
    BY DEF LeftAfterAllEntered
  <2>1. m \in 1 .. Len(msgs) /\ msgs[m].start[q] \in Nat
    BY Messages DEF IInv
  <2>2. p \in Procs /\ msgs[m].stop[p] # 0
    BY DEF Stopped
  <2>3. msgs[m].start[q] # 0 /\ msgs[m].start[q] <= msgs[m].stop[p]
    BY <2>1, <2>2 DEF IInv, AllEnteredFirst
  <2> QED
    BY <2>1, <2>3
<1> QED
  BY <1>1, Typing, PTL

(* A process whose trace is given at the place of its rank enters a        *)
(* collective after it has left the one before: a delay given to it at an  *)
(* exit moves what it does later.                                          *)
THEOREM DelaysKept == Spec => []RoundsFollow
<1>1. IInv => RoundsFollow
  <2> SUFFICES ASSUME IInv, NEW p \in Procs, Delayed(p) = p,
                      NEW n \in DOMAIN left[p], n + 1 \in DOMAIN joined[p]
               PROVE  msgs[left[p][n]].stop[p] <= msgs[joined[p][n + 1]].start[p]
    BY DEF RoundsFollow
  <2>1. /\ Entries(p) \in Nat /\ Len(msgs) \in Nat /\ n \in 1 .. Exits(p) /\ Exits(p) \in Nat
        /\ n + 1 \in 1 .. Entries(p) /\ Entries(p) <= Len(msgs)
        /\ left[p][n] = n /\ joined[p][n + 1] = n + 1
    BY Domains, Messages DEF IInv
  <2>2. n \in 1 .. Len(msgs) - 1 /\ n + 1 <= Entries(p)
    BY <2>1
  <2> QED
    BY <2>1, <2>2 DEF IInv, EnteredInTurn
<1> QED
  BY <1>1, Typing, PTL

(* At any time, the arrow between two processes was begun once if both     *)
(* have entered the collective, ended once if both have left it, and not   *)
(* otherwise (start_coll_link, end_coll_link).                             *)
THEOREM ArrowsDrawn == Spec => []LinksDrawnOnce
<1> QED
  BY Typing, PTL DEF IInv
=============================================================================
