--------------------------- MODULE EztSched_proofs ---------------------------
(* Proofs about the scheduler, for any number of traces and any inputs.    *)
EXTENDS EztSched, FiniteSetTheorems, SequenceTheorems, WellFoundedInduction, TLAPS

-----------------------------------------------------------------------------
(* The inputs *)

LEMMA Inputs ==
    ASSUME TypeOK, NEW t \in Traces
    PROVE  /\ trace[t] \in Seq(Event)
           /\ Complete(trace[t])
           /\ Len(trace[t]) \in Nat \ {0}
           /\ DOMAIN trace[t] = 1 .. Len(trace[t])
           /\ pos[t] \in 1 .. Len(trace[t])
           /\ \A i \in 1 .. Len(trace[t]) : trace[t][i] \in Event
  BY WorkloadsAssumption, EmptySeq, LenProperties, ElementOfSeq DEF TypeOK

(* What the proofs use of a complete trace, about its event i. *)
LEMMA Fields ==
    ASSUME TypeOK, NEW t \in Traces, NEW i \in 1 .. Len(trace[t])
    PROVE  /\ trace[t][i].code \in Codes
           /\ trace[t][i].time \in Nat
           /\ trace[t][i].n \in Nat
           /\ trace[t][i].ppid \in Nat
           /\ trace[t][i].needs \subseteq Keys
           /\ trace[t][i].posts \subseteq Keys
  BY Inputs DEF Event

LEMMA TimesIncrease ==
    ASSUME TypeOK, NEW t \in Traces, NEW i \in 1 .. Len(trace[t]),
           NEW j \in 1 .. Len(trace[t]), i <= j
    PROVE  trace[t][i].time <= trace[t][j].time
  BY Inputs DEF Complete

LEMMA WaitallEvents ==
    ASSUME TypeOK, NEW t \in Traces, NEW i \in 1 .. Len(trace[t]), trace[t][i].code = "waitall"
    PROVE  /\ i + trace[t][i].n <= Len(trace[t])
           /\ \A j \in i + 1 .. i + trace[t][i].n : trace[t][j].code = "info"
           /\ trace[t][i].needs = {}
<1>1. Complete(trace[t]) /\ DOMAIN trace[t] = 1 .. Len(trace[t])
  BY Inputs
<1>2. trace[t][i].needs = {}
  BY <1>1 DEF Complete
<1> QED
  BY <1>1, <1>2 DEF Complete

-----------------------------------------------------------------------------
(* The greatest element of a bounded set *)

LEMMA MaxExists ==
    ASSUME NEW S \in SUBSET Int, S # {}, NEW B \in Int, \A x \in S : x <= B
    PROVE  \E m \in S : \A x \in S : x <= m
<1> DEFINE T == {n \in Nat : B - n \in S}
           R == OpToRel(<, Nat)
<1>1. T \subseteq Nat /\ T # {}
  <2>1. PICK x \in S : TRUE
    OBVIOUS
  <2>2. B - x \in Nat /\ B - (B - x) = x
    OBVIOUS
  <2> QED
    BY <2>1, <2>2
<1>2. PICK y \in T : \A z \in T : ~ (<<z, y>> \in R)
  <2> HIDE DEF T
  <2> QED
    BY <1>1, NatLessThanWellFounded, WFMin
<1>3. \A z \in T : ~(z < y)
  BY <1>1, <1>2 DEF OpToRel
<1>4. \A x \in S : B - x \in T
  OBVIOUS
<1> QED
  BY <1>3, <1>4

-----------------------------------------------------------------------------
(* Types *)

(* The clock of a trace was reset at or before its current event, and the  *)
(* keys were posted before some time.                                      *)
ClocksOK ==
    /\ \A t \in Traces : startTime[t] <= Ev(t).time
    /\ \E B \in Nat : \A k \in Keys : posted[k] <= B

TypeInv == TypeOK /\ ClocksOK /\ ReplayAtRequest

(* The time of the current event is not negative. *)
LEMMA CurTimeType ==
    ASSUME TypeInv, NEW t \in Traces
    PROVE  CurTime(t) \in Nat
<1>1. pos[t] \in 1 .. Len(trace[t]) /\ startTime[t] \in Nat /\ delay[t] \in Nat
  BY Inputs DEF TypeInv, TypeOK
<1>2. trace[t][pos[t]].time \in Nat /\ startTime[t] <= trace[t][pos[t]].time
  BY <1>1, Fields DEF TypeInv, ClocksOK, Ev
<1>3. RelTime(t, pos[t]) \in Nat
  BY <1>1, <1>2 DEF RelTime
<1> QED
  BY <1>1, <1>3 DEF CurTime

(* The delay after the events up to i is one of the candidates, no other   *)
(* is greater, and the present delay is one of them.                       *)
LEMMA DelayType ==
    ASSUME TypeInv, NEW t \in Traces, NEW i \in Int, i <= Len(trace[t])
    PROVE  /\ DelayUpTo(t, i) \in Nat
           /\ DelayUpTo(t, i) \in DelaysUpTo(t, i)
           /\ \A e \in DelaysUpTo(t, i) : e <= DelayUpTo(t, i)
<1>1. PICK B \in Nat : \A k \in Keys : posted[k] <= B
  BY DEF TypeInv, ClocksOK
<1>2. pos[t] \in Nat \ {0} /\ delay[t] \in Nat /\ startTime[t] \in Nat /\ Len(trace[t]) \in Nat
  BY Inputs DEF TypeInv, TypeOK
<1>3. \A j \in pos[t] .. i : \A k \in trace[t][j].needs :
          /\ posted[k] - RelTime(t, j) \in Int
          /\ posted[k] - RelTime(t, j) <= B + startTime[t]
  <2> TAKE j \in pos[t] .. i
  <2> TAKE k \in trace[t][j].needs
  <2>1. j \in 1 .. Len(trace[t])
    BY <1>2
  <2>2. k \in Keys /\ trace[t][j].time \in Nat
    BY <2>1, Fields DEF TypeInv
  <2>3. posted[k] \in Int /\ posted[k] <= B
    BY <1>1, <2>2 DEF TypeInv, TypeOK, NotPosted
  <2>4. RelTime(t, j) \in Int /\ 0 - startTime[t] <= RelTime(t, j)
    BY <1>2, <2>2 DEF RelTime
  <2> QED
    BY <1>2, <2>3, <2>4
<1>4. DelaysUpTo(t, i) \in SUBSET Int /\ delay[t] \in DelaysUpTo(t, i)
  BY <1>2, <1>3 DEF DelaysUpTo
<1>5. \A e \in DelaysUpTo(t, i) : e <= delay[t] + B + startTime[t]
  <2> SUFFICES ASSUME NEW e \in DelaysUpTo(t, i) PROVE e <= delay[t] + B + startTime[t]
    OBVIOUS
  <2>1. CASE e = delay[t]
    BY <1>2, <2>1
  <2>2. CASE e # delay[t]
    <3>1. PICK j \in pos[t] .. i : \E k \in trace[t][j].needs : e = posted[k] - RelTime(t, j)
      BY <2>2 DEF DelaysUpTo
    <3> QED
      BY <1>2, <1>3, <3>1
  <2> QED
    BY <2>1, <2>2
<1>6. \E m \in DelaysUpTo(t, i) : \A e \in DelaysUpTo(t, i) : e <= m
  <2>1. delay[t] + B + startTime[t] \in Int /\ DelaysUpTo(t, i) # {}
    BY <1>2, <1>4
  <2> QED
    BY <1>4, <1>5, <2>1, MaxExists
<1>7. /\ DelayUpTo(t, i) \in DelaysUpTo(t, i)
      /\ \A e \in DelaysUpTo(t, i) : e <= DelayUpTo(t, i)
  BY <1>6 DEF DelayUpTo
<1> QED
  BY <1>2, <1>4, <1>7

(* The times of the events up to i: as many integers as there are events.  *)
LEMMA TimesType ==
    ASSUME TypeInv, NEW t \in Traces, NEW i \in Int, pos[t] - 1 <= i, i <= Len(trace[t])
    PROVE  TimesUpTo(t, i) \in Seq(Int) /\ Len(TimesUpTo(t, i)) = i - pos[t] + 1
<1>1. pos[t] \in Nat \ {0} /\ startTime[t] \in Nat /\ Len(trace[t]) \in Nat
  BY Inputs DEF TypeInv, TypeOK
<1> DEFINE n == i - pos[t] + 1
           e(j) == IF start[t] THEN RelTime(t, pos[t] + j - 1) + DelayUpTo(t, pos[t] + j - 1)
                   ELSE NotShown
<1>2. n \in Nat
  BY <1>1
<1>3. \A j \in 1 .. n : e(j) \in Int
  <2> SUFFICES ASSUME NEW j \in 1 .. n PROVE e(j) \in Int
    OBVIOUS
  <2>1. pos[t] + j - 1 \in 1 .. Len(trace[t])
    BY <1>1
  <2>2. trace[t][pos[t] + j - 1].time \in Nat
    BY <2>1, Fields DEF TypeInv
  <2>3. DelayUpTo(t, pos[t] + j - 1) \in Nat
    BY <1>1, <2>1, DelayType
  <2> QED
    BY <1>1, <2>2, <2>3 DEF RelTime, NotShown
<1>4. TimesUpTo(t, i) = [j \in 1 .. n |-> e(j)]
  BY DEF TimesUpTo
<1>5. TimesUpTo(t, i) \in Seq(Int)
  <2> HIDE DEF e, n
  <2> QED
    BY <1>2, <1>3, <1>4, IsASeq
<1> QED
  BY <1>2, <1>4, <1>5, LenProperties

LEMMA EmitType ==
    ASSUME TypeOK, NEW t \in Traces, NEW s \in Seq(Int), Emit(t, s)
    PROVE  /\ out' \in [Traces -> Seq(Int)]
           /\ Len(out'[t]) = Len(out[t]) + Len(s)
           /\ \A u \in Traces \ {t} : out'[u] = out[u]
<1>1. out[t] \o s \in Seq(Int) /\ Len(out[t] \o s) = Len(out[t]) + Len(s)
  BY ConcatProperties DEF TypeOK
<1> QED
  BY <1>1 DEF Emit, TypeOK

LEMMA StepType ==
    ASSUME TypeOK, NEW t \in Traces, NEW n \in Nat, StepForward(t, n)
    PROVE  /\ pos' \in [Traces -> Nat \ {0}]
           /\ \A u \in Traces : pos'[u] <= Len(trace[u])
           /\ pos'[t] = IF pos[t] + n <= Len(trace[t]) THEN pos[t] + n ELSE Len(trace[t])
           /\ \A u \in Traces \ {t} : pos'[u] = pos[u] /\ done'[u] = done[u]
           /\ done'[t] = (done[t] \/ pos[t] + n > Len(trace[t]))
           /\ done' \in [Traces -> BOOLEAN]
           /\ nbDone' = IF pos[t] + n <= Len(trace[t]) THEN nbDone ELSE nbDone + 1
<1>0. /\ Len(trace[t]) \in Nat \ {0} /\ pos[t] \in Nat \ {0}
      /\ \A u \in Traces : pos[u] <= Len(trace[u])
  BY Inputs DEF TypeOK
<1>1. CASE pos[t] + n <= Len(trace[t])
  <2>1. pos' = [pos EXCEPT ![t] = @ + n] /\ done' = done /\ nbDone' = nbDone
    BY <1>1 DEF StepForward
  <2>2. ~(pos[t] + n > Len(trace[t])) /\ pos[t] + n \in Nat \ {0}
    BY <1>0, <1>1
  <2>3. /\ pos' \in [Traces -> Nat \ {0}]
        /\ pos'[t] = pos[t] + n
        /\ \A u \in Traces \ {t} : pos'[u] = pos[u]
    BY <2>1, <2>2 DEF TypeOK
  <2>4. \A u \in Traces : pos'[u] <= Len(trace[u])
    BY <1>0, <1>1, <2>3
  <2>5. done' \in [Traces -> BOOLEAN] /\ done'[t] = done[t]
    BY <2>1 DEF TypeOK
  <2>6. done'[t] = (done[t] \/ pos[t] + n > Len(trace[t]))
    BY <2>2, <2>5 DEF TypeOK
  <2> QED
    BY <1>1, <2>1, <2>3, <2>4, <2>5, <2>6
<1>2. CASE ~(pos[t] + n <= Len(trace[t]))
  <2>1. /\ pos' = [pos EXCEPT ![t] = Len(trace[t])]
        /\ done' = [done EXCEPT ![t] = TRUE]
        /\ nbDone' = nbDone + 1
    BY <1>2 DEF StepForward
  <2>2. pos[t] + n > Len(trace[t])
    BY <1>0, <1>2
  <2>3. /\ pos' \in [Traces -> Nat \ {0}]
        /\ pos'[t] = Len(trace[t])
        /\ \A u \in Traces \ {t} : pos'[u] = pos[u]
    BY <1>0, <2>1 DEF TypeOK
  <2>4. \A u \in Traces : pos'[u] <= Len(trace[u])
    BY <1>0, <2>3
  <2>5. /\ done' \in [Traces -> BOOLEAN]
        /\ done'[t] = TRUE
        /\ \A u \in Traces \ {t} : done'[u] = done[u]
    BY <2>1 DEF TypeOK
  <2> QED
    BY <1>2, <2>1, <2>2, <2>3, <2>4, <2>5
<1> QED
  BY <1>1, <1>2

(* The events that handle_mpi_stop_waitall goes through. *)
LEMMA WaitallRange ==
    ASSUME TypeInv, NEW t \in Traces, InWaitall(t)
    PROVE  /\ LastOf(t) \in pos[t] .. Len(trace[t])
           /\ \A j \in pos[t] + 1 .. LastOf(t) : trace[t][j].code = "info"
           /\ Ev(t).code \in {"waitall", "info"}
<1>0. Len(trace[t]) \in Nat /\ pos[t] \in 1 .. Len(trace[t]) /\ DOMAIN trace[t] = 1 .. Len(trace[t])
  BY Inputs DEF TypeInv
<1>1. CASE replay[t] # NoReplay
  <2> DEFINE w == pos[t] - replay[t].i - 1
  <2>1. /\ w \in 1 .. Len(trace[t]) /\ trace[t][w].code = "waitall"
        /\ trace[t][w].n = replay[t].n /\ replay[t].i < replay[t].n
    BY <1>0, <1>1 DEF TypeInv, ReplayAtRequest
  <2>2. replay[t].i \in Nat /\ replay[t].n \in Nat
    BY DEF TypeInv, TypeOK
  <2>3. /\ w + replay[t].n <= Len(trace[t])
        /\ \A j \in w + 1 .. w + replay[t].n : trace[t][j].code = "info"
    BY <2>1, WaitallEvents DEF TypeInv
  <2>4. /\ LastOf(t) = pos[t] + (replay[t].n - replay[t].i) - 1
        /\ pos[t] = w + replay[t].i + 1
    BY <1>0, <1>1, <2>2 DEF LastOf
  <2>5. LastOf(t) = w + replay[t].n /\ pos[t] \in w + 1 .. w + replay[t].n
    <3> HIDE DEF w
    <3>1. w \in Int /\ replay[t].i < replay[t].n
      BY <2>1
    <3> QED
      BY <2>2, <2>4, <3>1
  <2>6. Ev(t).code = "info"
    BY <2>3, <2>5 DEF Ev
  <2> QED
    BY <1>0, <2>1, <2>2, <2>3, <2>5, <2>6
<1>2. CASE replay[t] = NoReplay
  <2>1. Ev(t).code = "waitall" /\ LastOf(t) = pos[t] + Ev(t).n
    BY <1>2 DEF InWaitall, LastOf
  <2>2. /\ pos[t] + Ev(t).n <= Len(trace[t]) /\ Ev(t).n \in Nat
        /\ \A j \in pos[t] + 1 .. pos[t] + Ev(t).n : trace[t][j].code = "info"
    BY <1>0, <2>1, WaitallEvents, Fields DEF TypeInv, Ev
  <2> QED
    BY <1>0, <2>1, <2>2
<1> QED
  BY <1>1, <1>2

LEMMA FlagsType ==
    ASSUME TypeOK, NEW t \in Traces, Handled \/ Defer(t)
    PROVE  SKIP' \in BOOLEAN /\ skip' \in [Traces -> BOOLEAN]
<1>1. SkipAfterPick \in [Traces -> BOOLEAN]
  BY DEF SkipAfterPick, TypeOK
<1> QED
  BY <1>1 DEF Handled, Defer

(* A step that leaves the clocks and the keys, or resets a clock at an     *)
(* event that it goes through.                                             *)
LEMMA ClocksKept ==
    ASSUME TypeInv, trace' = trace,
           \A u \in Traces : /\ pos'[u] \in 1 .. Len(trace[u])
                             /\ startTime'[u] \in Nat
                             /\ \E i \in 1 .. pos'[u] : startTime'[u] <= trace[u][i].time,
           \E B \in Nat : \A k \in Keys : posted'[k] <= B
    PROVE  ClocksOK'
<1>1. ASSUME NEW u \in Traces PROVE startTime'[u] <= trace[u][pos'[u]].time
  <2>1. Len(trace[u]) \in Nat
    BY Inputs DEF TypeInv
  <2>2. PICK i \in 1 .. pos'[u] : startTime'[u] <= trace[u][i].time
    OBVIOUS
  <2>3. i \in 1 .. Len(trace[u]) /\ i <= pos'[u]
    BY <2>1
  <2>4. trace[u][i].time <= trace[u][pos'[u]].time
    BY <2>3, TimesIncrease DEF TypeInv
  <2>5. trace[u][i].time \in Nat /\ trace[u][pos'[u]].time \in Nat
    BY <2>3, Fields DEF TypeInv
  <2> QED
    BY <2>2, <2>4, <2>5
<1> QED
  BY <1>1 DEF ClocksOK, Ev

(* The usual case: a trace goes forward, the clocks stay.                  *)
LEMMA ClocksForward ==
    ASSUME TypeInv, trace' = trace, startTime' = startTime, posted' = posted,
           \A u \in Traces : pos'[u] \in pos[u] .. Len(trace[u])
    PROVE  ClocksOK'
<1>1. \A u \in Traces : pos[u] \in Nat \ {0} /\ startTime[u] \in Nat /\ Len(trace[u]) \in Nat
  BY Inputs DEF TypeInv, TypeOK
<1>2. \A u \in Traces : startTime[u] <= trace[u][pos[u]].time
  BY DEF TypeInv, ClocksOK, Ev
<1>3. \A u \in Traces : /\ pos'[u] \in 1 .. Len(trace[u])
                        /\ pos[u] \in 1 .. pos'[u]
  BY <1>1
<1>4. \E B \in Nat : \A k \in Keys : posted'[k] <= B
  BY DEF TypeInv, ClocksOK
<1> QED
  BY <1>1, <1>2, <1>3, <1>4, ClocksKept

LEMMA ReplayKept ==
    ASSUME ReplayAtRequest, NEW t \in Traces, trace' = trace, replay'[t] = NoReplay,
           \A u \in Traces \ {t} : pos'[u] = pos[u] /\ replay'[u] = replay[u]
    PROVE  ReplayAtRequest'
  BY DEF ReplayAtRequest, Ev

(* Where StepForward leads. *)
LEMMA StepRange ==
    ASSUME TypeOK, NEW t \in Traces, NEW n \in Nat, StepForward(t, n)
    PROVE  \A u \in Traces : pos'[u] \in pos[u] .. Len(trace[u])
<1>1. \A u \in Traces : pos[u] \in 1 .. Len(trace[u]) /\ Len(trace[u]) \in Nat
  BY Inputs
<1>2. \A u \in Traces \ {t} : pos'[u] = pos[u]
  BY StepType
<1>3. pos'[t] = IF pos[t] + n <= Len(trace[t]) THEN pos[t] + n ELSE Len(trace[t])
  BY StepType
<1> QED
  BY <1>1, <1>2, <1>3

LEMMA InitTypeInv == Init => TypeInv
<1> SUFFICES ASSUME Init PROVE TypeInv
  OBVIOUS
<1>1. \A t \in Traces : /\ trace[t] \in Seq(Event) /\ Len(trace[t]) \in Nat \ {0}
                        /\ trace[t][1] \in Event
  BY WorkloadsAssumption, EmptySeq, LenProperties, ElementOfSeq DEF Init, Complete
<1>2. \A t \in Traces : trace[t][1].time \in Nat
  BY <1>1 DEF Event
<1>3. TypeOK
  <2>1. << >> \in Seq(Int) /\ << >> \in Seq([ppid : Nat, nbChildren : Int, time : Nat])
    BY EmptySeq
  <2>2. \A t \in Traces : replay[t] \in [n : Nat, i : Nat, needs : SUBSET Keys]
    BY DEF Init, NoReplay
  <2>3. replay \in [Traces -> [n : Nat, i : Nat, needs : SUBSET Keys]]
    BY <2>2 DEF Init
  <2>4. nbStart \in Nat /\ nbDone \in Nat /\ posted \in [Keys -> Nat \cup {NotPosted}]
    BY DEF Init
  <2>5. pos \in [Traces -> Nat \ {0}] /\ (\A t \in Traces : pos[t] <= Len(trace[t]))
    BY <1>1 DEF Init
  <2>6. startTime \in [Traces -> Nat] /\ delay \in [Traces -> Nat]
    BY <1>2 DEF Init
  <2>7. spawns \in Seq([ppid : Nat, nbChildren : Int, time : Nat]) /\ out \in [Traces -> Seq(Int)]
    BY <2>1 DEF Init
  <2> QED
    BY <2>3, <2>4, <2>5, <2>6, <2>7 DEF Init, TypeOK
<1>4. ClocksOK
  <2>1. \A k \in Keys : posted[k] <= 0
    BY DEF Init, NotPosted
  <2>2. \A t \in Traces : startTime[t] <= Ev(t).time
    BY <1>2 DEF Init, Ev
  <2> QED
    BY <2>1, <2>2 DEF ClocksOK
<1>5. ReplayAtRequest
  BY DEF Init, ReplayAtRequest
<1> QED
  BY <1>3, <1>4, <1>5 DEF TypeInv

(* What every handler that goes through its events keeps well-typed.       *)
LEMMA ForwardType ==
    ASSUME TypeInv, NEW t \in Traces, NEW n \in Nat, NEW s \in Seq(Int),
           Handled, Emit(t, s), StepForward(t, n), UNCHANGED <<trace, status>>,
           start' \in [Traces -> BOOLEAN], startTime' \in [Traces -> Nat],
           delay' \in [Traces -> Nat], nbStart' \in Nat,
           replay' \in [Traces -> [n : Nat, i : Nat, needs : SUBSET Keys]],
           posted' \in [Keys -> Nat \cup {NotPosted}],
           spawns' \in Seq([ppid : Nat, nbChildren : Int, time : Nat])
    PROVE  TypeOK'
<1>1. /\ pos' \in [Traces -> Nat \ {0}]
      /\ \A u \in Traces : pos'[u] <= Len(trace'[u])
      /\ done' \in [Traces -> BOOLEAN]
      /\ nbDone' = IF pos[t] + n <= Len(trace[t]) THEN nbDone ELSE nbDone + 1
  BY StepType DEF TypeInv
<1>2. nbDone' \in Nat
  BY <1>1 DEF TypeInv, TypeOK
<1>3. SKIP' \in BOOLEAN /\ skip' \in [Traces -> BOOLEAN]
  BY FlagsType DEF TypeInv
<1>4. out' \in [Traces -> Seq(Int)]
  BY EmitType DEF TypeInv
<1> QED
  BY <1>1, <1>2, <1>3, <1>4 DEF TypeInv, TypeOK

(* What the types of the other variables are, to be cited when they do not *)
(* change.                                                                 *)
LEMMA OtherTypes ==
    ASSUME TypeInv
    PROVE  /\ start \in [Traces -> BOOLEAN] /\ startTime \in [Traces -> Nat]
           /\ delay \in [Traces -> Nat] /\ nbStart \in Nat
           /\ replay \in [Traces -> [n : Nat, i : Nat, needs : SUBSET Keys]]
           /\ posted \in [Keys -> Nat \cup {NotPosted}]
           /\ spawns \in Seq([ppid : Nat, nbChildren : Int, time : Nat])
  BY DEF TypeInv, TypeOK

LEMMA PlainTypeInv ==
    ASSUME TypeInv, NEW t \in Traces, HandlePlain(t)
    PROVE  TypeInv'
<1>1. TimesUpTo(t, pos[t]) \in Seq(Int)
  BY Inputs, TimesType DEF TypeInv
<1>2. TypeOK'
  BY <1>1, ForwardType, OtherTypes DEF HandlePlain
<1>3. ClocksOK'
  BY StepRange, ClocksForward DEF HandlePlain, TypeInv
<1>4. ReplayAtRequest'
  BY StepType, ReplayKept DEF HandlePlain, TypeInv
<1> QED
  BY <1>2, <1>3, <1>4 DEF TypeInv

LEMMA PostTypeInv ==
    ASSUME TypeInv, NEW t \in Traces, HandlePost(t)
    PROVE  TypeInv'
<1>1. TimesUpTo(t, pos[t]) \in Seq(Int)
  BY Inputs, TimesType DEF TypeInv
<1>2. posted' = [k \in Keys |-> IF k \in Ev(t).posts \ Seen THEN CurTime(t) ELSE posted[k]]
  BY DEF HandlePost
<1>3. posted' \in [Keys -> Nat \cup {NotPosted}]
  BY <1>2, CurTimeType DEF TypeInv, TypeOK
<1>4. TypeOK'
  BY <1>1, <1>3, ForwardType, OtherTypes DEF HandlePost
<1>5. \E B \in Nat : \A k \in Keys : posted'[k] <= B
  <2>1. PICK B \in Nat : \A k \in Keys : posted[k] <= B
    BY DEF TypeInv, ClocksOK
  <2>2. CurTime(t) \in Nat /\ \A k \in Keys : posted[k] \in Int
    BY CurTimeType DEF TypeInv, TypeOK, NotPosted
  <2>3. B + CurTime(t) \in Nat /\ \A k \in Keys : posted'[k] <= B + CurTime(t)
    BY <1>2, <2>1, <2>2
  <2> QED
    BY <2>3
<1>6. \A u \in Traces : pos'[u] \in pos[u] .. Len(trace[u])
  BY StepRange DEF HandlePost, TypeInv
<1>7. ClocksOK'
  <2>1. \A u \in Traces : /\ pos[u] \in Nat \ {0} /\ startTime[u] \in Nat /\ Len(trace[u]) \in Nat
                          /\ startTime[u] <= trace[u][pos[u]].time
    BY Inputs DEF TypeInv, TypeOK, ClocksOK, Ev
  <2>2. trace' = trace /\ startTime' = startTime
    BY DEF HandlePost
  <2>3. \A u \in Traces : pos'[u] \in 1 .. Len(trace[u]) /\ pos[u] \in 1 .. pos'[u]
    BY <1>6, <2>1
  <2> QED
    BY <1>5, <2>1, <2>2, <2>3, ClocksKept
<1>8. ReplayAtRequest'
  BY StepType, ReplayKept DEF HandlePost, TypeInv
<1> QED
  BY <1>4, <1>7, <1>8 DEF TypeInv

LEMMA NeedTypeInv ==
    ASSUME TypeInv, NEW t \in Traces, HandleNeed(t)
    PROVE  TypeInv'
<1>1. /\ TimesUpTo(t, pos[t]) \in Seq(Int)
      /\ DelayUpTo(t, pos[t]) \in Nat
  BY Inputs, TimesType, DelayType DEF TypeInv
<1>2. delay' \in [Traces -> Nat]
  BY <1>1, OtherTypes DEF HandleNeed
<1>3. TypeOK'
  BY <1>1, <1>2, ForwardType, OtherTypes DEF HandleNeed
<1>4. ClocksOK'
  BY StepRange, ClocksForward DEF HandleNeed, TypeInv
<1>5. ReplayAtRequest'
  BY StepType, ReplayKept DEF HandleNeed, TypeInv
<1> QED
  BY <1>3, <1>4, <1>5 DEF TypeInv

LEMMA NeedNotPostedTypeInv ==
    ASSUME TypeInv, NEW t \in Traces, NeedNotPosted(t)
    PROVE  TypeInv'
<1>1. SKIP' \in BOOLEAN /\ skip' \in [Traces -> BOOLEAN]
  BY FlagsType DEF NeedNotPosted, TypeInv
<1>2. UNCHANGED <<trace, pos, start, startTime, delay, nbStart, replay, posted, spawns,
                  out, status, done, nbDone>>
  BY DEF NeedNotPosted, Defer
<1>3. TypeOK'
  BY <1>1, <1>2 DEF TypeInv, TypeOK
<1> QED
  BY <1>2, <1>3 DEF TypeInv, ClocksOK, ReplayAtRequest, Ev

LEMMA WaitallTypeInv ==
    ASSUME TypeInv, NEW t \in Traces, HandleWaitall(t)
    PROVE  TypeInv'
<1>1. LastOf(t) \in pos[t] .. Len(trace[t]) /\ pos[t] \in Nat /\ Len(trace[t]) \in Nat
  BY WaitallRange, Inputs DEF HandleWaitall, TypeInv
<1>2. /\ TimesUpTo(t, LastOf(t)) \in Seq(Int)
      /\ DelayUpTo(t, LastOf(t)) \in Nat
      /\ LastOf(t) - pos[t] + 1 \in Nat
  <2>1. LastOf(t) \in Int /\ pos[t] - 1 <= LastOf(t) /\ LastOf(t) <= Len(trace[t])
    BY <1>1
  <2> QED
    BY <1>1, <2>1, TimesType, DelayType
<1>3. delay' \in [Traces -> Nat]
  BY <1>2, OtherTypes DEF HandleWaitall
<1>4. replay' \in [Traces -> [n : Nat, i : Nat, needs : SUBSET Keys]]
  <2>1. NoReplay \in [n : Nat, i : Nat, needs : SUBSET Keys]
    BY DEF NoReplay
  <2> QED
    BY <2>1, OtherTypes DEF HandleWaitall
<1>5. TypeOK'
  BY <1>2, <1>3, <1>4, ForwardType, OtherTypes DEF HandleWaitall
<1>6. ClocksOK'
  BY <1>2, StepRange, ClocksForward DEF HandleWaitall, TypeInv
<1>7. ReplayAtRequest'
  <2>1. replay'[t] = NoReplay /\ \A u \in Traces \ {t} : replay'[u] = replay[u]
    BY OtherTypes DEF HandleWaitall
  <2> QED
    BY <1>2, <2>1, StepType, ReplayKept DEF HandleWaitall, TypeInv
<1> QED
  BY <1>5, <1>6, <1>7 DEF TypeInv

LEMMA BelowWaitallSize ==
    ASSUME NEW i \in Int, NEW n \in Int, NEW b \in Int, NEW p \in Int, NEW r \in Int,
           i = b - p + r, b <= p + (n - r) - 1
    PROVE  i < n
  OBVIOUS

LEMMA ReplayIndex ==
    ASSUME NEW b \in Int, NEW p \in Int, NEW n \in Int, NEW i \in Int, NEW j \in Int
    PROVE  /\ j = n - ((p + n) - b) - 1 => j = b - p - 1
           /\ j = n - ((p + (n - i) - 1) - b) - 1 => j = b - p + i
  OBVIOUS

(* A waitall that stops at the request b: the replay remembers the requests *)
(* that precede it and those of the waitall.                               *)
LEMMA ReplayPoint ==
    ASSUME TypeInv, NEW t \in Traces, InWaitall(t), NEW b \in Blocked(t),
           NEW n, n = IF replay[t] = NoReplay THEN Ev(t).n ELSE replay[t].n,
           NEW i, i = n - (LastOf(t) - b) - 1
    PROVE  /\ b \in pos[t] .. Len(trace[t])
           /\ n \in Nat /\ i \in Nat /\ i < n
           /\ b - i - 1 \in 1 .. Len(trace[t])
           /\ trace[t][b - i - 1].code = "waitall"
           /\ trace[t][b - i - 1].n = n
<1>0. Len(trace[t]) \in Nat /\ pos[t] \in 1 .. Len(trace[t])
  BY Inputs DEF TypeInv
<1>1. b \in pos[t] .. LastOf(t) /\ trace[t][b].needs # {} /\ LastOf(t) \in pos[t] .. Len(trace[t])
  BY WaitallRange DEF Blocked
<1>2. b \in pos[t] .. Len(trace[t])
  BY <1>0, <1>1
<1>3. CASE replay[t] = NoReplay
  <2>1. Ev(t).code = "waitall" /\ LastOf(t) = pos[t] + Ev(t).n
    BY <1>3 DEF InWaitall, LastOf
  <2>2. Ev(t).n \in Nat /\ Ev(t).needs = {}
    BY <1>0, <2>1, Fields, WaitallEvents DEF TypeInv, Ev
  <2>3. n = Ev(t).n
    BY <1>3
  <2>4. b # pos[t]
    BY <1>1, <2>2 DEF Ev
  <2>5. /\ b \in Int /\ pos[t] \in Int /\ n \in Nat /\ i \in Int
        /\ i = n - ((pos[t] + n) - b) - 1
    BY <1>0, <1>2, <2>1, <2>2, <2>3
  <2>6. i = b - pos[t] - 1
    BY <2>5, ReplayIndex
  <2>7. pos[t] < b /\ b <= pos[t] + n
    BY <1>0, <1>1, <1>2, <2>1, <2>3, <2>4
  <2>8. b - i - 1 = pos[t] /\ i \in Nat /\ i < n
    BY <2>5, <2>6, <2>7
  <2> QED
    BY <1>0, <1>2, <2>1, <2>3, <2>5, <2>8 DEF Ev
<1>4. CASE replay[t] # NoReplay
  <2>1. /\ pos[t] - replay[t].i - 1 \in 1 .. Len(trace[t])
        /\ trace[t][pos[t] - replay[t].i - 1].code = "waitall"
        /\ trace[t][pos[t] - replay[t].i - 1].n = replay[t].n
        /\ replay[t].i < replay[t].n
    BY <1>0, <1>4, Inputs DEF TypeInv, ReplayAtRequest
  <2>2. replay[t].n \in Nat /\ replay[t].i \in Nat /\ n = replay[t].n
    BY <1>4, OtherTypes
  <2>3. LastOf(t) = pos[t] + (replay[t].n - replay[t].i) - 1
    BY <1>4 DEF LastOf
  <2> DEFINE ri == replay[t].i
  <2> HIDE DEF ri
  <2>a. /\ b \in Int /\ pos[t] \in Int /\ n \in Int /\ ri \in Int /\ i \in Int
        /\ i = n - ((pos[t] + (n - ri) - 1) - b) - 1
    BY <1>0, <1>2, <2>2, <2>3 DEF ri
  <2>b. i = b - pos[t] + ri
    BY <2>a, ReplayIndex
  <2>4. i = b - pos[t] + replay[t].i
    BY <2>b DEF ri
  <2>5. b - i - 1 = pos[t] - replay[t].i - 1 /\ i \in Nat
    BY <1>0, <1>2, <2>2, <2>4
  <2>c. b <= pos[t] + (n - ri) - 1
    BY <1>1, <2>2, <2>3 DEF ri
  <2>6. i < n
    BY <2>a, <2>b, <2>c, BelowWaitallSize
  <2> QED
    BY <1>2, <2>1, <2>2, <2>5, <2>6
<1> QED
  BY <1>3, <1>4

LEMMA WaitallNotPostedTypeInv ==
    ASSUME TypeInv, NEW t \in Traces, WaitallNotPosted(t)
    PROVE  TypeInv'
<1>0. \A u \in Traces : Len(trace[u]) \in Nat /\ pos[u] \in 1 .. Len(trace[u])
  BY Inputs DEF TypeInv
<1> DEFINE n == IF replay[t] = NoReplay THEN Ev(t).n ELSE replay[t].n
<1>1. PICK b \in Blocked(t) :
        /\ pos' = [pos EXCEPT ![t] = b]
        /\ delay' = [delay EXCEPT ![t] = DelayUpTo(t, b - 1)]
        /\ Emit(t, TimesUpTo(t, b - 1))
        /\ replay' = [replay EXCEPT ![t] =
                         [n |-> n, i |-> n - (LastOf(t) - b) - 1, needs |-> trace[t][b].needs]]
  BY DEF WaitallNotPosted, ReplayAt, WaitallSize
<1> DEFINE i == n - (LastOf(t) - b) - 1
<1>2. /\ b \in pos[t] .. Len(trace[t])
      /\ n \in Nat /\ i \in Nat /\ i < n
      /\ b - i - 1 \in 1 .. Len(trace[t])
      /\ trace[t][b - i - 1].code = "waitall"
      /\ trace[t][b - i - 1].n = n
  <2>1. InWaitall(t)
    BY DEF WaitallNotPosted
  <2> QED
    BY <2>1, ReplayPoint
<1>3. UNCHANGED <<trace, start, startTime, nbStart, posted, spawns, status, done, nbDone>>
  BY DEF WaitallNotPosted, Defer
<1> HIDE DEF n, i
<1>4. /\ replay' = [replay EXCEPT ![t] = [n |-> n, i |-> i, needs |-> trace[t][b].needs]]
      /\ b \in Nat \ {0} /\ b - 1 \in Int /\ pos[t] - 1 <= b - 1 /\ b - 1 <= Len(trace[t])
  BY <1>0, <1>1, <1>2 DEF n, i
<1>5. TypeOK'
  <2>1. SKIP' \in BOOLEAN /\ skip' \in [Traces -> BOOLEAN]
    BY FlagsType DEF WaitallNotPosted, TypeInv
  <2>a. /\ pos' \in [Traces -> Nat \ {0}]
        /\ pos'[t] = b
        /\ \A u \in Traces \ {t} : pos'[u] = pos[u]
    BY <1>1, <1>4 DEF TypeInv, TypeOK
  <2>2. \A u \in Traces : pos'[u] <= Len(trace'[u])
    BY <1>0, <1>2, <1>3, <2>a
  <2>3. delay' \in [Traces -> Nat]
    BY <1>1, <1>4, DelayType, OtherTypes
  <2>4. out' \in [Traces -> Seq(Int)]
    BY <1>1, <1>4, TimesType, EmitType DEF TypeInv
  <2>5. trace[t][b].needs \in SUBSET Keys
    BY <1>0, <1>2, <1>4, Fields DEF TypeInv
  <2>6. replay' \in [Traces -> [n : Nat, i : Nat, needs : SUBSET Keys]]
    BY <1>2, <1>4, <2>5, OtherTypes
  <2>7. UNCHANGED <<done, start, startTime, nbStart, nbDone, posted, spawns, status>>
    BY <1>3
  <2>8. done \in [Traces -> BOOLEAN] /\ nbDone \in Nat
        /\ status \in {"running", "finished", "undefined"} /\ trace' \in Workloads
    BY <1>3 DEF TypeInv, TypeOK
  <2> QED
    BY <2>1, <2>2, <2>a, <2>3, <2>4, <2>6, <2>7, <2>8, OtherTypes DEF TypeOK
<1>6. ClocksOK'
  <2>1. \A u \in Traces : pos'[u] \in pos[u] .. Len(trace[u])
    <3>1. pos'[t] = b /\ \A u \in Traces \ {t} : pos'[u] = pos[u]
      BY <1>1 DEF TypeInv, TypeOK
    <3> QED
      BY <1>0, <1>2, <3>1
  <2> QED
    BY <1>3, <2>1, ClocksForward
<1>7. ReplayAtRequest'
  <2>1. \A u \in Traces \ {t} : pos'[u] = pos[u] /\ replay'[u] = replay[u]
    BY <1>1, <1>4 DEF TypeInv, TypeOK
  <2>2. pos'[t] = b /\ replay'[t] = [n |-> n, i |-> i, needs |-> trace[t][b].needs]
    BY <1>1, <1>4 DEF TypeInv, TypeOK
  <2>3. /\ replay'[t].n = n /\ replay'[t].i = i /\ replay'[t].needs = trace[t][b].needs
    BY <2>2
  <2>4. DOMAIN trace[t] = 1 .. Len(trace[t])
    BY Inputs DEF TypeInv
  <2> QED
    BY <1>2, <1>3, <2>1, <2>2, <2>3, <2>4 DEF TypeInv, ReplayAtRequest, Ev
<1> QED
  BY <1>5, <1>6, <1>7 DEF TypeInv

LEMMA InitHandlerTypeInv ==
    ASSUME TypeInv, NEW t \in Traces, HandleInit(t)
    PROVE  TypeInv'
<1>0. \A u \in Traces : Len(trace[u]) \in Nat /\ pos[u] \in 1 .. Len(trace[u])
  BY Inputs DEF TypeInv
<1> DEFINE m == IF pos[t] < Len(trace[t]) THEN 2 ELSE 1
           e(j) == trace[t][pos[t] + j - 1].time - Ev(t).time + delay[t]
           times == [j \in 1 .. m |-> e(j)]
<1>1. times \in Seq(Int)
  <2>1. ASSUME NEW j \in 1 .. m PROVE e(j) \in Int
    <3>1. pos[t] + j - 1 \in 1 .. Len(trace[t])
      BY <1>0
    <3>2. trace[t][pos[t] + j - 1].time \in Nat /\ Ev(t).time \in Nat /\ delay[t] \in Nat
      BY <1>0, <3>1, Fields, OtherTypes DEF TypeInv, Ev
    <3> QED
      BY <3>2
  <2>2. m \in Nat
    OBVIOUS
  <2> HIDE DEF m, e
  <2> QED
    BY <2>1, <2>2, IsASeq
<1>2. Emit(t, times)
  BY DEF HandleInit
<1>3. Ev(t).time \in Nat
  BY <1>0, Fields DEF TypeInv, Ev
<1> HIDE DEF times
<1>4. /\ startTime' \in [Traces -> Nat] /\ start' \in [Traces -> BOOLEAN] /\ nbStart' \in Nat
  BY <1>3, OtherTypes DEF HandleInit
<1>5. TypeOK'
  BY <1>1, <1>2, <1>4, ForwardType, OtherTypes DEF HandleInit
<1>6. \A u \in Traces : pos'[u] \in pos[u] .. Len(trace[u])
  BY StepRange DEF HandleInit, TypeInv
<1>7. ClocksOK'
  <2>1. \A u \in Traces : startTime[u] <= trace[u][pos[u]].time
    BY DEF TypeInv, ClocksOK, Ev
  <2>2. startTime' = [startTime EXCEPT ![t] = trace[t][pos[t]].time]
    BY DEF HandleInit, Ev
  <2>3. \A u \in Traces : startTime'[u] <= trace[u][pos[u]].time
    BY <1>3, <2>1, <2>2, OtherTypes DEF Ev
  <2>4. \A u \in Traces : /\ pos'[u] \in 1 .. Len(trace[u]) /\ pos[u] \in 1 .. pos'[u]
                          /\ startTime'[u] \in Nat
    BY <1>0, <1>4, <1>6
  <2>5. trace' = trace /\ \E B \in Nat : \A k \in Keys : posted'[k] <= B
    BY DEF HandleInit, TypeInv, ClocksOK
  <2> QED
    BY <2>3, <2>4, <2>5, ClocksKept
<1>8. ReplayAtRequest'
  BY StepType, ReplayKept DEF HandleInit, TypeInv
<1> QED
  BY <1>5, <1>7, <1>8 DEF TypeInv

LEMMA SpawnTypeInv ==
    ASSUME TypeInv, NEW t \in Traces, HandleSpawn(t)
    PROVE  TypeInv'
<1>1. TimesUpTo(t, pos[t]) \in Seq(Int)
  BY Inputs, TimesType DEF TypeInv
<1>2. spawns' \in Seq([ppid : Nat, nbChildren : Int, time : Nat])
  <2>1. Ev(t).ppid \in Nat /\ Ev(t).n \in Int /\ CurTime(t) \in Nat
    BY Inputs, Fields, CurTimeType DEF TypeInv, Ev
  <2>2. [ppid |-> Ev(t).ppid, nbChildren |-> Ev(t).n, time |-> CurTime(t)]
          \in [ppid : Nat, nbChildren : Int, time : Nat]
    BY <2>1
  <2> QED
    BY <2>2, AppendProperties, OtherTypes DEF HandleSpawn
<1>3. TypeOK'
  BY <1>1, <1>2, ForwardType, OtherTypes DEF HandleSpawn
<1>4. ClocksOK'
  BY StepRange, ClocksForward DEF HandleSpawn, TypeInv
<1>5. ReplayAtRequest'
  BY StepType, ReplayKept DEF HandleSpawn, TypeInv
<1> QED
  BY <1>3, <1>4, <1>5 DEF TypeInv

(* Taking the last child of a spawn removes the spawn from the list.       *)
LEMMA WithoutSpawnType ==
    ASSUME NEW S, spawns \in Seq(S), NEW i \in DOMAIN spawns
    PROVE  WithoutSpawn(i) \in Seq(S)
<1> DEFINE n == Len(spawns) - 1
           e(j) == IF j < i THEN spawns[j] ELSE spawns[j + 1]
<1>1. Len(spawns) \in Nat /\ DOMAIN spawns = 1 .. Len(spawns)
  BY LenProperties
<1>2. n \in Nat
  BY <1>1
<1>3. ASSUME NEW j \in 1 .. n PROVE e(j) \in S
  <2>1. j \in 1 .. Len(spawns) /\ j + 1 \in 1 .. Len(spawns)
    BY <1>1
  <2>2. spawns[j] \in S /\ spawns[j + 1] \in S
    BY <2>1, ElementOfSeq
  <2> QED
    BY <2>2
<1>4. WithoutSpawn(i) = [j \in 1 .. n |-> e(j)]
  BY DEF WithoutSpawn
<1> HIDE DEF n, e
<1> QED
  BY <1>2, <1>3, <1>4, IsASeq

LEMMA SpawnedTypeInv ==
    ASSUME TypeInv, NEW t \in Traces, HandleSpawned(t)
    PROVE  TypeInv'
<1> DEFINE S == [ppid : Nat, nbChildren : Int, time : Nat]
<1>0. \A u \in Traces : Len(trace[u]) \in Nat /\ pos[u] \in 1 .. Len(trace[u])
  BY Inputs DEF TypeInv
<1>1. pos[t] + 1 \in 1 .. Len(trace[t]) /\ pos[t] + 2 \in 1 .. Len(trace[t])
  <2>1. Ev(t).code = "spawned" /\ Complete(trace[t]) /\ DOMAIN trace[t] = 1 .. Len(trace[t])
    BY Inputs DEF HandleSpawned, TypeInv
  <2>2. pos[t] + 2 \in 1 .. Len(trace[t])
    BY <1>0, <2>1 DEF Complete, Ev
  <2> QED
    BY <1>0, <2>2
<1>2. /\ trace[t][pos[t] + 1].time \in Nat /\ trace[t][pos[t] + 2].time \in Nat
  BY <1>1, Fields DEF TypeInv
<1>3. PICK i \in MatchingSpawns(t) :
          /\ delay' = [delay EXCEPT ![t] = spawns[i].time]
          /\ spawns' = IF spawns[i].nbChildren = 1 THEN WithoutSpawn(i)
                       ELSE [spawns EXCEPT ![i].nbChildren = @ - 1]
          /\ Emit(t, <<spawns[i].time, spawns[i].time,
                       trace[t][pos[t] + 2].time - trace[t][pos[t] + 1].time + spawns[i].time>>)
  BY DEF HandleSpawned
<1>4. spawns \in Seq(S) /\ i \in DOMAIN spawns
  BY OtherTypes DEF MatchingSpawns
<1>5. spawns[i] \in S
  BY <1>4, ElementOfSeq, LenProperties
<1>6. spawns[i].time \in Nat /\ spawns[i].nbChildren \in Int
  BY <1>5
<1>7. spawns' \in Seq(S)
  <2>1. CASE spawns[i].nbChildren = 1
    <3> HIDE DEF S
    <3> QED
      BY <1>3, <1>4, <2>1, WithoutSpawnType
  <2>2. CASE spawns[i].nbChildren # 1
    <3>1. spawns' = [spawns EXCEPT ![i].nbChildren = @ - 1]
      BY <1>3, <2>2
    <3> DEFINE x == [spawns[i] EXCEPT !.nbChildren = @ - 1]
    <3>2. x \in S
      BY <1>5, <1>6
    <3>3. spawns' = [spawns EXCEPT ![i] = x]
      BY <3>1
    <3>4. i \in 1 .. Len(spawns)
      BY <1>4, LenProperties
    <3> HIDE DEF S, x
    <3> QED
      BY <1>4, <3>2, <3>3, <3>4, ExceptSeq
  <2> QED
    BY <2>1, <2>2
<1>8. <<spawns[i].time, spawns[i].time,
        trace[t][pos[t] + 2].time - trace[t][pos[t] + 1].time + spawns[i].time>> \in Seq(Int)
  BY <1>2, <1>6
<1>9. /\ startTime' = [startTime EXCEPT ![t] = trace[t][pos[t] + 1].time]
      /\ start' \in [Traces -> BOOLEAN] /\ nbStart' \in Nat
  <2>1. /\ startTime' = [startTime EXCEPT ![t] = trace[t][pos[t] + 1].time]
        /\ start' = [start EXCEPT ![t] = TRUE] /\ nbStart' = nbStart + 1
    BY DEF HandleSpawned
  <2> QED
    BY <2>1, OtherTypes
<1>10. startTime' \in [Traces -> Nat] /\ delay' \in [Traces -> Nat]
  BY <1>2, <1>3, <1>6, <1>9, OtherTypes
<1>11. /\ Handled /\ StepForward(t, 3) /\ UNCHANGED <<trace, replay, posted, status>>
  BY DEF HandleSpawned
<1>12. TypeOK'
  BY <1>3, <1>7, <1>8, <1>9, <1>10, <1>11, ForwardType, OtherTypes
<1>13. ClocksOK'
  <2>1. /\ \A u \in Traces : pos'[u] \in pos[u] .. Len(trace[u])
        /\ pos'[t] = IF pos[t] + 3 <= Len(trace[t]) THEN pos[t] + 3 ELSE Len(trace[t])
    BY <1>11, StepRange, StepType DEF TypeInv
  <2>2. \A u \in Traces : pos'[u] \in 1 .. Len(trace[u]) /\ startTime'[u] \in Nat
    BY <1>0, <1>10, <2>1
  <2>3. pos[t] + 1 \in 1 .. pos'[t] /\ startTime'[t] = trace[t][pos[t] + 1].time
    BY <1>0, <1>1, <1>9, <2>1, OtherTypes
  <2>4. \E k \in 1 .. pos'[t] : startTime'[t] <= trace[t][k].time
    BY <1>2, <2>3
  <2>5. ASSUME NEW u \in Traces \ {t}
        PROVE  \E k \in 1 .. pos'[u] : startTime'[u] <= trace[u][k].time
    <3>1. pos[u] \in 1 .. pos'[u] /\ startTime'[u] = startTime[u]
      BY <1>0, <1>9, <2>1, OtherTypes
    <3>2. startTime[u] <= trace[u][pos[u]].time
      BY DEF TypeInv, ClocksOK, Ev
    <3> QED
      BY <3>1, <3>2
  <2>6. \E B \in Nat : \A k \in Keys : posted'[k] <= B
    BY <1>11 DEF TypeInv, ClocksOK
  <2> QED
    BY <1>11, <2>2, <2>4, <2>5, <2>6, ClocksKept
<1>14. ReplayAtRequest'
  <2>1. replay[t] = NoReplay
    BY DEF HandleSpawned
  <2> QED
    BY <1>11, <2>1, StepType, ReplayKept DEF TypeInv
<1> QED
  BY <1>12, <1>13, <1>14 DEF TypeInv

LEMMA SpawnNotHandledTypeInv ==
    ASSUME TypeInv, NEW t \in Traces, SpawnNotHandled(t)
    PROVE  TypeInv'
<1>1. SKIP' \in BOOLEAN /\ skip' \in [Traces -> BOOLEAN]
  BY FlagsType DEF SpawnNotHandled, TypeInv
<1>2. UNCHANGED <<trace, pos, delay, nbStart, replay, posted, spawns, out, status,
                  done, nbDone>>
  BY DEF SpawnNotHandled, Defer
<1>3. Ev(t).time \in Nat
  BY Inputs, Fields DEF TypeInv, Ev
<1>4. startTime' \in [Traces -> Nat] /\ start' \in [Traces -> BOOLEAN]
  BY <1>3, OtherTypes DEF SpawnNotHandled
<1>5. TypeOK'
  BY <1>1, <1>2, <1>4 DEF TypeInv, TypeOK
<1>6. \A u \in Traces : startTime'[u] <= Ev(u).time
  BY <1>3, OtherTypes DEF SpawnNotHandled, TypeInv, ClocksOK
<1>7. ClocksOK'
  BY <1>2, <1>6 DEF TypeInv, ClocksOK, Ev
<1> QED
  BY <1>2, <1>5, <1>7 DEF TypeInv, ReplayAtRequest, Ev

LEMMA EndTypeInv ==
    ASSUME TypeInv, NoTrace \/ Finish \/ UNCHANGED vars
    PROVE  TypeInv'
<1>1. /\ UNCHANGED <<trace, pos, start, startTime, delay, done, skip, SKIP, nbStart, nbDone,
                     replay, posted, spawns, out>>
      /\ status' \in {"running", "finished", "undefined"}
  BY DEF NoTrace, Finish, vars, TypeInv, TypeOK
<1> QED
  BY <1>1 DEF TypeInv, TypeOK, ClocksOK, ReplayAtRequest, Ev

LEMMA NextTypeInv == TypeInv /\ [Next]_vars => TypeInv'
<1> SUFFICES ASSUME TypeInv, [Next]_vars PROVE TypeInv'
  OBVIOUS
<1>1. CASE \E t \in Traces : HandleOneEvent(t)
  <2>1. PICK t \in Traces : HandleOneEvent(t)
    BY <1>1
  <2> QED
    BY <2>1, PlainTypeInv, PostTypeInv, NeedTypeInv, NeedNotPostedTypeInv, WaitallTypeInv,
       WaitallNotPostedTypeInv, InitHandlerTypeInv, SpawnTypeInv, SpawnedTypeInv,
       SpawnNotHandledTypeInv
    DEF HandleOneEvent
<1>2. CASE NoTrace \/ Finish \/ Terminated \/ UNCHANGED vars
  BY <1>2, EndTypeInv DEF Terminated
<1> QED
  BY <1>1, <1>2 DEF Next

(* Every variable of the scheduler keeps the type the code gives it: in    *)
(* particular no index leaves its trace, and no delay or time of a key is  *)
(* negative.                                                               *)
THEOREM TypeCorrect == Spec => []TypeOK
<1>1. TypeInv => TypeOK
  BY DEF TypeInv
<1> QED
  BY <1>1, InitTypeInv, NextTypeInv, PTL DEF Spec

(* A pending replay of __execute_replay resumes handle_mpi_stop_waitall at *)
(* the request where it stopped, whatever the other traces did meanwhile.  *)
THEOREM ReplayAtRequestHolds == Spec => []ReplayAtRequest
<1>1. TypeInv => ReplayAtRequest
  BY DEF TypeInv
<1> QED
  BY <1>1, InitTypeInv, NextTypeInv, PTL DEF Spec

-----------------------------------------------------------------------------
(* All the events of all the traces are converted, each once, provided     *)
(* that every trace goes through MPI_Init: without that the loop counts a  *)
(* trace more than once.                                                   *)

EveryTraceStarts ==
    NbTraces = 1 \/ \A w \in Workloads : \A t \in Traces :
                       \E i \in DOMAIN w[t] : w[t][i].code \in Starters

(* A trace that has ended stands at its last event.                        *)
DoneAtEnd == \A t \in Traces : done[t] => pos[t] = Len(trace[t])

(* nb_done counts the traces that have ended, each once.                   *)
DoneCounted == nbDone = Cardinality({t \in Traces : done[t]})

(* A trace that has not started has its MPI_Init ahead of it: it has not   *)
(* ended, though __get_cur_ev picks it without a look at "done".           *)
StarterAhead ==
    \A t \in Traces : ~start[t] =>
        /\ ~done[t]
        /\ \E i \in pos[t] .. Len(trace[t]) : trace[t][i].code \in Starters

EndCounted == status = "finished" => nbDone >= NbTraces

CInv == NothingLost /\ DoneAtEnd /\ DoneCounted /\ StarterAhead /\ EndCounted

LEMMA TracesFinite == IsFiniteSet(Traces) /\ Cardinality(Traces) = NbTraces
  BY NbTracesAssumption, FS_Interval DEF Traces

LEMMA PickedNotDone ==
    ASSUME CInv, NEW t \in Traces, Picked(t)
    PROVE  ~done[t]
<1>1. CASE StartFirst
  BY <1>1 DEF Picked, NonStarted, CInv, StarterAhead
<1>2. CASE ~StartFirst
  BY <1>2 DEF Picked, Eligible
<1> QED
  BY <1>1, <1>2

LEMMA EndOfOutput ==
    ASSUME CInv, NEW t \in Traces, ~done[t], pos[t] \in Int
    PROVE  Len(out[t]) = pos[t] - 1
<1>1. Len(out[t]) = pos[t] - 1 + (IF done[t] THEN 1 ELSE 0)
  BY DEF CInv, NothingLost
<1>2. (IF done[t] THEN 1 ELSE 0) = 0
  OBVIOUS
<1> QED
  BY <1>1, <1>2

LEMMA InitCInv == EveryTraceStarts /\ Init => CInv
<1> SUFFICES ASSUME EveryTraceStarts, Init PROVE CInv
  OBVIOUS
<1>0. TypeOK
  BY InitTypeInv DEF TypeInv
<1>1. NothingLost
  BY DEF Init, NothingLost
<1>2. DoneAtEnd /\ EndCounted
  BY DEF Init, DoneAtEnd, EndCounted
<1>3. DoneCounted
  <2>1. {t \in Traces : done[t]} = {}
    BY DEF Init
  <2> QED
    BY <2>1, FS_EmptySet DEF Init, DoneCounted
<1>4. StarterAhead
  <2> SUFFICES ASSUME NEW t \in Traces, ~start[t]
               PROVE  /\ ~done[t]
                      /\ \E i \in pos[t] .. Len(trace[t]) : trace[t][i].code \in Starters
    BY DEF StarterAhead
  <2>1. NbTraces # 1 /\ ~done[t] /\ pos[t] = 1 /\ trace \in Workloads
    BY DEF Init
  <2>2. DOMAIN trace[t] = 1 .. Len(trace[t])
    BY <1>0, Inputs
  <2> QED
    BY <2>1, <2>2 DEF EveryTraceStarts
<1> QED
  BY <1>1, <1>2, <1>3, <1>4 DEF CInv

(* A trace t goes through n events, which give the times s, and none of    *)
(* them starts a trace unless the handler has started it.                  *)
LEMMA ForwardCInv ==
    ASSUME TypeInv, CInv, NEW t \in Traces, ~done[t], NEW n \in Nat, NEW s \in Seq(Int),
           Emit(t, s), StepForward(t, n), UNCHANGED <<trace, status>>, status = "running",
           Len(s) = IF pos[t] + n <= Len(trace[t]) THEN n ELSE Len(trace[t]) - pos[t] + 1,
           \A u \in Traces \ {t} : start'[u] = start[u],
           ~start'[t] =>
               /\ ~start[t]
               /\ \A i \in pos[t] .. Len(trace[t]) :
                     i < pos[t] + n => ~(trace[t][i].code \in Starters)
    PROVE  CInv'
<1>0. pos[t] \in 1 .. Len(trace[t]) /\ Len(trace[t]) \in Nat
  BY Inputs DEF TypeInv
<1>1. /\ pos'[t] = IF pos[t] + n <= Len(trace[t]) THEN pos[t] + n ELSE Len(trace[t])
      /\ \A u \in Traces \ {t} : pos'[u] = pos[u] /\ done'[u] = done[u]
      /\ done'[t] = (done[t] \/ pos[t] + n > Len(trace[t]))
      /\ done' \in [Traces -> BOOLEAN]
      /\ nbDone' = IF pos[t] + n <= Len(trace[t]) THEN nbDone ELSE nbDone + 1
  BY StepType DEF TypeInv
<1>2. Len(out'[t]) = Len(out[t]) + Len(s) /\ \A u \in Traces \ {t} : out'[u] = out[u]
  BY EmitType DEF TypeInv
<1>3. done'[t] <=> pos[t] + n > Len(trace[t])
  BY <1>1
<1>4. NothingLost'
  <2>1. Len(out[t]) = pos[t] - 1
    BY <1>0, EndOfOutput
  <2>2. Len(out'[t]) = pos'[t] - 1 + (IF done'[t] THEN 1 ELSE 0)
    <3>1. CASE pos[t] + n <= Len(trace[t])
      <4>1. ~done'[t] /\ pos'[t] = pos[t] + n /\ Len(s) = n
        BY <1>0, <1>1, <1>3, <3>1
      <4>2. (IF done'[t] THEN 1 ELSE 0) = 0
        BY <4>1
      <4> QED
        BY <1>0, <1>2, <2>1, <4>1, <4>2
    <3>2. CASE ~(pos[t] + n <= Len(trace[t]))
      <4>1. done'[t] /\ pos'[t] = Len(trace[t]) /\ Len(s) = Len(trace[t]) - pos[t] + 1
        BY <1>0, <1>1, <1>3, <3>2
      <4>2. (IF done'[t] THEN 1 ELSE 0) = 1
        BY <4>1
      <4> QED
        BY <1>0, <1>2, <2>1, <4>1, <4>2
    <3> QED
      BY <3>1, <3>2
  <2>3. ASSUME NEW u \in Traces \ {t}
        PROVE  Len(out'[u]) = pos'[u] - 1 + (IF done'[u] THEN 1 ELSE 0)
    BY <1>1, <1>2 DEF CInv, NothingLost
  <2> QED
    BY <2>2, <2>3 DEF NothingLost
<1>5. DoneAtEnd'
  <2>1. done'[t] => pos'[t] = Len(trace[t])
    BY <1>0, <1>1, <1>3
  <2> QED
    BY <1>1, <2>1 DEF DoneAtEnd, CInv
<1>6. DoneCounted'
  <2> DEFINE D == {u \in Traces : done[u]}
             E == {u \in Traces : done'[u]}
  <2>1. IsFiniteSet(D) /\ nbDone = Cardinality(D) /\ t \notin D
    BY TracesFinite, FS_Subset DEF CInv, DoneCounted
  <2>2. CASE pos[t] + n <= Len(trace[t])
    <3>1. ~done'[t] /\ nbDone' = nbDone
      BY <1>0, <1>1, <1>3, <2>2
    <3>2. E = D
      BY <1>1, <3>1
    <3> QED
      BY <2>1, <3>1, <3>2 DEF DoneCounted
  <2>3. CASE ~(pos[t] + n <= Len(trace[t]))
    <3>1. done'[t] /\ nbDone' = nbDone + 1
      BY <1>0, <1>1, <1>3, <2>3
    <3>2. E = D \cup {t}
      BY <1>1, <3>1
    <3>3. Cardinality(E) = Cardinality(D) + 1
      <4> HIDE DEF D, E
      <4> QED
        BY <2>1, <3>2, FS_AddElement
    <3> QED
      BY <2>1, <3>1, <3>3 DEF DoneCounted
  <2> QED
    BY <2>2, <2>3
<1>7. StarterAhead'
  <2>1. ASSUME ~start'[t]
        PROVE  /\ ~done'[t]
               /\ \E i \in pos'[t] .. Len(trace[t]) : trace[t][i].code \in Starters
    <3>1. PICK i \in pos[t] .. Len(trace[t]) : trace[t][i].code \in Starters
      BY <2>1 DEF CInv, StarterAhead
    <3>2. ~(i < pos[t] + n)
      BY <2>1, <3>1
    <3>3. pos[t] + n <= Len(trace[t]) /\ pos'[t] = pos[t] + n
      BY <1>0, <1>1, <3>2
    <3> QED
      BY <1>0, <1>3, <3>1, <3>2, <3>3
  <2>2. ASSUME NEW u \in Traces \ {t}, ~start'[u]
        PROVE  /\ ~done'[u]
               /\ \E i \in pos'[u] .. Len(trace[u]) : trace[u][i].code \in Starters
    BY <1>1, <2>2 DEF CInv, StarterAhead
  <2> QED
    BY <2>1, <2>2 DEF StarterAhead
<1>8. EndCounted'
  BY DEF EndCounted
<1> QED
  BY <1>4, <1>5, <1>6, <1>7, <1>8 DEF CInv

(* An event that starts no trace, handled alone.                           *)
LEMMA OneEventCInv ==
    ASSUME TypeInv, CInv, NEW t \in Traces, Turn(t), Emit(t, TimesUpTo(t, pos[t])),
           StepForward(t, 1), UNCHANGED <<trace, start, status>>,
           ~(Ev(t).code \in Starters)
    PROVE  CInv'
<1>0. pos[t] \in 1 .. Len(trace[t]) /\ Len(trace[t]) \in Nat
  BY Inputs DEF TypeInv
<1>1. ~done[t] /\ status = "running"
  BY PickedNotDone DEF Turn
<1>2. /\ TimesUpTo(t, pos[t]) \in Seq(Int)
      /\ Len(TimesUpTo(t, pos[t])) = pos[t] - pos[t] + 1
  BY <1>0, TimesType
<1>3. Len(TimesUpTo(t, pos[t])) =
        IF pos[t] + 1 <= Len(trace[t]) THEN 1 ELSE Len(trace[t]) - pos[t] + 1
  BY <1>0, <1>2
<1>4. \A i \in pos[t] .. Len(trace[t]) : i < pos[t] + 1 => ~(trace[t][i].code \in Starters)
  BY <1>0 DEF Ev
<1> QED
  BY <1>1, <1>2, <1>3, <1>4, ForwardCInv

LEMMA WaitallCInv ==
    ASSUME TypeInv, CInv, NEW t \in Traces, HandleWaitall(t)
    PROVE  CInv'
<1> DEFINE n == LastOf(t) - pos[t] + 1
<1>0. /\ pos[t] \in 1 .. Len(trace[t]) /\ Len(trace[t]) \in Nat
      /\ LastOf(t) \in pos[t] .. Len(trace[t])
      /\ \A j \in pos[t] + 1 .. LastOf(t) : trace[t][j].code = "info"
      /\ Ev(t).code \in {"waitall", "info"}
  BY WaitallRange, Inputs DEF HandleWaitall, TypeInv
<1>1. ~done[t] /\ status = "running"
  BY PickedNotDone DEF HandleWaitall, Turn
<1>2. n \in Nat /\ TimesUpTo(t, LastOf(t)) \in Seq(Int) /\ Len(TimesUpTo(t, LastOf(t))) = n
  <2>1. LastOf(t) \in Int /\ pos[t] - 1 <= LastOf(t) /\ LastOf(t) <= Len(trace[t])
    BY <1>0
  <2> QED
    BY <1>0, <2>1, TimesType
<1>3. Len(TimesUpTo(t, LastOf(t))) =
        IF pos[t] + n <= Len(trace[t]) THEN n ELSE Len(trace[t]) - pos[t] + 1
  BY <1>0, <1>2
<1>4. \A i \in pos[t] .. Len(trace[t]) : i < pos[t] + n => ~(trace[t][i].code \in Starters)
  <2> SUFFICES ASSUME NEW i \in pos[t] .. Len(trace[t]), i < pos[t] + n
               PROVE  trace[t][i].code \in {"waitall", "info"}
    BY DEF Starters
  <2>1. i = pos[t] \/ i \in pos[t] + 1 .. LastOf(t)
    BY <1>0
  <2> QED
    BY <1>0, <2>1 DEF Ev
<1>5. Emit(t, TimesUpTo(t, LastOf(t))) /\ StepForward(t, n) /\ UNCHANGED <<trace, start, status>>
  BY DEF HandleWaitall
<1> HIDE DEF n
<1> QED
  BY <1>1, <1>2, <1>3, <1>4, <1>5, ForwardCInv

LEMMA WaitallNotPostedCInv ==
    ASSUME TypeInv, CInv, NEW t \in Traces, WaitallNotPosted(t)
    PROVE  CInv'
<1>0. /\ pos[t] \in 1 .. Len(trace[t]) /\ Len(trace[t]) \in Nat
      /\ LastOf(t) \in pos[t] .. Len(trace[t])
      /\ \A j \in pos[t] + 1 .. LastOf(t) : trace[t][j].code = "info"
      /\ Ev(t).code \in {"waitall", "info"}
  BY WaitallRange, Inputs DEF WaitallNotPosted, TypeInv
<1>1. ~done[t] /\ status = "running"
  BY PickedNotDone DEF WaitallNotPosted, Turn
<1>2. PICK b \in Blocked(t) : pos' = [pos EXCEPT ![t] = b] /\ Emit(t, TimesUpTo(t, b - 1))
  BY DEF WaitallNotPosted
<1>3. b \in pos[t] .. LastOf(t)
  BY DEF Blocked
<1>4. /\ pos'[t] = b /\ \A u \in Traces \ {t} : pos'[u] = pos[u]
  BY <1>2 DEF TypeInv, TypeOK
<1>5. UNCHANGED <<trace, start, done, nbDone, status>>
  BY DEF WaitallNotPosted, Defer
<1>6. TimesUpTo(t, b - 1) \in Seq(Int) /\ Len(TimesUpTo(t, b - 1)) = b - pos[t]
  <2>1. /\ b - 1 \in Int /\ pos[t] - 1 <= b - 1 /\ b - 1 <= Len(trace[t])
        /\ (b - 1) - pos[t] + 1 = b - pos[t]
    BY <1>0, <1>3
  <2> QED
    BY <2>1, TimesType
<1>7. Len(out'[t]) = Len(out[t]) + (b - pos[t]) /\ \A u \in Traces \ {t} : out'[u] = out[u]
  BY <1>2, <1>6, EmitType DEF TypeInv
<1>8. NothingLost'
  <2>1. Len(out[t]) = pos[t] - 1
    BY <1>0, <1>1, EndOfOutput
  <2>2. Len(out'[t]) = pos'[t] - 1 + (IF done'[t] THEN 1 ELSE 0)
    BY <1>0, <1>1, <1>3, <1>4, <1>5, <1>7, <2>1
  <2> QED
    BY <1>4, <1>5, <1>7, <2>2 DEF NothingLost, CInv
<1>9. StarterAhead'
  <2>1. ASSUME ~start[t] PROVE \E i \in b .. Len(trace[t]) : trace[t][i].code \in Starters
    <3>1. PICK i \in pos[t] .. Len(trace[t]) : trace[t][i].code \in Starters
      BY <2>1 DEF CInv, StarterAhead
    <3>2. i # pos[t] /\ ~(i \in pos[t] + 1 .. LastOf(t))
      BY <1>0, <3>1 DEF Starters, Ev
    <3>3. i \in b .. Len(trace[t])
      BY <1>0, <1>3, <3>2
    <3> QED
      BY <3>1, <3>3
  <2> QED
    BY <1>1, <1>4, <1>5, <2>1 DEF StarterAhead, CInv
<1>10. DoneAtEnd' /\ DoneCounted' /\ EndCounted'
  BY <1>1, <1>4, <1>5 DEF DoneAtEnd, DoneCounted, EndCounted, CInv
<1> QED
  BY <1>8, <1>9, <1>10 DEF CInv

LEMMA InitHandlerCInv ==
    ASSUME TypeInv, CInv, NEW t \in Traces, HandleInit(t)
    PROVE  CInv'
<1>0. pos[t] \in 1 .. Len(trace[t]) /\ Len(trace[t]) \in Nat
  BY Inputs DEF TypeInv
<1> DEFINE m == IF pos[t] < Len(trace[t]) THEN 2 ELSE 1
           e(j) == trace[t][pos[t] + j - 1].time - Ev(t).time + delay[t]
           times == [j \in 1 .. m |-> e(j)]
<1>1. times \in Seq(Int) /\ Len(times) = m
  <2>1. ASSUME NEW j \in 1 .. m PROVE e(j) \in Int
    <3>1. pos[t] + j - 1 \in 1 .. Len(trace[t])
      BY <1>0
    <3>2. trace[t][pos[t] + j - 1].time \in Nat /\ Ev(t).time \in Nat /\ delay[t] \in Nat
      BY <1>0, <3>1, Fields, OtherTypes DEF TypeInv, Ev
    <3> QED
      BY <3>2
  <2>2. m \in Nat
    OBVIOUS
  <2> HIDE DEF m, e
  <2> QED
    BY <2>1, <2>2, IsASeq, LenProperties
<1>2. /\ Emit(t, times) /\ StepForward(t, 2) /\ UNCHANGED <<trace, status>>
      /\ start' = [start EXCEPT ![t] = TRUE]
  BY DEF HandleInit
<1>3. start'[t] /\ \A u \in Traces \ {t} : start'[u] = start[u]
  BY <1>2, OtherTypes
<1>4. ~done[t] /\ status = "running"
  BY PickedNotDone DEF HandleInit, Turn
<1>5. Len(times) = IF pos[t] + 2 <= Len(trace[t]) THEN 2 ELSE Len(trace[t]) - pos[t] + 1
  BY <1>0, <1>1
<1> HIDE DEF times
<1> QED
  BY <1>1, <1>2, <1>3, <1>4, <1>5, ForwardCInv

LEMMA SpawnedCInv ==
    ASSUME TypeInv, CInv, NEW t \in Traces, HandleSpawned(t)
    PROVE  CInv'
<1>0. pos[t] \in 1 .. Len(trace[t]) /\ Len(trace[t]) \in Nat
  BY Inputs DEF TypeInv
<1>1. pos[t] + 2 \in 1 .. Len(trace[t]) /\ pos[t] + 1 \in 1 .. Len(trace[t])
  <2>1. Ev(t).code = "spawned" /\ Complete(trace[t]) /\ DOMAIN trace[t] = 1 .. Len(trace[t])
    BY Inputs DEF HandleSpawned, TypeInv
  <2>2. pos[t] + 2 \in 1 .. Len(trace[t])
    BY <1>0, <2>1 DEF Complete, Ev
  <2> QED
    BY <1>0, <2>2
<1>2. /\ trace[t][pos[t] + 1].time \in Nat /\ trace[t][pos[t] + 2].time \in Nat
  BY <1>1, Fields DEF TypeInv
<1>3. PICK i \in MatchingSpawns(t) :
          Emit(t, <<spawns[i].time, spawns[i].time,
                    trace[t][pos[t] + 2].time - trace[t][pos[t] + 1].time + spawns[i].time>>)
  BY DEF HandleSpawned
<1>4. spawns[i].time \in Nat
  <2>1. spawns \in Seq([ppid : Nat, nbChildren : Int, time : Nat]) /\ i \in DOMAIN spawns
    BY OtherTypes DEF MatchingSpawns
  <2>2. spawns[i] \in [ppid : Nat, nbChildren : Int, time : Nat]
    BY <2>1, ElementOfSeq, LenProperties
  <2> QED
    BY <2>2
<1> DEFINE s == <<spawns[i].time, spawns[i].time,
                  trace[t][pos[t] + 2].time - trace[t][pos[t] + 1].time + spawns[i].time>>
<1>5. s \in Seq(Int) /\ Len(s) = 3
  BY <1>2, <1>4
<1>6. /\ Emit(t, s) /\ StepForward(t, 3) /\ UNCHANGED <<trace, status>>
      /\ start' = [start EXCEPT ![t] = TRUE]
  BY <1>3 DEF HandleSpawned
<1>7. start'[t] /\ \A u \in Traces \ {t} : start'[u] = start[u]
  BY <1>6, OtherTypes
<1>8. ~done[t] /\ status = "running"
  BY PickedNotDone DEF HandleSpawned, Turn
<1>9. Len(s) = IF pos[t] + 3 <= Len(trace[t]) THEN 3 ELSE Len(trace[t]) - pos[t] + 1
  BY <1>0, <1>1, <1>5
<1> HIDE DEF s
<1> QED
  BY <1>5, <1>6, <1>7, <1>8, <1>9, ForwardCInv

(* An event that is deferred stays where it is.                            *)
LEMMA DeferredCInv ==
    ASSUME TypeInv, CInv, NEW t \in Traces, NeedNotPosted(t) \/ SpawnNotHandled(t)
    PROVE  CInv'
<1>1. UNCHANGED <<trace, pos, out, done, nbDone, status>>
  BY DEF NeedNotPosted, SpawnNotHandled, Defer
<1>2. \A u \in Traces : start[u] => start'[u]
  BY OtherTypes DEF NeedNotPosted, SpawnNotHandled
<1>3. StarterAhead'
  BY <1>1, <1>2 DEF CInv, StarterAhead
<1> QED
  BY <1>1, <1>3 DEF CInv, NothingLost, DoneAtEnd, DoneCounted, EndCounted

LEMMA EndCInv ==
    ASSUME TypeInv, CInv, NoTrace \/ Finish \/ UNCHANGED vars
    PROVE  CInv'
<1>1. UNCHANGED <<trace, pos, start, out, done, nbDone>>
  BY DEF NoTrace, Finish, vars
<1>2. EndCounted'
  BY <1>1 DEF NoTrace, Finish, vars, EndCounted, CInv
<1> QED
  BY <1>1, <1>2 DEF CInv, NothingLost, DoneAtEnd, DoneCounted, StarterAhead

LEMMA NextCInv == TypeInv /\ CInv /\ [Next]_vars => CInv'
<1> SUFFICES ASSUME TypeInv, CInv, [Next]_vars PROVE CInv'
  OBVIOUS
<1>1. ASSUME NEW t \in Traces, HandleOneEvent(t) PROVE CInv'
  <2>1. CASE HandlePlain(t) \/ HandlePost(t) \/ HandleNeed(t) \/ HandleSpawn(t)
    <3>1. /\ Turn(t) /\ Emit(t, TimesUpTo(t, pos[t])) /\ StepForward(t, 1)
          /\ UNCHANGED <<trace, start, status>>
          /\ ~(Ev(t).code \in Starters)
      BY <2>1 DEF HandlePlain, HandlePost, HandleNeed, HandleSpawn, Starters
    <3> QED
      BY <3>1, OneEventCInv
  <2>2. CASE NeedNotPosted(t) \/ SpawnNotHandled(t)
    BY <2>2, DeferredCInv
  <2> QED
    BY <1>1, <2>1, <2>2, WaitallCInv, WaitallNotPostedCInv, InitHandlerCInv, SpawnedCInv
    DEF HandleOneEvent
<1>2. CASE NoTrace \/ Finish \/ Terminated \/ UNCHANGED vars
  BY <1>2, EndCInv DEF Terminated
<1> QED
  BY <1>1, <1>2 DEF Next

LEMMA FinishedMeansAll == TypeInv /\ CInv => AllConverted
<1> SUFFICES ASSUME TypeInv, CInv, status = "finished", NEW t \in Traces
             PROVE  Len(out[t]) = Len(trace[t])
  BY DEF AllConverted
<1> DEFINE D == {u \in Traces : done[u]}
<1>1. IsFiniteSet(Traces) /\ D \in SUBSET Traces
  BY TracesFinite
<1>2. Cardinality(D) <= Cardinality(Traces) /\ (Cardinality(Traces) = Cardinality(D) => Traces = D)
  <2> HIDE DEF D
  <2> QED
    BY <1>1, FS_Subset
<1>3. Cardinality(D) >= Cardinality(Traces) /\ Cardinality(D) \in Nat /\ Cardinality(Traces) \in Nat
  BY TracesFinite, NbTracesAssumption DEF CInv, EndCounted, DoneCounted, TypeInv, TypeOK
<1>4. done[t]
  BY <1>2, <1>3
<1>5. pos[t] = Len(trace[t]) /\ Len(trace[t]) \in Nat
  BY <1>4, Inputs DEF CInv, DoneAtEnd, TypeInv
<1> QED
  BY <1>4, <1>5 DEF CInv, NothingLost

(* However often an event is deferred or resumed by a replay, it goes to   *)
(* the output once: handle_one_event never steps past an event that its    *)
(* handler has put off, and never handles one again.                       *)
THEOREM NothingLostHolds ==
    ASSUME EveryTraceStarts
    PROVE  Spec => []NothingLost
<1>1. Init => TypeInv /\ CInv
  BY InitTypeInv, InitCInv
<1>2. TypeInv /\ CInv /\ [Next]_vars => (TypeInv /\ CInv)'
  BY NextTypeInv, NextCInv
<1>3. TypeInv /\ CInv => NothingLost
  BY DEF CInv
<1> QED
  BY <1>1, <1>2, <1>3, PTL DEF Spec

(* The loop of handle_all_events, which only counts the traces that end,   *)
(* does not end before all the events of all the traces are handled.       *)
THEOREM AllConvertedHolds ==
    ASSUME EveryTraceStarts
    PROVE  Spec => []AllConverted
<1>1. Init => TypeInv /\ CInv
  BY InitTypeInv, InitCInv
<1>2. TypeInv /\ CInv /\ [Next]_vars => (TypeInv /\ CInv)'
  BY NextTypeInv, NextCInv
<1>3. TypeInv /\ CInv => AllConverted
  BY FinishedMeansAll
<1> QED
  BY <1>1, <1>2, <1>3, PTL DEF Spec

-----------------------------------------------------------------------------
(* The scheduler implements CausalMerge: whatever the traces and the order *)
(* in which it takes them, every step of it handles one or several events  *)
(* of one trace, none of which needs a key that was not posted before, or  *)
(* changes nothing that the merge sees.                                    *)

(* The event at p is not one of the info events of a waitall before it.    *)
Clear(t, p) ==
    \A w \in 1 .. p - 1 : trace[t][w].code = "waitall" => w + trace[t][w].n < p

(* A request of a waitall, which may have to wait, is the current event    *)
(* only while a replay of the waitall is pending: no other handler takes   *)
(* it, and it is never drawn without a look at what it needs.              *)
RequestsInReplay ==
    \A t \in Traces : ~done[t] /\ replay[t] = NoReplay => Clear(t, pos[t])

LEMMA ClearUnlessInfo ==
    ASSUME TypeOK, NEW t \in Traces, NEW p \in 1 .. Len(trace[t]), trace[t][p].code # "info"
    PROVE  Clear(t, p)
<1>0. Len(trace[t]) \in Nat
  BY Inputs
<1> SUFFICES ASSUME NEW w \in 1 .. p - 1, trace[t][w].code = "waitall"
             PROVE  w + trace[t][w].n < p
  BY DEF Clear
<1>1. w \in 1 .. Len(trace[t])
  BY <1>0
<1>2. trace[t][w].n \in Nat
  BY <1>1, Fields
<1>3. \A j \in w + 1 .. w + trace[t][w].n : trace[t][j].code = "info"
  BY <1>1, WaitallEvents
<1>4. ~(p \in w + 1 .. w + trace[t][w].n)
  BY <1>3
<1> QED
  BY <1>0, <1>2, <1>4

LEMMA ClearAfterEvent ==
    ASSUME TypeOK, NEW t \in Traces, NEW p \in 1 .. Len(trace[t]), Clear(t, p),
           trace[t][p].code # "waitall"
    PROVE  Clear(t, p + 1)
<1>0. Len(trace[t]) \in Nat
  BY Inputs
<1> SUFFICES ASSUME NEW w \in 1 .. p, trace[t][w].code = "waitall"
             PROVE  w + trace[t][w].n < p + 1
  BY <1>0 DEF Clear
<1>1. w \in 1 .. p - 1 /\ w \in 1 .. Len(trace[t])
  BY <1>0
<1>2. trace[t][w].n \in Nat
  BY <1>1, Fields
<1>3. w + trace[t][w].n < p
  BY <1>1 DEF Clear
<1> QED
  BY <1>0, <1>2, <1>3

LEMMA ClearAfterWaitall ==
    ASSUME TypeOK, NEW t \in Traces, NEW p \in 1 .. Len(trace[t]), trace[t][p].code = "waitall"
    PROVE  Clear(t, p + trace[t][p].n + 1)
<1> DEFINE n == trace[t][p].n
<1>0. Len(trace[t]) \in Nat /\ n \in Nat
  BY Inputs, Fields
<1>1. p + n <= Len(trace[t]) /\ \A j \in p + 1 .. p + n : trace[t][j].code = "info"
  BY WaitallEvents
<1>2. Clear(t, p)
  BY ClearUnlessInfo
<1> SUFFICES ASSUME NEW w \in 1 .. p + n, trace[t][w].code = "waitall"
             PROVE  w + trace[t][w].n < p + n + 1
  BY <1>0 DEF Clear
<1>3. CASE w < p
  <2>1. w \in 1 .. p - 1 /\ w \in 1 .. Len(trace[t])
    BY <1>0, <1>3
  <2>2. trace[t][w].n \in Nat
    BY <2>1, Fields
  <2>3. w + trace[t][w].n < p
    BY <1>2, <2>1 DEF Clear
  <2> QED
    BY <1>0, <2>2, <2>3
<1>4. CASE w = p
  BY <1>0, <1>4
<1>5. ~(w \in p + 1 .. p + n)
  BY <1>1
<1> QED
  BY <1>0, <1>3, <1>4, <1>5

LEMMA InitRequests == Init => RequestsInReplay
<1> SUFFICES ASSUME Init, NEW t \in Traces, NEW w \in 1 .. 1 - 1 PROVE FALSE
  BY DEF RequestsInReplay, Clear, Init
<1> QED
  OBVIOUS

(* A trace goes past n events, of which the last closes every waitall.     *)
LEMMA ForwardRequests ==
    ASSUME TypeInv, RequestsInReplay, NEW t \in Traces, NEW n \in Nat, StepForward(t, n),
           trace' = trace, \A u \in Traces \ {t} : replay'[u] = replay[u],
           pos[t] + n <= Len(trace[t]) => Clear(t, pos[t] + n)
    PROVE  RequestsInReplay'
<1>1. /\ pos'[t] = IF pos[t] + n <= Len(trace[t]) THEN pos[t] + n ELSE Len(trace[t])
      /\ \A u \in Traces \ {t} : pos'[u] = pos[u] /\ done'[u] = done[u]
      /\ done'[t] = (done[t] \/ pos[t] + n > Len(trace[t]))
  BY StepType DEF TypeInv
<1>2. pos[t] \in Nat /\ Len(trace[t]) \in Nat
  BY Inputs DEF TypeInv
<1>3. ~done'[t] => pos'[t] = pos[t] + n /\ pos[t] + n <= Len(trace[t])
  <2>1. ~done'[t] => ~(pos[t] + n > Len(trace[t]))
    BY <1>1
  <2>2. ~(pos[t] + n > Len(trace[t])) => pos[t] + n <= Len(trace[t])
    BY <1>2
  <2> QED
    BY <1>1, <2>1, <2>2
<1>4. ~done'[t] => Clear(t, pos[t])'
  BY <1>3 DEF Clear
<1>5. ASSUME NEW u \in Traces \ {t}, ~done'[u], replay'[u] = NoReplay
      PROVE  Clear(u, pos[u])'
  BY <1>1, <1>5 DEF RequestsInReplay, Clear
<1> QED
  BY <1>4, <1>5 DEF RequestsInReplay

(* A trace t goes through m events, for which everything was posted.       *)
LEMMA Advances ==
    ASSUME TypeInv, CInv, NEW t \in Traces, ~done[t], NEW m \in Nat \ {0}, NEW s \in Seq(Int),
           Len(s) = m, pos[t] + m - 1 <= Len(trace[t]), Emit(t, s), trace' = trace,
           \A i \in pos[t] .. pos[t] + m - 1 : trace[t][i].needs \subseteq Seen,
           Seen' = Seen \cup UNION {trace[t][i].posts : i \in pos[t] .. pos[t] + m - 1}
    PROVE  Merge!Next
<1> DEFINE h == [u \in Traces |-> Len(out[u])]
           n == pos[t] + m - 1
<1>0. pos[t] \in 1 .. Len(trace[t]) /\ Len(trace[t]) \in Nat
  BY Inputs DEF TypeInv
<1>1. Len(out[t]) = pos[t] - 1 /\ h[t] = pos[t] - 1
  BY <1>0, EndOfOutput
<1>2. /\ Len(out'[t]) = Len(out[t]) + m
      /\ \A u \in Traces \ {t} : out'[u] = out[u]
  BY EmitType DEF TypeInv
<1>3. h[t] + 1 = pos[t] /\ n \in h[t] + 1 .. Len(trace[t])
  BY <1>0, <1>1
<1>4. [u \in Traces |-> Len(out'[u])] = [h EXCEPT ![t] = n]
  <2>1. Len(out'[t]) = n
    <3>1. Len(out[t]) = pos[t] - 1 /\ Len(out'[t]) = Len(out[t]) + m
      BY <1>1, <1>2
    <3> QED
      BY <1>0, <3>1
  <2>2. \A u \in Traces : Len(out'[u]) = IF u = t THEN n ELSE h[u]
    BY <1>2, <2>1
  <2> HIDE DEF n
  <2> QED
    BY <2>2
<1>5. /\ \A i \in h[t] + 1 .. n : trace[t][i].needs \subseteq Seen
      /\ Seen' = Seen \cup UNION {trace[t][i].posts : i \in h[t] + 1 .. n}
  BY <1>3
<1> HIDE DEF n
<1>6. Merge!Advance(t)
  BY <1>3, <1>4, <1>5 DEF Merge!Advance
<1> QED
  BY <1>6 DEF Merge!Next

LEMMA NothingPosted ==
    ASSUME TypeOK, NEW t \in Traces, NEW a \in 1 .. Len(trace[t]),
           NEW b \in Int, b <= Len(trace[t]),
           \A i \in a .. b : trace[t][i].code # "post",
           posted' = posted
    PROVE  Seen' = Seen \cup UNION {trace[t][i].posts : i \in a .. b}
<1>1. Len(trace[t]) \in Nat /\ Complete(trace[t]) /\ DOMAIN trace[t] = 1 .. Len(trace[t])
  BY Inputs
<1>2. ASSUME NEW i \in a .. b PROVE trace[t][i].posts = {}
  <2>1. i \in DOMAIN trace[t]
    BY <1>1
  <2> QED
    BY <1>1, <2>1 DEF Complete
<1>3. Seen' = Seen
  BY DEF Seen
<1> QED
  BY <1>2, <1>3

LEMMA NothingNeeded ==
    ASSUME TypeOK, NEW t \in Traces, NEW i \in 1 .. Len(trace[t]),
           ~(trace[t][i].code \in {"need", "info"})
    PROVE  trace[t][i].needs = {}
  BY Inputs DEF Complete

(* An info event outside of every waitall needs nothing.                   *)
LEMMA ClearInfo ==
    ASSUME TypeOK, NEW t \in Traces, NEW i \in 1 .. Len(trace[t]),
           trace[t][i].code = "info", Clear(t, i)
    PROVE  trace[t][i].needs = {}
<1>1. Complete(trace[t]) /\ DOMAIN trace[t] = 1 .. Len(trace[t]) /\ Len(trace[t]) \in Nat
  BY Inputs
<1> SUFFICES ASSUME trace[t][i].needs # {} PROVE FALSE
  OBVIOUS
<1>2. PICK w \in 1 .. i - 1 : trace[t][w].code = "waitall" /\ i <= w + trace[t][w].n
  BY <1>1 DEF Complete
<1>3. w + trace[t][w].n < i
  BY <1>2 DEF Clear
<1>4. trace[t][w].n \in Nat
  <2>1. w \in 1 .. Len(trace[t])
    BY <1>1
  <2> QED
    BY <2>1, Fields
<1> QED
  BY <1>2, <1>3, <1>4

MergeStep == Merge!Next \/ UNCHANGED Merge!vars

(* One event that posts nothing, handled alone.                            *)
LEMMA OneEventAdvances ==
    ASSUME TypeInv, CInv, RequestsInReplay, NEW t \in Traces, Turn(t), replay[t] = NoReplay,
           Emit(t, TimesUpTo(t, pos[t])), StepForward(t, 1),
           UNCHANGED <<trace, replay>>,
           trace[t][pos[t]].needs \subseteq Seen,
           Seen' = Seen \cup trace[t][pos[t]].posts,
           Ev(t).code # "waitall"
    PROVE  Merge!Next /\ RequestsInReplay'
<1>0. pos[t] \in 1 .. Len(trace[t]) /\ Len(trace[t]) \in Nat
  BY Inputs DEF TypeInv
<1>1. ~done[t]
  BY PickedNotDone DEF Turn
<1>2. TimesUpTo(t, pos[t]) \in Seq(Int) /\ Len(TimesUpTo(t, pos[t])) = 1
  <2>1. /\ TimesUpTo(t, pos[t]) \in Seq(Int)
        /\ Len(TimesUpTo(t, pos[t])) = pos[t] - pos[t] + 1
    BY <1>0, TimesType
  <2> QED
    BY <1>0, <2>1
<1>3. pos[t] .. pos[t] + 1 - 1 = {pos[t]} /\ pos[t] + 1 - 1 <= Len(trace[t])
  BY <1>0
<1>4. Merge!Next
  <2>1. \A i \in pos[t] .. pos[t] + 1 - 1 : trace[t][i].needs \subseteq Seen
    BY <1>3
  <2>2. Seen' = Seen \cup UNION {trace[t][i].posts : i \in pos[t] .. pos[t] + 1 - 1}
    BY <1>3
  <2>3. 1 \in Nat \ {0} /\ trace' = trace
    OBVIOUS
  <2> QED
    BY <1>1, <1>2, <1>3, <2>1, <2>2, <2>3, Advances
<1>5. Clear(t, pos[t] + 1)
  <2>1. Clear(t, pos[t])
    BY <1>1 DEF RequestsInReplay
  <2> QED
    BY <1>0, <2>1, ClearAfterEvent DEF TypeInv, Ev
<1>6. RequestsInReplay'
  BY <1>5, ForwardRequests
<1> QED
  BY <1>4, <1>6

(* What an event handled alone needs was posted before it.                 *)
LEMMA PlainReady ==
    ASSUME TypeInv, CInv, RequestsInReplay, NEW t \in Traces,
           HandlePlain(t) \/ HandlePost(t) \/ HandleNeed(t) \/ HandleSpawn(t)
    PROVE  trace[t][pos[t]].needs \subseteq Seen
<1>0. pos[t] \in 1 .. Len(trace[t]) /\ Len(trace[t]) \in Nat
  BY Inputs DEF TypeInv
<1>1. CASE HandlePlain(t)
  <2>1. Clear(t, pos[t])
    BY <1>1, PickedNotDone DEF RequestsInReplay, HandlePlain, Turn
  <2> QED
    BY <1>0, <1>1, <2>1, ClearInfo, NothingNeeded DEF HandlePlain, TypeInv, Ev
<1>2. CASE HandleNeed(t)
  <2>1. LastOf(t) = pos[t]
    BY <1>2 DEF LastOf, HandleNeed
  <2>2. Blocked(t) = {} /\ pos[t] \in pos[t] .. LastOf(t)
    BY <1>0, <1>2, <2>1 DEF HandleNeed
  <2> QED
    BY <2>2 DEF Blocked
<1>3. CASE HandleSpawn(t) \/ HandlePost(t)
  BY <1>0, <1>3, NothingNeeded DEF HandleSpawn, HandlePost, TypeInv, Ev
<1> QED
  BY <1>1, <1>2, <1>3

LEMMA PlainAdvances ==
    ASSUME TypeInv, CInv, RequestsInReplay, NEW t \in Traces,
           HandlePlain(t) \/ HandleNeed(t) \/ HandleSpawn(t)
    PROVE  Merge!Next /\ RequestsInReplay'
<1>0. pos[t] \in 1 .. Len(trace[t]) /\ Len(trace[t]) \in Nat
  BY Inputs DEF TypeInv
<1>1. /\ Turn(t) /\ replay[t] = NoReplay
      /\ Emit(t, TimesUpTo(t, pos[t])) /\ StepForward(t, 1)
      /\ UNCHANGED <<trace, replay>> /\ posted' = posted
      /\ Ev(t).code \in {"plain", "info", "need", "spawn"}
  BY DEF HandlePlain, HandleNeed, HandleSpawn
<1>2. Seen' = Seen \cup trace[t][pos[t]].posts
  <2>1. trace[t][pos[t]].posts = {}
    BY <1>0, <1>1, Inputs DEF TypeInv, Complete, Ev
  <2> QED
    BY <1>1, <2>1 DEF Seen
<1> QED
  BY <1>1, <1>2, PlainReady, OneEventAdvances

LEMMA PostAdvances ==
    ASSUME TypeInv, CInv, RequestsInReplay, NEW t \in Traces, HandlePost(t)
    PROVE  Merge!Next /\ RequestsInReplay'
<1>0. pos[t] \in 1 .. Len(trace[t]) /\ Len(trace[t]) \in Nat
  BY Inputs DEF TypeInv
<1>1. /\ Turn(t) /\ replay[t] = NoReplay
      /\ Emit(t, TimesUpTo(t, pos[t])) /\ StepForward(t, 1)
      /\ UNCHANGED <<trace, replay>> /\ Ev(t).code = "post"
  BY DEF HandlePost
<1>2. trace[t][pos[t]].needs \subseteq Seen
  BY PlainReady
<1>3. Seen' = Seen \cup trace[t][pos[t]].posts
  <2>1. posted' = [k \in Keys |-> IF k \in Ev(t).posts \ Seen THEN CurTime(t) ELSE posted[k]]
    BY DEF HandlePost
  <2>2. CurTime(t) # NotPosted
    <3>1. CurTime(t) \in Nat
      BY CurTimeType
    <3> QED
      BY <3>1 DEF NotPosted
  <2>3. Ev(t).posts \subseteq Keys /\ Ev(t) = trace[t][pos[t]]
    BY <1>0, Fields DEF TypeInv, Ev
  <2>4. ASSUME NEW k \in Keys
        PROVE  k \in Seen' <=> k \in Seen \cup Ev(t).posts
    BY <2>1, <2>2 DEF Seen
  <2>5. Seen \subseteq Keys /\ Seen' \subseteq Keys
    BY DEF Seen
  <2> QED
    BY <2>3, <2>4, <2>5
<1> QED
  BY <1>1, <1>2, <1>3, OneEventAdvances

(* What is left of a waitall, when everything it needs was posted.         *)
LEMMA WaitallAdvances ==
    ASSUME TypeInv, CInv, RequestsInReplay, NEW t \in Traces, HandleWaitall(t)
    PROVE  Merge!Next /\ RequestsInReplay'
<1> DEFINE m == LastOf(t) - pos[t] + 1
<1>0. /\ pos[t] \in 1 .. Len(trace[t]) /\ Len(trace[t]) \in Nat
      /\ LastOf(t) \in pos[t] .. Len(trace[t])
      /\ \A j \in pos[t] + 1 .. LastOf(t) : trace[t][j].code = "info"
      /\ Ev(t).code \in {"waitall", "info"}
  BY WaitallRange, Inputs DEF HandleWaitall, TypeInv
<1>1. ~done[t]
  BY PickedNotDone DEF HandleWaitall, Turn
<1>2. m \in Nat \ {0} /\ pos[t] + m - 1 = LastOf(t) /\ pos[t] + m = LastOf(t) + 1
  BY <1>0
<1>3. TimesUpTo(t, LastOf(t)) \in Seq(Int) /\ Len(TimesUpTo(t, LastOf(t))) = m
  <2>1. LastOf(t) \in Int /\ pos[t] - 1 <= LastOf(t) /\ LastOf(t) <= Len(trace[t])
    BY <1>0
  <2> QED
    BY <1>0, <2>1, TimesType
<1>4. /\ Emit(t, TimesUpTo(t, LastOf(t))) /\ StepForward(t, m)
      /\ UNCHANGED <<trace, posted>> /\ Blocked(t) = {}
      /\ replay' = [replay EXCEPT ![t] = NoReplay] /\ InWaitall(t)
  BY DEF HandleWaitall
<1>5. \A i \in pos[t] .. LastOf(t) : trace[t][i].needs \subseteq Seen
  BY <1>4 DEF Blocked
<1>6. Seen' = Seen \cup UNION {trace[t][i].posts : i \in pos[t] .. LastOf(t)}
  <2>1. \A i \in pos[t] .. LastOf(t) : trace[t][i].code # "post"
    <3> SUFFICES ASSUME NEW i \in pos[t] .. LastOf(t) PROVE trace[t][i].code # "post"
      OBVIOUS
    <3>1. i = pos[t] \/ i \in pos[t] + 1 .. LastOf(t)
      BY <1>0
    <3> QED
      BY <1>0, <3>1 DEF Ev
  <2>2. LastOf(t) \in Int /\ LastOf(t) <= Len(trace[t])
    BY <1>0
  <2> QED
    BY <1>0, <1>4, <2>1, <2>2, NothingPosted DEF TypeInv
<1>7. Merge!Next
  <2>1. pos[t] .. pos[t] + m - 1 = pos[t] .. LastOf(t) /\ pos[t] + m - 1 <= Len(trace[t])
    BY <1>0, <1>2
  <2>2. /\ \A i \in pos[t] .. pos[t] + m - 1 : trace[t][i].needs \subseteq Seen
        /\ Seen' = Seen \cup UNION {trace[t][i].posts : i \in pos[t] .. pos[t] + m - 1}
    BY <1>5, <1>6, <2>1
  <2>3. trace' = trace
    BY <1>4
  <2> HIDE DEF m
  <2> QED
    BY <1>1, <1>2, <1>3, <1>4, <2>1, <2>2, <2>3, Advances
<1>8. Clear(t, LastOf(t) + 1)
  <2>1. CASE replay[t] = NoReplay
    <3>1. Ev(t).code = "waitall" /\ LastOf(t) = pos[t] + Ev(t).n
      BY <1>4, <2>1 DEF InWaitall, LastOf
    <3> QED
      BY <1>0, <3>1, ClearAfterWaitall DEF TypeInv, Ev
  <2>2. CASE replay[t] # NoReplay
    <3> DEFINE w == pos[t] - replay[t].i - 1
    <3>1. /\ w \in 1 .. Len(trace[t]) /\ trace[t][w].code = "waitall"
          /\ trace[t][w].n = replay[t].n
      BY <2>2, Inputs DEF TypeInv, ReplayAtRequest
    <3>2. replay[t].n \in Nat /\ replay[t].i \in Nat
      BY DEF TypeInv, TypeOK
    <3>3. LastOf(t) + 1 = w + trace[t][w].n + 1
      <4>1. LastOf(t) = pos[t] + (replay[t].n - replay[t].i) - 1
        BY <2>2 DEF LastOf
      <4>2. pos[t] \in Int /\ w = pos[t] - replay[t].i - 1
        BY <1>0
      <4>3. trace[t][w].n = replay[t].n
        BY <3>1
      <4> HIDE DEF w
      <4> QED
        BY <3>2, <4>1, <4>2, <4>3
    <3> HIDE DEF w
    <3> QED
      BY <3>1, <3>3, ClearAfterWaitall DEF TypeInv
  <2> QED
    BY <2>1, <2>2
<1>9. RequestsInReplay'
  <2>1. \A u \in Traces \ {t} : replay'[u] = replay[u]
    BY <1>4 DEF TypeInv, TypeOK
  <2>2. Clear(t, pos[t] + m)
    BY <1>2, <1>8
  <2> HIDE DEF m
  <2> QED
    BY <1>2, <1>4, <2>1, <2>2, ForwardRequests
<1> QED
  BY <1>7, <1>9

(* A waitall that has to wait goes through the requests before the one it  *)
(* waits for; if there are none, the merge does not see it.                *)
LEMMA WaitallNotPostedMerges ==
    ASSUME TypeInv, CInv, RequestsInReplay, NEW t \in Traces, WaitallNotPosted(t)
    PROVE  MergeStep /\ RequestsInReplay'
<1>0. /\ pos[t] \in 1 .. Len(trace[t]) /\ Len(trace[t]) \in Nat
      /\ LastOf(t) \in pos[t] .. Len(trace[t])
      /\ \A j \in pos[t] + 1 .. LastOf(t) : trace[t][j].code = "info"
      /\ Ev(t).code \in {"waitall", "info"}
  BY WaitallRange, Inputs DEF WaitallNotPosted, TypeInv
<1>1. ~done[t]
  BY PickedNotDone DEF WaitallNotPosted, Turn
<1>2. PICK b \in Blocked(t) :
          /\ \A c \in Blocked(t) : b <= c
          /\ pos' = [pos EXCEPT ![t] = b]
          /\ Emit(t, TimesUpTo(t, b - 1))
          /\ replay' = [replay EXCEPT ![t] = ReplayAt(t, b)]
  BY DEF WaitallNotPosted
<1>3. b \in pos[t] .. LastOf(t)
  BY DEF Blocked
<1>4. UNCHANGED <<trace, posted, done>>
  BY DEF WaitallNotPosted, Defer
<1> DEFINE m == b - pos[t]
           s == TimesUpTo(t, b - 1)
<1>5. s \in Seq(Int) /\ Len(s) = m
  <2>1. /\ b - 1 \in Int /\ pos[t] - 1 <= b - 1 /\ b - 1 <= Len(trace[t])
        /\ (b - 1) - pos[t] + 1 = b - pos[t]
    BY <1>0, <1>3
  <2> QED
    BY <2>1, TimesType
<1>6. Seen' = Seen
  BY <1>4 DEF Seen
<1>7. ASSUME b = pos[t] PROVE MergeStep
  <2>1. Len(s) = 0
    BY <1>0, <1>5, <1>7
  <2>2. Len(out'[t]) = Len(out[t]) + 0 /\ \A u \in Traces \ {t} : out'[u] = out[u]
    <3> HIDE DEF s
    <3> QED
      BY <1>2, <1>5, <2>1, EmitType DEF TypeInv, s
  <2>3. Len(out[t]) \in Nat
    BY DEF TypeInv, TypeOK
  <2>4. Len(out'[t]) = Len(out[t])
    BY <2>2, <2>3
  <2>5. [u \in Traces |-> Len(out'[u])] = [u \in Traces |-> Len(out[u])]
    <3>1. \A u \in Traces : Len(out'[u]) = Len(out[u])
      BY <2>2, <2>4
    <3> QED
      BY <3>1
  <2> QED
    BY <1>4, <1>6, <2>5 DEF MergeStep, Merge!vars
<1>8. ASSUME b # pos[t] PROVE MergeStep
  <2>1. m \in Nat \ {0} /\ pos[t] + m - 1 = b - 1 /\ b - 1 \in Int /\ b - 1 <= Len(trace[t])
    BY <1>0, <1>3, <1>8
  <2>2. \A i \in pos[t] .. b - 1 : trace[t][i].needs \subseteq Seen
    <3> SUFFICES ASSUME NEW i \in pos[t] .. b - 1 PROVE trace[t][i].needs \subseteq Seen
      OBVIOUS
    <3>1. i \in pos[t] .. LastOf(t) /\ ~(b <= i)
      BY <1>0, <1>3
    <3> QED
      BY <1>2, <3>1 DEF Blocked
  <2>3. \A i \in pos[t] .. b - 1 : trace[t][i].code # "post"
    <3> SUFFICES ASSUME NEW i \in pos[t] .. b - 1 PROVE trace[t][i].code # "post"
      OBVIOUS
    <3>1. i = pos[t] \/ i \in pos[t] + 1 .. LastOf(t)
      BY <1>0, <1>3
    <3> QED
      BY <1>0, <3>1 DEF Ev
  <2>4. Seen' = Seen \cup UNION {trace[t][i].posts : i \in pos[t] .. b - 1}
    BY <1>0, <1>4, <2>1, <2>3, NothingPosted DEF TypeInv
  <2>5. Emit(t, s) /\ trace' = trace
    BY <1>2, <1>4
  <2>6. Merge!Next
    <3> HIDE DEF m, s
    <3> QED
      BY <1>1, <1>5, <2>1, <2>2, <2>4, <2>5, Advances
  <2> QED
    BY <2>6 DEF MergeStep
<1>9. RequestsInReplay'
  <2>1. /\ replay'[t] = ReplayAt(t, b)
        /\ \A u \in Traces \ {t} : replay'[u] = replay[u] /\ pos'[u] = pos[u]
    BY <1>2 DEF TypeInv, TypeOK
  <2>2. ReplayAt(t, b).n # 0
    <3> DEFINE n == IF replay[t] = NoReplay THEN Ev(t).n ELSE replay[t].n
               i == n - (LastOf(t) - b) - 1
    <3>1. InWaitall(t)
      BY DEF WaitallNotPosted
    <3>2. n \in Nat /\ i \in Nat /\ i < n
      BY <3>1, ReplayPoint
    <3>3. ReplayAt(t, b).n = n
      BY DEF ReplayAt, WaitallSize
    <3> HIDE DEF n, i
    <3> QED
      BY <3>2, <3>3
  <2>3. replay'[t] # NoReplay
    BY <2>1, <2>2 DEF NoReplay
  <2>4. ASSUME NEW u \in Traces \ {t}, ~done'[u], replay'[u] = NoReplay
        PROVE  Clear(u, pos[u])'
    BY <1>4, <2>1, <2>4 DEF RequestsInReplay, Clear
  <2> QED
    BY <2>3, <2>4 DEF RequestsInReplay
<1> QED
  BY <1>7, <1>8, <1>9

(* MPI_Init and the info event that follows it, if the trace has one.      *)
InitLast(t) == IF pos[t] < Len(trace[t]) THEN pos[t] + 1 ELSE pos[t]

LEMMA InitEvents ==
    ASSUME TypeInv, NEW t \in Traces, HandleInit(t)
    PROVE  /\ InitLast(t) \in pos[t] .. Len(trace[t])
           /\ \A i \in pos[t] .. InitLast(t) :
                 trace[t][i].needs = {} /\ trace[t][i].code \in {"init", "info"}
           /\ \E s \in Seq(Int) : Len(s) = InitLast(t) - pos[t] + 1 /\ Emit(t, s)
<1> DEFINE m == IF pos[t] < Len(trace[t]) THEN 2 ELSE 1
<1>0. pos[t] \in 1 .. Len(trace[t]) /\ Len(trace[t]) \in Nat
  BY Inputs DEF TypeInv
<1>1. InitLast(t) \in pos[t] .. Len(trace[t]) /\ m = InitLast(t) - pos[t] + 1 /\ m \in Nat
  BY <1>0 DEF InitLast
<1>2. Ev(t).code = "init"
  BY DEF HandleInit
<1>3. pos[t] + 1 \in 1 .. Len(trace[t]) =>
          trace[t][pos[t] + 1].code = "info" /\ trace[t][pos[t] + 1].needs = {}
  BY <1>0, <1>2, Inputs DEF TypeInv, Complete, Ev
<1>4. ASSUME NEW i \in pos[t] .. InitLast(t)
      PROVE  trace[t][i].needs = {} /\ trace[t][i].code \in {"init", "info"}
  <2>1. trace[t][pos[t]].needs = {} /\ trace[t][pos[t]].code = "init"
    BY <1>0, <1>2, NothingNeeded DEF TypeInv, Ev
  <2>2. i = pos[t] \/ (i = pos[t] + 1 /\ pos[t] + 1 \in 1 .. Len(trace[t]))
    BY <1>0 DEF InitLast
  <2> QED
    BY <1>3, <2>1, <2>2
<1>5. \E s \in Seq(Int) : Len(s) = m /\ Emit(t, s)
  <2> DEFINE e(j) == trace[t][pos[t] + j - 1].time - Ev(t).time + delay[t]
             times == [j \in 1 .. m |-> e(j)]
  <2>1. ASSUME NEW j \in 1 .. m PROVE e(j) \in Int
    <3>1. pos[t] + j - 1 \in 1 .. Len(trace[t])
      BY <1>0
    <3>2. trace[t][pos[t] + j - 1].time \in Nat /\ Ev(t).time \in Nat /\ delay[t] \in Nat
      BY <1>0, <3>1, Fields, OtherTypes DEF TypeInv, Ev
    <3> QED
      BY <3>2
  <2>2. Emit(t, times)
    BY DEF HandleInit
  <2>3. times \in Seq(Int) /\ Len(times) = m
    <3> HIDE DEF m, e
    <3> QED
      BY <1>1, <2>1, IsASeq, LenProperties
  <2> HIDE DEF times
  <2> QED
    BY <2>2, <2>3
<1> HIDE DEF m
<1> QED
  BY <1>1, <1>4, <1>5

LEMMA InitAdvances ==
    ASSUME TypeInv, CInv, RequestsInReplay, NEW t \in Traces, HandleInit(t)
    PROVE  Merge!Next /\ RequestsInReplay'
<1> DEFINE last == InitLast(t)
           m == last - pos[t] + 1
<1>0. pos[t] \in 1 .. Len(trace[t]) /\ Len(trace[t]) \in Nat
  BY Inputs DEF TypeInv
<1>1. /\ last \in pos[t] .. Len(trace[t])
      /\ \A i \in pos[t] .. last :
            trace[t][i].needs = {} /\ trace[t][i].code \in {"init", "info"}
      /\ \E s \in Seq(Int) : Len(s) = m /\ Emit(t, s)
  BY InitEvents
<1> HIDE DEF last
<1>2. m \in Nat \ {0} /\ pos[t] + m - 1 = last /\ last \in Int /\ last <= Len(trace[t])
  <2>1. last \in pos[t] .. Len(trace[t])
    BY <1>1
  <2> QED
    BY <1>0, <2>1
<1>3. ~done[t] /\ Ev(t).code = "init" /\ UNCHANGED <<trace, posted, replay>> /\ StepForward(t, 2)
  BY PickedNotDone DEF HandleInit, Turn
<1> HIDE DEF m
<1>4. Seen' = Seen \cup UNION {trace[t][i].posts : i \in pos[t] .. last}
  BY <1>0, <1>1, <1>2, <1>3, NothingPosted DEF TypeInv
<1>5. Merge!Next
  <2>1. \A i \in pos[t] .. pos[t] + m - 1 : trace[t][i].needs \subseteq Seen
    BY <1>1, <1>2
  <2>2. Seen' = Seen \cup UNION {trace[t][i].posts : i \in pos[t] .. pos[t] + m - 1}
    BY <1>2, <1>4
  <2> QED
    BY <1>1, <1>2, <1>3, <2>1, <2>2, Advances
<1>6. pos[t] + 2 <= Len(trace[t]) => Clear(t, pos[t] + 2)
  <2>1. Clear(t, pos[t] + 1)
    BY <1>0, <1>3, ClearUnlessInfo, ClearAfterEvent DEF TypeInv, Ev
  <2> SUFFICES ASSUME pos[t] + 2 <= Len(trace[t]) PROVE Clear(t, pos[t] + 2)
    OBVIOUS
  <2>2. /\ pos[t] + 1 \in 1 .. Len(trace[t]) /\ pos[t] + 1 + 1 = pos[t] + 2
        /\ pos[t] + 1 \in pos[t] .. last
    BY <1>0 DEF last, InitLast
  <2>3. trace[t][pos[t] + 1].code # "waitall"
    BY <1>1, <2>2
  <2>4. Clear(t, pos[t] + 1 + 1)
    BY <2>1, <2>2, <2>3, ClearAfterEvent DEF TypeInv
  <2> QED
    BY <2>2, <2>4
<1> QED
  BY <1>3, <1>5, <1>6, ForwardRequests

(* The event of a spawned process, its MPI_Init and what follows it.       *)
LEMMA SpawnedEvents ==
    ASSUME TypeInv, NEW t \in Traces, HandleSpawned(t)
    PROVE  /\ pos[t] + 1 \in 1 .. Len(trace[t]) /\ pos[t] + 2 \in 1 .. Len(trace[t])
           /\ trace[t][pos[t] + 1].code = "init" /\ trace[t][pos[t] + 2].code = "info"
           /\ \A i \in pos[t] .. pos[t] + 2 : trace[t][i].needs = {} /\ trace[t][i].code # "post"
           /\ \E s \in Seq(Int) : Len(s) = 3 /\ Emit(t, s)
<1>0. /\ pos[t] \in 1 .. Len(trace[t]) /\ Len(trace[t]) \in Nat
      /\ Complete(trace[t]) /\ DOMAIN trace[t] = 1 .. Len(trace[t])
  BY Inputs DEF TypeInv
<1>1. Ev(t).code = "spawned"
  BY DEF HandleSpawned
<1>2. pos[t] + 1 \in 1 .. Len(trace[t]) /\ pos[t] + 2 \in 1 .. Len(trace[t])
  <2>1. pos[t] + 2 \in 1 .. Len(trace[t])
    BY <1>0, <1>1 DEF Complete, Ev
  <2> QED
    BY <1>0, <2>1
<1>3. trace[t][pos[t] + 1].code = "init" /\ trace[t][pos[t] + 2].code = "info"
  BY <1>0, <1>1 DEF Complete, Ev
<1>4. trace[t][pos[t] + 2].needs = {}
  <2>1. pos[t] + 1 + 1 = pos[t] + 2 /\ pos[t] + 1 + 1 \in DOMAIN trace[t]
    BY <1>0, <1>2
  <2>2. trace[t][pos[t] + 1 + 1].needs = {}
    BY <1>0, <1>2, <1>3, <2>1 DEF Complete
  <2> QED
    BY <2>1, <2>2
<1>5. \A i \in pos[t] .. pos[t] + 2 : trace[t][i].needs = {} /\ trace[t][i].code # "post"
  <2>1. trace[t][pos[t]].needs = {} /\ trace[t][pos[t]].code # "post"
    BY <1>0, <1>1, NothingNeeded DEF TypeInv, Ev
  <2>2. trace[t][pos[t] + 1].needs = {} /\ trace[t][pos[t] + 1].code # "post"
    BY <1>2, <1>3, NothingNeeded DEF TypeInv
  <2>3. \A i \in pos[t] .. pos[t] + 2 : i = pos[t] \/ i = pos[t] + 1 \/ i = pos[t] + 2
    BY <1>0
  <2> QED
    BY <1>3, <1>4, <2>1, <2>2, <2>3
<1>6. \E s \in Seq(Int) : Len(s) = 3 /\ Emit(t, s)
  <2>1. PICK i \in MatchingSpawns(t) :
            Emit(t, <<spawns[i].time, spawns[i].time,
                      trace[t][pos[t] + 2].time - trace[t][pos[t] + 1].time + spawns[i].time>>)
    BY DEF HandleSpawned
  <2>2. spawns[i].time \in Nat
    <3>1. spawns \in Seq([ppid : Nat, nbChildren : Int, time : Nat]) /\ i \in DOMAIN spawns
      BY OtherTypes DEF MatchingSpawns
    <3>2. spawns[i] \in [ppid : Nat, nbChildren : Int, time : Nat]
      BY <3>1, ElementOfSeq, LenProperties
    <3> QED
      BY <3>2
  <2>3. trace[t][pos[t] + 1].time \in Nat /\ trace[t][pos[t] + 2].time \in Nat
    BY <1>2, Fields DEF TypeInv
  <2> DEFINE s == <<spawns[i].time, spawns[i].time,
                    trace[t][pos[t] + 2].time - trace[t][pos[t] + 1].time + spawns[i].time>>
  <2>4. s \in Seq(Int) /\ Len(s) = 3
    BY <2>2, <2>3
  <2>5. Emit(t, s)
    BY <2>1
  <2> HIDE DEF s
  <2> QED
    BY <2>4, <2>5
<1> QED
  BY <1>2, <1>3, <1>5, <1>6

LEMMA SpawnedAdvances ==
    ASSUME TypeInv, CInv, RequestsInReplay, NEW t \in Traces, HandleSpawned(t)
    PROVE  Merge!Next /\ RequestsInReplay'
<1>0. pos[t] \in 1 .. Len(trace[t]) /\ Len(trace[t]) \in Nat
  BY Inputs DEF TypeInv
<1>1. ~done[t] /\ UNCHANGED <<trace, posted, replay>> /\ StepForward(t, 3)
  BY PickedNotDone DEF HandleSpawned, Turn
<1>2. pos[t] + 1 \in 1 .. Len(trace[t]) /\ pos[t] + 2 \in 1 .. Len(trace[t])
  BY SpawnedEvents
<1>3. trace[t][pos[t] + 1].code = "init" /\ trace[t][pos[t] + 2].code = "info"
  BY SpawnedEvents
<1>5. \A i \in pos[t] .. pos[t] + 2 : trace[t][i].needs = {} /\ trace[t][i].code # "post"
  BY SpawnedEvents
<1>6. PICK s \in Seq(Int) : Len(s) = 3 /\ Emit(t, s)
  BY SpawnedEvents
<1>7. Seen' = Seen \cup UNION {trace[t][i].posts : i \in pos[t] .. pos[t] + 2}
  <2>1. pos[t] + 2 \in Int /\ pos[t] + 2 <= Len(trace[t])
    BY <1>0, <1>2
  <2>2. \A i \in pos[t] .. pos[t] + 2 : trace[t][i].code # "post"
    BY <1>5
  <2> QED
    BY <1>0, <1>1, <2>1, <2>2, NothingPosted DEF TypeInv
<1>8. Merge!Next
  <2>1. pos[t] + 3 - 1 = pos[t] + 2 /\ pos[t] + 3 - 1 <= Len(trace[t]) /\ 3 \in Nat \ {0}
    BY <1>0, <1>2
  <2>2. /\ \A i \in pos[t] .. pos[t] + 3 - 1 : trace[t][i].needs \subseteq Seen
        /\ Seen' = Seen \cup UNION {trace[t][i].posts : i \in pos[t] .. pos[t] + 3 - 1}
    BY <1>5, <1>7, <2>1
  <2> QED
    BY <1>1, <1>6, <2>1, <2>2, Advances
<1>9. Clear(t, pos[t] + 3)
  <2>1. Clear(t, pos[t] + 1)
    BY <1>2, <1>3, ClearUnlessInfo DEF TypeInv
  <2>2. Clear(t, pos[t] + 2)
    <3>1. Clear(t, pos[t] + 1 + 1) /\ pos[t] + 1 + 1 = pos[t] + 2
      BY <1>0, <1>2, <1>3, <2>1, ClearAfterEvent DEF TypeInv
    <3> QED
      BY <3>1
  <2>3. Clear(t, pos[t] + 2 + 1) /\ pos[t] + 2 + 1 = pos[t] + 3
    BY <1>0, <1>2, <1>3, <2>2, ClearAfterEvent DEF TypeInv
  <2> QED
    BY <2>3
<1> QED
  BY <1>1, <1>8, <1>9, ForwardRequests

LEMMA OthersStutter ==
    ASSUME RequestsInReplay,
           NoTrace \/ Finish \/ UNCHANGED vars
           \/ \E t \in Traces : NeedNotPosted(t) \/ SpawnNotHandled(t)
    PROVE  UNCHANGED Merge!vars /\ RequestsInReplay'
<1>1. UNCHANGED <<trace, pos, out, done, posted, replay>>
  BY DEF NoTrace, Finish, vars, NeedNotPosted, SpawnNotHandled, Defer
<1> QED
  BY <1>1 DEF Merge!vars, Seen, RequestsInReplay, Clear

LEMMA NextMerges ==
    TypeInv /\ CInv /\ RequestsInReplay /\ [Next]_vars => MergeStep /\ RequestsInReplay'
<1> SUFFICES ASSUME TypeInv, CInv, RequestsInReplay, [Next]_vars
             PROVE  MergeStep /\ RequestsInReplay'
  OBVIOUS
<1>1. ASSUME NEW t \in Traces, HandleOneEvent(t) PROVE MergeStep /\ RequestsInReplay'
  <2>1. CASE HandlePlain(t) \/ HandleNeed(t) \/ HandleSpawn(t)
    BY <2>1, PlainAdvances DEF MergeStep
  <2>2. CASE HandlePost(t)
    BY <2>2, PostAdvances DEF MergeStep
  <2>3. CASE HandleWaitall(t)
    BY <2>3, WaitallAdvances DEF MergeStep
  <2>4. CASE WaitallNotPosted(t)
    BY <2>4, WaitallNotPostedMerges
  <2>5. CASE HandleInit(t)
    BY <2>5, InitAdvances DEF MergeStep
  <2>6. CASE HandleSpawned(t)
    BY <2>6, SpawnedAdvances DEF MergeStep
  <2>7. CASE NeedNotPosted(t) \/ SpawnNotHandled(t)
    BY <2>7, OthersStutter DEF MergeStep
  <2> QED
    BY <1>1, <2>1, <2>2, <2>3, <2>4, <2>5, <2>6, <2>7 DEF HandleOneEvent
<1>2. CASE NoTrace \/ Finish \/ Terminated \/ UNCHANGED vars
  BY <1>2, OthersStutter DEF Terminated, MergeStep
<1> QED
  BY <1>1, <1>2 DEF Next

LEMMA InitMerges == Init => Merge!Init
<1> SUFFICES ASSUME Init PROVE Merge!Init
  OBVIOUS
<1>1. [t \in Traces |-> Len(out[t])] = [t \in Traces |-> 0]
  BY DEF Init
<1>2. Seen = {}
  BY DEF Init, Seen
<1> QED
  BY <1>1, <1>2 DEF Init, Merge!Init

(* If every trace has the event that starts it, the conversion is a causal *)
(* merge of the traces, whatever handle_one_event picks, puts off, replays *)
(* or moves: every event is handled once, in the order of its trace, after *)
(* the sends and entries that it waits for.                                *)
THEOREM SchedulerMerges ==
    ASSUME EveryTraceStarts
    PROVE  Spec => Merge!Spec
<1>1. Init => TypeInv /\ CInv /\ RequestsInReplay
  BY InitTypeInv, InitCInv, InitRequests
<1>2. TypeInv /\ CInv /\ RequestsInReplay /\ [Next]_vars
          => (TypeInv /\ CInv /\ RequestsInReplay)'
  BY NextTypeInv, NextCInv, NextMerges
<1>3. TypeInv /\ CInv /\ RequestsInReplay /\ [Next]_vars => [Merge!Next]_(Merge!vars)
  BY NextMerges DEF MergeStep
<1>4. Init => Merge!Init
  BY InitMerges
<1> QED
  BY <1>1, <1>2, <1>3, <1>4, PTL DEF Spec, Merge!Spec

-----------------------------------------------------------------------------
(* A process waits for a message or for the others only after its          *)
(* MPI_Init, or its event as a spawned process.                            *)
NeedsAfterStart ==
    NbTraces = 1 \/ \A w \in Workloads : \A t \in Traces : \A i \in DOMAIN w[t] :
        w[t][i].needs # {} => \E j \in 1 .. i - 1 : w[t][j].code \in Starters

(* A trace that has gone past its MPI_Init has started, so that its events *)
(* are drawn.                                                              *)
StartedPast ==
    \A t \in Traces : ~start[t] =>
        /\ NbTraces # 1
        /\ \A j \in 1 .. pos[t] - 1 : ~(trace[t][j].code \in Starters)

LEMMA InitCausality == Init => Causality /\ StartedPast
<1> SUFFICES ASSUME Init PROVE Causality /\ StartedPast
  OBVIOUS
<1>1. Causality
  BY DEF Init, Causality
<1>2. StartedPast
  <2>1. \A t \in Traces : pos[t] = 1 /\ (start[t] \/ NbTraces # 1)
    BY DEF Init
  <2>2. 1 .. 1 - 1 = {}
    OBVIOUS
  <2> QED
    BY <2>1, <2>2 DEF StartedPast
<1> QED
  BY <1>1, <1>2

LEMMA Shift ==
    ASSUME NEW a \in Nat, NEW b \in Nat, NEW p \in Nat, NEW L \in Nat, NEW i \in 1 .. a + b,
           ~(i \in 1 .. a), a = p - 1, p + b - 1 <= L
    PROVE  i - a \in 1 .. b /\ p + (i - a) - 1 = i /\ i \in 1 .. L
  OBVIOUS

LEMMA ForwardCausality ==
    ASSUME TypeInv, CInv, Causality, NEW t \in Traces, ~done[t], NEW s \in Seq(Int),
           Emit(t, s), trace' = trace, pos[t] + Len(s) - 1 <= Len(trace[t]),
           \A k \in Keys : posted[k] # NotPosted => posted'[k] = posted[k],
           \A j \in 1 .. Len(s) : \A k \in trace[t][pos[t] + j - 1].needs :
               posted[k] # NotPosted /\ s[j] >= posted[k]
    PROVE  Causality'
<1>0. pos[t] \in 1 .. Len(trace[t]) /\ Len(trace[t]) \in Nat
  BY Inputs DEF TypeInv
<1>1. Len(out[t]) = pos[t] - 1 /\ Len(s) \in Nat
  BY <1>0, EndOfOutput
<1>2. \A u \in Traces \ {t} : out'[u] = out[u]
  BY EmitType DEF TypeInv
<1>3. /\ out[t] \in Seq(Int) /\ out'[t] = out[t] \o s
  BY DEF Emit, TypeInv, TypeOK
<1>4. ASSUME NEW u \in Traces, NEW i \in 1 .. Len(trace[u])
      PROVE  trace[u][i].needs \subseteq Keys
  BY Fields DEF TypeInv
<1>5. ASSUME NEW u \in Traces, NEW i \in DOMAIN out[u], NEW k \in trace[u][i].needs
      PROVE  posted'[k] # NotPosted /\ out[u][i] >= posted'[k]
  <2>1. posted[k] # NotPosted /\ out[u][i] >= posted[k]
    BY DEF Causality
  <2>2. i \in 1 .. Len(trace[u])
    <3>1. pos[u] \in 1 .. Len(trace[u]) /\ Len(trace[u]) \in Nat
      BY Inputs DEF TypeInv
    <3>2. Len(out[u]) = pos[u] - 1 + (IF done[u] THEN 1 ELSE 0)
      BY DEF CInv, NothingLost
    <3>3. Len(out[u]) <= Len(trace[u])
      BY <3>1, <3>2
    <3>4. out[u] \in Seq(Int)
      BY DEF TypeInv, TypeOK
    <3> QED
      BY <3>1, <3>3, <3>4
  <2>3. k \in Keys
    BY <1>4, <2>2
  <2> QED
    BY <2>1, <2>3
<1>6. ASSUME NEW i \in DOMAIN out'[t], NEW k \in trace[t][i].needs
      PROVE  posted'[k] # NotPosted /\ out'[t][i] >= posted'[k]
  <2>1. i \in 1 .. Len(out[t]) + Len(s)
    BY <1>3
  <2>2. CASE i \in 1 .. Len(out[t])
    BY <1>3, <1>5, <2>2
  <2>3. CASE ~(i \in 1 .. Len(out[t]))
    <3> DEFINE j == i - Len(out[t])
    <3>0. pos[t] \in Nat /\ Len(out[t]) \in Nat
      BY <1>0, <1>1
    <3>1. j \in 1 .. Len(s) /\ pos[t] + j - 1 = i /\ i \in 1 .. Len(trace[t])
      BY <1>0, <1>1, <2>1, <2>3, <3>0, Shift
    <3>2. out'[t][i] = s[j]
      BY <1>3, <2>1, <2>3
    <3>3. posted[k] # NotPosted /\ s[j] >= posted[k]
      <4> HIDE DEF j
      <4> QED
        BY <3>1
    <3>4. k \in Keys
      BY <1>4, <3>1
    <3> QED
      BY <3>2, <3>3, <3>4
  <2> QED
    BY <2>2, <2>3
<1> QED
  BY <1>2, <1>5, <1>6 DEF Causality

LEMMA TimesAfterPosts ==
    ASSUME TypeInv, NEW t \in Traces, start[t], NEW i \in Int, i <= Len(trace[t]),
           NEW j \in 1 .. i - pos[t] + 1, NEW k \in trace[t][pos[t] + j - 1].needs
    PROVE  TimesUpTo(t, i)[j] >= posted[k]
<1> DEFINE q == pos[t] + j - 1
<1>0. pos[t] \in 1 .. Len(trace[t]) /\ Len(trace[t]) \in Nat
  BY Inputs DEF TypeInv
<1>1. q \in pos[t] .. Len(trace[t]) /\ q \in Int /\ q <= Len(trace[t]) /\ q \in pos[t] .. q
  BY <1>0
<1>2. RelTime(t, q) \in Int
  <2>1. q \in 1 .. Len(trace[t])
    BY <1>0, <1>1
  <2> HIDE DEF q
  <2>2. trace[t][q].time \in Nat /\ startTime[t] \in Nat
    BY <2>1, Fields, OtherTypes DEF TypeInv
  <2> QED
    BY <2>2 DEF RelTime
<1>3. posted[k] \in Int
  <2>1. k \in Keys
    BY <1>0, <1>1, Fields DEF TypeInv
  <2> QED
    BY <2>1, OtherTypes DEF NotPosted
<1>4. posted[k] - RelTime(t, q) \in DelaysUpTo(t, q)
  <2>1. k \in trace[t][q].needs
    OBVIOUS
  <2> HIDE DEF q
  <2> QED
    BY <1>1, <2>1 DEF DelaysUpTo
<1>5. DelayUpTo(t, q) \in Nat /\ posted[k] - RelTime(t, q) <= DelayUpTo(t, q)
  <2> HIDE DEF q
  <2> QED
    BY <1>1, <1>4, DelayType
<1>6. TimesUpTo(t, i)[j] = RelTime(t, q) + DelayUpTo(t, q)
  BY DEF TimesUpTo
<1> HIDE DEF q
<1> QED
  BY <1>2, <1>3, <1>5, <1>6

(* The events from the current one to the one that the handler stops at    *)
(* are no MPI_Init: one that needs something finds the trace started.      *)
LEMMA NeedsStarted ==
    ASSUME NeedsAfterStart, TypeInv, StartedPast, NEW t \in Traces,
           NEW q \in pos[t] .. Len(trace[t]), trace[t][q].needs # {},
           \A j \in pos[t] .. q - 1 : ~(trace[t][j].code \in Starters)
    PROVE  start[t]
<1>0. /\ pos[t] \in 1 .. Len(trace[t]) /\ Len(trace[t]) \in Nat
      /\ DOMAIN trace[t] = 1 .. Len(trace[t]) /\ trace \in Workloads
  BY Inputs DEF TypeInv, TypeOK
<1> SUFFICES ASSUME ~start[t] PROVE FALSE
  OBVIOUS
<1>1. NbTraces # 1 /\ \A j \in 1 .. pos[t] - 1 : ~(trace[t][j].code \in Starters)
  BY DEF StartedPast
<1>2. q \in DOMAIN trace[t]
  BY <1>0
<1>3. PICK j \in 1 .. q - 1 : trace[t][j].code \in Starters
  BY <1>0, <1>1, <1>2 DEF NeedsAfterStart
<1>4. j \in 1 .. pos[t] - 1 \/ j \in pos[t] .. q - 1
  BY <1>0
<1> QED
  BY <1>1, <1>3, <1>4

(* The times that a handler gives to the events from the current one to i. *)
LEMMA EmittedCausality ==
    ASSUME NeedsAfterStart, TypeInv, CInv, StartedPast, Causality, NEW t \in Traces, ~done[t],
           NEW i \in Int, pos[t] - 1 <= i, i <= Len(trace[t]),
           Emit(t, TimesUpTo(t, i)), trace' = trace,
           \A k \in Keys : posted[k] # NotPosted => posted'[k] = posted[k],
           \A j \in pos[t] .. i : trace[t][j].needs \subseteq Seen,
           \A j \in pos[t] .. i - 1 : ~(trace[t][j].code \in Starters)
    PROVE  Causality'
<1> DEFINE s == TimesUpTo(t, i)
<1>0. pos[t] \in 1 .. Len(trace[t]) /\ Len(trace[t]) \in Nat
  BY Inputs DEF TypeInv
<1>1. s \in Seq(Int) /\ Len(s) = i - pos[t] + 1
  BY TimesType
<1>2. pos[t] + Len(s) - 1 <= Len(trace[t])
  BY <1>0, <1>1
<1>3. ASSUME NEW j \in 1 .. Len(s), NEW k \in trace[t][pos[t] + j - 1].needs
      PROVE  posted[k] # NotPosted /\ s[j] >= posted[k]
  <2> DEFINE q == pos[t] + j - 1
  <2>0. j \in 1 .. i - pos[t] + 1
    BY <1>1
  <2>1. q \in pos[t] .. i /\ q \in pos[t] .. Len(trace[t])
    <3> HIDE DEF s
    <3> QED
      BY <1>0, <2>0
  <2>2. posted[k] # NotPosted
    <3>1. trace[t][q].needs \subseteq Seen
      BY <2>1
    <3> QED
      BY <3>1 DEF Seen
  <2>3. start[t]
    <3>1. \A x \in pos[t] .. q - 1 : x \in pos[t] .. i - 1
      BY <1>0, <2>1
    <3>2. \A x \in pos[t] .. q - 1 : ~(trace[t][x].code \in Starters)
      BY <3>1
    <3>3. trace[t][q].needs # {}
      OBVIOUS
    <3> HIDE DEF q
    <3> QED
      BY <2>1, <3>2, <3>3, NeedsStarted
  <2> QED
    BY <2>0, <2>2, <2>3, TimesAfterPosts
<1> HIDE DEF s
<1> QED
  BY <1>1, <1>2, <1>3, ForwardCausality DEF s

LEMMA StartedKept ==
    ASSUME TypeInv, StartedPast, NEW t \in Traces, trace' = trace,
           \A u \in Traces \ {t} : pos'[u] = pos[u] /\ start'[u] = start[u],
           ~start'[t] => ~start[t] /\ \A j \in 1 .. pos'[t] - 1 :
               j < pos[t] \/ ~(trace[t][j].code \in Starters)
    PROVE  StartedPast'
<1>0. pos[t] \in Nat
  BY DEF TypeInv, TypeOK
<1>1. ASSUME ~start'[t], NEW j \in 1 .. pos'[t] - 1
      PROVE  NbTraces # 1 /\ ~(trace[t][j].code \in Starters)
  <2>1. NbTraces # 1 /\ \A x \in 1 .. pos[t] - 1 : ~(trace[t][x].code \in Starters)
    BY <1>1 DEF StartedPast
  <2>2. CASE j < pos[t]
    <3>1. j \in 1 .. pos[t] - 1
      BY <1>0, <2>2
    <3> QED
      BY <2>1, <3>1
  <2>3. CASE ~(j < pos[t])
    BY <1>1, <2>1, <2>3
  <2> QED
    BY <2>2, <2>3
<1>2. ~start'[t] => NbTraces # 1
  BY DEF StartedPast
<1>3. ASSUME NEW u \in Traces \ {t}, ~start'[u]
      PROVE  NbTraces # 1 /\ \A j \in 1 .. pos'[u] - 1 : ~(trace[u][j].code \in Starters)
  BY <1>3 DEF StartedPast
<1> QED
  BY <1>1, <1>2, <1>3 DEF StartedPast

LEMMA OneEventCausality ==
    ASSUME NeedsAfterStart, TypeInv, CInv, RequestsInReplay, StartedPast, Causality,
           NEW t \in Traces,
           HandlePlain(t) \/ HandlePost(t) \/ HandleNeed(t) \/ HandleSpawn(t)
    PROVE  Causality' /\ StartedPast'
<1>0. /\ pos[t] \in 1 .. Len(trace[t]) /\ Len(trace[t]) \in Nat
      /\ pos[t] \in Int /\ pos[t] - 1 <= pos[t] /\ pos[t] <= Len(trace[t])
  BY Inputs DEF TypeInv
<1>1. /\ ~done[t] /\ Emit(t, TimesUpTo(t, pos[t])) /\ StepForward(t, 1)
      /\ trace' = trace /\ start' = start /\ ~(Ev(t).code \in Starters)
  BY PickedNotDone DEF HandlePlain, HandlePost, HandleNeed, HandleSpawn, Turn, Starters
<1>2. \A k \in Keys : posted[k] # NotPosted => posted'[k] = posted[k]
  BY DEF HandlePlain, HandlePost, HandleNeed, HandleSpawn, Seen
<1>3. \A j \in pos[t] .. pos[t] : trace[t][j].needs \subseteq Seen
  <2>1. \A j \in pos[t] .. pos[t] : j = pos[t]
    BY <1>0
  <2> QED
    BY <2>1, PlainReady
<1>4. \A j \in pos[t] .. pos[t] - 1 : ~(trace[t][j].code \in Starters)
  BY <1>0
<1>5. Causality'
  BY <1>0, <1>1, <1>2, <1>3, <1>4, EmittedCausality
<1>6. StartedPast'
  <2>1. /\ pos'[t] = IF pos[t] + 1 <= Len(trace[t]) THEN pos[t] + 1 ELSE Len(trace[t])
        /\ \A u \in Traces \ {t} : pos'[u] = pos[u]
    BY <1>1, StepType DEF TypeInv
  <2>2. \A j \in 1 .. pos'[t] - 1 : j < pos[t] \/ ~(trace[t][j].code \in Starters)
    <3> SUFFICES ASSUME NEW j \in 1 .. pos'[t] - 1, ~(j < pos[t])
                 PROVE  ~(trace[t][j].code \in Starters)
      OBVIOUS
    <3>1. j = pos[t]
      BY <1>0, <2>1
    <3> QED
      BY <1>1, <3>1 DEF Ev
  <2> QED
    BY <1>1, <2>1, <2>2, StartedKept
<1> QED
  BY <1>5, <1>6

LEMMA WaitallCausality ==
    ASSUME NeedsAfterStart, TypeInv, CInv, StartedPast, Causality, NEW t \in Traces,
           HandleWaitall(t) \/ WaitallNotPosted(t)
    PROVE  Causality' /\ StartedPast'
<1>0. /\ pos[t] \in 1 .. Len(trace[t]) /\ Len(trace[t]) \in Nat
      /\ LastOf(t) \in pos[t] .. Len(trace[t])
      /\ \A j \in pos[t] + 1 .. LastOf(t) : trace[t][j].code = "info"
      /\ Ev(t).code \in {"waitall", "info"}
  BY WaitallRange, Inputs DEF HandleWaitall, WaitallNotPosted, TypeInv
<1>1. \A j \in pos[t] .. LastOf(t) : ~(trace[t][j].code \in Starters)
  <2> SUFFICES ASSUME NEW j \in pos[t] .. LastOf(t) PROVE trace[t][j].code \in {"waitall", "info"}
    BY DEF Starters
  <2>1. j = pos[t] \/ j \in pos[t] + 1 .. LastOf(t)
    BY <1>0
  <2> QED
    BY <1>0, <2>1 DEF Ev
<1>2. /\ ~done[t] /\ trace' = trace /\ start' = start
      /\ \A k \in Keys : posted[k] # NotPosted => posted'[k] = posted[k]
  BY PickedNotDone DEF HandleWaitall, WaitallNotPosted, Turn
<1>3. \E i \in pos[t] - 1 .. LastOf(t) :
          /\ Emit(t, TimesUpTo(t, i))
          /\ \A j \in pos[t] .. i : trace[t][j].needs \subseteq Seen
          /\ pos'[t] <= i + 1 /\ \A u \in Traces \ {t} : pos'[u] = pos[u]
  <2>1. CASE HandleWaitall(t)
    <3> DEFINE m == LastOf(t) - pos[t] + 1
    <3>1. Emit(t, TimesUpTo(t, LastOf(t))) /\ StepForward(t, m) /\ Blocked(t) = {}
      BY <2>1 DEF HandleWaitall
    <3>2. m \in Nat /\ pos[t] + m = LastOf(t) + 1 /\ LastOf(t) \in pos[t] - 1 .. LastOf(t)
      BY <1>0
    <3>3. /\ pos'[t] = IF pos[t] + m <= Len(trace[t]) THEN pos[t] + m ELSE Len(trace[t])
          /\ \A u \in Traces \ {t} : pos'[u] = pos[u]
      <4> HIDE DEF m
      <4> QED
        BY <3>1, <3>2, StepType DEF TypeInv
    <3>4. pos'[t] <= LastOf(t) + 1
      <4> HIDE DEF m
      <4> QED
        BY <1>0, <3>2, <3>3
    <3>5. \A j \in pos[t] .. LastOf(t) : trace[t][j].needs \subseteq Seen
      BY <3>1 DEF Blocked
    <3> QED
      BY <3>1, <3>2, <3>3, <3>4, <3>5
  <2>2. CASE WaitallNotPosted(t)
    <3>1. PICK b \in Blocked(t) : /\ \A c \in Blocked(t) : b <= c
                                  /\ pos' = [pos EXCEPT ![t] = b]
                                  /\ Emit(t, TimesUpTo(t, b - 1))
      BY <2>2 DEF WaitallNotPosted
    <3>2. b \in pos[t] .. LastOf(t)
      BY DEF Blocked
    <3>3. b - 1 \in pos[t] - 1 .. LastOf(t)
      BY <1>0, <3>2
    <3>4. ASSUME NEW j \in pos[t] .. b - 1 PROVE trace[t][j].needs \subseteq Seen
      <4>1. j \in pos[t] .. LastOf(t) /\ ~(b <= j)
        BY <1>0, <3>2
      <4> QED
        BY <3>1, <4>1 DEF Blocked
    <3>5. pos'[t] = b /\ \A u \in Traces \ {t} : pos'[u] = pos[u]
      BY <3>1 DEF TypeInv, TypeOK
    <3>6. pos'[t] <= b - 1 + 1
      BY <1>0, <3>2, <3>5
    <3> QED
      BY <3>1, <3>3, <3>4, <3>5, <3>6
  <2> QED
    BY <2>1, <2>2
<1>4. PICK i \in pos[t] - 1 .. LastOf(t) :
          /\ Emit(t, TimesUpTo(t, i))
          /\ \A j \in pos[t] .. i : trace[t][j].needs \subseteq Seen
          /\ pos'[t] <= i + 1 /\ \A u \in Traces \ {t} : pos'[u] = pos[u]
  BY <1>3
<1>5. i \in Int /\ pos[t] - 1 <= i /\ i <= Len(trace[t])
  BY <1>0
<1>6. \A j \in pos[t] .. i - 1 : ~(trace[t][j].code \in Starters)
  <2>1. \A j \in pos[t] .. i - 1 : j \in pos[t] .. LastOf(t)
    BY <1>0, <1>5
  <2> QED
    BY <1>1, <2>1
<1>7. Causality'
  BY <1>2, <1>4, <1>5, <1>6, EmittedCausality
<1>8. StartedPast'
  <2>1. pos'[t] \in Int
    BY NextTypeInv DEF TypeInv, TypeOK, Next, HandleOneEvent
  <2>2. \A j \in 1 .. pos'[t] - 1 : j < pos[t] \/ j \in pos[t] .. LastOf(t)
    BY <1>0, <1>4, <1>5, <2>1
  <2> QED
    BY <1>1, <1>2, <1>4, <2>2, StartedKept
<1> QED
  BY <1>7, <1>8

LEMMA StarterCausality ==
    ASSUME TypeInv, CInv, StartedPast, Causality, NEW t \in Traces,
           HandleInit(t) \/ HandleSpawned(t)
    PROVE  Causality' /\ StartedPast'
<1>0. pos[t] \in 1 .. Len(trace[t]) /\ Len(trace[t]) \in Nat
  BY Inputs DEF TypeInv
<1>1. /\ ~done[t] /\ trace' = trace /\ posted' = posted
      /\ start' = [start EXCEPT ![t] = TRUE]
  BY PickedNotDone DEF HandleInit, HandleSpawned, Turn
<1>2. \E i \in pos[t] .. Len(trace[t]) : \E s \in Seq(Int) :
          /\ Len(s) = i - pos[t] + 1 /\ Emit(t, s)
          /\ \A j \in pos[t] .. i : trace[t][j].needs = {}
  <2>1. CASE HandleInit(t)
    BY <2>1, InitEvents
  <2>2. CASE HandleSpawned(t)
    <3>1. pos[t] + 2 \in pos[t] .. Len(trace[t]) /\ (pos[t] + 2) - pos[t] + 1 = 3
      BY <1>0, <2>2, SpawnedEvents
    <3> QED
      BY <2>2, <3>1, SpawnedEvents
  <2> QED
    BY <2>1, <2>2
<1>3. PICK i \in pos[t] .. Len(trace[t]), s \in Seq(Int) :
          /\ Len(s) = i - pos[t] + 1 /\ Emit(t, s)
          /\ \A j \in pos[t] .. i : trace[t][j].needs = {}
  BY <1>2
<1>4. ASSUME NEW j \in 1 .. Len(s) PROVE trace[t][pos[t] + j - 1].needs = {}
  <2>1. pos[t] + j - 1 \in pos[t] .. i
    BY <1>0, <1>3
  <2> QED
    BY <1>3, <2>1
<1>5. pos[t] + Len(s) - 1 <= Len(trace[t])
  BY <1>0, <1>3
<1>6. Causality'
  BY <1>1, <1>3, <1>4, <1>5, ForwardCausality
<1>7. StartedPast'
  <2>1. start'[t] /\ \A u \in Traces \ {t} : start'[u] = start[u]
    BY <1>1, OtherTypes
  <2>2. \A u \in Traces \ {t} : pos'[u] = pos[u]
    BY StepType DEF HandleInit, HandleSpawned, TypeInv
  <2> QED
    BY <1>1, <2>1, <2>2, StartedKept
<1> QED
  BY <1>6, <1>7

LEMMA OthersCausality ==
    ASSUME TypeInv, StartedPast, Causality,
           NoTrace \/ Finish \/ UNCHANGED vars
           \/ \E t \in Traces : NeedNotPosted(t) \/ SpawnNotHandled(t)
    PROVE  Causality' /\ StartedPast'
<1>1. UNCHANGED <<trace, pos, out, posted>>
  BY DEF NoTrace, Finish, vars, NeedNotPosted, SpawnNotHandled, Defer
<1>2. \A u \in Traces : start[u] => start'[u]
  BY OtherTypes DEF NoTrace, Finish, vars, NeedNotPosted, SpawnNotHandled
<1> QED
  BY <1>1, <1>2 DEF Causality, StartedPast

LEMMA NextCausality ==
    ASSUME NeedsAfterStart, TypeInv, CInv, RequestsInReplay, StartedPast, Causality, [Next]_vars
    PROVE  Causality' /\ StartedPast'
<1>1. ASSUME NEW t \in Traces, HandleOneEvent(t) PROVE Causality' /\ StartedPast'
  BY <1>1, OneEventCausality, WaitallCausality, StarterCausality, OthersCausality
  DEF HandleOneEvent
<1>2. CASE NoTrace \/ Finish \/ Terminated \/ UNCHANGED vars
  BY <1>2, OthersCausality DEF Terminated
<1> QED
  BY <1>1, <1>2 DEF Next

(* In the output nothing ends before what it waited for began, whatever    *)
(* the clocks of the processes: add_delay_to_trace moves the end and all   *)
(* that follows it in its trace by what is missing.                        *)
THEOREM CausalityHolds ==
    ASSUME EveryTraceStarts, NeedsAfterStart
    PROVE  Spec => []Causality
<1>1. Init => TypeInv /\ CInv /\ RequestsInReplay /\ StartedPast /\ Causality
  BY InitTypeInv, InitCInv, InitRequests, InitCausality
<1>2. TypeInv /\ CInv /\ RequestsInReplay /\ StartedPast /\ Causality /\ [Next]_vars
          => (TypeInv /\ CInv /\ RequestsInReplay /\ StartedPast /\ Causality)'
  BY NextTypeInv, NextCInv, NextMerges, NextCausality
<1> QED
  BY <1>1, <1>2, PTL DEF Spec

-----------------------------------------------------------------------------
(* The times of a trace never go back, provided that its clock is reset    *)
(* once, by MPI_Init or by the event of a spawned process and MPI_Init,    *)
(* with which a trace that is alone begins: what precedes it in that trace *)
(* is drawn with the first clock.                                          *)
StartsOnce ==
    \A w \in Workloads : \A t \in Traces :
        /\ \A i, j \in DOMAIN w[t] :
              i < j /\ w[t][i].code \in Starters /\ w[t][j].code \in Starters =>
                  w[t][i].code = "spawned" /\ j = i + 1
        /\ NbTraces = 1 =>
              \A i \in DOMAIN w[t] : w[t][i].code \in Starters => w[t][1].code \in Starters

\* The event that starts the trace is not handled yet.
StarterLeft(t) == ~done[t] /\ \E i \in pos[t] .. Len(trace[t]) : trace[t][i].code \in Starters

\* The time of the last event handled, with the delay that the next ones inherit.
LastTime(t) == trace[t][Len(out[t])].time - startTime[t] + delay[t]

AllHidden(t) == \A i \in DOMAIN out[t] : out[t][i] = NotShown

Bounded == \A t \in Traces : \A i \in DOMAIN out[t] : out[t][i] # NotShown => out[t][i] <= LastTime(t)

(* Until its MPI_Init nothing of a trace is drawn; if it counts as started *)
(* before (SpawnNotHandled), it is at the event that starts it.            *)
Hidden ==
    \A t \in Traces : StarterLeft(t) => AllHidden(t) /\ (start[t] => Ev(t).code \in Starters)

OrderInv == TimesOrdered /\ Bounded /\ Hidden

LEMMA InitOrder == StartsOnce /\ Init => OrderInv
<1> SUFFICES ASSUME StartsOnce, Init PROVE OrderInv
  OBVIOUS
<1>1. TimesOrdered /\ Bounded
  BY DEF Init, TimesOrdered, Bounded
<1>2. Hidden
  <2>1. \A t \in Traces : AllHidden(t)
    BY DEF Init, AllHidden
  <2>2. \A t \in Traces : StarterLeft(t) /\ start[t] => Ev(t).code \in Starters
    <3> SUFFICES ASSUME NEW t \in Traces, StarterLeft(t), start[t] PROVE Ev(t).code \in Starters
      OBVIOUS
    <3>1. NbTraces = 1 /\ pos[t] = 1 /\ trace \in Workloads
      BY DEF Init
    <3>2. PICK i \in 1 .. Len(trace[t]) : trace[t][i].code \in Starters
      BY <3>1 DEF StarterLeft
    <3>3. DOMAIN trace[t] = 1 .. Len(trace[t])
      BY <3>1, WorkloadsAssumption
    <3> QED
      BY <3>1, <3>2, <3>3 DEF StartsOnce, Ev
  <2> QED
    BY <2>1, <2>2 DEF Hidden
<1> QED
  BY <1>1, <1>2 DEF OrderInv

(* A trace t gives the times s to its next events.                         *)
LEMMA ForwardOrder ==
    ASSUME TypeInv, CInv, OrderInv, NEW t \in Traces, NEW s \in Seq(Int), Emit(t, s), trace' = trace,
           \A u \in Traces \ {t} : startTime'[u] = startTime[u] /\ delay'[u] = delay[u],
           \A i \in DOMAIN out[t] : out[t][i] # NotShown =>
               out[t][i] <= LastTime(t)' /\ \A j \in 1 .. Len(s) : out[t][i] <= s[j],
           \A j \in 1 .. Len(s) : s[j] # NotShown =>
               s[j] <= LastTime(t)' /\ \A k \in 1 .. Len(s) : j < k => s[j] <= s[k]
    PROVE  TimesOrdered' /\ Bounded'
<1> DEFINE n == Len(out[t])
           m == Len(s)
<1>1. \A u \in Traces \ {t} : out'[u] = out[u]
  BY EmitType DEF TypeInv
<1>2. out[t] \in Seq(Int) /\ out'[t] = out[t] \o s /\ n \in Nat /\ m \in Nat
  BY DEF Emit, TypeInv, TypeOK
<1>3. /\ DOMAIN out'[t] = 1 .. n + m /\ DOMAIN out[t] = 1 .. n
      /\ \A i \in 1 .. n : out'[t][i] = out[t][i]
      /\ \A i \in 1 .. n + m : ~(i \in 1 .. n) => i - n \in 1 .. m /\ out'[t][i] = s[i - n]
  BY <1>2
<1> HIDE DEF n, m
<1>4. ASSUME NEW i \in 1 .. n + m, NEW j \in 1 .. n + m, i < j, out'[t][i] # NotShown
      PROVE  out'[t][i] <= out'[t][j]
  <2>1. CASE j \in 1 .. n
    <3>1. i \in 1 .. n
      BY <1>2, <1>4, <2>1
    <3>2. out[t][i] <= out[t][j]
      BY <1>3, <1>4, <2>1, <3>1 DEF OrderInv, TimesOrdered
    <3> QED
      BY <1>3, <2>1, <3>1, <3>2
  <2>2. CASE i \in 1 .. n /\ ~(j \in 1 .. n)
    BY <1>3, <1>4, <2>2 DEF m
  <2>3. CASE ~(i \in 1 .. n) /\ ~(j \in 1 .. n)
    <3>1. i - n \in 1 .. m /\ j - n \in 1 .. m /\ i - n < j - n
      BY <1>2, <1>3, <1>4, <2>3
    <3>2. out'[t][i] = s[i - n] /\ out'[t][j] = s[j - n]
      BY <1>3, <2>3
    <3> QED
      BY <1>4, <3>1, <3>2 DEF m
  <2> QED
    BY <2>1, <2>2, <2>3
<1>5. ASSUME NEW i \in 1 .. n + m, out'[t][i] # NotShown
      PROVE  out'[t][i] <= LastTime(t)'
  <2>1. CASE i \in 1 .. n
    BY <1>3, <1>5, <2>1
  <2>2. CASE ~(i \in 1 .. n)
    BY <1>3, <1>5, <2>2 DEF m
  <2> QED
    BY <2>1, <2>2
<1>6. ASSUME NEW u \in Traces \ {t}
      PROVE  /\ \A i, j \in DOMAIN out'[u] : i < j /\ out'[u][i] # NotShown => out'[u][i] <= out'[u][j]
             /\ \A i \in DOMAIN out'[u] : out'[u][i] # NotShown => out'[u][i] <= LastTime(u)'
  BY <1>1 DEF OrderInv, TimesOrdered, Bounded, LastTime
<1>7. TimesOrdered'
  BY <1>3, <1>4, <1>6 DEF TimesOrdered
<1>8. Bounded'
  BY <1>3, <1>5, <1>6 DEF Bounded
<1> QED
  BY <1>7, <1>8

(* The delays grow along the events of a handler.                          *)
LEMMA DelaysGrow ==
    ASSUME TypeInv, NEW t \in Traces, NEW i \in Int, NEW j \in Int, i <= j, j <= Len(trace[t])
    PROVE  DelayUpTo(t, i) <= DelayUpTo(t, j) /\ delay[t] <= DelayUpTo(t, i)
<1>0. Len(trace[t]) \in Nat /\ pos[t] \in Nat
  BY Inputs DEF TypeInv
<1>1. i <= Len(trace[t])
  BY <1>0
<1>2. \A x \in pos[t] .. i : x \in pos[t] .. j
  BY <1>0
<1>3. DelaysUpTo(t, i) \subseteq DelaysUpTo(t, j)
  BY <1>2 DEF DelaysUpTo
<1>4. delay[t] \in DelaysUpTo(t, i)
  BY DEF DelaysUpTo
<1> QED
  BY <1>1, <1>3, <1>4, DelayType

LEMMA LaterTime ==
    ASSUME NEW a \in Nat, NEW b \in Nat, NEW z \in Nat, NEW d \in Nat, NEW e \in Nat, a <= b, d <= e
    PROVE  a - z + d <= b - z + e /\ a - z + d \in Int /\ b - z + e \in Int
  OBVIOUS

(* The times of the events from the current one to i increase.             *)
LEMMA TimesGrow ==
    ASSUME TypeInv, NEW t \in Traces, start[t], NEW i \in Int, i <= Len(trace[t]),
           NEW j \in 1 .. i - pos[t] + 1
    PROVE  /\ TimesUpTo(t, i)[j] \in Int
           /\ CurTime(t) <= TimesUpTo(t, i)[j]
           /\ TimesUpTo(t, i)[j] <= trace[t][i].time - startTime[t] + DelayUpTo(t, i)
           /\ \A k \in 1 .. i - pos[t] + 1 : j < k => TimesUpTo(t, i)[j] <= TimesUpTo(t, i)[k]
<1> DEFINE p(x) == pos[t] + x - 1
           T(x) == trace[t][p(x)].time - startTime[t] + DelayUpTo(t, p(x))
<1>0. /\ pos[t] \in 1 .. Len(trace[t]) /\ Len(trace[t]) \in Nat
      /\ startTime[t] \in Nat /\ delay[t] \in Nat
  BY Inputs, OtherTypes DEF TypeInv
<1>1. \A x \in 1 .. i - pos[t] + 1 : p(x) \in pos[t] .. i /\ p(x) \in 1 .. Len(trace[t])
  BY <1>0
<1>2. \A x \in 1 .. i - pos[t] + 1 : TimesUpTo(t, i)[x] = T(x)
  BY DEF TimesUpTo, RelTime
<1>3. \A x \in 1 .. Len(trace[t]) : trace[t][x].time \in Nat /\ DelayUpTo(t, x) \in Nat
  BY <1>0, Fields, DelayType DEF TypeInv
<1>4. ASSUME NEW x \in pos[t] .. Len(trace[t]), NEW y \in pos[t] .. Len(trace[t]), x <= y
      PROVE  trace[t][x].time <= trace[t][y].time /\ DelayUpTo(t, x) <= DelayUpTo(t, y)
  <2>1. x \in 1 .. Len(trace[t]) /\ y \in 1 .. Len(trace[t]) /\ y <= Len(trace[t])
    BY <1>0
  <2> QED
    BY <1>4, <2>1, TimesIncrease, DelaysGrow DEF TypeInv
<1>5. pos[t] <= p(j) /\ p(j) <= i /\ p(j) \in pos[t] .. Len(trace[t]) /\ i \in pos[t] .. Len(trace[t])
  BY <1>0, <1>1
<1>6. i \in 1 .. Len(trace[t])
  BY <1>0, <1>5
<1>7. T(j) \in Int
  <2>1. trace[t][p(j)].time \in Nat /\ DelayUpTo(t, p(j)) \in Nat
    BY <1>1, <1>3
  <2> QED
    BY <1>0, <2>1
<1>8. T(j) <= trace[t][i].time - startTime[t] + DelayUpTo(t, i)
  <2> DEFINE q == p(j)
  <2>1. trace[t][q].time \in Nat /\ DelayUpTo(t, q) \in Nat
    BY <1>1, <1>3
  <2>2. trace[t][i].time \in Nat /\ DelayUpTo(t, i) \in Nat
    BY <1>3, <1>6
  <2>3. trace[t][q].time <= trace[t][i].time /\ DelayUpTo(t, q) <= DelayUpTo(t, i)
    BY <1>4, <1>5
  <2> HIDE DEF q
  <2>4. trace[t][q].time - startTime[t] + DelayUpTo(t, q) <= trace[t][i].time - startTime[t] + DelayUpTo(t, i)
    BY <1>0, <2>1, <2>2, <2>3, LaterTime
  <2> QED
    BY <2>4 DEF q
<1>9. CurTime(t) <= T(j)
  <2> DEFINE q == p(j)
  <2>1. trace[t][q].time \in Nat /\ DelayUpTo(t, q) \in Nat
    BY <1>1, <1>3
  <2>2. trace[t][pos[t]].time \in Nat
    BY <1>0, <1>3
  <2>3. trace[t][pos[t]].time <= trace[t][q].time
    <3>1. pos[t] \in pos[t] .. Len(trace[t]) /\ q \in pos[t] .. Len(trace[t]) /\ pos[t] <= q
      BY <1>0, <1>5
    <3> HIDE DEF q
    <3> QED
      BY <1>4, <3>1
  <2>4. delay[t] <= DelayUpTo(t, q)
    BY <1>0, <1>1, DelaysGrow
  <2> HIDE DEF q
  <2>5. trace[t][pos[t]].time - startTime[t] + delay[t] <= trace[t][q].time - startTime[t] + DelayUpTo(t, q)
    BY <1>0, <2>1, <2>2, <2>3, <2>4, LaterTime
  <2> QED
    BY <2>5 DEF q, CurTime, RelTime
<1>10. ASSUME NEW k \in 1 .. i - pos[t] + 1, j < k PROVE T(j) <= T(k)
  <2> DEFINE q == p(j)
             r == p(k)
  <2>1. trace[t][q].time \in Nat /\ DelayUpTo(t, q) \in Nat /\ trace[t][r].time \in Nat /\ DelayUpTo(t, r) \in Nat
    BY <1>1, <1>3
  <2>2. q <= r /\ q \in pos[t] .. Len(trace[t]) /\ r \in pos[t] .. Len(trace[t])
    BY <1>0, <1>10
  <2> HIDE DEF q, r
  <2>3. trace[t][q].time <= trace[t][r].time /\ DelayUpTo(t, q) <= DelayUpTo(t, r)
    BY <1>4, <2>2
  <2>4. trace[t][q].time - startTime[t] + DelayUpTo(t, q) <= trace[t][r].time - startTime[t] + DelayUpTo(t, r)
    BY <1>0, <2>1, <2>3, LaterTime
  <2> QED
    BY <2>4 DEF q, r
<1> HIDE DEF T, p
<1> QED
  BY <1>2, <1>7, <1>8, <1>9, <1>10

(* Steps that leave the current event of the other traces.                 *)
LEMMA HiddenElsewhere ==
    ASSUME Hidden, NEW t \in Traces, trace' = trace,
           \A u \in Traces \ {t} : /\ pos'[u] = pos[u] /\ done'[u] = done[u]
                                   /\ start'[u] = start[u] /\ out'[u] = out[u],
           StarterLeft(t)' => AllHidden(t)' /\ (start'[t] => Ev(t)'.code \in Starters)
    PROVE  Hidden'
<1>1. \A u \in Traces \ {t} : StarterLeft(u)' => AllHidden(u)' /\ (start'[u] => Ev(u)'.code \in Starters)
  BY DEF Hidden, StarterLeft, AllHidden, Ev
<1> QED
  BY <1>1 DEF Hidden

LEMMA HiddenAppend ==
    ASSUME NEW r \in Seq(Int), NEW s \in Seq(Int),
           \A x \in 1 .. Len(r) : r[x] = NotShown, \A x \in 1 .. Len(s) : s[x] = NotShown
    PROVE  \A x \in DOMAIN (r \o s) : (r \o s)[x] = NotShown
<1> SUFFICES ASSUME NEW x \in 1 .. Len(r) + Len(s) PROVE (r \o s)[x] = NotShown
  OBVIOUS
<1>1. CASE x <= Len(r)
  BY <1>1
<1>2. CASE ~(x <= Len(r))
  <2>1. x - Len(r) \in 1 .. Len(s) /\ (r \o s)[x] = s[x - Len(r)]
    BY <1>2
  <2> QED
    BY <2>1
<1> QED
  BY <1>1, <1>2

(* A handler gives its times to the events up to i, none of which starts   *)
(* the trace.                                                              *)
LEMMA EmittedOrder ==
    ASSUME TypeInv, CInv, OrderInv, NEW t \in Traces, ~done[t],
           NEW i \in Int, pos[t] - 1 <= i, i <= Len(trace[t]),
           Emit(t, TimesUpTo(t, i)), UNCHANGED <<trace, start, startTime>>,
           delay' = [delay EXCEPT ![t] = DelayUpTo(t, i)],
           ~(Ev(t).code \in Starters), pos'[t] \in Int, pos[t] <= pos'[t],
           \A u \in Traces \ {t} : pos'[u] = pos[u] /\ done'[u] = done[u]
    PROVE  OrderInv'
<1> DEFINE s == TimesUpTo(t, i)
<1>0. /\ pos[t] \in 1 .. Len(trace[t]) /\ Len(trace[t]) \in Nat
      /\ startTime[t] \in Nat /\ delay[t] \in Nat
  BY Inputs, OtherTypes DEF TypeInv
<1>1. s \in Seq(Int) /\ Len(s) = i - pos[t] + 1
  BY TimesType
<1>2. /\ delay'[t] = DelayUpTo(t, i)
      /\ \A u \in Traces \ {t} : startTime'[u] = startTime[u] /\ delay'[u] = delay[u]
  BY OtherTypes
<1>3. Len(out[t]) = pos[t] - 1
  BY <1>0, EndOfOutput
<1>4. ~start[t] => AllHidden(t)
  <2>1. ~start[t] => StarterLeft(t)
    BY DEF CInv, StarterAhead, StarterLeft
  <2> QED
    BY <2>1 DEF OrderInv, Hidden
<1>5. ~start[t] => \A j \in 1 .. Len(s) : s[j] = NotShown
  BY <1>1 DEF TimesUpTo
<1>6. /\ Len(out'[t]) = Len(out[t]) + Len(s) /\ out'[t] = out[t] \o s
      /\ \A u \in Traces \ {t} : out'[u] = out[u]
  <2>1. /\ Len(out'[t]) = Len(out[t]) + Len(s)
        /\ \A u \in Traces \ {t} : out'[u] = out[u]
    BY <1>1, EmitType DEF TypeInv
  <2>2. out'[t] = out[t] \o s
    BY DEF Emit, TypeInv, TypeOK
  <2> QED
    BY <2>1, <2>2
<1> HIDE DEF s
<1>7. Len(out'[t]) = i
  BY <1>0, <1>1, <1>3, <1>6
<1>8. LastTime(t)' = trace[t][i].time - startTime[t] + DelayUpTo(t, i)
  BY <1>2, <1>7 DEF LastTime
<1>9. TimesOrdered' /\ Bounded'
  <2>1. CASE ~start[t]
    BY <1>1, <1>2, <1>4, <1>5, <2>1, ForwardOrder DEF AllHidden, s
  <2>2. CASE start[t]
    <3>1. ASSUME NEW a \in DOMAIN out[t], out[t][a] # NotShown
          PROVE  out[t][a] <= LastTime(t)' /\ \A j \in 1 .. Len(s) : out[t][a] <= s[j]
      <4>0. out[t] \in Seq(Int) /\ out[t][a] \in Int /\ a \in 1 .. Len(out[t])
        BY DEF TypeInv, TypeOK
      <4>1. pos[t] - 1 \in 1 .. Len(trace[t]) /\ i \in 1 .. Len(trace[t])
        BY <1>0, <1>3, <4>0
      <4>2. /\ trace[t][pos[t] - 1].time \in Nat /\ trace[t][i].time \in Nat /\ Ev(t).time \in Nat
            /\ trace[t][pos[t] - 1].time <= trace[t][i].time
            /\ trace[t][pos[t] - 1].time <= Ev(t).time
        BY <1>0, <4>1, Fields, TimesIncrease DEF TypeInv, Ev
      <4>3. out[t][a] <= trace[t][pos[t] - 1].time - startTime[t] + delay[t]
        BY <1>3, <3>1 DEF OrderInv, Bounded, LastTime
      <4>4. DelayUpTo(t, i) \in Nat /\ delay[t] <= DelayUpTo(t, i)
        BY DelayType, DelaysGrow
      <4>5. trace[t][pos[t] - 1].time - startTime[t] + delay[t] <= trace[t][i].time - startTime[t] + DelayUpTo(t, i)
        BY <1>0, <4>2, <4>4, LaterTime
      <4>6. /\ trace[t][pos[t] - 1].time - startTime[t] + delay[t] <= CurTime(t)
            /\ trace[t][pos[t] - 1].time - startTime[t] + delay[t] \in Int
        <5>1. /\ trace[t][pos[t] - 1].time - startTime[t] + delay[t] <= Ev(t).time - startTime[t] + delay[t]
              /\ trace[t][pos[t] - 1].time - startTime[t] + delay[t] \in Int
          <6> DEFINE a1 == trace[t][pos[t] - 1].time
                     b1 == Ev(t).time
          <6>1. a1 \in Nat /\ b1 \in Nat /\ a1 <= b1
            BY <4>2
          <6>2. delay[t] <= delay[t]
            BY <1>0
          <6> HIDE DEF a1, b1
          <6>3. a1 - startTime[t] + delay[t] <= b1 - startTime[t] + delay[t] /\ a1 - startTime[t] + delay[t] \in Int
            BY <1>0, <6>1, <6>2
          <6> QED
            BY <6>3 DEF a1, b1
        <5> QED
          BY <5>1 DEF CurTime, RelTime, Ev
      <4>7. ASSUME NEW x \in Int, NEW y \in Int, NEW z \in Int, x <= y, y <= z PROVE x <= z
        BY <4>7
      <4>8. \A j \in 1 .. Len(s) : out[t][a] <= s[j]
        <5> SUFFICES ASSUME NEW j \in 1 .. Len(s) PROVE out[t][a] <= s[j]
          OBVIOUS
        <5>1. CurTime(t) <= s[j] /\ s[j] \in Int
          BY <1>1, <2>2, TimesGrow DEF s
        <5>2. CurTime(t) \in Int
          BY CurTimeType
        <5> QED
          BY <4>0, <4>3, <4>6, <4>7, <5>1, <5>2
      <4>9. out[t][a] <= LastTime(t)'
        <5>1. /\ trace[t][pos[t] - 1].time - startTime[t] + delay[t] \in Int
              /\ trace[t][i].time - startTime[t] + DelayUpTo(t, i) \in Int
          BY <1>0, <4>2, <4>4, LaterTime
        <5> QED
          BY <1>8, <4>0, <4>3, <4>5, <4>7, <5>1
      <4> QED
        BY <4>8, <4>9
    <3>2. ASSUME NEW j \in 1 .. Len(s)
          PROVE  s[j] <= LastTime(t)' /\ \A k \in 1 .. Len(s) : j < k => s[j] <= s[k]
      BY <1>1, <1>8, <2>2, TimesGrow DEF s
    <3> QED
      BY <1>1, <1>2, <3>1, <3>2, ForwardOrder DEF s
  <2> QED
    BY <2>1, <2>2
<1>10. Hidden'
  <2>1. ASSUME StarterLeft(t)' PROVE AllHidden(t)' /\ ~start[t]
    <3>1. \E x \in pos'[t] .. Len(trace[t]) : trace[t][x].code \in Starters
      BY <2>1 DEF StarterLeft
    <3>2. \A x \in pos'[t] .. Len(trace[t]) : x \in pos[t] .. Len(trace[t])
      BY <1>0
    <3>3. StarterLeft(t)
      BY <3>1, <3>2 DEF StarterLeft
    <3>4. AllHidden(t) /\ ~start[t]
      BY <3>3 DEF OrderInv, Hidden
    <3>5. \A x \in DOMAIN out'[t] : out'[t][x] = NotShown
      <4>1. out[t] \in Seq(Int)
        BY DEF TypeInv, TypeOK
      <4>2. \A x \in 1 .. Len(out[t]) : out[t][x] = NotShown
        BY <3>4, <4>1 DEF AllHidden
      <4>3. \A j \in 1 .. Len(s) : s[j] = NotShown
        BY <1>5, <3>4
      <4>4. \A x \in DOMAIN (out[t] \o s) : (out[t] \o s)[x] = NotShown
        BY <1>1, <4>1, <4>2, <4>3, HiddenAppend
      <4>5. out'[t] = out[t] \o s
        BY <1>6
      <4> QED
        BY <4>4, <4>5
    <3> QED
      BY <3>4, <3>5 DEF AllHidden
  <2> QED
    BY <1>6, <2>1, HiddenElsewhere DEF OrderInv
<1> QED
  BY <1>9, <1>10 DEF OrderInv

(* An event handled alone, other than the end of a receive or of a         *)
(* collective, adds no delay.                                              *)
LEMMA NothingToAdd ==
    ASSUME TypeInv, CInv, RequestsInReplay, NEW t \in Traces,
           HandlePlain(t) \/ HandlePost(t) \/ HandleSpawn(t)
    PROVE  DelayUpTo(t, pos[t]) = delay[t]
<1>0. pos[t] \in 1 .. Len(trace[t]) /\ Len(trace[t]) \in Nat /\ pos[t] \in Int /\ pos[t] <= Len(trace[t])
  BY Inputs DEF TypeInv
<1>1. trace[t][pos[t]].needs = {}
  <2>1. CASE HandlePlain(t)
    <3>1. Clear(t, pos[t])
      BY <2>1, PickedNotDone DEF RequestsInReplay, HandlePlain, Turn
    <3> QED
      BY <1>0, <2>1, <3>1, ClearInfo, NothingNeeded DEF HandlePlain, TypeInv, Ev
  <2>2. CASE HandleSpawn(t) \/ HandlePost(t)
    BY <1>0, <2>2, NothingNeeded DEF HandleSpawn, HandlePost, TypeInv, Ev
  <2> QED
    BY <2>1, <2>2
<1>2. pos[t] .. pos[t] = {pos[t]}
  BY <1>0
<1>3. DelaysUpTo(t, pos[t]) = {delay[t]}
  BY <1>1, <1>2 DEF DelaysUpTo
<1>4. DelayUpTo(t, pos[t]) \in DelaysUpTo(t, pos[t])
  BY <1>0, DelayType
<1> QED
  BY <1>3, <1>4

LEMMA OneEventOrder ==
    ASSUME TypeInv, CInv, RequestsInReplay, OrderInv, NEW t \in Traces,
           HandlePlain(t) \/ HandlePost(t) \/ HandleNeed(t) \/ HandleSpawn(t)
    PROVE  OrderInv'
<1>0. /\ pos[t] \in 1 .. Len(trace[t]) /\ Len(trace[t]) \in Nat
      /\ pos[t] \in Int /\ pos[t] - 1 <= pos[t] /\ pos[t] <= Len(trace[t])
  BY Inputs DEF TypeInv
<1>1. /\ ~done[t] /\ Emit(t, TimesUpTo(t, pos[t])) /\ StepForward(t, 1)
      /\ UNCHANGED <<trace, start, startTime>> /\ ~(Ev(t).code \in Starters)
  BY PickedNotDone DEF HandlePlain, HandlePost, HandleNeed, HandleSpawn, Turn, Starters
<1>2. delay' = [delay EXCEPT ![t] = DelayUpTo(t, pos[t])]
  <2>1. CASE HandleNeed(t)
    BY <2>1 DEF HandleNeed
  <2>2. CASE HandlePlain(t) \/ HandlePost(t) \/ HandleSpawn(t)
    <3>1. DelayUpTo(t, pos[t]) = delay[t] /\ delay' = delay
      BY <2>2, NothingToAdd DEF HandlePlain, HandlePost, HandleSpawn
    <3>2. delay \in [Traces -> Nat]
      BY OtherTypes
    <3> QED
      BY <3>1, <3>2
  <2> QED
    BY <2>1, <2>2
<1>3. /\ pos'[t] = IF pos[t] + 1 <= Len(trace[t]) THEN pos[t] + 1 ELSE Len(trace[t])
      /\ \A u \in Traces \ {t} : pos'[u] = pos[u] /\ done'[u] = done[u]
  BY <1>1, StepType DEF TypeInv
<1>4. pos'[t] \in Int /\ pos[t] <= pos'[t]
  BY <1>0, <1>3
<1> QED
  BY <1>0, <1>1, <1>2, <1>3, <1>4, EmittedOrder

LEMMA WaitallOrder ==
    ASSUME TypeInv, CInv, OrderInv, NEW t \in Traces, HandleWaitall(t) \/ WaitallNotPosted(t)
    PROVE  OrderInv'
<1>0. /\ pos[t] \in 1 .. Len(trace[t]) /\ Len(trace[t]) \in Nat
      /\ LastOf(t) \in pos[t] .. Len(trace[t])
      /\ Ev(t).code \in {"waitall", "info"}
  BY WaitallRange, Inputs DEF HandleWaitall, WaitallNotPosted, TypeInv
<1>1. /\ ~done[t] /\ UNCHANGED <<trace, start, startTime>> /\ ~(Ev(t).code \in Starters)
  BY <1>0, PickedNotDone DEF HandleWaitall, WaitallNotPosted, Turn, Starters
<1>2. CASE HandleWaitall(t)
  <2> DEFINE m == LastOf(t) - pos[t] + 1
  <2>1. /\ Emit(t, TimesUpTo(t, LastOf(t))) /\ StepForward(t, m)
        /\ delay' = [delay EXCEPT ![t] = DelayUpTo(t, LastOf(t))]
    BY <1>2 DEF HandleWaitall
  <2>2. m \in Nat
    BY <1>0
  <2>3. /\ pos'[t] = IF pos[t] + m <= Len(trace[t]) THEN pos[t] + m ELSE Len(trace[t])
        /\ \A u \in Traces \ {t} : pos'[u] = pos[u] /\ done'[u] = done[u]
    <3> HIDE DEF m
    <3> QED
      BY <2>1, <2>2, StepType DEF TypeInv
  <2>4. pos'[t] \in Int /\ pos[t] <= pos'[t]
    <3> HIDE DEF m
    <3> QED
      BY <1>0, <2>2, <2>3
  <2>5. LastOf(t) \in Int /\ pos[t] - 1 <= LastOf(t) /\ LastOf(t) <= Len(trace[t])
    BY <1>0
  <2> QED
    BY <1>1, <2>1, <2>3, <2>4, <2>5, EmittedOrder
<1>3. CASE WaitallNotPosted(t)
  <2>1. PICK b \in Blocked(t) : /\ pos' = [pos EXCEPT ![t] = b]
                                /\ delay' = [delay EXCEPT ![t] = DelayUpTo(t, b - 1)]
                                /\ Emit(t, TimesUpTo(t, b - 1))
    BY <1>3 DEF WaitallNotPosted
  <2>2. b \in pos[t] .. LastOf(t)
    BY DEF Blocked
  <2>3. pos'[t] = b /\ (\A u \in Traces \ {t} : pos'[u] = pos[u]) /\ done' = done
    BY <1>3, <2>1 DEF TypeInv, TypeOK, WaitallNotPosted, Defer
  <2>4. b - 1 \in Int /\ pos[t] - 1 <= b - 1 /\ b - 1 <= Len(trace[t])
    BY <1>0, <2>2
  <2>5. pos'[t] \in Int /\ pos[t] <= pos'[t]
    BY <1>0, <2>2, <2>3
  <2> QED
    BY <1>1, <2>1, <2>3, <2>4, <2>5, EmittedOrder
<1> QED
  BY <1>2, <1>3

(* The events that are deferred, and the steps that end the conversion,    *)
(* draw nothing; a spawned process that waits for its spawn counts as      *)
(* started and its clock is reset, but nothing of it is drawn yet.         *)
LEMMA OthersOrder ==
    ASSUME TypeInv, CInv, OrderInv,
           NoTrace \/ Finish \/ UNCHANGED vars
           \/ \E t \in Traces : NeedNotPosted(t) \/ SpawnNotHandled(t)
    PROVE  OrderInv'
<1>1. UNCHANGED <<trace, pos, out, delay, done>>
  BY DEF NoTrace, Finish, vars, NeedNotPosted, SpawnNotHandled, Defer
<1>2. ASSUME NEW u \in Traces,
             ~(startTime'[u] = startTime[u] /\ (start'[u] = start[u]))
      PROVE  AllHidden(u) /\ Ev(u).code \in Starters
  <2>1. PICK t \in Traces : SpawnNotHandled(t)
    BY <1>2, OtherTypes DEF NoTrace, Finish, vars, NeedNotPosted
  <2>2. u = t
    BY <1>2, <2>1, OtherTypes DEF SpawnNotHandled
  <2>3. Ev(u).code \in Starters /\ ~done[u]
    BY <2>1, <2>2, PickedNotDone DEF SpawnNotHandled, Starters, Turn
  <2>4. pos[u] \in pos[u] .. Len(trace[u])
    <3>1. pos[u] \in 1 .. Len(trace[u]) /\ Len(trace[u]) \in Nat
      BY Inputs DEF TypeInv
    <3> QED
      BY <3>1
  <2>5. StarterLeft(u)
    BY <2>3, <2>4 DEF StarterLeft, Ev
  <2> QED
    BY <2>3, <2>5 DEF OrderInv, Hidden
<1>3. TimesOrdered'
  BY <1>1 DEF OrderInv, TimesOrdered
<1>4. Bounded'
  <2> SUFFICES ASSUME NEW u \in Traces, NEW i \in DOMAIN out[u], out[u][i] # NotShown
               PROVE  out[u][i] <= LastTime(u)'
    BY <1>1 DEF Bounded
  <2>1. startTime'[u] = startTime[u]
    BY <1>2 DEF AllHidden
  <2>2. LastTime(u)' = LastTime(u)
    BY <1>1, <2>1 DEF LastTime
  <2> QED
    BY <2>2 DEF OrderInv, Bounded
<1>5. Hidden'
  <2> SUFFICES ASSUME NEW u \in Traces, StarterLeft(u)'
               PROVE  AllHidden(u)' /\ (start'[u] => Ev(u)'.code \in Starters)
    BY DEF Hidden
  <2>1. StarterLeft(u) /\ AllHidden(u)' = AllHidden(u) /\ Ev(u)' = Ev(u)
    BY <1>1 DEF StarterLeft, AllHidden, Ev
  <2> QED
    BY <1>2, <2>1 DEF OrderInv, Hidden
<1> QED
  BY <1>3, <1>4, <1>5 DEF OrderInv

(* The event that starts a trace, after which nothing starts it again.     *)
LEMMA StarterForward ==
    ASSUME TypeInv, CInv, OrderInv, NEW t \in Traces, ~done[t], Ev(t).code \in Starters,
           NEW s \in Seq(Int), Emit(t, s), trace' = trace, ~StarterLeft(t)',
           \A u \in Traces \ {t} : /\ pos'[u] = pos[u] /\ done'[u] = done[u]
                                   /\ start'[u] = start[u] /\ startTime'[u] = startTime[u]
                                   /\ delay'[u] = delay[u],
           \A j \in 1 .. Len(s) :
               s[j] <= LastTime(t)' /\ \A k \in 1 .. Len(s) : j < k => s[j] <= s[k]
    PROVE  OrderInv'
<1>1. AllHidden(t)
  <2>1. pos[t] \in pos[t] .. Len(trace[t])
    <3>1. pos[t] \in 1 .. Len(trace[t]) /\ Len(trace[t]) \in Nat
      BY Inputs DEF TypeInv
    <3> QED
      BY <3>1
  <2>2. StarterLeft(t)
    BY <2>1 DEF StarterLeft, Ev
  <2> QED
    BY <2>2 DEF OrderInv, Hidden
<1>2. TimesOrdered' /\ Bounded'
  BY <1>1, ForwardOrder DEF AllHidden
<1>3. \A u \in Traces \ {t} : out'[u] = out[u]
  BY EmitType DEF TypeInv
<1>4. Hidden'
  BY <1>3, HiddenElsewhere DEF OrderInv
<1> QED
  BY <1>2, <1>4 DEF OrderInv

(* Nothing starts the trace from p on, or the trace has ended.             *)
LEMMA NoStarterLeft ==
    ASSUME StartsOnce, TypeInv, NEW t \in Traces, Ev(t).code \in Starters, NEW n \in Nat,
           StepForward(t, n), trace' = trace,
           n > 0, Ev(t).code = "spawned" => n > 1
    PROVE  ~StarterLeft(t)'
<1>0. /\ pos[t] \in 1 .. Len(trace[t]) /\ Len(trace[t]) \in Nat
      /\ trace \in Workloads /\ DOMAIN trace[t] = 1 .. Len(trace[t])
  BY Inputs DEF TypeInv, TypeOK
<1>1. /\ pos'[t] = IF pos[t] + n <= Len(trace[t]) THEN pos[t] + n ELSE Len(trace[t])
      /\ done'[t] = (done[t] \/ pos[t] + n > Len(trace[t]))
  BY StepType DEF TypeInv
<1>2. CASE pos[t] + n > Len(trace[t])
  BY <1>1, <1>2 DEF StarterLeft
<1>3. CASE ~(pos[t] + n > Len(trace[t]))
  <2>1. pos'[t] = pos[t] + n
    BY <1>0, <1>1, <1>3
  <2> SUFFICES ASSUME NEW j \in pos[t] + n .. Len(trace[t]), trace[t][j].code \in Starters
               PROVE  FALSE
    BY <2>1 DEF StarterLeft
  <2>2. j \in 1 .. Len(trace[t]) /\ pos[t] < j
    BY <1>0
  <2>3. Ev(t).code = "spawned" /\ j = pos[t] + 1
    BY <1>0, <2>2 DEF StartsOnce, Ev
  <2> QED
    BY <1>0, <2>3
<1> QED
  BY <1>2, <1>3

LEMMA InitHandlerOrder ==
    ASSUME StartsOnce, TypeInv, CInv, OrderInv, NEW t \in Traces, HandleInit(t)
    PROVE  OrderInv'
<1> DEFINE m == IF pos[t] < Len(trace[t]) THEN 2 ELSE 1
           e(j) == trace[t][pos[t] + j - 1].time - Ev(t).time + delay[t]
           times == [j \in 1 .. m |-> e(j)]
<1>0. pos[t] \in 1 .. Len(trace[t]) /\ Len(trace[t]) \in Nat /\ delay[t] \in Nat
  BY Inputs, OtherTypes DEF TypeInv
<1>1. /\ ~done[t] /\ Ev(t).code = "init" /\ Ev(t).code \in Starters
      /\ StepForward(t, 2) /\ Emit(t, times) /\ UNCHANGED <<trace, delay>>
      /\ startTime' = [startTime EXCEPT ![t] = Ev(t).time]
      /\ start' = [start EXCEPT ![t] = TRUE]
  BY PickedNotDone DEF HandleInit, Turn, Starters
<1>2. /\ startTime'[t] = Ev(t).time
      /\ \A u \in Traces \ {t} : /\ start'[u] = start[u] /\ startTime'[u] = startTime[u]
                                 /\ delay'[u] = delay[u]
  BY <1>1, OtherTypes
<1>3. /\ m \in {1, 2} /\ pos[t] + m - 1 \in 1 .. Len(trace[t])
      /\ \A j \in 1 .. m : pos[t] + j - 1 \in 1 .. Len(trace[t]) /\ pos[t] + j - 1 <= pos[t] + m - 1
  BY <1>0
<1>4. ASSUME NEW j \in 1 .. m, NEW k \in 1 .. m, j <= k
      PROVE  e(j) \in Int /\ e(k) \in Int /\ e(j) <= e(k)
  <2> DEFINE a == trace[t][pos[t] + j - 1].time
             b == trace[t][pos[t] + k - 1].time
  <2>1. /\ pos[t] + j - 1 \in 1 .. Len(trace[t]) /\ pos[t] + k - 1 \in 1 .. Len(trace[t])
        /\ pos[t] + j - 1 <= pos[t] + k - 1
    BY <1>0, <1>4
  <2>2. a \in Nat /\ b \in Nat /\ a <= b
    BY <2>1, Fields, TimesIncrease DEF TypeInv
  <2>3. Ev(t).time \in Nat /\ delay[t] <= delay[t]
    BY <1>0, Fields DEF TypeInv, Ev
  <2> HIDE DEF a, b
  <2>4. a - Ev(t).time + delay[t] <= b - Ev(t).time + delay[t]
        /\ a - Ev(t).time + delay[t] \in Int /\ b - Ev(t).time + delay[t] \in Int
    BY <1>0, <2>2, <2>3
  <2> QED
    BY <2>4 DEF a, b
<1>5. LastTime(t)' = e(m)
  <2>1. times \in Seq(Int) /\ Len(times) = m
    <3>1. \A j \in 1 .. m : e(j) \in Int
      <4> TAKE j \in 1 .. m
      <4>1. j <= j
        BY <1>3
      <4> QED
        BY <1>4, <4>1
    <3>2. m \in Nat
      BY <1>3
    <3> HIDE DEF m, e
    <3> QED
      BY <3>1, <3>2, IsASeq, LenProperties
  <2>2. Len(out'[t]) = Len(out[t]) + m
    <3> HIDE DEF times
    <3> QED
      BY <1>1, <2>1, EmitType DEF TypeInv
  <2>3. Len(out[t]) = pos[t] - 1
    BY <1>0, <1>1, EndOfOutput
  <2> HIDE DEF m
  <2>4. Len(out'[t]) = pos[t] + m - 1
    BY <1>0, <1>3, <2>2, <2>3
  <2> QED
    BY <1>1, <1>2, <2>4 DEF LastTime
<1>6. times \in Seq(Int) /\ Len(times) = m /\ \A j \in 1 .. m : times[j] = e(j)
  <2>1. \A j \in 1 .. m : e(j) \in Int
    <3> TAKE j \in 1 .. m
    <3>1. j <= j
      BY <1>3
    <3> QED
      BY <1>4, <3>1
  <2>2. m \in Nat
    BY <1>3
  <2> HIDE DEF m, e
  <2> QED
    BY <2>1, <2>2, IsASeq, LenProperties
<1>7. ASSUME NEW j \in 1 .. Len(times)
      PROVE  /\ times[j] <= LastTime(t)'
             /\ \A k \in 1 .. Len(times) : j < k => times[j] <= times[k]
  <2> HIDE DEF times, e, m
  <2>1. j \in 1 .. m /\ m \in 1 .. m /\ j <= m
    BY <1>3, <1>6, <1>7
  <2>2. e(j) <= e(m)
    BY <1>4, <2>1
  <2>3. \A k \in 1 .. m : j < k => e(j) <= e(k)
    <3> SUFFICES ASSUME NEW k \in 1 .. m, j < k PROVE e(j) <= e(k)
      OBVIOUS
    <3>1. j <= k
      BY <1>3, <2>1
    <3> QED
      BY <1>4, <2>1, <3>1
  <2> QED
    BY <1>5, <1>6, <2>1, <2>2, <2>3
<1>8. \A u \in Traces \ {t} : pos'[u] = pos[u] /\ done'[u] = done[u]
  BY <1>1, StepType DEF TypeInv
<1>9. ~StarterLeft(t)'
  BY <1>1, NoStarterLeft
<1> HIDE DEF times, e, m
<1> QED
  BY <1>1, <1>2, <1>6, <1>7, <1>8, <1>9, StarterForward

LEMMA SpawnedOrder ==
    ASSUME StartsOnce, TypeInv, CInv, OrderInv, NEW t \in Traces, HandleSpawned(t)
    PROVE  OrderInv'
<1>0. pos[t] \in 1 .. Len(trace[t]) /\ Len(trace[t]) \in Nat
  BY Inputs DEF TypeInv
<1>1. PICK i \in MatchingSpawns(t) :
          /\ delay' = [delay EXCEPT ![t] = spawns[i].time]
          /\ Emit(t, <<spawns[i].time, spawns[i].time,
                       trace[t][pos[t] + 2].time - trace[t][pos[t] + 1].time + spawns[i].time>>)
  BY DEF HandleSpawned
<1>2. /\ ~done[t] /\ Ev(t).code = "spawned" /\ Ev(t).code \in Starters
      /\ StepForward(t, 3) /\ trace' = trace
      /\ startTime' = [startTime EXCEPT ![t] = trace[t][pos[t] + 1].time]
      /\ start' = [start EXCEPT ![t] = TRUE]
  BY PickedNotDone DEF HandleSpawned, Turn, Starters
<1> DEFINE a == spawns[i].time
           x == trace[t][pos[t] + 1].time
           y == trace[t][pos[t] + 2].time
           s == <<a, a, y - x + a>>
<1>3. a \in Nat
  <2>1. spawns \in Seq([ppid : Nat, nbChildren : Int, time : Nat]) /\ i \in DOMAIN spawns
    BY OtherTypes DEF MatchingSpawns
  <2>2. spawns[i] \in [ppid : Nat, nbChildren : Int, time : Nat]
    BY <2>1, ElementOfSeq, LenProperties
  <2> QED
    BY <2>2
<1>4. x \in Nat /\ y \in Nat /\ x <= y
  <2>1. /\ pos[t] + 1 \in 1 .. Len(trace[t]) /\ pos[t] + 2 \in 1 .. Len(trace[t])
        /\ pos[t] + 1 <= pos[t] + 2
    BY <1>0, SpawnedEvents
  <2> QED
    BY <2>1, Fields, TimesIncrease DEF TypeInv
<1>5. /\ delay'[t] = a /\ startTime'[t] = x
      /\ \A u \in Traces \ {t} : /\ start'[u] = start[u] /\ startTime'[u] = startTime[u]
                                 /\ delay'[u] = delay[u]
  BY <1>1, <1>2, OtherTypes
<1>6. Emit(t, s)
  BY <1>1
<1> HIDE DEF a, x
<1>7. s \in Seq(Int) /\ Len(s) = 3 /\ s[1] = a /\ s[2] = a /\ s[3] = y - x + a
  <2> HIDE DEF y
  <2> QED
    BY <1>3, <1>4
<1> HIDE DEF s
<1>8. LastTime(t)' = y - x + a
  <2>1. Len(out'[t]) = Len(out[t]) + 3
    BY <1>6, <1>7, EmitType DEF TypeInv
  <2>2. Len(out[t]) = pos[t] - 1
    BY <1>0, <1>2, EndOfOutput
  <2>3. Len(out'[t]) = pos[t] + 2
    BY <1>0, <2>1, <2>2
  <2> QED
    BY <1>2, <1>5, <2>3 DEF LastTime
<1> HIDE DEF y
<1>9. a <= y - x + a /\ a <= a /\ y - x + a <= y - x + a
  BY <1>3, <1>4
<1>10. \A j \in 1 .. Len(s) : /\ s[j] <= LastTime(t)'
                              /\ \A k \in 1 .. Len(s) : j < k => s[j] <= s[k]
  <2> SUFFICES ASSUME NEW j \in 1 .. 3
               PROVE  s[j] <= LastTime(t)' /\ \A k \in 1 .. 3 : j < k => s[j] <= s[k]
    BY <1>7
  <2>1. j = 1 \/ j = 2 \/ j = 3
    OBVIOUS
  <2>2. \A k \in 1 .. 3 : k = 1 \/ k = 2 \/ k = 3
    OBVIOUS
  <2>3. s[j] <= LastTime(t)'
    BY <1>7, <1>8, <1>9, <2>1
  <2>4. \A k \in 1 .. 3 : j < k => s[j] <= s[k]
    BY <1>7, <1>9, <2>1, <2>2
  <2> QED
    BY <2>3, <2>4
<1>11. \A u \in Traces \ {t} : pos'[u] = pos[u] /\ done'[u] = done[u]
  BY <1>2, StepType DEF TypeInv
<1>12. ~StarterLeft(t)'
  BY <1>2, NoStarterLeft
<1> QED
  BY <1>2, <1>5, <1>6, <1>7, <1>10, <1>11, <1>12, StarterForward

LEMMA NextOrder ==
    ASSUME StartsOnce, TypeInv, CInv, RequestsInReplay, OrderInv, [Next]_vars
    PROVE  OrderInv'
<1>1. ASSUME NEW t \in Traces, HandleOneEvent(t) PROVE OrderInv'
  BY <1>1, OneEventOrder, WaitallOrder, InitHandlerOrder, SpawnedOrder, OthersOrder
  DEF HandleOneEvent
<1>2. CASE NoTrace \/ Finish \/ Terminated \/ UNCHANGED vars
  BY <1>2, OthersOrder DEF Terminated
<1> QED
  BY <1>1, <1>2 DEF Next

(* The times drawn for a trace never go back, though its clock is reset by *)
(* handle_mpi_init and moved by add_delay_to_trace: the CHANGE macro drops *)
(* what precedes the reset, and a delay is inherited by all that follows.  *)
THEOREM TimesOrderedHolds ==
    ASSUME EveryTraceStarts, StartsOnce
    PROVE  Spec => []TimesOrdered
<1>1. Init => TypeInv /\ CInv /\ RequestsInReplay /\ OrderInv
  BY InitTypeInv, InitCInv, InitRequests, InitOrder
<1>2. TypeInv /\ CInv /\ RequestsInReplay /\ OrderInv /\ [Next]_vars
          => (TypeInv /\ CInv /\ RequestsInReplay /\ OrderInv)'
  BY NextTypeInv, NextCInv, NextMerges, NextOrder
<1>3. OrderInv => TimesOrdered
  BY DEF OrderInv
<1> QED
  BY <1>1, <1>2, <1>3, PTL DEF Spec

=============================================================================
