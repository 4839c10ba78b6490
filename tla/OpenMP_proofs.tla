--------------------------- MODULE OpenMP_proofs ---------------------------
(***************************************************************************)
(* Proofs about the parallel regions (OpenMP).                             *)
(*                                                                         *)
(* TInv and FInv hold of every behaviour: the types; the regions of a      *)
(* thread are nested, in the order in which they were started, it is in    *)
(* them under the numbers that libgomp has given, and the thread that has  *)
(* started a region stays in it while another one is in it.  CInv holds    *)
(* until two threads increment _next_section_id together: the numbers of   *)
(* the regions differ, every region has its section, filled with what the  *)
(* forks and joins of its threads have stored so far, the lists of the     *)
(* converter are those of the regions that are under way and ended, and    *)
(* the stack of a thread ends in the sections of the regions it is in.     *)
(* SInv is about the constructs: each is open at most once in a thread and *)
(* not when it is asked for, the states are one more than what is open or  *)
(* waited for, that of the critical section lies under as many at most as  *)
(* were opened in it, and only one thread is in it.                        *)
(***************************************************************************)
EXTENDS OpenMP, FiniteSetTheorems, SequenceTheorems, WellFoundedInduction, NaturalsInduction, TLAPS

Places == {"run", "incr", "start", "call", "fork", "joined", "done",
           "critical", "in critical", "out critical", "lock", "in lock"}
Constructs == {"plain", "critical", "lock"}
States == {"Working", "Section", "Blocked", "Construct", "Critical", "Locked"}

FrameType == [team : Nat, num : Nat, at : Places, id : Nat, open : Seq(Constructs)]
TeamType == [members : Seq(Threads), id : Nat]
Workers == UNION {[D -> Threads] : D \in SUBSET Nat}
SectionType == [id : Nat, main : Threads, nb_threads : Nat, working : Workers, left : SUBSET Nat]
ConvType == [sections : Seq(SectionType), pending : SUBSET (Nat \ {0}), finished : Seq(Nat),
             stack : [Threads -> Seq(Nat)], states : [Threads -> Seq(States) \ {<< >>}],
             failed : BOOLEAN]

-----------------------------------------------------------------------------
(* Sequences. *)

LEMMA FrontIs ==
    ASSUME NEW S, NEW s \in Seq(S), s # << >>
    PROVE  /\ Len(s) \in Nat \ {0}
           /\ Front(s) \in Seq(S) /\ Len(Front(s)) = Len(s) - 1
           /\ \A i \in 1 .. Len(s) - 1 : Front(s)[i] = s[i]
           /\ Last(s) \in S /\ Last(s) = s[Len(s)]
<1>1. Len(s) \in Nat \ {0} /\ \A i \in 1 .. Len(s) : s[i] \in S
      BY EmptySeq, ElementOfSeq
<1> DEFINE n == Len(s) - 1
<1>2. n \in Nat /\ \A i \in 1 .. n : s[i] \in S BY <1>1
<1> HIDE DEF n
<1>3. /\ SubSeq(s, 1, n) \in Seq(S)
      /\ Len(SubSeq(s, 1, n)) = IF 1 <= n THEN n - 1 + 1 ELSE 0
      /\ \A i \in 1 .. n - 1 + 1 : SubSeq(s, 1, n)[i] = s[1 + i - 1]
      BY <1>2, SubSeqProperties
<1>4. Front(s) = SubSeq(s, 1, n) BY DEF Front, n
<1>5. Len(Front(s)) = n BY <1>2, <1>3, <1>4
<1>6. \A i \in 1 .. n : Front(s)[i] = s[i] BY <1>2, <1>3, <1>4
<1>7. Last(s) = s[Len(s)] /\ s[Len(s)] \in S BY <1>1 DEF Last
<1> QED BY <1>1, <1>3, <1>4, <1>5, <1>6, <1>7 DEF n

LEMMA AppendIs ==
    ASSUME NEW S, NEW s \in Seq(S), NEW x \in S
    PROVE  /\ Len(s) \in Nat
           /\ Append(s, x) \in Seq(S) /\ Len(Append(s, x)) = Len(s) + 1 /\ Append(s, x) # << >>
           /\ \A i \in 1 .. Len(s) : Append(s, x)[i] = s[i]
           /\ Append(s, x)[Len(s) + 1] = x
BY AppendProperties, LenProperties, EmptySeq

\* A sequence whose last element is another.
LEMMA TopReplaced ==
    ASSUME NEW S, NEW s \in Seq(S), s # << >>, NEW x \in S
    PROVE  LET r == Append(Front(s), x)
           IN  /\ r \in Seq(S) /\ Len(r) = Len(s) /\ r # << >> /\ DOMAIN r = DOMAIN s
               /\ r[Len(s)] = x
               /\ \A i \in 1 .. Len(s) : i # Len(s) => r[i] = s[i]
<1> DEFINE f == Front(s)
           r == Append(f, x)
<1>1. Len(s) \in Nat \ {0} /\ f \in Seq(S) /\ Len(f) = Len(s) - 1
      /\ \A i \in 1 .. Len(s) - 1 : f[i] = s[i]
      BY FrontIs
<1> HIDE DEF f
<1>2. /\ r \in Seq(S) /\ Len(r) = Len(f) + 1 /\ r # << >> /\ r[Len(f) + 1] = x
      /\ \A i \in 1 .. Len(f) : r[i] = f[i]
      BY <1>1, AppendIs
<1> HIDE DEF r
<1>3. DOMAIN r = 1 .. Len(r) /\ DOMAIN s = 1 .. Len(s) BY <1>2, LenProperties
<1>4. Len(r) = Len(s) /\ Len(f) + 1 = Len(s) BY <1>1, <1>2
<1>5. \A i \in 1 .. Len(s) : i # Len(s) => r[i] = s[i]
  <2> TAKE i \in 1 .. Len(s)
  <2> HAVE i # Len(s)
  <2>1. i \in 1 .. Len(s) - 1 /\ i \in 1 .. Len(f) BY <1>1
  <2> QED BY <1>1, <1>2, <2>1
<1>6. r[Len(s)] = x BY <1>2, <1>4
<1> QED BY <1>2, <1>3, <1>4, <1>5, <1>6 DEF r, f

LEMMA SetToSeqIs ==
    ASSUME NEW S, IsFiniteSet(S)
    PROVE  /\ SetToSeq(S) \in Seq(S)
           /\ Range(SetToSeq(S)) = S
           /\ \A i, j \in 1 .. Len(SetToSeq(S)) : SetToSeq(S)[i] = SetToSeq(S)[j] => i = j
<1> DEFINE n == Cardinality(S)
           f == SetToSeq(S)
<1>1. n \in Nat /\ ExistsBijection(1 .. n, S) BY FS_CardinalityType
<1>2. PICK g \in Bijection(1 .. n, S) : TRUE BY <1>1 DEF ExistsBijection
<1>3. f \in [1 .. n -> S] /\ IsInjective(f)
  <2>1. g \in [1 .. n -> S] /\ IsInjective(g) BY <1>2 DEF Bijection, Injection, IsInjective
  <2> QED BY <2>1 DEF SetToSeq
<1> HIDE DEF n, f
<1>4. Len(f) = n /\ f \in Seq(S) BY <1>1, <1>3
<1>5. f \in Injection(1 .. n, S) BY <1>3 DEF Injection, IsInjective
<1>6. Cardinality(1 .. n) = n BY <1>1, FS_Interval
<1>7. f \in Surjection(1 .. n, S) BY <1>5, <1>6, FS_Injection DEF n
<1>8. Range(f) = S BY <1>3, <1>7 DEF Range, Surjection
<1> QED BY <1>3, <1>4, <1>8 DEF f, IsInjective

LEMMA MinIs ==
    ASSUME NEW S \in SUBSET Nat, S # {}
    PROVE  Min(S) \in S
<1> DEFINE R == OpToRel(<, Nat)
<1>1. PICK m \in S : \A n \in S : ~(<<n, m>> \in R) BY NatLessThanWellFounded, WFMin
<1>2. \A n \in S : ~(n < m) BY <1>1 DEF OpToRel
<1>3. S \subseteq Nat OBVIOUS
<1>4. \A n \in S : m <= n BY <1>2, <1>3
<1> QED BY <1>4 DEF Min

-----------------------------------------------------------------------------
(* The handlers. *)

LEMMA InitConv == Init => conv \in ConvType
<1> SUFFICES ASSUME Init PROVE conv \in ConvType OBVIOUS
<1>1. /\ << >> \in Seq(SectionType) /\ << >> \in Seq(Nat)
      /\ << "Working" >> \in Seq(States) /\ << "Working" >> # << >>
      BY EmptySeq DEF States
<1> QED BY <1>1 DEF Init, ConvType

\* Only the states of t differ, by x that they become.
Restated(c, d, t, x) ==
    /\ d \in ConvType
    /\ d.states[t] = x /\ \A u \in Threads \ {t} : d.states[u] = c.states[u]
    /\ d.sections = c.sections /\ d.pending = c.pending /\ d.finished = c.finished
    /\ d.stack = c.stack /\ d.failed = c.failed

LEMMA StateSet ==
    ASSUME NEW c \in ConvType, NEW t \in Threads, NEW s \in Seq(States), s # << >>
    PROVE  Restated(c, [c EXCEPT !.states[t] = s], t, s)
BY DEF ConvType, Restated

LEMMA StatesOf ==
    ASSUME NEW c \in ConvType, NEW t \in Threads
    PROVE  c.states[t] \in Seq(States) /\ c.states[t] # << >>
BY DEF ConvType

LEMMA SetStateIs ==
    ASSUME NEW c \in ConvType, NEW t \in Threads, NEW x \in States
    PROVE  Restated(c, SetState(c, t, x), t, Append(Front(c.states[t]), x))
<1>1. Append(Front(c.states[t]), x) \in Seq(States) /\ Append(Front(c.states[t]), x) # << >>
      BY StatesOf, TopReplaced
<1>2. SetState(c, t, x) = [c EXCEPT !.states[t] = Append(Front(c.states[t]), x)]
      BY DEF SetState, ConvType
<1> QED BY <1>1, <1>2, StateSet

LEMMA PushStateIs ==
    ASSUME NEW c \in ConvType, NEW t \in Threads, NEW x \in States
    PROVE  Restated(c, PushState(c, t, x), t, Append(c.states[t], x))
<1>1. Append(c.states[t], x) \in Seq(States) /\ Append(c.states[t], x) # << >>
      BY StatesOf, AppendIs
<1>2. PushState(c, t, x) = [c EXCEPT !.states[t] = Append(c.states[t], x)]
      BY DEF PushState, ConvType
<1> QED BY <1>1, <1>2, StateSet

LEMMA PopStateIs ==
    ASSUME NEW c \in ConvType, NEW t \in Threads
    PROVE  Restated(c, PopState(c, t), t,
                    IF Len(c.states[t]) > 1 THEN Front(c.states[t]) ELSE c.states[t])
<1> DEFINE x == IF Len(c.states[t]) > 1 THEN Front(c.states[t]) ELSE c.states[t]
<1>1. x \in Seq(States) /\ x # << >>
  <2>1. CASE Len(c.states[t]) > 1
    <3>1. Front(c.states[t]) \in Seq(States) /\ Len(Front(c.states[t])) > 0
          BY <2>1, StatesOf, FrontIs
    <3>2. Front(c.states[t]) # << >> BY <3>1, EmptySeq
    <3> QED BY <2>1, <3>1, <3>2
  <2>2. CASE ~(Len(c.states[t]) > 1) BY <2>2, StatesOf
  <2> QED BY <2>1, <2>2
<1>2. PopState(c, t) = [c EXCEPT !.states[t] = x] BY DEF PopState, ConvType
<1> HIDE DEF x
<1>3. Restated(c, PopState(c, t), t, x) BY <1>1, <1>2, StateSet
<1> QED BY <1>3 DEF x

LEMMA EntersIs ==
    ASSUME NEW c \in ConvType, NEW t \in Threads, NEW x \in States, Len(c.states[t]) > 1
    PROVE  Restated(c, HandleEnters(c, t, x), t, Append(Front(c.states[t]), x))
<1> DEFINE d == PopState(c, t)
<1>1. Restated(c, d, t, Front(c.states[t])) BY PopStateIs
<1>2. d \in ConvType /\ d.states[t] = Front(c.states[t]) BY <1>1 DEF Restated
<1> HIDE DEF d
<1>3. Restated(d, PushState(d, t, x), t, Append(d.states[t], x)) BY <1>2, PushStateIs
<1>4. HandleEnters(c, t, x) = PushState(d, t, x) BY DEF HandleEnters, d
<1> QED BY <1>1, <1>2, <1>3, <1>4 DEF Restated

LEMMA FailedIs ==
    ASSUME NEW c \in ConvType
    PROVE  Failed(c) \in ConvType /\ Failed(c).failed /\ Failed(c).states = c.states
BY DEF Failed, ConvType

LEMMA StartIs ==
    ASSUME NEW c \in ConvType, NEW t \in Threads, NEW id \in Nat
    PROVE  LET d == HandleParallelStart(c, t, id)
               n == Len(c.sections) + 1
           IN  /\ d \in ConvType
               /\ d.states = c.states /\ d.stack = c.stack /\ d.failed = c.failed
               /\ d.finished = c.finished /\ d.pending = c.pending \cup {n}
               /\ n \in Nat /\ DOMAIN c.sections = 1 .. n - 1 /\ DOMAIN d.sections = 1 .. n
               /\ d.sections[n] = [id |-> id, main |-> t, nb_threads |-> 0, working |-> << >>, left |-> {}]
               /\ \A s \in DOMAIN c.sections : d.sections[s] = c.sections[s]
<1> DEFINE new == [id |-> id, main |-> t, nb_threads |-> 0, working |-> << >>, left |-> {}]
           n == Len(c.sections) + 1
           d == HandleParallelStart(c, t, id)
<1>1. << >> \in Workers
  <2>1. << >> \in [{} -> Threads] /\ {} \in SUBSET Nat OBVIOUS
  <2> QED BY <2>1 DEF Workers
<1>2. new \in SectionType BY <1>1 DEF SectionType
<1> HIDE DEF new
<1>3. c.sections \in Seq(SectionType) BY DEF ConvType
<1>4. /\ Len(c.sections) \in Nat /\ Append(c.sections, new) \in Seq(SectionType)
      /\ Len(Append(c.sections, new)) = n
      /\ \A i \in 1 .. Len(c.sections) : Append(c.sections, new)[i] = c.sections[i]
      /\ Append(c.sections, new)[n] = new
      BY <1>2, <1>3, AppendIs
<1>5. DOMAIN c.sections = 1 .. n - 1 /\ DOMAIN Append(c.sections, new) = 1 .. n
      BY <1>3, <1>4, LenProperties
<1>6. d = [c EXCEPT !.sections = Append(c.sections, new), !.pending = c.pending \cup {n}]
      BY DEF HandleParallelStart, ConvType, new
<1>7. n \in Nat \ {0} BY <1>4
<1> HIDE DEF n, d
<1>8. d \in ConvType /\ d.sections = Append(c.sections, new) /\ d.pending = c.pending \cup {n}
      /\ d.states = c.states /\ d.stack = c.stack /\ d.failed = c.failed /\ d.finished = c.finished
      BY <1>4, <1>6, <1>7 DEF ConvType
<1>9. \A s \in DOMAIN c.sections : d.sections[s] = c.sections[s]
      BY <1>4, <1>5, <1>8 DEF n
<1>10. d.sections[n] = new /\ DOMAIN d.sections = 1 .. n BY <1>4, <1>5, <1>8 DEF n
<1> QED BY <1>5, <1>7, <1>8, <1>9, <1>10 DEF n, d, new

\* The sections that the lists and the stacks name are there.
WellFormed(c) ==
    /\ c \in ConvType
    /\ c.pending \subseteq DOMAIN c.sections
    /\ \A t \in Threads : \A i \in DOMAIN c.stack[t] : c.stack[t][i] \in DOMAIN c.sections

LEMMA RestatedFormed ==
    ASSUME NEW c, WellFormed(c), NEW d, NEW t \in Threads, NEW x, Restated(c, d, t, x)
    PROVE  WellFormed(d)
BY DEF WellFormed, Restated

LEMMA FailedFormed ==
    ASSUME NEW c, WellFormed(c)
    PROVE  WellFormed(Failed(c)) /\ Failed(c).failed /\ Failed(c).states = c.states
BY DEF WellFormed, Failed, ConvType

LEMMA StartFormed ==
    ASSUME NEW c, WellFormed(c), NEW t \in Threads, NEW id \in Nat
    PROVE  WellFormed(HandleParallelStart(c, t, id))
<1> DEFINE d == HandleParallelStart(c, t, id)
           n == Len(c.sections) + 1
<1>0. c \in ConvType BY DEF WellFormed
<1>1. /\ d \in ConvType /\ d.stack = c.stack /\ d.pending = c.pending \cup {n} /\ n \in Nat
      /\ DOMAIN c.sections = 1 .. n - 1 /\ DOMAIN d.sections = 1 .. n
      BY <1>0, StartIs
<1> HIDE DEF d, n
<1>2. DOMAIN c.sections \subseteq DOMAIN d.sections BY <1>1
<1>3. n \in DOMAIN d.sections
  <2>1. n >= 1
    <3>1. Len(c.sections) \in Nat BY LenProperties DEF WellFormed, ConvType
    <3> QED BY <3>1 DEF n
  <2> QED BY <1>1, <2>1
<1> QED BY <1>1, <1>2, <1>3 DEF WellFormed, d

\* A section of which some fields are others.
LEMMA SectionSet ==
    ASSUME NEW c, WellFormed(c), NEW s \in DOMAIN c.sections, NEW x \in SectionType
    PROVE  LET d == [c EXCEPT !.sections[s] = x]
           IN  /\ WellFormed(d) /\ DOMAIN d.sections = DOMAIN c.sections
               /\ d.sections[s] = x /\ \A q \in DOMAIN c.sections \ {s} : d.sections[q] = c.sections[q]
               /\ d.pending = c.pending /\ d.finished = c.finished
               /\ d.stack = c.stack /\ d.states = c.states /\ d.failed = c.failed
<1> DEFINE d == [c EXCEPT !.sections[s] = x]
<1>1. c.sections \in Seq(SectionType) /\ c \in ConvType BY DEF WellFormed, ConvType
<1>2. DOMAIN c.sections = 1 .. Len(c.sections) BY <1>1, LenProperties
<1>3. [c.sections EXCEPT ![s] = x] \in Seq(SectionType) BY <1>1, <1>2, ExceptSeq
<1>4. /\ d.sections = [c.sections EXCEPT ![s] = x]
      /\ d.pending = c.pending /\ d.finished = c.finished
      /\ d.stack = c.stack /\ d.states = c.states /\ d.failed = c.failed
      /\ d \in ConvType
      BY <1>1, <1>3 DEF ConvType
<1> HIDE DEF d
<1>5. DOMAIN d.sections = DOMAIN c.sections BY <1>4
<1>6. d.sections[s] = x /\ \A q \in DOMAIN c.sections \ {s} : d.sections[q] = c.sections[q]
      BY <1>4
<1>7. WellFormed(d) BY <1>4, <1>5 DEF WellFormed
<1> QED BY <1>4, <1>5, <1>6, <1>7 DEF d

\* A stack that is another.
LEMMA StackSet ==
    ASSUME NEW c, WellFormed(c), NEW t \in Threads, NEW x \in Seq(Nat),
           \A i \in DOMAIN x : x[i] \in DOMAIN c.sections
    PROVE  LET d == [c EXCEPT !.stack[t] = x]
           IN  /\ WellFormed(d)
               /\ d.stack[t] = x /\ \A u \in Threads \ {t} : d.stack[u] = c.stack[u]
               /\ d.sections = c.sections /\ d.pending = c.pending /\ d.finished = c.finished
               /\ d.states = c.states /\ d.failed = c.failed
<1> DEFINE d == [c EXCEPT !.stack[t] = x]
<1>1. c \in ConvType BY DEF WellFormed
<1>2. /\ d.stack[t] = x /\ \A u \in Threads \ {t} : d.stack[u] = c.stack[u]
      /\ d.sections = c.sections /\ d.pending = c.pending /\ d.finished = c.finished
      /\ d.states = c.states /\ d.failed = c.failed /\ d \in ConvType
      BY <1>1 DEF ConvType
<1> HIDE DEF d
<1>3. WellFormed(d)
  <2>1. ASSUME NEW u \in Threads, NEW i \in DOMAIN d.stack[u]
        PROVE  d.stack[u][i] \in DOMAIN d.sections
    <3>1. CASE u = t BY <1>2, <2>1, <3>1
    <3>2. CASE u # t BY <1>2, <2>1, <3>2 DEF WellFormed
    <3> QED BY <3>1, <3>2
  <2>2. d.pending \subseteq DOMAIN d.sections BY <1>2 DEF WellFormed
  <2> QED BY <1>2, <2>1, <2>2 DEF WellFormed
<1> QED BY <1>2, <1>3 DEF d

LEMMA StackTyped ==
    ASSUME NEW c, WellFormed(c), NEW t \in Threads
    PROVE  /\ c.stack[t] \in Seq(Nat) /\ Len(c.stack[t]) \in Nat
           /\ DOMAIN c.stack[t] = 1 .. Len(c.stack[t])
           /\ \A i \in 1 .. Len(c.stack[t]) : c.stack[t][i] \in DOMAIN c.sections
           /\ c.stack[t] # << >> => Len(c.stack[t]) > 0 /\ Last(c.stack[t]) \in DOMAIN c.sections
<1>1. c.stack[t] \in Seq(Nat) BY DEF WellFormed, ConvType
<1>2. DOMAIN c.stack[t] = 1 .. Len(c.stack[t]) /\ Len(c.stack[t]) \in Nat BY <1>1, LenProperties
<1>3. \A i \in 1 .. Len(c.stack[t]) : c.stack[t][i] \in DOMAIN c.sections BY <1>2 DEF WellFormed
<1>4. c.stack[t] # << >> => Len(c.stack[t]) > 0 BY <1>1, EmptySeq
<1> QED BY <1>1, <1>2, <1>3, <1>4 DEF Last

LEMMA SectionTyped ==
    ASSUME NEW c, WellFormed(c), NEW s \in DOMAIN c.sections
    PROVE  c.sections[s] \in SectionType
<1>1. c.sections \in Seq(SectionType) BY DEF WellFormed, ConvType
<1> QED BY <1>1, LenProperties, ElementOfSeq

Fails(c, id, n) ==
    LET found == MatchingSections(c, id)
    IN found = {} \/ (c.sections[Min(found)].nb_threads # 0 /\ c.sections[Min(found)].nb_threads # n)

\* What the handler of a fork does when no assertion fails, s being the section that it finds.
Forks(c, d, t, num, n, s) ==
    /\ WellFormed(d)
    /\ s \in DOMAIN c.sections
    /\ DOMAIN d.sections = DOMAIN c.sections
    /\ d.sections[s] = [c.sections[s] EXCEPT !.nb_threads = n,
                          !.working = [k \in DOMAIN @ \cup {num} |-> IF k = num THEN t ELSE @[k]]]
    /\ \A q \in DOMAIN c.sections \ {s} : d.sections[q] = c.sections[q]
    /\ d.pending = c.pending /\ d.finished = c.finished /\ d.failed = c.failed
    /\ d.stack[t] = Append(c.stack[t], s)
    /\ \A u \in Threads \ {t} : d.stack[u] = c.stack[u]
    /\ d.states[t] = Append(Front(c.states[t]), "Section")
    /\ \A u \in Threads \ {t} : d.states[u] = c.states[u]

LEMMA ForkIs ==
    ASSUME NEW c, WellFormed(c), NEW t \in Threads, NEW id \in Nat, NEW num \in Nat, NEW n \in Nat,
           ~Fails(c, id, n)
    PROVE  Forks(c, HandleNewFork(c, t, id, num, n), t, num, n, Min(MatchingSections(c, id)))
<1> DEFINE d == HandleNewFork(c, t, id, num, n)
           s == Min(MatchingSections(c, id))
           x == [c.sections[s] EXCEPT !.nb_threads = n,
                    !.working = [k \in DOMAIN @ \cup {num} |-> IF k = num THEN t ELSE @[k]]]
           e == [c EXCEPT !.sections[s] = x]
           y == Append(c.stack[t], s)
           f == [e EXCEPT !.stack[t] = y]
<1>1. s \in MatchingSections(c, id) /\ s \in DOMAIN c.sections
  <2>1. MatchingSections(c, id) \in SUBSET Nat /\ MatchingSections(c, id) # {}
        /\ MatchingSections(c, id) \subseteq DOMAIN c.sections
        BY DEF MatchingSections, WellFormed, ConvType, Fails
  <2> QED BY <2>1, MinIs
<1> HIDE DEF s
<1>2. c.sections[s] \in SectionType BY <1>1, SectionTyped
<1>3. x \in SectionType
  <2> DEFINE w == c.sections[s].working
             v == [k \in DOMAIN w \cup {num} |-> IF k = num THEN t ELSE w[k]]
  <2>1. PICK D \in SUBSET Nat : w \in [D -> Threads] BY <1>2 DEF SectionType, Workers
  <2>2. DOMAIN w = D /\ \A k \in D : w[k] \in Threads BY <2>1
  <2>3. v \in [D \cup {num} -> Threads] /\ D \cup {num} \in SUBSET Nat BY <2>2
  <2>4. v \in Workers BY <2>3 DEF Workers
  <2>5. x = [c.sections[s] EXCEPT !.nb_threads = n, !.working = v] BY <1>2 DEF SectionType
  <2> HIDE DEF w, v
  <2> QED BY <1>2, <2>4, <2>5 DEF SectionType
<1> HIDE DEF x
<1>4. /\ WellFormed(e) /\ DOMAIN e.sections = DOMAIN c.sections
      /\ e.sections[s] = x /\ \A q \in DOMAIN c.sections \ {s} : e.sections[q] = c.sections[q]
      /\ e.pending = c.pending /\ e.finished = c.finished
      /\ e.stack = c.stack /\ e.states = c.states /\ e.failed = c.failed
      BY <1>1, <1>3, SectionSet
<1> HIDE DEF e
<1>5. y \in Seq(Nat) /\ \A i \in DOMAIN y : y[i] \in DOMAIN e.sections
  <2>1. c.stack[t] \in Seq(Nat) /\ \A i \in 1 .. Len(c.stack[t]) : c.stack[t][i] \in DOMAIN c.sections
        BY StackTyped
  <2>2. s \in Nat BY <1>1 DEF MatchingSections, WellFormed, ConvType
  <2>3. /\ Append(c.stack[t], s) \in Seq(Nat) /\ Len(c.stack[t]) \in Nat
        /\ Len(Append(c.stack[t], s)) = Len(c.stack[t]) + 1
        /\ \A i \in 1 .. Len(c.stack[t]) : Append(c.stack[t], s)[i] = c.stack[t][i]
        /\ Append(c.stack[t], s)[Len(c.stack[t]) + 1] = s
        BY <2>1, <2>2, AppendIs
  <2>4. DOMAIN Append(c.stack[t], s) = 1 .. Len(c.stack[t]) + 1 BY <2>3, LenProperties
  <2>5. ASSUME NEW i \in 1 .. Len(c.stack[t]) + 1
        PROVE  Append(c.stack[t], s)[i] \in DOMAIN e.sections
    <3>1. CASE i = Len(c.stack[t]) + 1 BY <1>1, <1>4, <2>3, <3>1
    <3>2. CASE i # Len(c.stack[t]) + 1
      <4>1. i \in 1 .. Len(c.stack[t]) BY <2>3, <3>2
      <4> QED BY <1>4, <2>1, <2>3, <4>1
    <3> QED BY <3>1, <3>2
  <2> QED BY <2>3, <2>4, <2>5
<1> HIDE DEF y, d
<1>6. /\ WellFormed(f)
      /\ f.stack[t] = y /\ \A u \in Threads \ {t} : f.stack[u] = e.stack[u]
      /\ f.sections = e.sections /\ f.pending = e.pending /\ f.finished = e.finished
      /\ f.states = e.states /\ f.failed = e.failed
      BY <1>4, <1>5, StackSet
<1>7. f = [c EXCEPT !.sections[s].nb_threads = n,
                    !.sections[s].working = [k \in DOMAIN @ \cup {num} |-> IF k = num THEN t ELSE @[k]],
                    !.stack[t] = Append(@, s)]
      BY <1>1, <1>2 DEF e, f, x, y, WellFormed, ConvType, SectionType
<1> HIDE DEF f
<1>8. d = SetState(f, t, "Section")
      BY <1>7 DEF d, HandleNewFork, Fails, s
<1>9. Restated(f, d, t, Append(Front(f.states[t]), "Section"))
      BY <1>6, <1>8, SetStateIs DEF WellFormed, States
<1>10. WellFormed(d) BY <1>6, <1>9, RestatedFormed
<1> QED BY <1>1, <1>4, <1>6, <1>9, <1>10 DEF Restated, Forks, x, y, d, s

\* What the handler of a join does, s being the section on the top of the stack.
Joins(c, d, t, num, s) ==
    /\ WellFormed(d)
    /\ s \in DOMAIN c.sections /\ DOMAIN d.sections = DOMAIN c.sections
    /\ d.sections[s] = [c.sections[s] EXCEPT !.left = @ \cup {num}]
    /\ \A q \in DOMAIN c.sections \ {s} : d.sections[q] = c.sections[q]
    /\ d.pending = c.pending /\ d.finished = c.finished /\ d.failed = c.failed
    /\ d.stack = c.stack
    /\ d.states[t] = Append(Front(c.states[t]), "Blocked")
    /\ \A u \in Threads \ {t} : d.states[u] = c.states[u]

LEMMA JoinIs ==
    ASSUME NEW c, WellFormed(c), NEW t \in Threads, NEW num \in Nat, c.stack[t] # << >>
    PROVE  Joins(c, HandleNewJoin(c, t, num), t, num, Last(c.stack[t]))
<1> DEFINE d == HandleNewJoin(c, t, num)
           s == Last(c.stack[t])
           x == [c.sections[s] EXCEPT !.left = @ \cup {num}]
           e == [c EXCEPT !.sections[s] = x]
<1>1. s \in DOMAIN c.sections BY StackTyped
<1> HIDE DEF s
<1>2. c.sections[s] \in SectionType BY <1>1, SectionTyped
<1>3. x \in SectionType BY <1>2 DEF SectionType
<1>4. e = [c EXCEPT !.sections[s].left = @ \cup {num}]
      BY <1>1, <1>2 DEF WellFormed, ConvType, SectionType
<1> HIDE DEF x, d
<1>5. /\ WellFormed(e) /\ DOMAIN e.sections = DOMAIN c.sections
      /\ e.sections[s] = x /\ \A q \in DOMAIN c.sections \ {s} : e.sections[q] = c.sections[q]
      /\ e.pending = c.pending /\ e.finished = c.finished
      /\ e.stack = c.stack /\ e.states = c.states /\ e.failed = c.failed
      BY <1>1, <1>3, SectionSet
<1> HIDE DEF e
<1>6. d = SetState(e, t, "Blocked") BY <1>4 DEF HandleNewJoin, d, s
<1>7. Restated(e, d, t, Append(Front(e.states[t]), "Blocked"))
      BY <1>5, <1>6, SetStateIs DEF WellFormed, States
<1>8. WellFormed(d) BY <1>5, <1>7, RestatedFormed
<1> QED BY <1>1, <1>5, <1>7, <1>8 DEF Restated, Joins, x, s, d

DoneFails(c, t) ==
    LET section == c.sections[Last(c.stack[t])]
        nums == 0 .. section.nb_threads - 1
    IN  \/ c.stack[t] = << >>
        \/ ~(nums \subseteq DOMAIN section.working /\ nums \subseteq section.left)
        \/ MatchingSections(c, section.id) = {}

\* What the handler of the end of a region does, s being the section on the top
\* of the stack and m the one that it finds.
Ends(c, d, t, s, m) ==
    /\ WellFormed(d)
    /\ d.sections = c.sections /\ d.failed = c.failed
    /\ d.pending = c.pending \ {m}
    /\ d.finished = Append(c.finished, s)
    /\ d.stack[t] = Front(c.stack[t]) /\ \A u \in Threads \ {t} : d.stack[u] = c.stack[u]
    /\ d.states[t] = Append(Front(c.states[t]), "Working")
    /\ \A u \in Threads \ {t} : d.states[u] = c.states[u]

LEMMA DoneIs ==
    ASSUME NEW c, WellFormed(c), NEW t \in Threads, ~DoneFails(c, t)
    PROVE  LET s == Last(c.stack[t])
           IN  Ends(c, HandleJoinDone(c, t), t, s, Min(MatchingSections(c, c.sections[s].id)))
<1> DEFINE d == HandleJoinDone(c, t)
           s == Last(c.stack[t])
           y == Front(c.stack[t])
           m == Min(MatchingSections(c, c.sections[s].id))
           e == [c EXCEPT !.stack[t] = y]
           f == [e EXCEPT !.pending = c.pending \ {m}, !.finished = Append(c.finished, s)]
<1>0. c.stack[t] # << >> BY DEF DoneFails
<1>1. s \in DOMAIN c.sections /\ s \in Nat
  <2>1. c.stack[t] \in Seq(Nat) /\ s \in DOMAIN c.sections BY <1>0, StackTyped
  <2> QED BY <1>0, <2>1, FrontIs
<1>2. y \in Seq(Nat) /\ \A i \in DOMAIN y : y[i] \in DOMAIN c.sections
  <2>1. c.stack[t] \in Seq(Nat) /\ \A i \in 1 .. Len(c.stack[t]) : c.stack[t][i] \in DOMAIN c.sections
        BY StackTyped
  <2>2. /\ y \in Seq(Nat) /\ Len(c.stack[t]) \in Nat \ {0} /\ Len(y) = Len(c.stack[t]) - 1
        /\ \A i \in 1 .. Len(c.stack[t]) - 1 : y[i] = c.stack[t][i]
        BY <1>0, <2>1, FrontIs
  <2>3. DOMAIN y = 1 .. Len(c.stack[t]) - 1 BY <2>2, LenProperties
  <2> HIDE DEF y
  <2>4. ASSUME NEW i \in 1 .. Len(c.stack[t]) - 1 PROVE y[i] \in DOMAIN c.sections
    <3>1. i \in 1 .. Len(c.stack[t]) BY <2>2
    <3> QED BY <2>1, <2>2, <3>1
  <2> QED BY <2>2, <2>3, <2>4
<1> HIDE DEF s, y, m, d
<1>3. /\ WellFormed(e)
      /\ e.stack[t] = y /\ \A u \in Threads \ {t} : e.stack[u] = c.stack[u]
      /\ e.sections = c.sections /\ e.pending = c.pending /\ e.finished = c.finished
      /\ e.states = c.states /\ e.failed = c.failed
      BY <1>2, StackSet
<1>4. e \in ConvType /\ c \in ConvType BY <1>3 DEF WellFormed
<1>5. f = [c EXCEPT !.stack[t] = y, !.pending = c.pending \ {m}, !.finished = Append(c.finished, s)]
      BY <1>4 DEF ConvType, e
<1>6. Append(c.finished, s) \in Seq(Nat) BY <1>1, <1>4, AppendIs DEF ConvType
<1> HIDE DEF e
<1>7. /\ f \in ConvType /\ f.stack = e.stack /\ f.sections = e.sections /\ f.states = e.states
      /\ f.failed = e.failed /\ f.pending = c.pending \ {m} /\ f.finished = Append(c.finished, s)
      BY <1>3, <1>4, <1>6 DEF ConvType
<1>8. WellFormed(f) BY <1>3, <1>7 DEF WellFormed
<1>9. c.stack[t] \in Seq(Nat) BY <1>4 DEF ConvType
<1>10. d = SetState(f, t, "Working")
  <2>1. d = SetState([c EXCEPT !.stack[t] = Front(@), !.pending = @ \ {m}, !.finished = Append(@, s)], t, "Working")
        BY DEF d, HandleJoinDone, DoneFails, m, s
  <2>2. f = [c EXCEPT !.stack[t] = Front(@), !.pending = @ \ {m}, !.finished = Append(@, s)]
        BY <1>4, <1>5 DEF y, ConvType
  <2> QED BY <2>1, <2>2
<1> HIDE DEF f
<1>11. Restated(f, d, t, Append(Front(f.states[t]), "Working"))
      BY <1>7, <1>8, <1>10, SetStateIs DEF WellFormed, States
<1>12. WellFormed(d) BY <1>8, <1>11, RestatedFormed
<1> QED BY <1>3, <1>7, <1>11, <1>12 DEF Restated, Ends, s, y, m, d

\* What the handlers do when an assertion fails.
LEMMA Fails1 ==
    ASSUME NEW c, NEW t, NEW id, NEW num, NEW n, Fails(c, id, n)
    PROVE  HandleNewFork(c, t, id, num, n) = Failed(c)
BY DEF HandleNewFork, Fails

LEMMA Fails2 ==
    ASSUME NEW c, NEW t, NEW num, c.stack[t] = << >>
    PROVE  HandleNewJoin(c, t, num) = Failed(c)
BY DEF HandleNewJoin

LEMMA Fails3 ==
    ASSUME NEW c, NEW t, DoneFails(c, t)
    PROVE  HandleJoinDone(c, t) = Failed(c)
BY DEF HandleJoinDone, DoneFails

\* The types.
TInv ==
    /\ next_section_id \in Nat
    /\ frames \in [Threads -> Seq(FrameType)]
    /\ teams \in Seq(TeamType)
    /\ WellFormed(conv)

-----------------------------------------------------------------------------
(* Frames *)

LEMMA FramesAre ==
    ASSUME frames \in [Threads -> Seq(FrameType)], NEW t \in Threads
    PROVE  /\ Len(frames[t]) \in Nat /\ DOMAIN frames[t] = 1 .. Len(frames[t])
           /\ frames[t] # << >> <=> Len(frames[t]) # 0
           /\ \A i \in DOMAIN frames[t] : frames[t][i] \in FrameType
<1>1. frames[t] \in Seq(FrameType) OBVIOUS
<1> QED BY <1>1, LenProperties, ElementOfSeq, EmptySeq

LEMMA TopFrame ==
    ASSUME frames \in [Threads -> Seq(FrameType)], NEW t \in Threads, frames[t] # << >>
    PROVE  /\ Len(frames[t]) \in Nat \ {0} /\ Len(frames[t]) \in DOMAIN frames[t]
           /\ Top(t) = frames[t][Len(frames[t])] /\ Top(t) \in FrameType
<1>1. frames[t] \in Seq(FrameType) OBVIOUS
<1> QED BY <1>1, FrontIs, FramesAre DEF Top

\* The top frame of t becomes f, of the same region.
Replaced(t, f) ==
    /\ frames' \in [Threads -> Seq(FrameType)]
    /\ \A u \in Threads \ {t} : frames'[u] = frames[u]
    /\ DOMAIN frames'[t] = DOMAIN frames[t] /\ Len(frames'[t]) = Len(frames[t])
    /\ frames[t] # << >> /\ frames'[t] # << >>
    /\ frames'[t][Len(frames[t])] = f
    /\ \A i \in DOMAIN frames[t] : i # Len(frames[t]) => frames'[t][i] = frames[t][i]

Local(t, f) ==
    /\ Replaced(t, f) /\ f \in FrameType
    /\ f.team = Top(t).team /\ f.num = Top(t).num
    /\ teams' = teams

LEMMA TopReplaces ==
    ASSUME frames \in [Threads -> Seq(FrameType)], NEW t \in Threads, frames[t] # << >>,
           NEW f \in FrameType, frames' = [frames EXCEPT ![t] = TopIs(t, f)]
    PROVE  Replaced(t, f)
<1> DEFINE r == TopIs(t, f)
           s == frames[t]
<1>0. s \in Seq(FrameType) OBVIOUS
<1>1. /\ r \in Seq(FrameType) /\ Len(r) = Len(s) /\ r # << >> /\ DOMAIN r = DOMAIN s
      /\ r[Len(s)] = f /\ \A i \in 1 .. Len(s) : i # Len(s) => r[i] = s[i]
      BY <1>0, TopReplaced DEF TopIs
<1>1a. frames' = [frames EXCEPT ![t] = r] OBVIOUS
<1> HIDE DEF r
<1>2. /\ frames' \in [Threads -> Seq(FrameType)] /\ frames'[t] = r
      /\ \A u \in Threads \ {t} : frames'[u] = frames[u]
      BY <1>1, <1>1a
<1>3. DOMAIN s = 1 .. Len(s) BY FramesAre
<1> QED BY <1>1, <1>2, <1>3 DEF Replaced

LEMMA GotoIs ==
    ASSUME TInv, NEW t \in Threads, frames[t] # << >>, NEW label \in Places, Goto(t, label),
           teams' = teams
    PROVE  Local(t, [Top(t) EXCEPT !.at = label])
<1>1. Top(t) \in FrameType BY TopFrame DEF TInv
<1> DEFINE f == [Top(t) EXCEPT !.at = label]
<1>2. f \in FrameType /\ f.team = Top(t).team /\ f.num = Top(t).num BY <1>1 DEF FrameType
<1> HIDE DEF f
<1>3. frames' = [frames EXCEPT ![t] = TopIs(t, f)] BY DEF Goto, f
<1> QED BY <1>2, <1>3, TopReplaces DEF Local, TInv, f

Moved(t, label, open) == [Top(t) EXCEPT !.at = label, !.open = open]

LEMMA MovedIs ==
    ASSUME TInv, NEW t \in Threads, frames[t] # << >>, NEW label \in Places,
           NEW open \in Seq(Constructs), teams' = teams,
           frames' = [frames EXCEPT ![t] = TopIs(t, Moved(t, label, open))]
    PROVE  /\ Local(t, Moved(t, label, open))
           /\ Moved(t, label, open).at = label /\ Moved(t, label, open).open = open
<1>1. Top(t) \in FrameType BY TopFrame DEF TInv
<1> DEFINE f == Moved(t, label, open)
<1>2. f \in FrameType /\ f.team = Top(t).team /\ f.num = Top(t).num /\ f.at = label /\ f.open = open
      BY <1>1 DEF FrameType, Moved
<1> HIDE DEF f
<1>3. frames' = [frames EXCEPT ![t] = TopIs(t, f)] BY DEF f
<1> QED BY <1>2, <1>3, TopReplaces DEF Local, TInv, f

LEMMA EntersFormed ==
    ASSUME NEW c, WellFormed(c), NEW t \in Threads, NEW x \in States
    PROVE  \E y : Restated(c, HandleEnters(c, t, x), t, y)
<1> DEFINE d == PopState(c, t)
           z == IF Len(c.states[t]) > 1 THEN Front(c.states[t]) ELSE c.states[t]
<1>1. Restated(c, d, t, z) BY PopStateIs DEF WellFormed
<1> HIDE DEF z
<1>2. d \in ConvType BY <1>1 DEF Restated
<1> HIDE DEF d
<1>3. Restated(d, PushState(d, t, x), t, Append(d.states[t], x)) BY <1>2, PushStateIs
<1>4. HandleEnters(c, t, x) = PushState(d, t, x) BY DEF HandleEnters, d
<1>5. Restated(c, HandleEnters(c, t, x), t, Append(d.states[t], x)) BY <1>1, <1>3, <1>4 DEF Restated
<1> QED BY <1>5

\* All that the constructs do to the frames and to the sections.
Plain == Places \ {"fork", "joined", "done", "incr", "start", "call"}

SameSections(c, d) ==
    /\ d.sections = c.sections /\ d.pending = c.pending /\ d.finished = c.finished
    /\ d.stack = c.stack /\ d.failed = c.failed

Quiet(t) ==
    /\ \E f \in FrameType :
          /\ Local(t, f) /\ f.at \in Plain
          /\ f.at = "out critical" => f.open # << >> /\ Last(f.open) = "critical"
    /\ Top(t).at \in Plain
    /\ UNCHANGED <<next_section_id, raced>>
    /\ WellFormed(conv') /\ SameSections(conv, conv')

LEMMA RestatedSame ==
    ASSUME NEW c, WellFormed(c), NEW d, NEW t \in Threads, NEW x, Restated(c, d, t, x)
    PROVE  WellFormed(d) /\ SameSections(c, d)
BY RestatedFormed DEF Restated, SameSections

\* r is s without the x at n.
Lacks(s, x, r, n) ==
    /\ s[n] = x /\ r \in Seq(Constructs) /\ Len(r) = Len(s) - 1
    /\ \A j \in 1 .. Len(s) - 1 : r[j] = IF j < n THEN s[j] ELSE s[j + 1]

LEMMA WithoutIs ==
    ASSUME NEW s \in Seq(Constructs), NEW x, NEW i \in DOMAIN s, s[i] = x
    PROVE  Without(s, x) \in Seq(Constructs) /\ \E n \in DOMAIN s : Lacks(s, x, Without(s, x), n)
<1> DEFINE n == CHOOSE k \in DOMAIN s : s[k] = x
           r == Without(s, x)
<1>1. n \in DOMAIN s /\ s[n] = x OBVIOUS
<1> HIDE DEF n
<1>2. DOMAIN s = 1 .. Len(s) /\ Len(s) \in Nat BY LenProperties
<1> DEFINE a == SubSeq(s, 1, n - 1)
           b == SubSeq(s, n + 1, Len(s))
<1>3. r = a \o b BY DEF r, Without, RemoveAt, n
<1>4. \A k \in 1 .. Len(s) : s[k] \in Constructs BY ElementOfSeq
<1>5. n \in 1 .. Len(s) /\ n - 1 \in Int /\ n + 1 \in Int BY <1>1, <1>2
<1>6. /\ a \in Seq(Constructs) /\ Len(a) = n - 1
      /\ \A k \in 1 .. n - 1 : a[k] = s[k]
  <2>1. \A k \in 1 .. n - 1 : s[k] \in Constructs BY <1>2, <1>4, <1>5
  <2>2. /\ a \in Seq(Constructs)
        /\ Len(a) = IF 1 <= n - 1 THEN n - 1 - 1 + 1 ELSE 0
        /\ \A k \in 1 .. n - 1 - 1 + 1 : a[k] = s[1 + k - 1]
        BY <1>5, <2>1, SubSeqProperties
  <2> HIDE DEF a
  <2> QED BY <1>5, <2>2
<1>7. /\ b \in Seq(Constructs) /\ Len(b) = Len(s) - n
      /\ \A k \in 1 .. Len(s) - n : b[k] = s[n + k]
  <2>1. \A k \in n + 1 .. Len(s) : s[k] \in Constructs BY <1>2, <1>4, <1>5
  <2>2. /\ b \in Seq(Constructs)
        /\ Len(b) = IF n + 1 <= Len(s) THEN Len(s) - (n + 1) + 1 ELSE 0
        /\ \A k \in 1 .. Len(s) - (n + 1) + 1 : b[k] = s[n + 1 + k - 1]
        BY <1>2, <1>5, <2>1, SubSeqProperties
  <2> HIDE DEF b
  <2>3. n \in Nat /\ Len(s) \in Nat /\ n <= Len(s) BY <1>2, <1>5
  <2>4. Len(s) - (n + 1) + 1 = Len(s) - n BY <2>3
  <2>5. Len(b) = Len(s) - n BY <2>2, <2>3
  <2>6. ASSUME NEW k \in 1 .. Len(s) - n PROVE b[k] = s[n + k]
    <3>1. n + 1 + k - 1 = n + k BY <2>3
    <3> QED BY <2>2, <2>4, <3>1
  <2> QED BY <2>2, <2>5, <2>6
<1> HIDE DEF a, b, r
<1>8. /\ r \in Seq(Constructs) /\ Len(r) = Len(a) + Len(b)
      /\ \A k \in 1 .. Len(a) + Len(b) : r[k] = IF k <= Len(a) THEN a[k] ELSE b[k - Len(a)]
      BY <1>3, <1>6, <1>7, ConcatProperties
<1>9. ASSUME NEW k \in 1 .. Len(s) - 1 PROVE r[k] = IF k < n THEN s[k] ELSE s[k + 1]
  <2>1. CASE k < n
    <3>1. k \in 1 .. n - 1 /\ k <= Len(a) /\ k \in 1 .. Len(a) + Len(b) BY <1>2, <1>5, <1>6, <1>7, <2>1
    <3> QED BY <1>6, <1>8, <2>1, <3>1
  <2>2. CASE ~(k < n)
    <3>1. k - (n - 1) \in 1 .. Len(s) - n /\ ~(k <= n - 1) /\ n + (k - (n - 1)) = k + 1
          BY <1>2, <1>5, <2>2
    <3>2. k \in 1 .. Len(a) + Len(b) BY <1>2, <1>5, <1>6, <1>7
    <3>3. r[k] = b[k - (n - 1)] BY <1>6, <1>8, <3>1, <3>2
    <3>4. b[k - (n - 1)] = s[n + (k - (n - 1))] BY <1>7, <3>1
    <3> QED BY <2>2, <3>1, <3>3, <3>4
  <2> QED BY <2>1, <2>2
<1>10. Len(r) = Len(s) - 1 BY <1>2, <1>5, <1>6, <1>7, <1>8
<1>11. Lacks(s, x, r, n) BY <1>1, <1>8, <1>9, <1>10 DEF Lacks
<1> QED BY <1>1, <1>8, <1>11 DEF r

\* Between the event of its end and its end, the critical section is the last construct open.
LeavingOpen == \A t \in Threads : frames[t] # << >> /\ Top(t).at = "out critical" =>
    Top(t).open # << >> /\ Last(Top(t).open) = "critical"

LEMMA GotoMoves ==
    ASSUME TInv, NEW t \in Threads, frames[t] # << >>, NEW label \in Places, Goto(t, label),
           teams' = teams
    PROVE  /\ Local(t, Moved(t, label, Top(t).open))
           /\ Moved(t, label, Top(t).open).at = label /\ Moved(t, label, Top(t).open).open = Top(t).open
<1>1. Top(t) \in FrameType BY TopFrame DEF TInv
<1>2. Moved(t, label, Top(t).open) = [Top(t) EXCEPT !.at = label] BY <1>1 DEF Moved, FrameType
<1>3. Top(t).open \in Seq(Constructs) BY <1>1 DEF FrameType
<1> QED BY <1>1, <1>2, <1>3, GotoIs DEF FrameType

LEMMA Opens ==
    ASSUME TInv, NEW t \in Threads, frames[t] # << >>
    PROVE  /\ Top(t).open \in Seq(Constructs) /\ Len(Top(t).open) \in Nat
           /\ DOMAIN Top(t).open = 1 .. Len(Top(t).open)
           /\ \A x \in Constructs : Append(Top(t).open, x) \in Seq(Constructs)
           /\ \A x : x \in Range(Top(t).open) => Without(Top(t).open, x) \in Seq(Constructs)
           /\ Top(t).open # << >> => Last(Top(t).open) \in Range(Top(t).open)
<1>1. Top(t) \in FrameType BY TopFrame DEF TInv
<1>2. Top(t).open \in Seq(Constructs) BY <1>1 DEF FrameType
<1>3. Len(Top(t).open) \in Nat /\ DOMAIN Top(t).open = 1 .. Len(Top(t).open) BY <1>2, LenProperties
<1>4. \A x \in Constructs : Append(Top(t).open, x) \in Seq(Constructs) BY <1>2, AppendProperties
<1>5. ASSUME NEW x, x \in Range(Top(t).open) PROVE Without(Top(t).open, x) \in Seq(Constructs)
  <2>1. PICK i \in DOMAIN Top(t).open : Top(t).open[i] = x BY <1>5 DEF Range
  <2> QED BY <1>2, <2>1, WithoutIs
<1>6. Top(t).open # << >> => Last(Top(t).open) \in Range(Top(t).open)
  <2>1. Top(t).open # << >> => Len(Top(t).open) \in DOMAIN Top(t).open BY <1>2, <1>3, EmptySeq
  <2> QED BY <2>1 DEF Last, Range
<1> QED BY <1>2, <1>3, <1>4, <1>5, <1>6

\* What a construct does: its thread is at another place with other constructs open.
Does(t, from, to, open) ==
    /\ frames[t] # << >> /\ Top(t).at = from /\ ~conv.failed
    /\ open \in Seq(Constructs)
    /\ Local(t, Moved(t, to, open)) /\ Moved(t, to, open).at = to /\ Moved(t, to, open).open = open
    /\ UNCHANGED <<next_section_id, raced>>

LEMMA DoesMoved ==
    ASSUME TInv, NEW t \in Threads, NEW from, frames[t] # << >>, Top(t).at = from, ~conv.failed,
           teams' = teams, UNCHANGED <<next_section_id, raced>>, NEW to \in Places,
           NEW open \in Seq(Constructs), frames' = [frames EXCEPT ![t] = TopIs(t, Moved(t, to, open))]
    PROVE  Does(t, from, to, open)
BY MovedIs DEF Does

LEMMA RunMoved ==
    ASSUME NEW t \in Threads, Top(t) \in FrameType, Top(t).at = "run", NEW open
    PROVE  [Top(t) EXCEPT !.open = open] = Moved(t, "run", open)
BY DEF Moved, FrameType

LEMMA DoesQuiet ==
    ASSUME TInv, NEW t \in Threads, NEW from \in Plain, NEW to \in Plain, NEW open,
           Does(t, from, to, open),
           to = "out critical" => open # << >> /\ Last(open) = "critical",
           WellFormed(conv'), SameSections(conv, conv')
    PROVE  Quiet(t)
BY DEF Does, Quiet, Local

LEMMA EnterPlainIs ==
    ASSUME TInv, NEW t \in Threads, EnterPlain(t)
    PROVE  /\ Does(t, "run", "run", Append(Top(t).open, "plain"))
           /\ Restated(conv, conv', t, Append(conv.states[t], "Construct"))
           /\ Quiet(t)
<1>1. frames[t] # << >> /\ Top(t).at = "run" /\ ~conv.failed /\ teams' = teams
      /\ UNCHANGED <<next_section_id, raced>>
      BY DEF EnterPlain, At, MayEnter
<1>2a. Append(Top(t).open, "plain") \in Seq(Constructs) BY <1>1, Opens DEF Constructs
<1>3. frames' = [frames EXCEPT ![t] = TopIs(t, Moved(t, "run", Append(Top(t).open, "plain")))]
  <2>1. Top(t) \in FrameType BY <1>1, TopFrame DEF TInv
  <2>2. [Top(t) EXCEPT !.open = Append(@, "plain")] = Moved(t, "run", Append(Top(t).open, "plain"))
        BY <1>1, <2>1, RunMoved
  <2> QED BY <2>2 DEF EnterPlain, Enters
<1>4. Does(t, "run", "run", Append(Top(t).open, "plain"))
  <2> DEFINE open == Append(Top(t).open, "plain")
  <2>1. open \in Seq(Constructs) /\ frames' = [frames EXCEPT ![t] = TopIs(t, Moved(t, "run", open))] BY <1>2a, <1>3
  <2>2. "run" \in Places BY DEF Places
  <2> HIDE DEF open
  <2>3. Does(t, "run", "run", open) BY <1>1, <2>1, <2>2, DoesMoved
  <2> QED BY <2>3 DEF open
<1>5. conv \in ConvType /\ WellFormed(conv) BY DEF TInv, WellFormed
<1>6. Restated(conv, conv', t, Append(conv.states[t], "Construct"))
  <2>1. conv' = PushState(conv, t, "Construct") BY DEF EnterPlain
  <2> QED BY <1>5, <2>1, PushStateIs DEF States
<1>7. WellFormed(conv') /\ SameSections(conv, conv') BY <1>5, <1>6, RestatedSame
<1>8. Quiet(t)
  <2> DEFINE open == Append(Top(t).open, "plain")
  <2>1. Does(t, "run", "run", open) BY <1>4
  <2> HIDE DEF open
  <2> QED BY <1>7, <2>1, DoesQuiet DEF Plain, Places
<1> QED BY <1>4, <1>6, <1>8

LEMMA ExitPlainIs ==
    ASSUME TInv, NEW t \in Threads, ExitPlain(t)
    PROVE  /\ Does(t, "run", "run", Without(Top(t).open, "plain"))
           /\ Restated(conv, conv', t, IF Len(conv.states[t]) > 1 THEN Front(conv.states[t]) ELSE conv.states[t])
           /\ Quiet(t)
<1>1. frames[t] # << >> /\ Top(t).at = "run" /\ ~conv.failed /\ teams' = teams
      /\ UNCHANGED <<next_section_id, raced>>
      BY DEF ExitPlain, At
<1>2a. Without(Top(t).open, "plain") \in Seq(Constructs) BY <1>1, Opens DEF ExitPlain
<1>3. frames' = [frames EXCEPT ![t] = TopIs(t, Moved(t, "run", Without(Top(t).open, "plain")))]
  <2>1. Top(t) \in FrameType BY <1>1, TopFrame DEF TInv
  <2>2. [Top(t) EXCEPT !.open = Without(@, "plain")] = Moved(t, "run", Without(Top(t).open, "plain"))
        BY <1>1, <2>1, RunMoved
  <2> QED BY <2>2 DEF ExitPlain, Leaves
<1>4. Does(t, "run", "run", Without(Top(t).open, "plain"))
  <2> DEFINE open == Without(Top(t).open, "plain")
  <2>1. open \in Seq(Constructs) /\ frames' = [frames EXCEPT ![t] = TopIs(t, Moved(t, "run", open))] BY <1>2a, <1>3
  <2>2. "run" \in Places BY DEF Places
  <2> HIDE DEF open
  <2>3. Does(t, "run", "run", open) BY <1>1, <2>1, <2>2, DoesMoved
  <2> QED BY <2>3 DEF open
<1>5. conv \in ConvType /\ WellFormed(conv) BY DEF TInv, WellFormed
<1>6. Restated(conv, conv', t, IF Len(conv.states[t]) > 1 THEN Front(conv.states[t]) ELSE conv.states[t])
  <2>1. conv' = PopState(conv, t) BY DEF ExitPlain
  <2> QED BY <1>5, <2>1, PopStateIs
<1>7. WellFormed(conv') /\ SameSections(conv, conv')
  <2> DEFINE z == IF Len(conv.states[t]) > 1 THEN Front(conv.states[t]) ELSE conv.states[t]
  <2>1. Restated(conv, conv', t, z) BY <1>6
  <2> HIDE DEF z
  <2> QED BY <1>5, <2>1, RestatedSame
<1>8. Quiet(t)
  <2> DEFINE open == Without(Top(t).open, "plain")
  <2>1. Does(t, "run", "run", open) BY <1>4
  <2> HIDE DEF open
  <2> QED BY <1>7, <2>1, DoesQuiet DEF Plain, Places
<1> QED BY <1>4, <1>6, <1>8

LEMMA AskCriticalIs ==
    ASSUME TInv, NEW t \in Threads, AskCritical(t)
    PROVE  /\ Does(t, "run", "critical", Top(t).open)
           /\ Restated(conv, conv', t, Append(conv.states[t], "Blocked"))
           /\ Quiet(t)
<1>1. frames[t] # << >> /\ Top(t).at = "run" /\ ~conv.failed /\ teams' = teams
      /\ UNCHANGED <<next_section_id, raced>>
      BY DEF AskCritical, At, MayEnter
<1>4. Does(t, "run", "critical", Top(t).open)
  <2>1. Goto(t, "critical") /\ "critical" \in Places BY DEF AskCritical, Places
  <2> QED BY <1>1, <2>1, GotoMoves, Opens DEF Does
<1>5. conv \in ConvType /\ WellFormed(conv) BY DEF TInv, WellFormed
<1>6. Restated(conv, conv', t, Append(conv.states[t], "Blocked"))
  <2>1. conv' = PushState(conv, t, "Blocked") BY DEF AskCritical, HandleBlocks
  <2> QED BY <1>5, <2>1, PushStateIs DEF States
<1>7. WellFormed(conv') /\ SameSections(conv, conv') BY <1>5, <1>6, RestatedSame
<1>8. Quiet(t)
  <2> DEFINE open == Top(t).open
  <2>1. Does(t, "run", "critical", open) BY <1>4
  <2> HIDE DEF open
  <2> QED BY <1>7, <2>1, DoesQuiet DEF Plain, Places
<1> QED BY <1>4, <1>6, <1>8

LEMMA AskLockIs ==
    ASSUME TInv, NEW t \in Threads, AskLock(t)
    PROVE  /\ Does(t, "run", "lock", Top(t).open)
           /\ Restated(conv, conv', t, Append(conv.states[t], "Blocked"))
           /\ Quiet(t)
<1>1. frames[t] # << >> /\ Top(t).at = "run" /\ ~conv.failed /\ teams' = teams
      /\ UNCHANGED <<next_section_id, raced>>
      BY DEF AskLock, At, MayEnter
<1>4. Does(t, "run", "lock", Top(t).open)
  <2>1. Goto(t, "lock") /\ "lock" \in Places BY DEF AskLock, Places
  <2> QED BY <1>1, <2>1, GotoMoves, Opens DEF Does
<1>5. conv \in ConvType /\ WellFormed(conv) BY DEF TInv, WellFormed
<1>6. Restated(conv, conv', t, Append(conv.states[t], "Blocked"))
  <2>1. conv' = PushState(conv, t, "Blocked") BY DEF AskLock, HandleBlocks
  <2> QED BY <1>5, <2>1, PushStateIs DEF States
<1>7. WellFormed(conv') /\ SameSections(conv, conv') BY <1>5, <1>6, RestatedSame
<1>8. Quiet(t)
  <2> DEFINE open == Top(t).open
  <2>1. Does(t, "run", "lock", open) BY <1>4
  <2> HIDE DEF open
  <2> QED BY <1>7, <2>1, DoesQuiet DEF Plain, Places
<1> QED BY <1>4, <1>6, <1>8

LEMMA LibCriticalStartIs ==
    ASSUME TInv, NEW t \in Threads, LibCriticalStart(t)
    PROVE  /\ Does(t, "critical", "in critical", Top(t).open)
           /\ conv' = conv
           /\ Quiet(t)
<1>1. frames[t] # << >> /\ Top(t).at = "critical" /\ ~conv.failed /\ teams' = teams
      /\ UNCHANGED <<next_section_id, raced>>
      BY DEF LibCriticalStart, At
<1>4. Does(t, "critical", "in critical", Top(t).open)
  <2>1. Goto(t, "in critical") /\ "in critical" \in Places BY DEF LibCriticalStart, Places
  <2> QED BY <1>1, <2>1, GotoMoves, Opens DEF Does
<1>5. conv \in ConvType /\ WellFormed(conv) BY DEF TInv, WellFormed
<1>6. conv' = conv BY DEF LibCriticalStart
<1>7. WellFormed(conv') /\ SameSections(conv, conv') BY <1>5, <1>6 DEF SameSections
<1>8. Quiet(t)
  <2> DEFINE open == Top(t).open
  <2>1. Does(t, "critical", "in critical", open) BY <1>4
  <2> HIDE DEF open
  <2> QED BY <1>7, <2>1, DoesQuiet DEF Plain, Places
<1> QED BY <1>4, <1>6, <1>8

LEMMA LibSetLockIs ==
    ASSUME TInv, NEW t \in Threads, LibSetLock(t)
    PROVE  /\ Does(t, "lock", "in lock", Top(t).open)
           /\ conv' = conv
           /\ Quiet(t)
<1>1. frames[t] # << >> /\ Top(t).at = "lock" /\ ~conv.failed /\ teams' = teams
      /\ UNCHANGED <<next_section_id, raced>>
      BY DEF LibSetLock, At
<1>4. Does(t, "lock", "in lock", Top(t).open)
  <2>1. Goto(t, "in lock") /\ "in lock" \in Places BY DEF LibSetLock, Places
  <2> QED BY <1>1, <2>1, GotoMoves, Opens DEF Does
<1>5. conv \in ConvType /\ WellFormed(conv) BY DEF TInv, WellFormed
<1>6. conv' = conv BY DEF LibSetLock
<1>7. WellFormed(conv') /\ SameSections(conv, conv') BY <1>5, <1>6 DEF SameSections
<1>8. Quiet(t)
  <2> DEFINE open == Top(t).open
  <2>1. Does(t, "lock", "in lock", open) BY <1>4
  <2> HIDE DEF open
  <2> QED BY <1>7, <2>1, DoesQuiet DEF Plain, Places
<1> QED BY <1>4, <1>6, <1>8

LEMMA RecordCriticalIs ==
    ASSUME TInv, NEW t \in Threads, RecordCritical(t)
    PROVE  /\ Does(t, "in critical", "run", Append(Top(t).open, "critical"))
           /\ conv' = HandleEnters(conv, t, "Critical")
           /\ Quiet(t)
<1>1. frames[t] # << >> /\ Top(t).at = "in critical" /\ ~conv.failed /\ teams' = teams
      /\ UNCHANGED <<next_section_id, raced>>
      BY DEF RecordCritical, At
<1>2a. Append(Top(t).open, "critical") \in Seq(Constructs) BY <1>1, Opens DEF Constructs
<1>3. frames' = [frames EXCEPT ![t] = TopIs(t, Moved(t, "run", Append(Top(t).open, "critical")))]
  <2>1. Top(t) \in FrameType BY <1>1, TopFrame DEF TInv
  <2> QED BY <1>1, <2>1 DEF RecordCritical, Moved, FrameType
<1>4. Does(t, "in critical", "run", Append(Top(t).open, "critical"))
  <2> DEFINE open == Append(Top(t).open, "critical")
  <2>1. open \in Seq(Constructs) /\ frames' = [frames EXCEPT ![t] = TopIs(t, Moved(t, "run", open))] BY <1>2a, <1>3
  <2>2. "run" \in Places BY DEF Places
  <2> HIDE DEF open
  <2>3. Does(t, "in critical", "run", open) BY <1>1, <2>1, <2>2, DoesMoved
  <2> QED BY <2>3 DEF open
<1>5. conv \in ConvType /\ WellFormed(conv) BY DEF TInv, WellFormed
<1>6. conv' = HandleEnters(conv, t, "Critical") BY DEF RecordCritical
<1>7. WellFormed(conv') /\ SameSections(conv, conv')
  <2>1. PICK y : Restated(conv, HandleEnters(conv, t, "Critical"), t, y) BY <1>5, EntersFormed DEF States
  <2> QED BY <1>5, <1>6, <2>1, RestatedSame
<1>8. Quiet(t)
  <2> DEFINE open == Append(Top(t).open, "critical")
  <2>1. Does(t, "in critical", "run", open) BY <1>4
  <2> HIDE DEF open
  <2> QED BY <1>7, <2>1, DoesQuiet DEF Plain, Places
<1> QED BY <1>4, <1>6, <1>8

LEMMA RecordLockedIs ==
    ASSUME TInv, NEW t \in Threads, RecordLocked(t)
    PROVE  /\ Does(t, "in lock", "run", Append(Top(t).open, "lock"))
           /\ conv' = HandleEnters(conv, t, "Locked")
           /\ Quiet(t)
<1>1. frames[t] # << >> /\ Top(t).at = "in lock" /\ ~conv.failed /\ teams' = teams
      /\ UNCHANGED <<next_section_id, raced>>
      BY DEF RecordLocked, At
<1>2a. Append(Top(t).open, "lock") \in Seq(Constructs) BY <1>1, Opens DEF Constructs
<1>3. frames' = [frames EXCEPT ![t] = TopIs(t, Moved(t, "run", Append(Top(t).open, "lock")))]
  <2>1. Top(t) \in FrameType BY <1>1, TopFrame DEF TInv
  <2> QED BY <1>1, <2>1 DEF RecordLocked, Moved, FrameType
<1>4. Does(t, "in lock", "run", Append(Top(t).open, "lock"))
  <2> DEFINE open == Append(Top(t).open, "lock")
  <2>1. open \in Seq(Constructs) /\ frames' = [frames EXCEPT ![t] = TopIs(t, Moved(t, "run", open))] BY <1>2a, <1>3
  <2>2. "run" \in Places BY DEF Places
  <2> HIDE DEF open
  <2>3. Does(t, "in lock", "run", open) BY <1>1, <2>1, <2>2, DoesMoved
  <2> QED BY <2>3 DEF open
<1>5. conv \in ConvType /\ WellFormed(conv) BY DEF TInv, WellFormed
<1>6. conv' = HandleEnters(conv, t, "Locked") BY DEF RecordLocked
<1>7. WellFormed(conv') /\ SameSections(conv, conv')
  <2>1. PICK y : Restated(conv, HandleEnters(conv, t, "Locked"), t, y) BY <1>5, EntersFormed DEF States
  <2> QED BY <1>5, <1>6, <2>1, RestatedSame
<1>8. Quiet(t)
  <2> DEFINE open == Append(Top(t).open, "lock")
  <2>1. Does(t, "in lock", "run", open) BY <1>4
  <2> HIDE DEF open
  <2> QED BY <1>7, <2>1, DoesQuiet DEF Plain, Places
<1> QED BY <1>4, <1>6, <1>8

LEMMA RecordCriticalEndIs ==
    ASSUME TInv, NEW t \in Threads, RecordCriticalEnd(t)
    PROVE  /\ Does(t, "run", "out critical", Top(t).open)
           /\ Restated(conv, conv', t, IF Len(conv.states[t]) > 1 THEN Front(conv.states[t]) ELSE conv.states[t])
           /\ Quiet(t)
<1>1. frames[t] # << >> /\ Top(t).at = "run" /\ ~conv.failed /\ teams' = teams
      /\ UNCHANGED <<next_section_id, raced>>
      BY DEF RecordCriticalEnd, At
<1>4. Does(t, "run", "out critical", Top(t).open)
  <2>1. Goto(t, "out critical") /\ "out critical" \in Places BY DEF RecordCriticalEnd, Places
  <2> QED BY <1>1, <2>1, GotoMoves, Opens DEF Does
<1>5. conv \in ConvType /\ WellFormed(conv) BY DEF TInv, WellFormed
<1>6. Restated(conv, conv', t, IF Len(conv.states[t]) > 1 THEN Front(conv.states[t]) ELSE conv.states[t])
  <2>1. conv' = PopState(conv, t) BY DEF RecordCriticalEnd
  <2> QED BY <1>5, <2>1, PopStateIs
<1>7. WellFormed(conv') /\ SameSections(conv, conv')
  <2> DEFINE z == IF Len(conv.states[t]) > 1 THEN Front(conv.states[t]) ELSE conv.states[t]
  <2>1. Restated(conv, conv', t, z) BY <1>6
  <2> HIDE DEF z
  <2> QED BY <1>5, <2>1, RestatedSame
<1>8. Quiet(t)
  <2> DEFINE open == Top(t).open
  <2>1. Does(t, "run", "out critical", open) BY <1>4
  <2>2. open # << >> /\ Last(open) = "critical" BY DEF RecordCriticalEnd
  <2> HIDE DEF open
  <2> QED BY <1>7, <2>1, <2>2, DoesQuiet DEF Plain, Places
<1> QED BY <1>4, <1>6, <1>8

LEMMA LibCriticalEndIs ==
    ASSUME TInv, LeavingOpen, NEW t \in Threads, LibCriticalEnd(t)
    PROVE  /\ Does(t, "out critical", "run", Without(Top(t).open, "critical"))
           /\ conv' = conv
           /\ Quiet(t)
<1>1. frames[t] # << >> /\ Top(t).at = "out critical" /\ ~conv.failed /\ teams' = teams
      /\ UNCHANGED <<next_section_id, raced>>
      BY DEF LibCriticalEnd, At
<1>2. Top(t).open # << >> /\ Last(Top(t).open) = "critical"
      BY <1>1 DEF LeavingOpen
<1>2a. Without(Top(t).open, "critical") \in Seq(Constructs) BY <1>1, <1>2, Opens
<1>3. frames' = [frames EXCEPT ![t] = TopIs(t, Moved(t, "run", Without(Top(t).open, "critical")))]
  <2>1. Top(t) \in FrameType BY <1>1, TopFrame DEF TInv
  <2> QED BY <1>1, <2>1 DEF LibCriticalEnd, Moved, FrameType
<1>4. Does(t, "out critical", "run", Without(Top(t).open, "critical"))
  <2> DEFINE open == Without(Top(t).open, "critical")
  <2>1. open \in Seq(Constructs) /\ frames' = [frames EXCEPT ![t] = TopIs(t, Moved(t, "run", open))] BY <1>2a, <1>3
  <2>2. "run" \in Places BY DEF Places
  <2> HIDE DEF open
  <2>3. Does(t, "out critical", "run", open) BY <1>1, <2>1, <2>2, DoesMoved
  <2> QED BY <2>3 DEF open
<1>5. conv \in ConvType /\ WellFormed(conv) BY DEF TInv, WellFormed
<1>6. conv' = conv BY DEF LibCriticalEnd
<1>7. WellFormed(conv') /\ SameSections(conv, conv') BY <1>5, <1>6 DEF SameSections
<1>8. Quiet(t)
  <2> DEFINE open == Without(Top(t).open, "critical")
  <2>1. Does(t, "out critical", "run", open) BY <1>4
  <2> HIDE DEF open
  <2> QED BY <1>7, <2>1, DoesQuiet DEF Plain, Places
<1> QED BY <1>4, <1>6, <1>8

LEMMA UnsetLockIs ==
    ASSUME TInv, NEW t \in Threads, UnsetLock(t)
    PROVE  /\ Does(t, "run", "run", Without(Top(t).open, "lock"))
           /\ Restated(conv, conv', t, IF Len(conv.states[t]) > 1 THEN Front(conv.states[t]) ELSE conv.states[t])
           /\ Quiet(t)
<1>1. frames[t] # << >> /\ Top(t).at = "run" /\ ~conv.failed /\ teams' = teams
      /\ UNCHANGED <<next_section_id, raced>>
      BY DEF UnsetLock, At
<1>2a. Without(Top(t).open, "lock") \in Seq(Constructs) BY <1>1, Opens DEF UnsetLock
<1>3. frames' = [frames EXCEPT ![t] = TopIs(t, Moved(t, "run", Without(Top(t).open, "lock")))]
  <2>1. Top(t) \in FrameType BY <1>1, TopFrame DEF TInv
  <2>2. [Top(t) EXCEPT !.open = Without(@, "lock")] = Moved(t, "run", Without(Top(t).open, "lock"))
        BY <1>1, <2>1, RunMoved
  <2> QED BY <2>2 DEF UnsetLock, Leaves
<1>4. Does(t, "run", "run", Without(Top(t).open, "lock"))
  <2> DEFINE open == Without(Top(t).open, "lock")
  <2>1. open \in Seq(Constructs) /\ frames' = [frames EXCEPT ![t] = TopIs(t, Moved(t, "run", open))] BY <1>2a, <1>3
  <2>2. "run" \in Places BY DEF Places
  <2> HIDE DEF open
  <2>3. Does(t, "run", "run", open) BY <1>1, <2>1, <2>2, DoesMoved
  <2> QED BY <2>3 DEF open
<1>5. conv \in ConvType /\ WellFormed(conv) BY DEF TInv, WellFormed
<1>6. Restated(conv, conv', t, IF Len(conv.states[t]) > 1 THEN Front(conv.states[t]) ELSE conv.states[t])
  <2>1. conv' = PopState(conv, t) BY DEF UnsetLock
  <2> QED BY <1>5, <2>1, PopStateIs
<1>7. WellFormed(conv') /\ SameSections(conv, conv')
  <2> DEFINE z == IF Len(conv.states[t]) > 1 THEN Front(conv.states[t]) ELSE conv.states[t]
  <2>1. Restated(conv, conv', t, z) BY <1>6
  <2> HIDE DEF z
  <2> QED BY <1>5, <2>1, RestatedSame
<1>8. Quiet(t)
  <2> DEFINE open == Without(Top(t).open, "lock")
  <2>1. Does(t, "run", "run", open) BY <1>4
  <2> HIDE DEF open
  <2> QED BY <1>7, <2>1, DoesQuiet DEF Plain, Places
<1> QED BY <1>4, <1>6, <1>8

Members(r) == teams[r].members
Borders == {"fork", "joined", "done"}

LeaderIn(r) == \E j \in DOMAIN frames[Members(r)[1]] :
                  /\ frames[Members(r)[1]][j].team = r
                  /\ frames[Members(r)[1]][j].at # "done"

InRegion(t, r, num) ==
    /\ r \in DOMAIN teams
    /\ num + 1 \in DOMAIN Members(r) /\ Members(r)[num + 1] = t

FrameOK(t, i) ==
    LET f == frames[t][i] IN
    /\ i < Len(frames[t]) => f.at = "run"
    /\ f.team = 0 => i = 1 /\ f.at \notin Borders
    /\ i > 1 => f.num = 0
    /\ f.team # 0 => InRegion(t, f.team, f.num)
    /\ f.num # 0 => f.team # 0 /\ LeaderIn(f.team)
    /\ f.at \in Borders => f.open = << >>
    /\ f.at = "done" => f.num = 0
    /\ f.at = "out critical" => f.open # << >> /\ Last(f.open) = "critical"

Nested(t) == \A i, j \in DOMAIN frames[t] : i < j => frames[t][i].team < frames[t][j].team
TeamOK(r) == /\ Len(Members(r)) > 0
             /\ \A i, j \in DOMAIN Members(r) : Members(r)[i] = Members(r)[j] => i = j

FInv ==
    /\ \A t \in Threads : Nested(t) /\ \A i \in DOMAIN frames[t] : FrameOK(t, i)
    /\ \A r \in DOMAIN teams : TeamOK(r)

LEMMA TeamsAre ==
    ASSUME TInv, FInv, NEW r \in DOMAIN teams
    PROVE  /\ r \in Nat \ {0} /\ teams[r] \in TeamType
           /\ Members(r) \in Seq(Threads) /\ Len(Members(r)) \in Nat \ {0}
           /\ DOMAIN Members(r) = 1 .. Len(Members(r))
           /\ 1 \in DOMAIN Members(r) /\ Members(r)[1] \in Threads
           /\ \A i \in DOMAIN Members(r) : Members(r)[i] \in Threads
<1>1. teams \in Seq(TeamType) BY DEF TInv
<1>2. DOMAIN teams = 1 .. Len(teams) /\ Len(teams) \in Nat BY <1>1, LenProperties
<1>3. r \in 1 .. Len(teams) BY <1>2
<1>4. teams[r] \in TeamType BY <1>1, <1>3, ElementOfSeq
<1>5. Members(r) \in Seq(Threads) BY <1>4 DEF Members, TeamType
<1>6. DOMAIN Members(r) = 1 .. Len(Members(r)) /\ Len(Members(r)) \in Nat
      /\ \A i \in 1 .. Len(Members(r)) : Members(r)[i] \in Threads
      BY <1>5, LenProperties, ElementOfSeq
<1>7. Len(Members(r)) > 0 BY DEF FInv, TeamOK
<1> QED BY <1>2, <1>3, <1>4, <1>5, <1>6, <1>7

\* What changes of the frames when the top one of t becomes f.
Kept(t, f, u, i) ==
    /\ u = t /\ i = Len(frames[t]) => frames'[u][i] = f /\ frames[u][i] = Top(t) /\ ~(i < Len(frames[u]))
    /\ ~(u = t /\ i = Len(frames[t])) => frames'[u][i] = frames[u][i]
    /\ frames'[u][i].team = frames[u][i].team /\ frames'[u][i].num = frames[u][i].num

SameDomain(u) == DOMAIN frames'[u] = DOMAIN frames[u] /\ Len(frames'[u]) = Len(frames[u])

LEMMA LocalFrame ==
    ASSUME TInv, NEW t \in Threads, NEW f \in FrameType, Local(t, f)
    PROVE  \A u \in Threads : SameDomain(u) /\ \A i \in DOMAIN frames[u] : Kept(t, f, u, i)
<1> SUFFICES ASSUME NEW u \in Threads
             PROVE  SameDomain(u) /\ \A i \in DOMAIN frames[u] : Kept(t, f, u, i)
    OBVIOUS
<1>0. SameDomain(u) BY DEF Local, Replaced, SameDomain
<1>1. ASSUME NEW i \in DOMAIN frames[u] PROVE Kept(t, f, u, i)
  <2>1. CASE u # t BY <2>1 DEF Local, Replaced, Kept
  <2>2. CASE u = t
    <3>1. Top(t) = frames[t][Len(frames[t])] /\ Len(frames[t]) \in Nat
          BY TopFrame DEF TInv, Local, Replaced
    <3> QED BY <2>2, <3>1 DEF Local, Replaced, Kept
  <2> QED BY <2>1, <2>2
<1> QED BY <1>0, <1>1

LEMMA LocalFrames ==
    ASSUME TInv, FInv, NEW t \in Threads, NEW f \in FrameType, Local(t, f), f.at # "done", Top(t).at # "done",
           f.at \in Borders => f.team # 0 /\ f.open = << >>,
           f.at = "out critical" => f.open # << >> /\ Last(f.open) = "critical"
    PROVE  FInv'
<1>1. teams' = teams BY DEF Local
<1>2. ASSUME NEW r \in DOMAIN teams PROVE LeaderIn(r) => LeaderIn(r)'
  <2> SUFFICES ASSUME LeaderIn(r) PROVE LeaderIn(r)' OBVIOUS
  <2> DEFINE l == Members(r)[1]
  <2>1. PICK j \in DOMAIN frames[l] : frames[l][j].team = r /\ frames[l][j].at # "done" BY DEF LeaderIn
  <2>2. l \in Threads /\ l = Members(r)'[1] BY <1>1, TeamsAre DEF Members
  <2> HIDE DEF l
  <2>3. SameDomain(l) /\ Kept(t, f, l, j) BY <2>2, LocalFrame
  <2>4. j \in DOMAIN frames'[l] /\ frames'[l][j].team = r BY <2>1, <2>3 DEF SameDomain, Kept
  <2>5. frames'[l][j].at # "done" BY <2>1, <2>3 DEF Kept
  <2>6. frames'[l][j].team = r /\ frames'[l][j].at # "done" BY <2>4, <2>5
  <2> QED BY <2>2, <2>4, <2>6 DEF LeaderIn, l
<1>3. ASSUME NEW u \in Threads, NEW i \in DOMAIN frames'[u] PROVE FrameOK(u, i)'
  <2>0. SameDomain(u) BY LocalFrame
  <2>0a. i \in DOMAIN frames[u] BY <2>0 DEF SameDomain
  <2>0b. Kept(t, f, u, i) BY <2>0a, LocalFrame
  <2>1. i \in DOMAIN frames[u] /\ Len(frames'[u]) = Len(frames[u])
        /\ frames'[u][i].team = frames[u][i].team /\ frames'[u][i].num = frames[u][i].num
        BY <2>0, <2>0a, <2>0b DEF SameDomain, Kept
  <2>2. FrameOK(u, i) BY <2>1 DEF FInv
  <2>3. PICK r : r = frames[u][i].team OBVIOUS
  <2>4. PICK n : n = frames[u][i].num OBVIOUS
  <2>5. frames'[u][i].team = r /\ frames'[u][i].num = n BY <2>1, <2>3, <2>4
  <2>6. r # 0 => InRegion(u, r, n) BY <2>2, <2>3, <2>4 DEF FrameOK
  <2>7. n # 0 => r # 0 /\ LeaderIn(r) BY <2>2, <2>3, <2>4 DEF FrameOK
  <2>8. r # 0 => InRegion(u, r, n)' BY <1>1, <2>6 DEF InRegion, Members
  <2>9. n # 0 => r # 0 /\ LeaderIn(r)' BY <1>2, <2>6, <2>7 DEF InRegion
  <2>10. (r = 0 => i = 1) /\ (i > 1 => n = 0) BY <2>2, <2>3, <2>4 DEF FrameOK
  <2>11. CASE u = t /\ i = Len(frames[t])
    <3>1. frames'[u][i] = f /\ ~(i < Len(frames'[u])) BY <2>0b, <2>1, <2>11 DEF Kept
    <3>2. f.team = r /\ f.num = n BY <2>5, <3>1
    <3> QED BY <2>5, <2>8, <2>9, <2>10, <3>1, <3>2 DEF FrameOK
  <2>12. CASE ~(u = t /\ i = Len(frames[t]))
    <3>0. frames'[u][i] = frames[u][i] BY <2>0b, <2>12 DEF Kept
    <3>1. /\ i < Len(frames[u]) => frames[u][i].at = "run"
          /\ r = 0 => frames[u][i].at \notin Borders
          /\ frames[u][i].at \in Borders => frames[u][i].open = << >>
          /\ frames[u][i].at = "done" => n = 0
          /\ frames[u][i].at = "out critical" => frames[u][i].open # << >> /\ Last(frames[u][i].open) = "critical"
          BY <2>2, <2>3, <2>4 DEF FrameOK
    <3> QED BY <2>1, <2>5, <2>8, <2>9, <2>10, <3>0, <3>1 DEF FrameOK
  <2> QED BY <2>11, <2>12
<1>4. ASSUME NEW u \in Threads PROVE Nested(u)'
  <2>1. SameDomain(u) /\ \A i \in DOMAIN frames[u] : Kept(t, f, u, i) BY LocalFrame
  <2>2. DOMAIN frames'[u] = DOMAIN frames[u]
        /\ \A i \in DOMAIN frames[u] : frames'[u][i].team = frames[u][i].team
        BY <2>1 DEF SameDomain, Kept
  <2> QED BY <2>2 DEF FInv, Nested
<1>5. ASSUME NEW r \in DOMAIN teams' PROVE TeamOK(r)' BY <1>1 DEF FInv, TeamOK, Members
<1> QED BY <1>3, <1>4, <1>5 DEF FInv

LEMMA LocalTypes ==
    ASSUME TInv, NEW t \in Threads, NEW f \in FrameType, Local(t, f),
           next_section_id' \in Nat, WellFormed(conv')
    PROVE  TInv'
BY DEF TInv, Local, Replaced

LEMMA FInvLeaving == ASSUME TInv, FInv PROVE LeavingOpen
<1> SUFFICES ASSUME NEW t \in Threads, frames[t] # << >>, Top(t).at = "out critical"
             PROVE  Top(t).open # << >> /\ Last(Top(t).open) = "critical"
    BY DEF LeavingOpen
<1>1. Len(frames[t]) \in DOMAIN frames[t] /\ Top(t) = frames[t][Len(frames[t])] BY TopFrame DEF TInv
<1>2. FrameOK(t, Len(frames[t])) BY <1>1 DEF FInv
<1> QED BY <1>1, <1>2 DEF FrameOK

LEMMA QuietKeeps ==
    ASSUME TInv, FInv, NEW t \in Threads, Quiet(t)
    PROVE  TInv' /\ FInv'
<1>1. PICK f \in FrameType : /\ Local(t, f) /\ f.at \in Plain
                             /\ f.at = "out critical" => f.open # << >> /\ Last(f.open) = "critical"
      BY DEF Quiet
<1>2. next_section_id' \in Nat /\ WellFormed(conv') BY DEF Quiet, TInv
<1>3. f.at \notin Borders /\ f.at # "done" /\ Top(t).at # "done" BY <1>1 DEF Quiet, Plain, Borders
<1> QED BY <1>1, <1>2, <1>3, LocalTypes, LocalFrames

\* What FInv says of the frame that a thread is in.
LEMMA TopOK ==
    ASSUME TInv, FInv, NEW t \in Threads, frames[t] # << >>
    PROVE  /\ Top(t) \in FrameType
           /\ Top(t).team # 0 => InRegion(t, Top(t).team, Top(t).num)
           /\ Top(t).at \in Borders => Top(t).team # 0 /\ Top(t).open = << >>
           /\ \A i \in DOMAIN frames[t] : i # Len(frames[t]) =>
                 frames[t][i].at = "run" /\ frames[t][i].team # Top(t).team
           /\ Top(t).num # 0 => Len(frames[t]) = 1
<1>1. /\ Len(frames[t]) \in DOMAIN frames[t] /\ Top(t) = frames[t][Len(frames[t])] /\ Top(t) \in FrameType
      /\ Len(frames[t]) \in Nat \ {0} /\ DOMAIN frames[t] = 1 .. Len(frames[t])
      BY TopFrame, FramesAre DEF TInv
<1>2. FrameOK(t, Len(frames[t])) /\ Nested(t) BY <1>1 DEF FInv
<1>3. ASSUME NEW i \in DOMAIN frames[t], i # Len(frames[t])
      PROVE  frames[t][i].at = "run" /\ frames[t][i].team # Top(t).team
  <2>1. i < Len(frames[t]) /\ FrameOK(t, i) BY <1>1, <1>3 DEF FInv
  <2>2. frames[t][i].team < frames[t][Len(frames[t])].team BY <1>1, <1>2, <2>1 DEF Nested
  <2>3. frames[t][i] \in FrameType BY FramesAre DEF TInv
  <2>4. frames[t][i].team \in Nat /\ Top(t).team \in Nat BY <1>1, <2>3 DEF FrameType
  <2>5. frames[t][i].team # Top(t).team
    <3>1. frames[t][i].team < Top(t).team BY <1>1, <2>2
    <3> QED BY <2>4, <3>1
  <2>6. frames[t][i].at = "run" BY <2>1 DEF FrameOK
  <2> QED BY <2>5, <2>6
<1>4. Top(t).num # 0 => Len(frames[t]) = 1
  <2>1. Len(frames[t]) > 1 => frames[t][Len(frames[t])].num = 0 BY <1>2 DEF FrameOK
  <2>2. Len(frames[t]) > 1 => Top(t).num = 0 BY <1>1, <2>1
  <2>3. Len(frames[t]) > 1 \/ Len(frames[t]) = 1
    <3>1. \A n \in Nat \ {0} : n > 1 \/ n = 1 OBVIOUS
    <3> QED BY <1>1, <3>1, Zenon
  <2>4. CASE Len(frames[t]) > 1 BY <2>2, <2>4, Zenon
  <2>5. CASE Len(frames[t]) = 1 BY <2>5, Zenon
  <2> QED BY <2>3, <2>4, <2>5, Zenon
<1> QED BY <1>1, <1>2, <1>3, <1>4 DEF FrameOK

LEMMA ReadIdIs ==
    ASSUME TInv, FInv, NEW t \in Threads, ReadId(t)
    PROVE  LET f == [Top(t) EXCEPT !.at = "incr", !.id = next_section_id]
           IN  /\ frames[t] # << >> /\ Top(t).at = "run" /\ ~conv.failed
               /\ Local(t, f) /\ f \in FrameType /\ f.at = "incr" /\ f.id = next_section_id
               /\ raced' = (raced \/ \E u \in Threads : At(u, "incr"))
               /\ UNCHANGED <<next_section_id, conv>>
               /\ TInv' /\ FInv'
<1> DEFINE f == [Top(t) EXCEPT !.at = "incr", !.id = next_section_id]
<1>1. /\ frames[t] # << >> /\ Top(t).at = "run" /\ ~conv.failed /\ teams' = teams
      /\ frames' = [frames EXCEPT ![t] = TopIs(t, f)]
      /\ raced' = (raced \/ \E u \in Threads : At(u, "incr"))
      /\ UNCHANGED <<next_section_id, conv>>
      BY DEF ReadId, At
<1>2. Top(t) \in FrameType BY <1>1, TopOK
<1>3. f \in FrameType /\ f.at = "incr" /\ f.id = next_section_id /\ f.team = Top(t).team /\ f.num = Top(t).num
      BY <1>2 DEF FrameType, Places, TInv
<1> HIDE DEF f
<1>4. Local(t, f) BY <1>1, <1>3, TopReplaces DEF Local, TInv
<1>5. TInv' BY <1>1, <1>3, <1>4, LocalTypes DEF TInv
<1>6. f.at # "done" /\ Top(t).at # "done" /\ f.at \notin Borders /\ f.at # "out critical"
      BY <1>1, <1>3 DEF Borders
<1>7. FInv' BY <1>3, <1>4, <1>6, LocalFrames
<1> QED BY <1>1, <1>3, <1>4, <1>5, <1>7 DEF f

\* The steps that only move the thread to a place.
GoesTo(t, from, to) ==
    LET f == Moved(t, to, Top(t).open)
    IN  /\ frames[t] # << >> /\ Top(t).at = from /\ ~conv.failed
        /\ f \in FrameType /\ f.at = to /\ f.open = Top(t).open /\ f.id = Top(t).id
        /\ Local(t, f)

LEMMA GoesToIs ==
    ASSUME TInv, FInv, NEW t \in Threads, NEW from \in Places, NEW to \in Places,
           At(t, from), Goto(t, to), teams' = teams,
           from # "done", to # "done", to # "out critical",
           to \in Borders => Top(t).team # 0 /\ Top(t).open = << >>,
           next_section_id' \in Nat, WellFormed(conv')
    PROVE  GoesTo(t, from, to) /\ TInv' /\ FInv'
<1> DEFINE f == Moved(t, to, Top(t).open)
<1>1. frames[t] # << >> /\ Top(t).at = from /\ ~conv.failed BY DEF At
<1>2. Top(t) \in FrameType BY <1>1, TopOK
<1>3. f \in FrameType /\ f.at = to /\ f.open = Top(t).open /\ f.id = Top(t).id
      /\ f.team = Top(t).team /\ f.num = Top(t).num
      BY <1>2 DEF Moved, FrameType
<1> HIDE DEF f
<1>4. Local(t, f) BY <1>1, GotoMoves DEF f
<1>5. TInv' BY <1>3, <1>4, LocalTypes
<1>6. FInv' BY <1>1, <1>3, <1>4, LocalFrames
<1> QED BY <1>1, <1>3, <1>4, <1>5, <1>6 DEF GoesTo, f

LEMMA WriteIdIs ==
    ASSUME TInv, FInv, NEW t \in Threads, WriteId(t)
    PROVE  /\ GoesTo(t, "incr", "start") /\ TInv' /\ FInv'
           /\ next_section_id' = Top(t).id + 1 /\ UNCHANGED <<conv, raced>>
<1>1. At(t, "incr") /\ Goto(t, "start") /\ teams' = teams /\ next_section_id' = Top(t).id + 1
      /\ UNCHANGED <<conv, raced>>
      BY DEF WriteId
<1>2. Top(t) \in FrameType BY <1>1, TopOK DEF At
<1>3. next_section_id' \in Nat BY <1>1, <1>2 DEF FrameType
<1>4. WellFormed(conv') BY <1>1 DEF TInv
<1> QED BY <1>1, <1>3, <1>4, GoesToIs DEF Places, Borders

LEMMA RecordStartIs ==
    ASSUME TInv, FInv, NEW t \in Threads, RecordStart(t)
    PROVE  /\ GoesTo(t, "start", "call") /\ TInv' /\ FInv'
           /\ conv' = HandleParallelStart(conv, t, Top(t).id) /\ Top(t).id \in Nat
           /\ UNCHANGED <<next_section_id, raced>>
<1>1. At(t, "start") /\ Goto(t, "call") /\ teams' = teams
      /\ conv' = HandleParallelStart(conv, t, Top(t).id)
      /\ UNCHANGED <<next_section_id, raced>>
      BY DEF RecordStart
<1>2. Top(t) \in FrameType BY <1>1, TopOK DEF At
<1>3. Top(t).id \in Nat BY <1>2 DEF FrameType
<1>4. WellFormed(conv') /\ next_section_id' \in Nat BY <1>1, <1>3, StartFormed DEF TInv
<1> QED BY <1>1, <1>3, <1>4, GoesToIs DEF Places, Borders

\* The region of the thread's event.
LEMMA RegionOf ==
    ASSUME TInv, FInv, NEW t \in Threads, frames[t] # << >>, Top(t).team # 0
    PROVE  /\ Top(t).team \in DOMAIN teams /\ Top(t).num \in Nat
           /\ teams[Top(t).team].id \in Nat
           /\ Len(teams[Top(t).team].members) \in Nat \ {0}
<1>1. Top(t).team \in DOMAIN teams /\ Top(t) \in FrameType BY TopOK DEF InRegion
<1>2. teams[Top(t).team] \in TeamType /\ Len(Members(Top(t).team)) \in Nat \ {0} BY <1>1, TeamsAre
<1> QED BY <1>1, <1>2 DEF FrameType, TeamType, Members

LEMMA ForkFormed ==
    ASSUME NEW c, WellFormed(c), NEW t \in Threads, NEW id \in Nat, NEW num \in Nat, NEW n \in Nat
    PROVE  WellFormed(HandleNewFork(c, t, id, num, n))
<1>1. CASE Fails(c, id, n) BY <1>1, Fails1, FailedFormed
<1>2. CASE ~Fails(c, id, n) BY <1>2, ForkIs DEF Forks
<1> QED BY <1>1, <1>2

LEMMA RecordForkIs ==
    ASSUME TInv, FInv, NEW t \in Threads, RecordFork(t)
    PROVE  LET team == teams[Top(t).team]
           IN  /\ GoesTo(t, "fork", "run") /\ TInv' /\ FInv' /\ Top(t).team # 0
               /\ conv' = HandleNewFork(conv, t, team.id, Top(t).num, Len(team.members))
               /\ UNCHANGED <<next_section_id, raced>>
<1> DEFINE team == teams[Top(t).team]
<1>1. At(t, "fork") /\ Goto(t, "run") /\ teams' = teams
      /\ conv' = HandleNewFork(conv, t, team.id, Top(t).num, Len(team.members))
      /\ UNCHANGED <<next_section_id, raced>>
      BY DEF RecordFork
<1>2. Top(t).team # 0 BY <1>1, TopOK DEF At, Borders
<1>3. Top(t).num \in Nat /\ team.id \in Nat /\ Len(team.members) \in Nat BY <1>1, <1>2, RegionOf DEF At
<1>4. WellFormed(conv') /\ next_section_id' \in Nat BY <1>1, <1>3, ForkFormed DEF TInv
<1>5. "fork" \in Places /\ "run" \in Places /\ "run" \notin Borders BY DEF Places, Borders
<1> QED BY <1>1, <1>2, <1>4, <1>5, GoesToIs

LEMMA RecordJoinIs ==
    ASSUME TInv, FInv, NEW t \in Threads, RecordJoin(t)
    PROVE  /\ GoesTo(t, "run", "joined") /\ TInv' /\ FInv' /\ Top(t).team # 0 /\ Top(t).open = << >>
           /\ conv' = HandleNewJoin(conv, t, Top(t).num)
           /\ UNCHANGED <<next_section_id, raced>>
<1>1. At(t, "run") /\ Goto(t, "joined") /\ teams' = teams /\ Top(t).team # 0 /\ Top(t).open = << >>
      /\ conv' = HandleNewJoin(conv, t, Top(t).num)
      /\ UNCHANGED <<next_section_id, raced>>
      BY DEF RecordJoin
<1>2. Top(t).num \in Nat BY <1>1, RegionOf DEF At
<1>3. WellFormed(conv')
  <2>1. CASE conv.stack[t] = << >> BY <1>1, <2>1, Fails2, FailedFormed DEF TInv
  <2>2. CASE conv.stack[t] # << >> BY <1>1, <1>2, <2>2, JoinIs DEF TInv, Joins
  <2> QED BY <2>1, <2>2
<1>4. "run" \in Places /\ "joined" \in Places /\ next_section_id' \in Nat BY <1>1 DEF Places, TInv
<1> QED BY <1>1, <1>3, <1>4, GoesToIs

TeamsGrow == /\ DOMAIN teams \subseteq DOMAIN teams'
             /\ \A q \in DOMAIN teams : teams'[q] = teams[q]

LEMMA FrameKept ==
    ASSUME NEW u \in Threads, NEW i \in Nat, NEW r, r = frames[u][i].team,
           FrameOK(u, i), frames'[u][i] = frames[u][i], TeamsGrow,
           i < Len(frames'[u]) => frames[u][i].at = "run",
           frames[u][i].num # 0 => LeaderIn(r)'
    PROVE  FrameOK(u, i)'
<1>1. PICK n : n = frames[u][i].num OBVIOUS
<1>2. frames'[u][i].team = r /\ frames'[u][i].num = n BY <1>1
<1>3. r # 0 => InRegion(u, r, n) BY <1>1 DEF FrameOK
<1>4. r # 0 => InRegion(u, r, n)' BY <1>3 DEF InRegion, Members, TeamsGrow
<1>5. n # 0 => r # 0 /\ LeaderIn(r)' BY <1>1 DEF FrameOK
<1>6. (r = 0 => i = 1) /\ (i > 1 => n = 0) BY <1>1 DEF FrameOK
<1>7. /\ r = 0 => frames[u][i].at \notin Borders
      /\ frames[u][i].at \in Borders => frames[u][i].open = << >>
      /\ frames[u][i].at = "done" => n = 0
      /\ frames[u][i].at = "out critical" => frames[u][i].open # << >> /\ Last(frames[u][i].open) = "critical"
      BY <1>1 DEF FrameOK
<1> QED BY <1>2, <1>4, <1>5, <1>6, <1>7 DEF FrameOK

\* The threads of a team, its first one first.
LEMMA MembersAre ==
    ASSUME NEW t \in Threads, NEW H \in SUBSET Threads, t \notin H, IsFiniteSet(H)
    PROVE  LET m == << t >> \o SetToSeq(H)
           IN  /\ m \in Seq(Threads) /\ Len(m) \in Nat \ {0} /\ DOMAIN m = 1 .. Len(m)
               /\ m[1] = t /\ Range(m) = {t} \cup H
               /\ \A i, j \in DOMAIN m : m[i] = m[j] => i = j
               /\ \A u \in H : \E k \in 1 .. Len(m) : k # 1 /\ m[k] = u
<1> DEFINE s == SetToSeq(H)
           m == << t >> \o s
<1>1. /\ s \in Seq(H) /\ Range(s) = H /\ \A i, j \in 1 .. Len(s) : s[i] = s[j] => i = j
      BY SetToSeqIs
<1>2. Len(s) \in Nat /\ DOMAIN s = 1 .. Len(s) /\ \A i \in 1 .. Len(s) : s[i] \in H
      BY <1>1, LenProperties, ElementOfSeq
<1> HIDE DEF s
<1>3. s \in Seq(Threads) /\ << t >> \in Seq(Threads) /\ Len(<< t >>) = 1 /\ << t >>[1] = t
  <2>1. \A i \in 1 .. Len(s) : s[i] \in Threads BY <1>2
  <2> QED BY <1>1, <2>1
<1>4. /\ m \in Seq(Threads) /\ Len(m) = 1 + Len(s)
      /\ \A i \in 1 .. 1 + Len(s) : m[i] = IF i <= 1 THEN << t >>[i] ELSE s[i - 1]
      BY <1>3, ConcatProperties
<1> HIDE DEF m
<1>5. DOMAIN m = 1 .. Len(m) /\ Len(m) \in Nat \ {0} BY <1>2, <1>4, LenProperties
<1>6. m[1] = t BY <1>2, <1>3, <1>4
<1>7. \A i \in 1 .. Len(m) : i # 1 => i - 1 \in 1 .. Len(s) /\ m[i] = s[i - 1] /\ m[i] \in H
      BY <1>2, <1>4
<1>8. ASSUME NEW i \in 1 .. Len(m), NEW j \in 1 .. Len(m), m[i] = m[j] PROVE i = j
  <2>1. CASE i = 1 BY <1>6, <1>7, <1>8, <2>1
  <2>2. CASE j = 1 BY <1>6, <1>7, <1>8, <2>2
  <2>3. CASE i # 1 /\ j # 1
    <3>1. s[i - 1] = s[j - 1] /\ i - 1 \in 1 .. Len(s) /\ j - 1 \in 1 .. Len(s) BY <1>7, <1>8, <2>3
    <3>2. i - 1 = j - 1 BY <1>1, <3>1
    <3> QED BY <1>2, <3>2
  <2> QED BY <2>1, <2>2, <2>3
<1>9. ASSUME NEW u \in H PROVE \E k \in 1 .. Len(m) : k # 1 /\ m[k] = u
  <2>1. PICK k \in 1 .. Len(s) : s[k] = u BY <1>1, <1>2 DEF Range
  <2>2. k + 1 \in 1 .. Len(m) /\ k + 1 # 1 /\ (k + 1) - 1 = k BY <1>2, <1>4
  <2>3. m[k + 1] = s[k] BY <1>7, <2>2
  <2> QED BY <2>1, <2>2, <2>3
<1>10. Range(m) = {t} \cup H
  <2>1. \A i \in 1 .. Len(m) : m[i] \in {t} \cup H BY <1>6, <1>7
  <2>2. 1 \in 1 .. Len(m) BY <1>5
  <2>3. \A x \in {t} \cup H : \E k \in 1 .. Len(m) : m[k] = x BY <1>6, <1>9, <2>2
  <2> QED BY <1>5, <2>1, <2>3 DEF Range
<1> QED BY <1>4, <1>5, <1>6, <1>8, <1>9, <1>10 DEF m, s

\* The team that a region gets.
NewTeam(t, H, r) ==
    /\ H \in SUBSET Threads /\ t \notin H /\ \A u \in H : frames[u] = << >>
    /\ r = Len(teams) + 1 /\ r \in Nat \ {0} /\ DOMAIN teams = 1 .. r - 1 /\ DOMAIN teams' = 1 .. r
    /\ teams' \in Seq(TeamType) /\ \A q \in 1 .. r - 1 : teams'[q] = teams[q]
    /\ teams'[r].id = Top(t).id
    /\ teams'[r].members[1] = t /\ Range(teams'[r].members) = {t} \cup H
    /\ Len(teams'[r].members) \in Nat \ {0}
    /\ DOMAIN teams'[r].members = 1 .. Len(teams'[r].members)
    /\ \A i, j \in DOMAIN teams'[r].members : teams'[r].members[i] = teams'[r].members[j] => i = j

\* The frames that its threads get.
Joining(u, r, f) ==
    /\ f \in FrameType /\ f.team = r /\ f.at = "fork" /\ f.open = << >>
    /\ f.num + 1 \in DOMAIN teams'[r].members /\ teams'[r].members[f.num + 1] = u

LeaderFrames(t, r, l) ==
    /\ l = Len(frames[t]) /\ l \in Nat \ {0} /\ Len(frames'[t]) = l + 1 /\ DOMAIN frames'[t] = 1 .. l + 1
    /\ \A i \in 1 .. l - 1 : frames'[t][i] = frames[t][i]
    /\ frames'[t][l] = [Top(t) EXCEPT !.at = "run"]
    /\ Joining(t, r, frames'[t][l + 1]) /\ frames'[t][l + 1].num = 0

NewFrames(t, H, r) ==
    /\ frames' \in [Threads -> Seq(FrameType)]
    /\ LeaderFrames(t, r, Len(frames[t]))
    /\ \A u \in H : /\ Len(frames'[u]) = 1 /\ DOMAIN frames'[u] = {1}
                    /\ Joining(u, r, frames'[u][1]) /\ frames'[u][1].num # 0
    /\ \A u \in Threads : u # t /\ u \notin H => frames'[u] = frames[u]

LEMMA FrameIs ==
    ASSUME NEW r \in Nat, NEW n \in Nat
    PROVE  LET f == Frame(r, n, "fork")
           IN  f \in FrameType /\ f.team = r /\ f.num = n /\ f.at = "fork" /\ f.open = << >>
<1>1. << >> \in Seq(Constructs) BY EmptySeq
<1> QED BY <1>1 DEF Frame, FrameType, Places

LEMMA LibParallelStartIs ==
    ASSUME TInv, FInv, NEW t \in Threads, LibParallelStart(t)
    PROVE  /\ frames[t] # << >> /\ Top(t).at = "call" /\ ~conv.failed
           /\ UNCHANGED <<next_section_id, conv, raced>>
           /\ \E H \in SUBSET Threads, r \in Nat : NewTeam(t, H, r) /\ NewFrames(t, H, r)
<1>1. /\ frames[t] # << >> /\ Top(t).at = "call" /\ ~conv.failed
      /\ UNCHANGED <<next_section_id, conv, raced>>
      BY DEF LibParallelStart, At
<1>2. PICK H \in SUBSET Idle :
          LET members == << t >> \o SetToSeq(H)
              r == Len(teams) + 1
          IN /\ teams' = Append(teams, [members |-> members, id |-> Top(t).id])
             /\ frames' = [u \in Threads |->
                  IF u = t THEN Append(TopIs(t, [Top(t) EXCEPT !.at = "run"]), Frame(r, 0, "fork"))
                  ELSE IF u \in H
                  THEN << Frame(r, (CHOOSE k \in 1 .. Len(members) : members[k] = u) - 1, "fork") >>
                  ELSE frames[u]]
      BY DEF LibParallelStart
<1>3. PICK r : r = Len(teams) + 1 OBVIOUS
<1>4. PICK m : m = << t >> \o SetToSeq(H) OBVIOUS
<1>5. PICK f : f = [Top(t) EXCEPT !.at = "run"] OBVIOUS
<1>6. /\ teams' = Append(teams, [members |-> m, id |-> Top(t).id])
      /\ frames' = [u \in Threads |->
                  IF u = t THEN Append(TopIs(t, f), Frame(r, 0, "fork"))
                  ELSE IF u \in H
                  THEN << Frame(r, (CHOOSE k \in 1 .. Len(m) : m[k] = u) - 1, "fork") >>
                  ELSE frames[u]]
      BY <1>2, <1>3, <1>4, <1>5
<1>7. H \in SUBSET Threads /\ t \notin H /\ \A u \in H : frames[u] = << >>
      BY <1>1, <1>2 DEF Idle
<1>8. /\ m \in Seq(Threads) /\ Len(m) \in Nat \ {0} /\ DOMAIN m = 1 .. Len(m)
      /\ m[1] = t /\ Range(m) = {t} \cup H
      /\ \A i, j \in DOMAIN m : m[i] = m[j] => i = j
      /\ \A u \in H : \E k \in 1 .. Len(m) : k # 1 /\ m[k] = u
  <2>1. IsFiniteSet(H) BY <1>7, OpenMPAssumption, FS_Subset
  <2> QED BY <1>4, <1>7, <2>1, MembersAre
<1>9. Top(t) \in FrameType BY <1>1, TopOK
<1>10. f \in FrameType BY <1>5, <1>9 DEF FrameType, Places
<1>11. r \in Nat \ {0} /\ NewTeam(t, H, r)
  <2> DEFINE x == [members |-> m, id |-> Top(t).id]
  <2>1. x \in TeamType BY <1>8, <1>9 DEF TeamType, FrameType
  <2>2. x.members = m /\ x.id = Top(t).id OBVIOUS
  <2> HIDE DEF x
  <2>3. /\ Len(teams) \in Nat /\ teams' \in Seq(TeamType) /\ Len(teams') = Len(teams) + 1
        /\ \A i \in 1 .. Len(teams) : teams'[i] = teams[i]
        /\ teams'[Len(teams) + 1] = x
        BY <1>6, <2>1, AppendIs DEF TInv, x
  <2>4. DOMAIN teams' = 1 .. Len(teams') /\ DOMAIN teams = 1 .. Len(teams) BY <2>3, LenProperties DEF TInv
  <2>5. r \in Nat \ {0} /\ Len(teams) = r - 1 BY <1>3, <2>3
  <2>6. teams'[r] = x BY <1>3, <2>3
  <2>7. teams'[r].members = m /\ teams'[r].id = Top(t).id BY <2>2, <2>6
  <2> QED BY <1>3, <1>7, <1>8, <2>3, <2>4, <2>5, <2>7 DEF NewTeam
<1>12. teams'[r].members = m
  <2>1. teams \in Seq(TeamType) BY DEF TInv
  <2>2. Append(teams, [members |-> m, id |-> Top(t).id])[Len(teams) + 1] = [members |-> m, id |-> Top(t).id]
    <3> DEFINE x == [members |-> m, id |-> Top(t).id]
    <3>1. x \in TeamType BY <1>8, <1>9 DEF TeamType, FrameType
    <3> HIDE DEF x
    <3>2. Append(teams, x)[Len(teams) + 1] = x BY <2>1, <3>1, AppendIs
    <3> QED BY <3>2 DEF x
  <2> QED BY <1>3, <1>6, <2>2
<1>13. LeaderFrames(t, r, Len(frames[t])) /\ frames'[t] \in Seq(FrameType)
  <2> DEFINE g == TopIs(t, f)
             h == Frame(r, 0, "fork")
             l == Len(frames[t])
  <2>1. frames[t] \in Seq(FrameType) /\ DOMAIN frames[t] = 1 .. l /\ l \in Nat \ {0}
        BY <1>1, FramesAre, TopFrame DEF TInv
  <2>2. g \in Seq(FrameType) /\ Len(g) = l /\ g[l] = f /\ \A i \in 1 .. l : i # l => g[i] = frames[t][i]
        BY <1>1, <1>10, <2>1, TopReplaced DEF TopIs
  <2>3. h \in FrameType /\ h.team = r /\ h.num = 0 /\ h.at = "fork" /\ h.open = << >> BY <1>11, FrameIs
  <2>4. frames'[t] = Append(g, h) BY <1>6
  <2> HIDE DEF g, h
  <2>5. /\ Append(g, h) \in Seq(FrameType) /\ Len(Append(g, h)) = Len(g) + 1
        /\ \A i \in 1 .. Len(g) : Append(g, h)[i] = g[i]
        /\ Append(g, h)[Len(g) + 1] = h
        BY <2>2, <2>3, AppendIs
  <2>6. DOMAIN frames'[t] = 1 .. l + 1 /\ Len(frames'[t]) = l + 1 /\ frames'[t] \in Seq(FrameType)
        BY <2>2, <2>4, <2>5, LenProperties
  <2>7. \A i \in 1 .. l : frames'[t][i] = g[i] BY <2>2, <2>4, <2>5
  <2>8. frames'[t][l + 1] = h BY <2>2, <2>4, <2>5
  <2>9. \A i \in 1 .. l - 1 : frames'[t][i] = frames[t][i] BY <2>1, <2>2, <2>7
  <2>10. frames'[t][l] = f BY <2>1, <2>2, <2>7
  <2>11. Joining(t, r, h) BY <1>8, <1>12, <2>3 DEF Joining
  <2> QED BY <1>5, <2>1, <2>3, <2>6, <2>8, <2>9, <2>10, <2>11 DEF LeaderFrames
<1>14. ASSUME NEW u \in H
       PROVE  /\ Len(frames'[u]) = 1 /\ DOMAIN frames'[u] = {1} /\ frames'[u] \in Seq(FrameType)
              /\ Joining(u, r, frames'[u][1]) /\ frames'[u][1].num # 0
  <2>0. u # t /\ u \in Threads BY <1>7
  <2>1. PICK k : k = CHOOSE j \in 1 .. Len(m) : m[j] = u OBVIOUS
  <2>2. k \in 1 .. Len(m) /\ m[k] = u BY <1>8, <2>1
  <2>3. k # 1 BY <1>8, <2>0, <2>2
  <2>4. k - 1 \in Nat /\ k - 1 # 0 /\ (k - 1) + 1 = k BY <1>8, <2>2, <2>3
  <2> DEFINE h == Frame(r, k - 1, "fork")
  <2>5. h \in FrameType /\ h.team = r /\ h.num = k - 1 /\ h.at = "fork" /\ h.open = << >>
        BY <1>11, <2>4, FrameIs
  <2>6. frames'[u] = << h >> BY <1>6, <2>0, <2>1
  <2> HIDE DEF h
  <2>7. << h >> \in Seq(FrameType) /\ Len(<< h >>) = 1 /\ << h >>[1] = h /\ DOMAIN << h >> = {1}
        BY <2>5
  <2>8. Joining(u, r, h) BY <1>8, <1>12, <2>2, <2>4, <2>5 DEF Joining
  <2>9. h.num # 0 BY <2>4, <2>5
  <2> QED BY <2>6, <2>7, <2>8, <2>9
<1>15. \A u \in Threads : u # t /\ u \notin H => frames'[u] = frames[u] BY <1>6
<1>16. frames' \in [Threads -> Seq(FrameType)]
  <2>1. ASSUME NEW u \in Threads PROVE frames'[u] \in Seq(FrameType)
    <3>1. CASE u = t BY <1>13, <3>1
    <3>2. CASE u \in H BY <1>14, <3>2
    <3>3. CASE u # t /\ u \notin H BY <1>15, <3>3 DEF TInv
    <3> QED BY <3>1, <3>2, <3>3
  <2>2. DOMAIN frames' = Threads /\ frames' = [u \in Threads |-> frames'[u]] BY <1>6
  <2> QED BY <2>1, <2>2
<1>17. NewFrames(t, H, r) BY <1>13, <1>14, <1>15, <1>16 DEF NewFrames
<1> QED BY <1>1, <1>7, <1>11, <1>17

LEMMA LibParallelStartKeeps ==
    ASSUME TInv, FInv, NEW t \in Threads, NEW H \in SUBSET Threads, NEW r \in Nat,
           NewTeam(t, H, r), NewFrames(t, H, r), frames[t] # << >>, Top(t).at = "call",
           UNCHANGED <<next_section_id, conv>>
    PROVE  TInv' /\ FInv'
<1>1. TInv' BY DEF TInv, NewTeam, NewFrames
<1>2. TeamsGrow BY DEF NewTeam, TeamsGrow
<1>3. PICK l \in Nat \ {0} : LeaderFrames(t, r, l) BY DEF NewFrames, LeaderFrames
<1>4. Len(frames[t]) = l /\ DOMAIN frames[t] = 1 .. l BY <1>3, FramesAre DEF LeaderFrames, TInv
<1>5. Top(t) \in FrameType /\ Top(t) = frames[t][l] /\ FrameOK(t, l)
      BY <1>3, <1>4, TopFrame DEF TInv, FInv
<1>6. LeaderIn(r)'
  <2>1. l + 1 \in DOMAIN frames'[t] /\ frames'[t][l + 1].team = r /\ frames'[t][l + 1].at # "done"
        BY <1>3 DEF LeaderFrames, Joining
  <2>2. teams'[r].members[1] = t BY DEF NewTeam
  <2> QED BY <2>1, <2>2 DEF LeaderIn, Members
<1>7. ASSUME NEW q \in DOMAIN teams, LeaderIn(q) PROVE LeaderIn(q)'
  <2>1. teams'[q] = teams[q] BY <1>2 DEF TeamsGrow
  <2>2. PICK p \in Threads : p = Members(q)[1] BY TeamsAre
  <2>3. PICK j \in DOMAIN frames[p] : frames[p][j].team = q /\ frames[p][j].at # "done"
        BY <1>7, <2>2 DEF LeaderIn
  <2>4. p \notin H
    <3>1. DOMAIN frames[p] # {} BY <2>3
    <3>2. Len(frames[p]) # 0 BY <2>3, FramesAre DEF TInv
    <3>3. frames[p] # << >> BY <3>2, FramesAre DEF TInv
    <3> QED BY <3>3 DEF NewTeam
  <2>5. j \in DOMAIN frames'[p] /\ frames'[p][j].team = q /\ frames'[p][j].at # "done"
    <3>1. CASE p # t BY <2>3, <2>4, <3>1 DEF NewFrames
    <3>2. CASE p = t
      <4>1. j \in 1 .. l /\ j \in DOMAIN frames'[t] BY <1>3, <1>4, <2>3, <3>2 DEF LeaderFrames
      <4>2. CASE j = l
        <5>1. frames'[t][l] = [Top(t) EXCEPT !.at = "run"] BY <1>3 DEF LeaderFrames
        <5>2. frames'[t][l].team = Top(t).team /\ frames'[t][l].at = "run" BY <1>5, <5>1 DEF FrameType
        <5> QED BY <1>5, <2>3, <3>2, <4>1, <4>2, <5>2
      <4>3. CASE j # l
        <5>1. j \in 1 .. l - 1 BY <4>1, <4>3
        <5>2. frames'[t][j] = frames[t][j] BY <1>3, <5>1 DEF LeaderFrames
        <5> QED BY <2>3, <3>2, <4>1, <5>2
      <4> QED BY <4>2, <4>3
    <3> QED BY <3>1, <3>2
  <2>6. p = Members(q)'[1] BY <2>1, <2>2 DEF Members
  <2> QED BY <2>5, <2>6 DEF LeaderIn
<1>8. r \in DOMAIN teams' BY DEF NewTeam
<1>9. ASSUME NEW u \in Threads, NEW i \in Nat, Joining(u, r, frames'[u][i]), ~(i < Len(frames'[u])),
             i > 1 => frames'[u][i].num = 0
      PROVE  FrameOK(u, i)'
  <2>1. PICK n : n = frames'[u][i].num OBVIOUS
  <2>2. InRegion(u, r, n)' BY <1>8, <1>9, <2>1 DEF Joining, InRegion, Members
  <2>3. r # 0 BY DEF NewTeam
  <2>4. /\ frames'[u][i].team = r /\ frames'[u][i].at = "fork" /\ frames'[u][i].open = << >>
        BY <1>9 DEF Joining
  <2> QED BY <1>6, <1>9, <2>1, <2>2, <2>3, <2>4 DEF FrameOK, Borders
<1>10. ASSUME NEW u \in Threads, NEW i \in Nat, i \in DOMAIN frames[u], frames'[u][i] = frames[u][i],
              i < Len(frames'[u]) => frames[u][i].at = "run"
       PROVE  FrameOK(u, i)'
  <2>1. FrameOK(u, i) BY <1>10 DEF FInv
  <2>2. PICK q : q = frames[u][i].team OBVIOUS
  <2>3. frames[u][i].num # 0 => LeaderIn(q)' BY <1>7, <2>1, <2>2 DEF FrameOK, InRegion
  <2> QED BY <1>2, <1>10, <2>1, <2>2, <2>3, FrameKept
<1>11. ASSUME NEW u \in Threads, NEW i \in DOMAIN frames'[u] PROVE FrameOK(u, i)'
  <2>1. CASE u \in H
    <3>1. i = 1 /\ Len(frames'[u]) = 1 /\ Joining(u, r, frames'[u][1]) BY <2>1 DEF NewFrames
    <3> QED BY <1>9, <3>1
  <2>2. CASE u # t /\ u \notin H
    <3>1. frames'[u] = frames[u] BY <2>2 DEF NewFrames
    <3>2. i \in DOMAIN frames[u] BY <3>1
    <3>3. i \in Nat BY <3>2, FramesAre DEF TInv
    <3>4. i < Len(frames[u]) => frames[u][i].at = "run" BY <3>2 DEF FInv, FrameOK
    <3> QED BY <1>10, <3>1, <3>2, <3>3, <3>4
  <2>3. CASE u = t
    <3>0. i \in 1 .. l + 1 /\ Len(frames'[t]) = l + 1 BY <1>3, <2>3 DEF LeaderFrames
    <3>1. CASE i = l + 1
      <4>1. Joining(t, r, frames'[t][l + 1]) /\ frames'[t][l + 1].num = 0 /\ l + 1 \in Nat
            BY <1>3 DEF LeaderFrames
      <4>2. ~(l + 1 < Len(frames'[t])) BY <3>0
      <4> QED BY <1>9, <2>3, <3>1, <4>1, <4>2
    <3>2. CASE i = l
      <4>1. PICK q : q = Top(t).team OBVIOUS
      <4>2. PICK n : n = Top(t).num OBVIOUS
      <4>3. frames'[t][l] = [Top(t) EXCEPT !.at = "run"] BY <1>3 DEF LeaderFrames
      <4>4. frames'[t][l].team = q /\ frames'[t][l].num = n /\ frames'[t][l].at = "run"
            BY <1>5, <4>1, <4>2, <4>3 DEF FrameType
      <4>5. /\ (q = 0 => l = 1) /\ (l > 1 => n = 0) /\ (q # 0 => InRegion(t, q, n))
            /\ n # 0 => q # 0 /\ LeaderIn(q)
            BY <1>5, <4>1, <4>2 DEF FrameOK
      <4>6. q # 0 => InRegion(t, q, n)' BY <1>2, <4>5 DEF TeamsGrow, InRegion, Members
      <4>7. n # 0 => q # 0 /\ LeaderIn(q)' BY <1>7, <4>5 DEF InRegion
      <4> QED BY <2>3, <3>2, <4>4, <4>5, <4>6, <4>7 DEF FrameOK, Borders
    <3>3. CASE i # l /\ i # l + 1
      <4>1. i \in 1 .. l - 1 /\ i \in Nat /\ i < l /\ i \in DOMAIN frames[t] BY <1>4, <3>0, <3>3
      <4>2. frames'[t][i] = frames[t][i] BY <1>3, <4>1 DEF LeaderFrames
      <4>3. FrameOK(t, i) BY <4>1 DEF FInv
      <4>4. frames[t][i].at = "run" BY <1>4, <4>1, <4>3 DEF FrameOK
      <4> QED BY <1>10, <2>3, <4>1, <4>2, <4>4
    <3> QED BY <3>1, <3>2, <3>3
  <2> QED BY <2>1, <2>2, <2>3
<1>12. ASSUME NEW u \in Threads PROVE Nested(u)'
  <2>1. CASE u \in H
    <3>1. DOMAIN frames'[u] = {1} BY <2>1 DEF NewFrames
    <3> QED BY <3>1 DEF Nested
  <2>2. CASE u # t /\ u \notin H
    <3>1. frames'[u] = frames[u] BY <2>2 DEF NewFrames
    <3> QED BY <3>1 DEF FInv, Nested
  <2>3. CASE u = t
    <3>1. DOMAIN frames'[t] = 1 .. l + 1 /\ frames'[t][l + 1].team = r BY <1>3 DEF LeaderFrames, Joining
    <3>2. ASSUME NEW i \in 1 .. l PROVE frames'[t][i].team = frames[t][i].team /\ frames[t][i].team < r
      <4>1. frames'[t][i].team = frames[t][i].team
        <5>1. CASE i = l
          <6>1. frames'[t][l] = [Top(t) EXCEPT !.at = "run"] BY <1>3 DEF LeaderFrames
          <6> QED BY <1>5, <5>1, <6>1 DEF FrameType
        <5>2. CASE i # l
          <6>1. i \in 1 .. l - 1 BY <5>2
          <6> QED BY <1>3, <6>1 DEF LeaderFrames
        <5> QED BY <5>1, <5>2
      <4>2. FrameOK(t, i) /\ frames[t][i] \in FrameType BY <1>4, FramesAre DEF FInv, TInv
      <4>3. frames[t][i].team # 0 => frames[t][i].team \in DOMAIN teams BY <4>2 DEF FrameOK, InRegion
      <4>4. DOMAIN teams = 1 .. r - 1 /\ r \in Nat \ {0} BY DEF NewTeam
      <4>5. frames[t][i].team \in Nat BY <4>2 DEF FrameType
      <4>6. frames[t][i].team < r BY <4>3, <4>4, <4>5
      <4> QED BY <4>1, <4>6
    <3>3. \A i, j \in 1 .. l : i < j => frames[t][i].team < frames[t][j].team
          BY <1>4 DEF FInv, Nested
    <3>4. ASSUME NEW i \in 1 .. l + 1, NEW j \in 1 .. l + 1, i < j
          PROVE  frames'[t][i].team < frames'[t][j].team
      <4>1. i \in 1 .. l BY <3>4
      <4>2. CASE j = l + 1 BY <3>1, <3>2, <4>1, <4>2
      <4>3. CASE j # l + 1
        <5>1. j \in 1 .. l BY <4>3
        <5> QED BY <3>2, <3>3, <3>4, <4>1, <5>1
      <4> QED BY <4>2, <4>3
    <3> QED BY <2>3, <3>1, <3>4 DEF Nested
  <2> QED BY <2>1, <2>2, <2>3
<1>13. ASSUME NEW q \in DOMAIN teams' PROVE TeamOK(q)'
  <2>1. CASE q = r BY <2>1 DEF NewTeam, TeamOK, Members
  <2>2. CASE q # r
    <3>1. q \in DOMAIN teams /\ teams'[q] = teams[q] BY <2>2 DEF NewTeam
    <3> QED BY <3>1 DEF FInv, TeamOK, Members
  <2> QED BY <2>1, <2>2
<1> QED BY <1>1, <1>11, <1>12, <1>13 DEF FInv

\* The end of a region in libgomp: its first thread goes on, the others are idle.
Emptied(t, r, l) ==
    /\ frames[t] # << >> /\ Top(t).at = "joined" /\ Top(t).num = 0 /\ Top(t).team = r /\ ~conv.failed
    /\ r \in DOMAIN teams /\ Members(r)[1] = t /\ Top(t).open = << >>
    /\ l = Len(frames[t])
    /\ \A u \in Range(Members(r)) \ {t} :
          /\ u \in Threads /\ frames'[u] = << >>
          /\ Len(frames[u]) = 1 /\ Top(u).at = "joined" /\ Top(u).team = r
    /\ \A u \in Threads : u # t /\ u \notin Range(Members(r)) => frames'[u] = frames[u]
    /\ frames' \in [Threads -> Seq(FrameType)]
    /\ Len(frames'[t]) = l /\ DOMAIN frames'[t] = DOMAIN frames[t]
    /\ \A i \in DOMAIN frames[t] : i # l => frames'[t][i] = frames[t][i]
    /\ frames'[t][l] = [Top(t) EXCEPT !.at = "done"]
    /\ UNCHANGED <<next_section_id, teams, conv, raced>>

\* The thread that has a number in a team is the member of that number.
LEMMA MemberIs ==
    ASSUME TInv, FInv, NEW r \in DOMAIN teams, NEW u \in Threads, NEW n \in Nat, InRegion(u, r, n)
    PROVE  u \in Range(Members(r)) /\ (n = 0 <=> u = Members(r)[1])
<1>1. n + 1 \in DOMAIN Members(r) /\ Members(r)[n + 1] = u BY DEF InRegion
<1>2. 1 \in DOMAIN Members(r) BY TeamsAre
<1>3. u = Members(r)[1] => n + 1 = 1 BY <1>1, <1>2 DEF FInv, TeamOK
<1> QED BY <1>1, <1>3 DEF Range

LEMMA LibParallelEndIs ==
    ASSUME TInv, FInv, NEW t \in Threads, LibParallelEnd(t)
    PROVE  \E r \in Nat \ {0}, l \in Nat \ {0} : Emptied(t, r, l)
<1>1. /\ frames[t] # << >> /\ Top(t).at = "joined" /\ Top(t).num = 0 /\ ~conv.failed
      /\ UNCHANGED <<next_section_id, teams, conv, raced>>
      BY DEF LibParallelEnd, At
<1>2. PICK r : r = Top(t).team OBVIOUS
<1>3. Top(t) \in FrameType /\ r # 0 /\ InRegion(t, r, 0) /\ Top(t).open = << >>
      BY <1>1, <1>2, TopOK DEF Borders
<1>4. r \in DOMAIN teams /\ r \in Nat \ {0} /\ Members(r)[1] = t
  <2>1. r \in DOMAIN teams BY <1>3 DEF InRegion
  <2> QED BY <1>3, <2>1, TeamsAre, MemberIs
<1>5. PICK H : H = Range(Members(r)) \ {t} OBVIOUS
<1>6. PICK f : f = [Top(t) EXCEPT !.at = "done"] OBVIOUS
<1>7. /\ \A u \in H : At(u, "joined") /\ Top(u).team = r
      /\ frames' = [u \in Threads |-> IF u \in H THEN << >> ELSE IF u = t THEN TopIs(t, f) ELSE frames[u]]
      BY <1>2, <1>5, <1>6 DEF LibParallelEnd, Members
<1>8. \A u \in H : u \in Threads /\ u # t BY <1>4, <1>5, TeamsAre DEF Range
<1>9. ASSUME NEW u \in H
      PROVE  frames'[u] = << >> /\ Len(frames[u]) = 1 /\ Top(u).at = "joined" /\ Top(u).team = r
  <2>1. u \in Threads /\ u # t /\ frames[u] # << >> /\ Top(u).at = "joined" /\ Top(u).team = r
        BY <1>7, <1>8 DEF At
  <2>2. Top(u) \in FrameType /\ InRegion(u, r, Top(u).num) BY <1>4, <2>1, TopOK
  <2>3. Top(u).num # 0 BY <1>4, <2>1, <2>2, MemberIs DEF FrameType
  <2>4. Len(frames[u]) = 1 BY <2>1, <2>3, TopOK
  <2> QED BY <1>7, <2>1, <2>4
<1>10. f \in FrameType BY <1>3, <1>6 DEF FrameType, Places
<1>11. PICK l : l = Len(frames[t]) OBVIOUS
<1>12. DOMAIN frames[t] = 1 .. l /\ l \in Nat \ {0} /\ frames[t] \in Seq(FrameType)
       BY <1>1, <1>11, FramesAre, TopFrame DEF TInv
<1>13. /\ TopIs(t, f) \in Seq(FrameType) /\ Len(TopIs(t, f)) = l /\ DOMAIN TopIs(t, f) = DOMAIN frames[t]
       /\ TopIs(t, f)[l] = f
       /\ \A i \in 1 .. l : i # l => TopIs(t, f)[i] = frames[t][i]
       BY <1>1, <1>10, <1>11, <1>12, TopReplaced DEF TopIs
<1>14. frames'[t] = TopIs(t, f) BY <1>5, <1>7
<1>15. \A u \in Threads : u # t /\ u \notin Range(Members(r)) => frames'[u] = frames[u]
       BY <1>5, <1>7
<1>16. frames' \in [Threads -> Seq(FrameType)]
  <2>1. << >> \in Seq(FrameType) BY EmptySeq
  <2>2. \A u \in Threads : frames[u] \in Seq(FrameType) BY DEF TInv
  <2> QED BY <1>7, <1>13, <2>1, <2>2
<1>17. /\ \A i \in DOMAIN frames[t] : i # l => frames'[t][i] = frames[t][i]
       /\ frames'[t][l] = f /\ Len(frames'[t]) = l /\ DOMAIN frames'[t] = DOMAIN frames[t]
       BY <1>12, <1>13, <1>14
<1>18. Emptied(t, r, l)
       BY <1>1, <1>2, <1>3, <1>4, <1>5, <1>6, <1>8, <1>9, <1>11, <1>15, <1>16, <1>17 DEF Emptied
<1> QED BY <1>4, <1>12, <1>18

LEMMA LibParallelEndKeeps ==
    ASSUME TInv, FInv, NEW t \in Threads, NEW r \in Nat \ {0}, NEW l \in Nat \ {0}, Emptied(t, r, l)
    PROVE  TInv' /\ FInv'
<1>1. TInv' BY DEF TInv, Emptied
<1>2. TeamsGrow /\ teams' = teams BY DEF Emptied, TeamsGrow
<1>3. /\ Top(t) \in FrameType /\ Top(t) = frames[t][l] /\ FrameOK(t, l) /\ l \in DOMAIN frames[t]
      /\ DOMAIN frames[t] = 1 .. l
      BY TopFrame, FramesAre DEF TInv, FInv, Emptied
<1>4. ASSUME NEW q \in DOMAIN teams, q # r, LeaderIn(q) PROVE LeaderIn(q)'
  <2>1. PICK p \in Threads : p = Members(q)[1] BY TeamsAre
  <2>2. PICK j \in DOMAIN frames[p] : frames[p][j].team = q /\ frames[p][j].at # "done"
        BY <1>4, <2>1 DEF LeaderIn
  <2>3. CASE p = t
    <3>1. j # l BY <1>3, <1>4, <2>2, <2>3 DEF Emptied
    <3>2. frames'[t][j] = frames[t][j] /\ j \in DOMAIN frames'[t] BY <2>2, <2>3, <3>1 DEF Emptied
    <3>3. p = Members(q)'[1] BY <1>2, <2>1 DEF Members
    <3> QED BY <2>2, <2>3, <3>2, <3>3 DEF LeaderIn
  <2>4. CASE p # t
    <3>1. p \notin Range(Members(r))
      <4> SUFFICES ASSUME p \in Range(Members(r)) PROVE FALSE OBVIOUS
      <4>1. Len(frames[p]) = 1 /\ Top(p).team = r BY <2>4 DEF Emptied
      <4>2. DOMAIN frames[p] = {1} BY <4>1, FramesAre DEF TInv
      <4>3. j = 1 /\ Top(p) = frames[p][1] BY <2>2, <4>1, <4>2 DEF Top, Last
      <4> QED BY <1>4, <2>2, <4>1, <4>3
    <3>2. frames'[p] = frames[p] BY <2>4, <3>1 DEF Emptied
    <3>3. p = Members(q)'[1] BY <1>2, <2>1 DEF Members
    <3> QED BY <2>2, <3>2, <3>3 DEF LeaderIn
  <2> QED BY <2>3, <2>4
<1>5. ASSUME NEW u \in Threads, NEW i \in DOMAIN frames'[u] PROVE FrameOK(u, i)'
  <2>1. CASE u # t /\ u \in Range(Members(r))
    <3>1. frames'[u] = << >> BY <2>1 DEF Emptied
    <3>2. DOMAIN frames'[u] = {} BY <3>1
    <3> QED BY <3>2
  <2>2. CASE u # t /\ u \notin Range(Members(r))
    <3>1. frames'[u] = frames[u] /\ i \in DOMAIN frames[u] BY <2>2 DEF Emptied
    <3>2. FrameOK(u, i) /\ i \in Nat /\ frames[u][i] \in FrameType BY <3>1, FramesAre DEF FInv, TInv
    <3>3. PICK q : q = frames[u][i].team OBVIOUS
    <3>4. PICK n \in Nat : n = frames[u][i].num BY <3>2 DEF FrameType
    <3>5. n # 0 => q # 0 /\ LeaderIn(q) /\ InRegion(u, q, n) BY <3>2, <3>3, <3>4 DEF FrameOK
    <3>6. n # 0 => q # r
      <4> SUFFICES ASSUME n # 0, q = r PROVE FALSE OBVIOUS
      <4>1. InRegion(u, r, n) /\ r \in DOMAIN teams BY <3>5 DEF InRegion
      <4>2. u \in Range(Members(r)) BY <4>1, MemberIs
      <4> QED BY <2>2, <4>2
    <3>7. n # 0 => LeaderIn(q)' BY <1>4, <3>5, <3>6 DEF InRegion
    <3>8. i < Len(frames'[u]) => frames[u][i].at = "run" BY <3>1, <3>2 DEF FrameOK
    <3> QED BY <1>2, <3>1, <3>2, <3>3, <3>4, <3>7, <3>8, FrameKept
  <2>3. CASE u = t /\ i = l
    <3>1. frames'[t][l] = [Top(t) EXCEPT !.at = "done"] BY DEF Emptied
    <3>2. PICK n : n = Top(t).num OBVIOUS
    <3>3. /\ frames'[t][l].team = r /\ frames'[t][l].num = 0 /\ frames'[t][l].at = "done"
          /\ frames'[t][l].open = << >> /\ n = 0 /\ Top(t).team = r /\ Top(t).num = 0
          BY <1>3, <3>1, <3>2 DEF Emptied, FrameType
    <3>4. InRegion(t, r, 0) BY <1>3, <3>3 DEF FrameOK
    <3>5. InRegion(t, r, 0)' BY <1>2, <3>4 DEF InRegion, Members
    <3>6. Len(frames'[t]) = l BY DEF Emptied
    <3>7. ~(l < l) OBVIOUS
    <3>8. r # 0 OBVIOUS
    <3> QED BY <2>3, <3>3, <3>5, <3>6, <3>7, <3>8 DEF FrameOK
  <2>4. CASE u = t /\ i # l
    <3>1. i \in DOMAIN frames[t] /\ frames'[t][i] = frames[t][i] BY <2>4 DEF Emptied
    <3>2. FrameOK(t, i) /\ i \in Nat /\ i < l /\ frames[t][i] \in FrameType
          BY <1>3, <2>4, <3>1, FramesAre DEF FInv, TInv
    <3>3. frames[t][i].at = "run" BY <3>2 DEF FrameOK, Emptied
    <3>4. PICK q : q = frames[t][i].team OBVIOUS
    <3>5. q # r
      <4>1. q < frames[t][l].team BY <1>3, <3>1, <3>2, <3>4 DEF FInv, Nested
      <4>2. q < r BY <1>3, <4>1 DEF Emptied
      <4>3. q \in Nat /\ r \in Nat BY <3>2, <3>4 DEF FrameType
      <4> QED BY <4>2, <4>3
    <3>6. frames[t][i].num # 0 => LeaderIn(q)' BY <1>4, <3>2, <3>4, <3>5 DEF FrameOK, InRegion
    <3> QED BY <1>2, <2>4, <3>1, <3>2, <3>3, <3>4, <3>6, FrameKept
  <2> QED BY <2>1, <2>2, <2>3, <2>4
<1>6. ASSUME NEW u \in Threads PROVE Nested(u)'
  <2>1. CASE u # t /\ u \in Range(Members(r))
    <3>1. frames'[u] = << >> BY <2>1 DEF Emptied
    <3>2. DOMAIN frames'[u] = {} BY <3>1
    <3> QED BY <3>2 DEF Nested
  <2>2. CASE u # t /\ u \notin Range(Members(r))
    <3>1. frames'[u] = frames[u] BY <2>2 DEF Emptied
    <3> QED BY <3>1 DEF FInv, Nested
  <2>3. CASE u = t
    <3>1. frames'[t][l].team = frames[t][l].team BY <1>3 DEF Emptied, FrameType
    <3>2. \A i \in DOMAIN frames[t] : frames'[t][i].team = frames[t][i].team BY <3>1 DEF Emptied
    <3>3. DOMAIN frames'[t] = DOMAIN frames[t] BY DEF Emptied
    <3> QED BY <2>3, <3>2, <3>3 DEF FInv, Nested
  <2> QED BY <2>1, <2>2, <2>3
<1>7. ASSUME NEW q \in DOMAIN teams' PROVE TeamOK(q)' BY <1>2 DEF FInv, TeamOK, Members
<1> QED BY <1>1, <1>5, <1>6, <1>7 DEF FInv

\* A thread leaves its innermost region.
Popped(t, l) ==
    /\ frames[t] # << >> /\ Top(t).at = "done" /\ ~conv.failed
    /\ l = Len(frames[t])
    /\ frames' \in [Threads -> Seq(FrameType)]
    /\ \A u \in Threads : u # t => frames'[u] = frames[u]
    /\ Len(frames'[t]) = l - 1 /\ DOMAIN frames'[t] = 1 .. l - 1
    /\ \A i \in 1 .. l - 1 : frames'[t][i] = frames[t][i]
    /\ UNCHANGED <<next_section_id, teams, raced>>
    /\ conv' = HandleJoinDone(conv, t)

LEMMA RecordJoinDoneIs ==
    ASSUME TInv, FInv, NEW t \in Threads, RecordJoinDone(t)
    PROVE  (\E l \in Nat \ {0} : Popped(t, l)) /\ WellFormed(conv')
<1>1. /\ frames[t] # << >> /\ Top(t).at = "done" /\ ~conv.failed
      /\ UNCHANGED <<next_section_id, teams, raced>>
      /\ conv' = HandleJoinDone(conv, t) /\ frames' = [frames EXCEPT ![t] = Front(frames[t])]
      BY DEF RecordJoinDone, At
<1>2. PICK l : l = Len(frames[t]) OBVIOUS
<1>3. frames[t] \in Seq(FrameType) BY DEF TInv
<1>4. PICK g : g = Front(frames[t]) OBVIOUS
<1>5. /\ l \in Nat \ {0} /\ g \in Seq(FrameType) /\ Len(g) = l - 1
      /\ \A i \in 1 .. l - 1 : g[i] = frames[t][i]
      BY <1>1, <1>2, <1>3, <1>4, FrontIs
<1>6. DOMAIN g = 1 .. l - 1 BY <1>5, LenProperties
<1>7. frames'[t] = g /\ frames' \in [Threads -> Seq(FrameType)]
      /\ \A u \in Threads : u # t => frames'[u] = frames[u]
      BY <1>1, <1>4, <1>5 DEF TInv
<1>8. Popped(t, l) BY <1>1, <1>2, <1>5, <1>6, <1>7 DEF Popped
<1>9. WellFormed(conv')
  <2>1. CASE DoneFails(conv, t) BY <1>1, <2>1, Fails3, FailedFormed DEF TInv
  <2>2. CASE ~DoneFails(conv, t) BY <1>1, <2>2, DoneIs DEF TInv, Ends
  <2> QED BY <2>1, <2>2
<1> QED BY <1>5, <1>8, <1>9

LEMMA RecordJoinDoneKeeps ==
    ASSUME TInv, FInv, NEW t \in Threads, NEW l \in Nat \ {0}, Popped(t, l), WellFormed(conv')
    PROVE  TInv' /\ FInv'
<1>1. TInv' BY DEF TInv, Popped
<1>2. TeamsGrow /\ teams' = teams BY DEF Popped, TeamsGrow
<1>3. Top(t) = frames[t][l] /\ DOMAIN frames[t] = 1 .. l BY TopFrame, FramesAre DEF TInv, Popped
<1>4. ASSUME NEW q \in DOMAIN teams, LeaderIn(q) PROVE LeaderIn(q)'
  <2>1. PICK p \in Threads : p = Members(q)[1] BY TeamsAre
  <2>2. PICK j \in DOMAIN frames[p] : frames[p][j].team = q /\ frames[p][j].at # "done"
        BY <1>4, <2>1 DEF LeaderIn
  <2>3. p = Members(q)'[1] BY <1>2, <2>1 DEF Members
  <2>4. CASE p = t
    <3>1. j # l BY <1>3, <2>2, <2>4 DEF Popped
    <3>2. j \in 1 .. l - 1 BY <1>3, <2>2, <2>4, <3>1
    <3>3. frames'[t][j] = frames[t][j] /\ j \in DOMAIN frames'[t] BY <3>2 DEF Popped
    <3> QED BY <2>2, <2>3, <2>4, <3>3 DEF LeaderIn
  <2>5. CASE p # t
    <3>1. frames'[p] = frames[p] BY <2>5 DEF Popped
    <3> QED BY <2>2, <2>3, <3>1 DEF LeaderIn
  <2> QED BY <2>4, <2>5
<1>5. ASSUME NEW u \in Threads, NEW i \in DOMAIN frames'[u] PROVE FrameOK(u, i)'
  <2>1. /\ i \in DOMAIN frames[u] /\ frames'[u][i] = frames[u][i]
        /\ i < Len(frames'[u]) => i < Len(frames[u])
    <3>1. CASE u = t
      <4>1. i \in 1 .. l - 1 /\ Len(frames'[t]) = l - 1 /\ Len(frames[t]) = l BY <3>1 DEF Popped
      <4>2. i \in 1 .. l /\ (i < l - 1 => i < l) BY <4>1
      <4> QED BY <1>3, <3>1, <4>1, <4>2 DEF Popped
    <3>2. CASE u # t BY <3>2 DEF Popped
    <3> QED BY <3>1, <3>2
  <2>2. FrameOK(u, i) /\ i \in Nat BY <2>1, FramesAre DEF FInv, TInv
  <2>3. PICK q : q = frames[u][i].team OBVIOUS
  <2>4. frames[u][i].num # 0 => LeaderIn(q)' BY <1>4, <2>2, <2>3 DEF FrameOK, InRegion
  <2>5. i < Len(frames'[u]) => frames[u][i].at = "run" BY <2>1, <2>2 DEF FrameOK
  <2> QED BY <1>2, <2>1, <2>2, <2>3, <2>4, <2>5, FrameKept
<1>6. ASSUME NEW u \in Threads PROVE Nested(u)'
  <2>1. CASE u = t
    <3>1. DOMAIN frames'[t] = 1 .. l - 1 /\ \A i \in 1 .. l - 1 : frames'[t][i] = frames[t][i]
          BY DEF Popped
    <3>2. 1 .. l - 1 \subseteq DOMAIN frames[t] BY <1>3
    <3> QED BY <2>1, <3>1, <3>2 DEF FInv, Nested
  <2>2. CASE u # t
    <3>1. frames'[u] = frames[u] BY <2>2 DEF Popped
    <3> QED BY <3>1 DEF FInv, Nested
  <2> QED BY <2>1, <2>2
<1>7. ASSUME NEW q \in DOMAIN teams' PROVE TeamOK(q)' BY <1>2 DEF FInv, TeamOK, Members
<1> QED BY <1>1, <1>5, <1>6, <1>7 DEF FInv

\* A step that is not one of a region is a construct's.
LEMMA StepKinds ==
    ASSUME TInv, FInv, NEW t \in Threads, Step(t)
    PROVE  \/ ReadId(t) \/ WriteId(t) \/ RecordStart(t) \/ LibParallelStart(t) \/ RecordFork(t)
           \/ RecordJoin(t) \/ LibParallelEnd(t) \/ RecordJoinDone(t) \/ Quiet(t)
<1>1. LeavingOpen BY FInvLeaving
<1>2. ASSUME EnterPlain(t) PROVE Quiet(t) BY <1>2, EnterPlainIs
<1>3. ASSUME ExitPlain(t) PROVE Quiet(t) BY <1>3, ExitPlainIs
<1>4. ASSUME AskCritical(t) PROVE Quiet(t) BY <1>4, AskCriticalIs
<1>5. ASSUME LibCriticalStart(t) PROVE Quiet(t) BY <1>5, LibCriticalStartIs
<1>6. ASSUME RecordCritical(t) PROVE Quiet(t) BY <1>6, RecordCriticalIs
<1>7. ASSUME RecordCriticalEnd(t) PROVE Quiet(t) BY <1>7, RecordCriticalEndIs
<1>8. ASSUME LibCriticalEnd(t) PROVE Quiet(t) BY <1>1, <1>8, LibCriticalEndIs
<1>9. ASSUME AskLock(t) PROVE Quiet(t) BY <1>9, AskLockIs
<1>10. ASSUME LibSetLock(t) PROVE Quiet(t) BY <1>10, LibSetLockIs
<1>11. ASSUME RecordLocked(t) PROVE Quiet(t) BY <1>11, RecordLockedIs
<1>12. ASSUME UnsetLock(t) PROVE Quiet(t) BY <1>12, UnsetLockIs
<1> QED BY <1>2, <1>3, <1>4, <1>5, <1>6, <1>7, <1>8, <1>9, <1>10, <1>11, <1>12 DEF Step

LEMMA InitFrames == Init => TInv /\ FInv
<1> SUFFICES ASSUME Init PROVE TInv /\ FInv OBVIOUS
<1>1. Frame(0, 0, "run") \in FrameType /\ Frame(0, 0, "run").team = 0 /\ Frame(0, 0, "run").num = 0
      /\ Frame(0, 0, "run").at = "run" /\ Frame(0, 0, "run").open = << >>
  <2>1. << >> \in Seq(Constructs) BY EmptySeq
  <2> QED BY <2>1 DEF Frame, FrameType, Places
<1> DEFINE f == Frame(0, 0, "run")
<1>2. /\ frames = [t \in Threads |-> IF t \in Initial THEN << f >> ELSE << >>]
      /\ teams = << >> /\ next_section_id = 0
      BY DEF Init
<1> HIDE DEF f
<1>3. f \in FrameType /\ f.team = 0 /\ f.num = 0 /\ f.at = "run" /\ f.open = << >> BY <1>1 DEF f
<1>4. << f >> \in Seq(FrameType) /\ << >> \in Seq(FrameType) /\ DOMAIN << f >> = {1} /\ << f >>[1] = f
      /\ Len(<< f >>) = 1
      BY <1>3, EmptySeq
<1>5. teams \in Seq(TeamType) /\ DOMAIN teams = {} BY <1>2, EmptySeq
<1>6. frames \in [Threads -> Seq(FrameType)] BY <1>2, <1>4
<1>7. WellFormed(conv)
  <2>1. conv \in ConvType BY InitConv
  <2>2. conv.pending = {} /\ \A t \in Threads : conv.stack[t] = << >> BY DEF Init
  <2>3. \A t \in Threads : DOMAIN conv.stack[t] = {} BY <2>2
  <2> QED BY <2>1, <2>2, <2>3 DEF WellFormed
<1>8. TInv BY <1>2, <1>5, <1>6, <1>7 DEF TInv
<1>9. ASSUME NEW t \in Threads, NEW i \in DOMAIN frames[t] PROVE frames[t] = << f >> /\ i = 1
  <2>1. frames[t] # << >>
    <3>1. DOMAIN frames[t] = {} => FALSE BY <1>9
    <3> QED BY <3>1
  <2> QED BY <1>2, <1>4, <1>9, <2>1
<1>10. \A t \in Threads : Nested(t) BY <1>9 DEF Nested
<1>11. ASSUME NEW t \in Threads, NEW i \in DOMAIN frames[t] PROVE FrameOK(t, i)
  <2>1. frames[t][i] = f /\ i = 1 /\ Len(frames[t]) = 1 BY <1>4, <1>9, <1>11
  <2> QED BY <1>3, <2>1 DEF FrameOK, Borders
<1>12. \A r \in DOMAIN teams : TeamOK(r) BY <1>5
<1> QED BY <1>8, <1>10, <1>11, <1>12 DEF FInv

LEMMA StepFrames ==
    ASSUME TInv, FInv, NEW t \in Threads, Step(t)
    PROVE  TInv' /\ FInv'
<1>1. CASE ReadId(t) BY <1>1, ReadIdIs
<1>2. CASE WriteId(t) BY <1>2, WriteIdIs
<1>3. CASE RecordStart(t) BY <1>3, RecordStartIs
<1>4. CASE LibParallelStart(t)
  <2>1. PICK H \in SUBSET Threads, r \in Nat : NewTeam(t, H, r) /\ NewFrames(t, H, r)
        BY <1>4, LibParallelStartIs
  <2>2. frames[t] # << >> /\ Top(t).at = "call" /\ UNCHANGED <<next_section_id, conv>>
        BY <1>4, LibParallelStartIs
  <2> QED BY <2>1, <2>2, LibParallelStartKeeps
<1>5. CASE RecordFork(t) BY <1>5, RecordForkIs
<1>6. CASE RecordJoin(t) BY <1>6, RecordJoinIs
<1>7. CASE LibParallelEnd(t)
  <2>1. PICK r \in Nat \ {0}, l \in Nat \ {0} : Emptied(t, r, l) BY <1>7, LibParallelEndIs
  <2> QED BY <2>1, LibParallelEndKeeps
<1>8. CASE RecordJoinDone(t)
  <2>1. PICK l \in Nat \ {0} : Popped(t, l) BY <1>8, RecordJoinDoneIs
  <2>2. WellFormed(conv') BY <1>8, RecordJoinDoneIs
  <2> QED BY <2>1, <2>2, RecordJoinDoneKeeps
<1>9. CASE Quiet(t) BY <1>9, QuietKeeps
<1> QED BY <1>1, <1>2, <1>3, <1>4, <1>5, <1>6, <1>7, <1>8, <1>9, StepKinds

(* The regions of a thread are nested, in the order in which they were     *)
(* started, and it is in each under the number that libgomp has given it;  *)
(* the thread that has started a region is in it while others are.         *)
THEOREM FramesFormed == Spec => [](TInv /\ FInv)
<1>1. Init => TInv /\ FInv BY InitFrames
<1>2. TInv /\ FInv /\ [Next]_vars => TInv' /\ FInv'
  <2> SUFFICES ASSUME TInv, FInv, [Next]_vars PROVE TInv' /\ FInv' OBVIOUS
  <2>1. CASE Next BY <2>1, StepFrames DEF Next
  <2>2. CASE UNCHANGED vars
    <3> USE <2>2 DEF vars
    <3>1. TInv' BY DEF TInv
    <3>2. \A r : LeaderIn(r)' <=> LeaderIn(r) BY DEF LeaderIn, Members
    <3>3. ASSUME NEW t \in Threads, NEW i \in DOMAIN frames'[t] PROVE FrameOK(t, i)'
      <4>1. i \in DOMAIN frames[t] /\ FrameOK(t, i) /\ i \in Nat BY FramesAre DEF FInv, TInv
      <4>2. PICK r : r = frames[t][i].team OBVIOUS
      <4>3. frames[t][i].num # 0 => LeaderIn(r)' BY <3>2, <4>1, <4>2 DEF FrameOK
      <4>4. i < Len(frames'[t]) => frames[t][i].at = "run" BY <4>1 DEF FrameOK
      <4>5. TeamsGrow /\ frames'[t][i] = frames[t][i] BY DEF TeamsGrow
      <4> QED BY <4>1, <4>2, <4>3, <4>4, <4>5, FrameKept
    <3>4. \A t \in Threads : Nested(t)' BY DEF FInv, Nested
    <3>5. \A r \in DOMAIN teams' : TeamOK(r)' BY DEF FInv, TeamOK, Members
    <3> QED BY <3>1, <3>3, <3>4, <3>5 DEF FInv
  <2> QED BY <2>1, <2>2
<1> QED BY <1>1, <1>2, PTL DEF Spec

(* Where the threads are. *)
Is(t, label) == frames[t] # << >> /\ Top(t).at = label
Starting(t) == Is(t, "start") \/ Is(t, "call")

Here(u, r) == \E i \in DOMAIN frames[u] : frames[u][i].team = r
ForkingIn(u, r) == \E i \in DOMAIN frames[u] : frames[u][i].team = r /\ frames[u][i].at = "fork"
Inside(u, r) == \E i \in DOMAIN frames[u] : frames[u][i].team = r /\ frames[u][i].at \notin {"joined", "done"}

\* The frames of which the fork is recorded.
Forked(t) == IF Is(t, "fork") THEN Len(frames[t]) - 1 ELSE Len(frames[t])

\* A frame whose team and whose borders are the same.
SameAt(u, i) ==
    /\ frames'[u][i].team = frames[u][i].team
    /\ frames'[u][i].at = "fork" <=> frames[u][i].at = "fork"
    /\ frames'[u][i].at \in {"joined", "done"} <=> frames[u][i].at \in {"joined", "done"}

SameFlags(u) ==
    \A r \in Nat : /\ ForkingIn(u, r)' <=> ForkingIn(u, r)
                   /\ Inside(u, r)' <=> Inside(u, r)
                   /\ Here(u, r)' <=> Here(u, r)

SameForked(u) ==
    /\ Forked(u)' = Forked(u)
    /\ \A i \in 1 .. Forked(u) : frames'[u][i].team = frames[u][i].team

LEMMA ForkedIs ==
    ASSUME TInv, NEW t \in Threads
    PROVE  /\ Forked(t) \in Nat /\ Forked(t) <= Len(frames[t]) /\ 1 .. Forked(t) \subseteq DOMAIN frames[t]
           /\ Is(t, "fork") => Forked(t) = Len(frames[t]) - 1
           /\ ~Is(t, "fork") => Forked(t) = Len(frames[t])
<1>1. Len(frames[t]) \in Nat /\ DOMAIN frames[t] = 1 .. Len(frames[t])
      /\ (frames[t] # << >> <=> Len(frames[t]) # 0)
      BY FramesAre DEF TInv
<1>2. CASE Is(t, "fork")
  <2>1. Len(frames[t]) \in Nat \ {0} BY <1>1, <1>2 DEF Is
  <2> QED BY <1>1, <1>2, <2>1 DEF Forked
<1>3. CASE ~Is(t, "fork") BY <1>1, <1>3 DEF Forked
<1> QED BY <1>2, <1>3

LEMMA TopIndex ==
    ASSUME TInv, NEW t \in Threads, frames[t] # << >>
    PROVE  Len(frames[t]) \in DOMAIN frames[t] /\ Top(t) = frames[t][Len(frames[t])]
BY TopFrame DEF TInv

\* A thread of whose frames neither the teams nor the borders change.
LEMMA ThreadFlags ==
    ASSUME TInv, NEW u \in Threads, SameDomain(u), \A i \in DOMAIN frames[u] : SameAt(u, i),
           frames'[u] = << >> <=> frames[u] = << >>
    PROVE  SameFlags(u) /\ SameForked(u)
<1>1. DOMAIN frames'[u] = DOMAIN frames[u] /\ Len(frames'[u]) = Len(frames[u]) BY DEF SameDomain
<1>2. \A i \in DOMAIN frames[u] :
         /\ frames'[u][i].team = frames[u][i].team
         /\ frames'[u][i].at = "fork" <=> frames[u][i].at = "fork"
         /\ frames'[u][i].at \in {"joined", "done"} <=> frames[u][i].at \in {"joined", "done"}
      BY DEF SameAt
<1>3. SameFlags(u)
  <2> SUFFICES ASSUME NEW r \in Nat
               PROVE  /\ ForkingIn(u, r)' <=> ForkingIn(u, r)
                      /\ Inside(u, r)' <=> Inside(u, r)
                      /\ Here(u, r)' <=> Here(u, r)
      BY DEF SameFlags
  <2>1. ForkingIn(u, r)' <=> ForkingIn(u, r) BY <1>1, <1>2 DEF ForkingIn
  <2>2. Inside(u, r)' <=> Inside(u, r) BY <1>1, <1>2 DEF Inside
  <2>3. Here(u, r)' <=> Here(u, r) BY <1>1, <1>2 DEF Here
  <2> QED BY <2>1, <2>2, <2>3
<1>4. Is(u, "fork")' <=> Is(u, "fork")
  <2>1. CASE frames[u] = << >> BY <2>1 DEF Is
  <2>2. CASE frames[u] # << >>
    <3>1. Len(frames[u]) \in DOMAIN frames[u] /\ Top(u) = frames[u][Len(frames[u])] BY <2>2, TopIndex
    <3>2. frames'[u] # << >>
      <4>1. DOMAIN frames'[u] # {} BY <1>1, <3>1
      <4> QED BY <4>1
    <3>3. Top(u)' = frames'[u][Len(frames[u])] BY <1>1 DEF Top, Last
    <3> QED BY <1>2, <2>2, <3>1, <3>2, <3>3 DEF Is
  <2> QED BY <2>1, <2>2
<1>5. Forked(u)' = Forked(u) BY <1>1, <1>4 DEF Forked
<1>6. \A i \in 1 .. Forked(u) : frames'[u][i].team = frames[u][i].team BY <1>2, ForkedIs
<1> QED BY <1>3, <1>5, <1>6 DEF SameForked

\* A step of one thread outside the borders of its region.
LEMMA LocalFlags ==
    ASSUME TInv, NEW t \in Threads, NEW f \in FrameType, Local(t, f), Top(t).at \notin Borders,
           f.at \notin Borders
    PROVE  \A u \in Threads : SameFlags(u) /\ SameForked(u)
<1> SUFFICES ASSUME NEW u \in Threads PROVE SameFlags(u) /\ SameForked(u) OBVIOUS
<1>1. SameDomain(u) BY LocalFrame
<1>2. frames'[u] = << >> <=> frames[u] = << >>
  <2>1. CASE u = t BY <2>1 DEF Local, Replaced
  <2>2. CASE u # t BY <2>2 DEF Local, Replaced
  <2> QED BY <2>1, <2>2
<1>3. ASSUME NEW i \in DOMAIN frames[u] PROVE SameAt(u, i)
  <2>1. Kept(t, f, u, i) BY LocalFrame
  <2>2. CASE u = t /\ i = Len(frames[t])
    <3>1. frames'[u][i] = f /\ frames[u][i] = Top(t) BY <2>1, <2>2 DEF Kept
    <3> QED BY <2>1, <3>1 DEF Kept, SameAt, Borders
  <2>3. CASE ~(u = t /\ i = Len(frames[t]))
    <3>1. frames'[u][i] = frames[u][i] BY <2>1, <2>3 DEF Kept
    <3> QED BY <3>1 DEF SameAt
  <2> QED BY <2>2, <2>3
<1> QED BY <1>1, <1>2, <1>3, ThreadFlags

\* A thread whose frames are the same.
LEMMA OthersFlags ==
    ASSUME TInv, NEW u \in Threads, frames'[u] = frames[u]
    PROVE  SameFlags(u) /\ SameForked(u) /\ Top(u)' = Top(u)
           /\ \A label \in Places : Is(u, label)' <=> Is(u, label)
<1>1. Top(u)' = Top(u) BY DEF Top
<1>2. \A label \in Places : Is(u, label)' <=> Is(u, label) BY <1>1 DEF Is
<1>3. SameFlags(u) /\ SameForked(u)
  <2>1. SameDomain(u) /\ \A i \in DOMAIN frames[u] : SameAt(u, i) BY DEF SameDomain, SameAt
  <2> QED BY <2>1, ThreadFlags
<1> QED BY <1>1, <1>2, <1>3

\* The event of a fork.
LEMMA ForkFlags ==
    ASSUME TInv, FInv, NEW t \in Threads, NEW f \in FrameType, Local(t, f),
           Top(t).at = "fork", f.at = "run", NEW r \in Nat, r = Top(t).team
    PROVE  /\ \A u \in Threads \ {t} : SameFlags(u) /\ SameForked(u)
           /\ ForkingIn(t, r) /\ Here(t, r) /\ Inside(t, r)
           /\ \A q \in Nat : /\ ~ForkingIn(t, q)' /\ (ForkingIn(t, q) => q = r)
                             /\ Inside(t, q)' <=> Inside(t, q)
                             /\ Here(t, q)' <=> Here(t, q)
           /\ Forked(t)' = Len(frames[t]) /\ Forked(t) = Len(frames[t]) - 1
           /\ \A i \in DOMAIN frames[t] : frames'[t][i].team = frames[t][i].team
<1>1. ASSUME NEW u \in Threads \ {t} PROVE SameFlags(u) /\ SameForked(u)
  <2>1. frames'[u] = frames[u] BY DEF Local, Replaced
  <2> QED BY <2>1, OthersFlags
<1>2. frames[t] # << >> /\ frames'[t] # << >> BY DEF Local, Replaced
<1>3. PICK l : l = Len(frames[t]) OBVIOUS
<1>4. l \in DOMAIN frames[t] /\ Top(t) = frames[t][l] BY <1>2, <1>3, TopIndex
<1>5. SameDomain(t) /\ \A i \in DOMAIN frames[t] : Kept(t, f, t, i) BY LocalFrame
<1>6. /\ DOMAIN frames'[t] = DOMAIN frames[t] /\ Len(frames'[t]) = l
      /\ frames'[t][l] = f
      /\ \A i \in DOMAIN frames[t] : frames'[t][i].team = frames[t][i].team
      /\ \A i \in DOMAIN frames[t] : i # l => frames'[t][i] = frames[t][i]
      BY <1>3, <1>4, <1>5 DEF SameDomain, Kept
<1>7. \A i \in DOMAIN frames[t] : i # l => frames[t][i].at = "run" BY <1>2, <1>3, TopOK
<1>8. \A i \in DOMAIN frames[t] : frames'[t][i].at = "run" BY <1>6, <1>7
<1>9. \A i \in DOMAIN frames[t] : frames[t][i].at \in {"run", "fork"} BY <1>4, <1>7
<1>10. ASSUME NEW q \in Nat
       PROVE  /\ ~ForkingIn(t, q)' /\ (ForkingIn(t, q) => q = r)
              /\ Inside(t, q)' <=> Inside(t, q)
              /\ Here(t, q)' <=> Here(t, q)
  <2>1. ~ForkingIn(t, q)' BY <1>6, <1>8 DEF ForkingIn
  <2>2. ForkingIn(t, q) => q = r BY <1>4, <1>7 DEF ForkingIn
  <2>3. Here(t, q)' <=> Here(t, q) BY <1>6 DEF Here
  <2>4. Inside(t, q)' <=> Here(t, q)' BY <1>6, <1>8 DEF Inside, Here
  <2>5. Inside(t, q) <=> Here(t, q) BY <1>9 DEF Inside, Here
  <2> QED BY <2>1, <2>2, <2>3, <2>4, <2>5
<1>11. ForkingIn(t, r) /\ Here(t, r) /\ Inside(t, r) BY <1>4 DEF ForkingIn, Here, Inside
<1>12. Forked(t) = l - 1 BY <1>2, <1>3 DEF Forked, Is
<1>13. Forked(t)' = l
  <2>1. Top(t)' = f BY <1>6 DEF Top, Last
  <2>2. ~Is(t, "fork")' BY <2>1 DEF Is
  <2> QED BY <1>6, <2>2 DEF Forked
<1> QED BY <1>1, <1>3, <1>6, <1>10, <1>11, <1>12, <1>13

\* The event of a join.
LEMMA JoinFlags ==
    ASSUME TInv, FInv, NEW t \in Threads, NEW f \in FrameType, Local(t, f),
           Top(t).at = "run", f.at = "joined", NEW r \in Nat, r = Top(t).team
    PROVE  /\ \A u \in Threads \ {t} : SameFlags(u)
           /\ \A u \in Threads : SameForked(u)
           /\ Here(t, r) /\ Inside(t, r)
           /\ \A q \in Nat : /\ ~ForkingIn(t, q)' /\ ~ForkingIn(t, q)
                             /\ Inside(t, q)' <=> Inside(t, q) /\ q # r
                             /\ Here(t, q)' <=> Here(t, q)
           /\ Forked(t) = Len(frames[t])
<1>1. ASSUME NEW u \in Threads \ {t} PROVE SameFlags(u) /\ SameForked(u)
  <2>1. frames'[u] = frames[u] BY DEF Local, Replaced
  <2> QED BY <2>1, OthersFlags
<1>2. frames[t] # << >> /\ frames'[t] # << >> BY DEF Local, Replaced
<1>3. PICK l : l = Len(frames[t]) OBVIOUS
<1>4. l \in DOMAIN frames[t] /\ Top(t) = frames[t][l] BY <1>2, <1>3, TopIndex
<1>5. SameDomain(t) /\ \A i \in DOMAIN frames[t] : Kept(t, f, t, i) BY LocalFrame
<1>6. /\ DOMAIN frames'[t] = DOMAIN frames[t] /\ Len(frames'[t]) = l
      /\ frames'[t][l] = f
      /\ \A i \in DOMAIN frames[t] : frames'[t][i].team = frames[t][i].team
      /\ \A i \in DOMAIN frames[t] : i # l => frames'[t][i] = frames[t][i]
      BY <1>3, <1>4, <1>5 DEF SameDomain, Kept
<1>7. \A i \in DOMAIN frames[t] : i # l => frames[t][i].at = "run" /\ frames[t][i].team # r
      BY <1>2, <1>3, TopOK
<1>8. \A i \in DOMAIN frames[t] : frames[t][i].at = "run" BY <1>4, <1>7
<1>9. \A i \in DOMAIN frames[t] : i # l => frames'[t][i].at = "run" BY <1>6, <1>7
<1>10. ASSUME NEW q \in Nat
       PROVE  /\ ~ForkingIn(t, q)' /\ ~ForkingIn(t, q)
              /\ Inside(t, q)' <=> Inside(t, q) /\ q # r
              /\ Here(t, q)' <=> Here(t, q)
  <2>1. ~ForkingIn(t, q)' BY <1>6, <1>9 DEF ForkingIn
  <2>2. ~ForkingIn(t, q) BY <1>8 DEF ForkingIn
  <2>3. Here(t, q)' <=> Here(t, q) BY <1>6 DEF Here
  <2>4. Inside(t, q) /\ q # r => Inside(t, q)'
    <3> SUFFICES ASSUME Inside(t, q), q # r PROVE Inside(t, q)' OBVIOUS
    <3>1. PICK i \in DOMAIN frames[t] : frames[t][i].team = q BY DEF Inside
    <3>2. i # l BY <1>4, <3>1
    <3>3. i \in DOMAIN frames'[t] /\ frames'[t][i].team = q /\ frames'[t][i].at = "run" BY <1>6, <1>9, <3>1, <3>2
    <3> QED BY <3>3 DEF Inside
  <2>5. Inside(t, q)' => Inside(t, q) /\ q # r
    <3> SUFFICES ASSUME Inside(t, q)' PROVE Inside(t, q) /\ q # r OBVIOUS
    <3>1. PICK i \in DOMAIN frames'[t] : frames'[t][i].team = q /\ frames'[t][i].at \notin {"joined", "done"}
          BY DEF Inside
    <3>2. i # l BY <1>6, <3>1
    <3>3. i \in DOMAIN frames[t] /\ frames[t][i].team = q /\ frames[t][i].at = "run" BY <1>6, <1>8, <3>1
    <3>4. q # r BY <1>7, <3>2, <3>3
    <3> QED BY <3>3, <3>4 DEF Inside
  <2> QED BY <2>1, <2>2, <2>3, <2>4, <2>5
<1>11. Here(t, r) /\ Inside(t, r) BY <1>4 DEF Here, Inside
<1>12. Forked(t) = l BY <1>2, <1>3 DEF Forked, Is
<1>13. SameForked(t)
  <2>1. Top(t)' = f BY <1>6 DEF Top, Last
  <2>2. ~Is(t, "fork")' BY <2>1 DEF Is
  <2>3. Forked(t)' = l BY <1>6, <2>2 DEF Forked
  <2>4. DOMAIN frames[t] = 1 .. l BY <1>3, FramesAre DEF TInv
  <2> QED BY <1>6, <1>12, <2>3, <2>4 DEF SameForked
<1> QED BY <1>1, <1>3, <1>10, <1>11, <1>12, <1>13

Started(t, H, r) ==
    /\ \A u \in Threads, q \in Nat : q # r =>
          /\ ForkingIn(u, q)' <=> ForkingIn(u, q)
          /\ Inside(u, q)' <=> Inside(u, q)
          /\ Here(u, q)' <=> Here(u, q)
    /\ \A u \in {t} \cup H : ForkingIn(u, r)' /\ Inside(u, r)' /\ Here(u, r)'
    /\ \A u \in Threads : SameForked(u)
    /\ \A u \in {t} \cup H : ~Is(u, "incr")' /\ ~Is(u, "start")' /\ ~Is(u, "call")'

LEMMA StartFlags ==
    ASSUME TInv, FInv, NEW t \in Threads, NEW H \in SUBSET Threads, NEW r \in Nat,
           NewTeam(t, H, r), NewFrames(t, H, r), Is(t, "call")
    PROVE  Started(t, H, r)
<1>1. PICK l \in Nat \ {0} : LeaderFrames(t, r, l) BY DEF NewFrames, LeaderFrames
<1>2. frames[t] # << >> /\ Top(t).at = "call" BY DEF Is
<1>3. Len(frames[t]) = l /\ DOMAIN frames[t] = 1 .. l BY <1>1, FramesAre DEF LeaderFrames, TInv
<1>4. Top(t) = frames[t][l] /\ Top(t) \in FrameType BY <1>2, <1>3, TopFrame DEF TInv
<1>5. DOMAIN frames'[t] = 1 .. l + 1 /\ Len(frames'[t]) = l + 1 BY <1>1 DEF LeaderFrames
<1>6. frames'[t][l + 1].team = r /\ frames'[t][l + 1].at = "fork" BY <1>1 DEF LeaderFrames, Joining
<1>7. ASSUME NEW i \in 1 .. l PROVE SameAt(t, i)
  <2>1. CASE i = l
    <3>1. frames'[t][l] = [Top(t) EXCEPT !.at = "run"] BY <1>1 DEF LeaderFrames
    <3>2. frames'[t][l].team = Top(t).team /\ frames'[t][l].at = "run" BY <1>4, <3>1 DEF FrameType
    <3> QED BY <1>2, <1>4, <2>1, <3>2 DEF SameAt
  <2>2. CASE i # l
    <3>1. i \in 1 .. l - 1 BY <2>2
    <3>2. frames'[t][i] = frames[t][i] BY <1>1, <3>1 DEF LeaderFrames
    <3> QED BY <3>2 DEF SameAt
  <2> QED BY <2>1, <2>2
<1>8. \A i \in 1 .. l + 1 : i \in 1 .. l \/ i = l + 1 OBVIOUS
<1>9. \A i \in 1 .. l : i \in 1 .. l + 1 OBVIOUS
<1>10. ASSUME NEW q \in Nat, q # r
       PROVE  /\ ForkingIn(t, q)' <=> ForkingIn(t, q)
              /\ Inside(t, q)' <=> Inside(t, q)
              /\ Here(t, q)' <=> Here(t, q)
  <2>1. \A i \in 1 .. l : /\ frames'[t][i].team = frames[t][i].team
                          /\ frames'[t][i].at = "fork" <=> frames[t][i].at = "fork"
                          /\ frames'[t][i].at \in {"joined", "done"} <=> frames[t][i].at \in {"joined", "done"}
        BY <1>7 DEF SameAt
  <2>2. \A i \in DOMAIN frames'[t] : frames'[t][i].team = q => i \in DOMAIN frames[t]
        BY <1>3, <1>5, <1>6, <1>8, <1>10
  <2>3. \A i \in DOMAIN frames[t] : i \in DOMAIN frames'[t] BY <1>3, <1>5, <1>9
  <2>4. ForkingIn(t, q)' <=> ForkingIn(t, q) BY <1>3, <2>1, <2>2, <2>3 DEF ForkingIn
  <2>5. Inside(t, q)' <=> Inside(t, q) BY <1>3, <2>1, <2>2, <2>3 DEF Inside
  <2>6. Here(t, q)' <=> Here(t, q) BY <1>3, <2>1, <2>2, <2>3 DEF Here
  <2> QED BY <2>4, <2>5, <2>6
<1>11. \A u \in H : /\ DOMAIN frames[u] = {} /\ Len(frames[u]) = 0 /\ frames[u] = << >>
                    /\ Len(frames'[u]) = 1 /\ DOMAIN frames'[u] = {1}
                    /\ frames'[u][1].team = r /\ frames'[u][1].at = "fork"
       BY DEF NewTeam, NewFrames, Joining
<1>12. ASSUME NEW u \in H, NEW q \in Nat, q # r
       PROVE  /\ ForkingIn(u, q)' <=> ForkingIn(u, q)
              /\ Inside(u, q)' <=> Inside(u, q)
              /\ Here(u, q)' <=> Here(u, q)
  <2>1. ForkingIn(u, q)' <=> ForkingIn(u, q) BY <1>11, <1>12 DEF ForkingIn
  <2>2. Inside(u, q)' <=> Inside(u, q) BY <1>11, <1>12 DEF Inside
  <2>3. Here(u, q)' <=> Here(u, q) BY <1>11, <1>12 DEF Here
  <2> QED BY <2>1, <2>2, <2>3
<1>13. ASSUME NEW u \in Threads, u # t, u \notin H PROVE SameFlags(u) /\ SameForked(u)
  <2>1. frames'[u] = frames[u] BY <1>13 DEF NewFrames
  <2> QED BY <2>1, OthersFlags
<1>14. ForkingIn(t, r)' /\ Inside(t, r)' /\ Here(t, r)'
  <2>1. l + 1 \in DOMAIN frames'[t] BY <1>5
  <2> QED BY <1>6, <2>1 DEF ForkingIn, Inside, Here
<1>15. \A u \in H : ForkingIn(u, r)' /\ Inside(u, r)' /\ Here(u, r)'
       BY <1>11 DEF ForkingIn, Inside, Here
<1>16. SameForked(t) /\ Top(t)'.at = "fork"
  <2>1. Top(t)' = frames'[t][l + 1] BY <1>5 DEF Top, Last
  <2>2. frames'[t] # << >>
    <3>1. l + 1 \in DOMAIN frames'[t] BY <1>5
    <3> QED BY <3>1
  <2>3. Is(t, "fork")' BY <1>6, <2>1, <2>2 DEF Is
  <2>4. Forked(t)' = l BY <1>5, <2>3 DEF Forked
  <2>5. Forked(t) = l BY <1>2, <1>3 DEF Forked, Is
  <2>6. \A i \in 1 .. l : frames'[t][i].team = frames[t][i].team BY <1>7 DEF SameAt
  <2> QED BY <1>6, <2>1, <2>4, <2>5, <2>6 DEF SameForked
<1>17. ASSUME NEW u \in H PROVE SameForked(u) /\ Top(u)'.at = "fork"
  <2>1. Top(u)' = frames'[u][1] BY <1>11 DEF Top, Last
  <2>2. frames'[u] # << >>
    <3>1. 1 \in DOMAIN frames'[u] BY <1>11
    <3> QED BY <3>1
  <2>3. Is(u, "fork")' BY <1>11, <2>1, <2>2 DEF Is
  <2>4. Forked(u)' = 0 BY <1>11, <2>3 DEF Forked
  <2>5. Forked(u) = 0 BY <1>11 DEF Forked, Is
  <2>6. 1 .. 0 = {} OBVIOUS
  <2> QED BY <1>11, <2>1, <2>4, <2>5, <2>6 DEF SameForked
<1>18. \A u \in Threads : SameForked(u) BY <1>13, <1>16, <1>17
<1>19. \A u \in {t} \cup H : ~Is(u, "incr")' /\ ~Is(u, "start")' /\ ~Is(u, "call")'
       BY <1>16, <1>17 DEF Is
<1>20. ASSUME NEW u \in Threads, NEW q \in Nat, q # r
       PROVE  /\ ForkingIn(u, q)' <=> ForkingIn(u, q)
              /\ Inside(u, q)' <=> Inside(u, q)
              /\ Here(u, q)' <=> Here(u, q)
       BY <1>10, <1>12, <1>13, <1>20 DEF SameFlags
<1> QED BY <1>14, <1>15, <1>18, <1>19, <1>20 DEF Started

LEMMA EndFlags ==
    ASSUME TInv, FInv, NEW t \in Threads, NEW r \in Nat \ {0}, NEW l \in Nat \ {0}, Emptied(t, r, l)
    PROVE  /\ \A u \in Threads, q \in Nat :
                 /\ ForkingIn(u, q)' <=> ForkingIn(u, q)
                 /\ Inside(u, q)' <=> Inside(u, q)
                 /\ q # r => (Here(u, q)' <=> Here(u, q))
           /\ Here(t, r) /\ Here(t, r)'
           /\ \A u \in Threads : SameForked(u) \/ Forked(u)' = 0
           /\ \A u \in Threads : Is(u, "incr")' => Is(u, "incr") /\ Top(u)' = Top(u)
           /\ \A u \in Threads : Is(u, "start")' => Is(u, "start") /\ Top(u)' = Top(u)
           /\ \A u \in Threads : Is(u, "call")' => Is(u, "call") /\ Top(u)' = Top(u)
<1>1. frames[t] # << >> /\ l = Len(frames[t]) BY DEF Emptied
<1>2. l \in DOMAIN frames[t] /\ Top(t) = frames[t][l] /\ Top(t) \in FrameType /\ DOMAIN frames[t] = 1 .. l
      BY <1>1, TopIndex, TopFrame, FramesAre DEF TInv
<1>3. frames'[t][l].team = r /\ frames'[t][l].at = "done" BY <1>2 DEF Emptied, FrameType
<1>4. frames[t][l].team = r /\ frames[t][l].at = "joined" BY <1>2 DEF Emptied
<1>5. SameFlags(t) /\ SameForked(t) /\ Top(t)'.at = "done"
  <2>1. SameDomain(t) BY <1>1 DEF SameDomain, Emptied
  <2>2. ASSUME NEW i \in DOMAIN frames[t] PROVE SameAt(t, i)
    <3>1. CASE i = l BY <1>3, <1>4, <3>1 DEF SameAt
    <3>2. CASE i # l
      <4>1. frames'[t][i] = frames[t][i] BY <3>2 DEF Emptied
      <4> QED BY <4>1 DEF SameAt
    <3> QED BY <3>1, <3>2
  <2>3. frames'[t] # << >>
    <3>1. l \in DOMAIN frames'[t] BY <1>2 DEF Emptied
    <3> QED BY <3>1
  <2>4. Top(t)' = frames'[t][l] BY DEF Top, Last, Emptied
  <2> QED BY <1>1, <1>3, <2>1, <2>2, <2>3, <2>4, ThreadFlags
<1>6. ASSUME NEW u \in Threads, u # t, u \in Range(Members(r))
      PROVE  /\ frames'[u] = << >> /\ Forked(u)' = 0
             /\ \A q \in Nat : /\ ~ForkingIn(u, q) /\ ~ForkingIn(u, q)'
                               /\ ~Inside(u, q) /\ ~Inside(u, q)'
                               /\ q # r => ~Here(u, q) /\ ~Here(u, q)'
  <2>1. frames'[u] = << >> /\ Len(frames[u]) = 1 /\ Top(u).at = "joined" /\ Top(u).team = r
        BY <1>6 DEF Emptied
  <2>2. DOMAIN frames[u] = {1} /\ Top(u) = frames[u][1] BY <2>1, FramesAre DEF TInv, Top, Last
  <2>3. frames[u][1].at = "joined" /\ frames[u][1].team = r BY <2>1, <2>2
  <2>4. DOMAIN frames'[u] = {} BY <2>1
  <2>5. Forked(u)' = 0 BY <2>1 DEF Forked, Is
  <2>6. ASSUME NEW q \in Nat
        PROVE  /\ ~ForkingIn(u, q) /\ ~ForkingIn(u, q)'
               /\ ~Inside(u, q) /\ ~Inside(u, q)'
               /\ q # r => ~Here(u, q) /\ ~Here(u, q)'
    <3>1. ~ForkingIn(u, q) /\ ~ForkingIn(u, q)' BY <2>2, <2>3, <2>4 DEF ForkingIn
    <3>2. ~Inside(u, q) /\ ~Inside(u, q)' BY <2>2, <2>3, <2>4 DEF Inside
    <3>3. q # r => ~Here(u, q) /\ ~Here(u, q)' BY <2>2, <2>3, <2>4 DEF Here
    <3> QED BY <3>1, <3>2, <3>3
  <2> QED BY <2>1, <2>5, <2>6
<1>7. ASSUME NEW u \in Threads, u # t, u \notin Range(Members(r))
      PROVE  frames'[u] = frames[u] /\ SameFlags(u) /\ SameForked(u)
  <2>1. frames'[u] = frames[u] BY <1>7 DEF Emptied
  <2> QED BY <2>1, OthersFlags
<1>8. ASSUME NEW u \in Threads, NEW q \in Nat
      PROVE  /\ ForkingIn(u, q)' <=> ForkingIn(u, q)
             /\ Inside(u, q)' <=> Inside(u, q)
             /\ q # r => (Here(u, q)' <=> Here(u, q))
  <2>1. CASE u = t BY <1>5, <2>1 DEF SameFlags
  <2>2. CASE u # t /\ u \in Range(Members(r)) BY <1>6, <2>2
  <2>3. CASE u # t /\ u \notin Range(Members(r)) BY <1>7, <2>3 DEF SameFlags
  <2> QED BY <2>1, <2>2, <2>3
<1>9. Here(t, r) BY <1>2, <1>4 DEF Here
<1>10. Here(t, r)' BY <1>5, <1>9 DEF SameFlags
<1>11. \A u \in Threads : SameForked(u) \/ Forked(u)' = 0 BY <1>5, <1>6, <1>7
<1>12. ASSUME NEW u \in Threads, NEW label \in {"incr", "start", "call"}, Is(u, label)'
       PROVE  Is(u, label) /\ Top(u)' = Top(u)
  <2>1. u # t BY <1>5, <1>12 DEF Is
  <2>2. frames'[u] # << >> BY <1>12 DEF Is
  <2>3. frames'[u] = frames[u] BY <1>6, <1>7, <2>1, <2>2
  <2> QED BY <1>12, <2>3 DEF Is, Top
<1> QED BY <1>8, <1>9, <1>10, <1>11, <1>12

LEMMA DoneFlags ==
    ASSUME TInv, FInv, NEW t \in Threads, NEW l \in Nat \ {0}, Popped(t, l),
           NEW r \in Nat, r = Top(t).team
    PROVE  /\ r \in DOMAIN teams /\ r # 0 /\ Top(t).num = 0
           /\ \A u \in Threads \ {t} : SameFlags(u) /\ SameForked(u) /\ ~Here(u, r)
           /\ \A q \in Nat : /\ ForkingIn(t, q)' <=> ForkingIn(t, q)
                             /\ Inside(t, q)' <=> Inside(t, q)
                             /\ Here(t, q)' <=> Here(t, q) /\ q # r
           /\ Here(t, r) /\ ~Inside(t, r) /\ ~ForkingIn(t, r)
           /\ Forked(t) = l /\ Forked(t)' = l - 1
           /\ \A i \in 1 .. l - 1 : frames'[t][i].team = frames[t][i].team
           /\ \A label \in Places : label # "run" => ~Is(t, label)'
<1>1. frames[t] # << >> /\ l = Len(frames[t]) /\ Top(t).at = "done" BY DEF Popped
<1>2. l \in DOMAIN frames[t] /\ Top(t) = frames[t][l] /\ Top(t) \in FrameType /\ DOMAIN frames[t] = 1 .. l
      BY <1>1, TopIndex, TopFrame, FramesAre DEF TInv
<1>3. r # 0 /\ InRegion(t, r, Top(t).num) BY <1>1, TopOK DEF Borders
<1>4. Top(t).num = 0
  <2>1. FrameOK(t, l) BY <1>2 DEF FInv
  <2>2. frames[t][l].at = "done" BY <1>1, <1>2
  <2>3. frames[t][l].num = 0 BY <2>1, <2>2 DEF FrameOK
  <2> QED BY <1>2, <2>3
<1>5. r \in DOMAIN teams /\ Members(r)[1] = t
  <2>1. r \in DOMAIN teams BY <1>3 DEF InRegion
  <2> QED BY <1>3, <1>4, <2>1, MemberIs
<1>6. \A i \in DOMAIN frames[t] : i # l => frames[t][i].at = "run" /\ frames[t][i].team # r
      BY <1>1, TopOK
<1>7. ASSUME NEW u \in Threads \ {t} PROVE SameFlags(u) /\ SameForked(u) /\ ~Here(u, r)
  <2>1. frames'[u] = frames[u] BY DEF Popped
  <2>2. SUFFICES ASSUME Here(u, r) PROVE FALSE BY <2>1, OthersFlags
  <2>3. PICK i \in DOMAIN frames[u] : frames[u][i].team = r BY <2>2 DEF Here
  <2>4. frames[u][i] \in FrameType /\ FrameOK(u, i) BY FramesAre DEF TInv, FInv
  <2>5. PICK n \in Nat : n = frames[u][i].num BY <2>4 DEF FrameType
  <2>6. InRegion(u, r, n) BY <1>3, <2>3, <2>4, <2>5 DEF FrameOK
  <2>7. n # 0 BY <1>5, <2>6, MemberIs
  <2>8. LeaderIn(r) BY <2>3, <2>4, <2>5, <2>7 DEF FrameOK
  <2>9. PICK j \in DOMAIN frames[t] : frames[t][j].team = r /\ frames[t][j].at # "done"
        BY <1>5, <2>8 DEF LeaderIn
  <2>10. j = l BY <1>6, <2>9
  <2> QED BY <1>1, <1>2, <2>9, <2>10
<1>8. DOMAIN frames'[t] = 1 .. l - 1 /\ Len(frames'[t]) = l - 1
      /\ \A i \in 1 .. l - 1 : frames'[t][i] = frames[t][i]
      BY DEF Popped
<1>9. /\ \A i \in 1 .. l - 1 : i \in DOMAIN frames[t] /\ i # l
      /\ \A i \in DOMAIN frames[t] : i # l => i \in 1 .. l - 1
      BY <1>2
<1>10. ASSUME NEW q \in Nat
       PROVE  /\ ForkingIn(t, q)' <=> ForkingIn(t, q)
              /\ Inside(t, q)' <=> Inside(t, q)
              /\ Here(t, q)' <=> Here(t, q) /\ q # r
  <2>1. ForkingIn(t, q)' <=> ForkingIn(t, q) BY <1>1, <1>2, <1>8, <1>9 DEF ForkingIn
  <2>2. Inside(t, q)' <=> Inside(t, q) BY <1>1, <1>2, <1>8, <1>9 DEF Inside
  <2>3. Here(t, q)' <=> Here(t, q) /\ q # r BY <1>2, <1>6, <1>8, <1>9 DEF Here
  <2> QED BY <2>1, <2>2, <2>3
<1>11. Here(t, r) /\ ~Inside(t, r) /\ ~ForkingIn(t, r)
  <2>1. Here(t, r) BY <1>2 DEF Here
  <2>2. ~Inside(t, r) BY <1>1, <1>2, <1>6 DEF Inside
  <2>3. ~ForkingIn(t, r) BY <1>1, <1>2, <1>6 DEF ForkingIn
  <2> QED BY <2>1, <2>2, <2>3
<1>12. Forked(t) = l BY <1>1 DEF Forked, Is
<1>13. ASSUME frames'[t] # << >> PROVE Top(t)'.at = "run"
  <2>1. frames'[t] \in Seq(FrameType) BY DEF Popped
  <2>2. l - 1 \in 1 .. l - 1
    <3>1. Len(frames'[t]) # 0 BY <1>13, <2>1, EmptySeq
    <3> QED BY <1>8, <3>1
  <2>3. Top(t)' = frames'[t][l - 1] BY <1>8 DEF Top, Last
  <2> QED BY <1>6, <1>8, <1>9, <2>2, <2>3
<1>14. Forked(t)' = l - 1 BY <1>8, <1>13 DEF Forked, Is
<1>15. \A label \in Places : label # "run" => ~Is(t, label)' BY <1>13 DEF Is
<1>16. \A i \in 1 .. l - 1 : frames'[t][i].team = frames[t][i].team BY <1>8
<1> QED BY <1>3, <1>4, <1>5, <1>7, <1>10, <1>11, <1>12, <1>14, <1>15, <1>16

\* No two regions, whether they start or have started, have the same number,
\* and no two sections.
Numbered ==
    /\ \A t, u \in Threads : Is(t, "incr") /\ Is(u, "incr") => t = u
    /\ \A t \in Threads : Is(t, "incr") => Top(t).id = next_section_id
    /\ \A t \in Threads : Starting(t) => Top(t).id < next_section_id
    /\ \A t, u \in Threads : Starting(t) /\ Starting(u) /\ Top(t).id = Top(u).id => t = u
    /\ \A r \in DOMAIN teams : teams[r].id < next_section_id
    /\ \A r, q \in DOMAIN teams : teams[r].id = teams[q].id => r = q
    /\ \A r \in DOMAIN teams, t \in Threads : Starting(t) => teams[r].id # Top(t).id
    /\ \A s \in DOMAIN conv.sections : conv.sections[s].id < next_section_id
    /\ \A s, q \in DOMAIN conv.sections : conv.sections[s].id = conv.sections[q].id => s = q
    /\ \A t \in Threads, s \in DOMAIN conv.sections : Is(t, "start") => conv.sections[s].id # Top(t).id

SameIds ==
    /\ DOMAIN conv'.sections = DOMAIN conv.sections
    /\ \A s \in DOMAIN conv.sections : conv'.sections[s].id = conv.sections[s].id

\* No other thread starts a region.
NoneStarts ==
    \A u \in Threads : /\ Is(u, "incr")' => Is(u, "incr") /\ Top(u)' = Top(u)
                       /\ Is(u, "start")' => Is(u, "start") /\ Top(u)' = Top(u)
                       /\ Is(u, "call")' => Is(u, "call") /\ Top(u)' = Top(u)

LEMMA NumbersKept ==
    ASSUME Numbered, teams' = teams, next_section_id' = next_section_id, SameIds, NoneStarts
    PROVE  Numbered'
<1>1. \A u \in Threads : Starting(u)' => Starting(u) /\ Top(u)' = Top(u) BY DEF NoneStarts, Starting
<1> USE DEF SameIds
<1>2. (\A t, u \in Threads : Is(t, "incr") /\ Is(u, "incr") => t = u)' BY DEF Numbered, NoneStarts
<1>3. (\A t \in Threads : Is(t, "incr") => Top(t).id = next_section_id)' BY DEF Numbered, NoneStarts
<1>4. (\A t \in Threads : Starting(t) => Top(t).id < next_section_id)' BY <1>1 DEF Numbered
<1>5. (\A t, u \in Threads : Starting(t) /\ Starting(u) /\ Top(t).id = Top(u).id => t = u)' BY <1>1 DEF Numbered
<1>6. (\A r \in DOMAIN teams : teams[r].id < next_section_id)' BY DEF Numbered
<1>7. (\A r, q \in DOMAIN teams : teams[r].id = teams[q].id => r = q)' BY DEF Numbered
<1>8. (\A r \in DOMAIN teams, t \in Threads : Starting(t) => teams[r].id # Top(t).id)' BY <1>1 DEF Numbered
<1>9. (\A s \in DOMAIN conv.sections : conv.sections[s].id < next_section_id)' BY DEF Numbered
<1>10. (\A s, q \in DOMAIN conv.sections : conv.sections[s].id = conv.sections[q].id => s = q)' BY DEF Numbered
<1>11. (\A t \in Threads, s \in DOMAIN conv.sections : Is(t, "start") => conv.sections[s].id # Top(t).id)'
       BY DEF Numbered, NoneStarts
<1> QED BY <1>2, <1>3, <1>4, <1>5, <1>6, <1>7, <1>8, <1>9, <1>10, <1>11 DEF Numbered

LEMMA LocalIs ==
    ASSUME TInv, NEW t \in Threads, NEW f \in FrameType, Local(t, f)
    PROVE  /\ Top(t)' = f /\ \A label \in Places : Is(t, label)' <=> f.at = label
           /\ \A u \in Threads : u # t => /\ Top(u)' = Top(u)
                                          /\ \A label \in Places : Is(u, label)' <=> Is(u, label)
<1>1. Top(t)' = f BY DEF Top, Last, Local, Replaced
<1>2. \A label \in Places : Is(t, label)' <=> f.at = label BY <1>1 DEF Is, Local, Replaced
<1>3. ASSUME NEW u \in Threads, u # t
      PROVE  Top(u)' = Top(u) /\ \A label \in Places : Is(u, label)' <=> Is(u, label)
  <2>1. frames'[u] = frames[u] BY <1>3 DEF Local, Replaced
  <2> QED BY <2>1, OthersFlags
<1> QED BY <1>1, <1>2, <1>3

LEMMA LocalNone ==
    ASSUME TInv, NEW t \in Threads, NEW f \in FrameType, Local(t, f), f.at \notin {"incr", "start", "call"}
    PROVE  NoneStarts
<1>1. "incr" \in Places /\ "start" \in Places /\ "call" \in Places BY DEF Places
<1> QED BY <1>1, LocalIs DEF NoneStarts

LEMMA SectionIds ==
    ASSUME TInv, NEW s \in DOMAIN conv.sections
    PROVE  conv.sections[s].id \in Nat
BY SectionTyped DEF TInv, SectionType

LEMMA TeamIds ==
    ASSUME TInv, FInv, NEW r \in DOMAIN teams
    PROVE  teams[r].id \in Nat
BY TeamsAre DEF TeamType

LEMMA ReadIdNumbers ==
    ASSUME TInv, FInv, Numbered, NEW t \in Threads, ReadId(t), ~raced'
    PROVE  Numbered'
<1>1. PICK f : f = [Top(t) EXCEPT !.at = "incr", !.id = next_section_id] OBVIOUS
<1>2. /\ frames[t] # << >> /\ Top(t).at = "run" /\ ~conv.failed
      /\ Local(t, f) /\ f \in FrameType /\ f.at = "incr" /\ f.id = next_section_id
      /\ raced' = (raced \/ \E u \in Threads : At(u, "incr"))
      /\ UNCHANGED <<next_section_id, conv>> /\ teams' = teams
      BY <1>1, ReadIdIs DEF Local
<1>3. \A u \in Threads : ~Is(u, "incr") BY <1>2 DEF At, Is
<1>4. "incr" \in Places /\ "start" \in Places /\ "call" \in Places BY DEF Places
<1>5. \A u \in Threads : Is(u, "incr")' => u = t /\ Top(u)' = f BY <1>2, <1>3, <1>4, LocalIs
<1>6. \A u \in Threads : Is(u, "start")' => Is(u, "start") /\ Top(u)' = Top(u)
      BY <1>2, <1>4, LocalIs
<1>7. \A u \in Threads : Starting(u)' => Starting(u) /\ Top(u)' = Top(u)
      BY <1>2, <1>4, LocalIs DEF Starting
<1>8. (\A u, v \in Threads : Is(u, "incr") /\ Is(v, "incr") => u = v)' BY <1>5
<1>9. (\A u \in Threads : Is(u, "incr") => Top(u).id = next_section_id)' BY <1>2, <1>5
<1>10. (\A u \in Threads : Starting(u) => Top(u).id < next_section_id)' BY <1>2, <1>7 DEF Numbered
<1>11. (\A u, v \in Threads : Starting(u) /\ Starting(v) /\ Top(u).id = Top(v).id => u = v)' BY <1>7 DEF Numbered
<1>12. (\A r \in DOMAIN teams, u \in Threads : Starting(u) => teams[r].id # Top(u).id)' BY <1>2, <1>7 DEF Numbered
<1>13. (\A u \in Threads, s \in DOMAIN conv.sections : Is(u, "start") => conv.sections[s].id # Top(u).id)'
       BY <1>2, <1>6 DEF Numbered
<1>14. /\ (\A r \in DOMAIN teams : teams[r].id < next_section_id)'
       /\ (\A r, q \in DOMAIN teams : teams[r].id = teams[q].id => r = q)'
       /\ (\A s \in DOMAIN conv.sections : conv.sections[s].id < next_section_id)'
       /\ (\A s, q \in DOMAIN conv.sections : conv.sections[s].id = conv.sections[q].id => s = q)'
       BY <1>2 DEF Numbered
<1> QED BY <1>8, <1>9, <1>10, <1>11, <1>12, <1>13, <1>14 DEF Numbered

LEMMA WriteIdNumbers ==
    ASSUME TInv, FInv, Numbered, NEW t \in Threads, WriteId(t)
    PROVE  Numbered'
<1>1. PICK f : f = Moved(t, "start", Top(t).open) OBVIOUS
<1>2. /\ frames[t] # << >> /\ Top(t).at = "incr"
      /\ f \in FrameType /\ f.at = "start" /\ f.id = Top(t).id /\ Local(t, f) /\ teams' = teams
      /\ next_section_id' = Top(t).id + 1 /\ conv' = conv
      BY <1>1, WriteIdIs DEF GoesTo, Local
<1>3. PICK n \in Nat : n = next_section_id BY DEF TInv
<1>4. Is(t, "incr") BY <1>2 DEF Is
<1>5. f.id = n /\ next_section_id' = n + 1 BY <1>2, <1>3, <1>4 DEF Numbered
<1>6. "incr" \in Places /\ "start" \in Places /\ "call" \in Places BY DEF Places
<1>7. \A u \in Threads : ~Is(u, "incr")'
  <2> SUFFICES ASSUME NEW u \in Threads, Is(u, "incr")' PROVE FALSE OBVIOUS
  <2>1. u # t BY <1>2, <1>6, LocalIs
  <2>2. Is(u, "incr") BY <1>2, <1>6, <2>1, LocalIs
  <2> QED BY <1>4, <2>1, <2>2 DEF Numbered
<1>8. \A u \in Threads : u # t => /\ Is(u, "start")' => Is(u, "start")
                                  /\ Is(u, "call")' => Is(u, "call")
                                  /\ Top(u)' = Top(u)
      BY <1>2, <1>6, LocalIs
<1>9. \A u \in Threads : u # t => (Starting(u)' => Starting(u) /\ Top(u)' = Top(u)) BY <1>8 DEF Starting
<1>10. Top(t)' = f BY <1>2, LocalIs
<1>11. \A u \in Threads : Starting(u) => Top(u).id \in Nat /\ Top(u).id < n
  <2>1. \A u \in Threads : Starting(u) => Top(u).id \in Nat BY TopOK DEF Starting, Is, FrameType
  <2> QED BY <1>3, <2>1 DEF Numbered
<1>12. \A r \in DOMAIN teams : teams[r].id \in Nat /\ teams[r].id < n BY <1>3, TeamIds DEF Numbered
<1>13. \A s \in DOMAIN conv.sections : conv.sections[s].id \in Nat /\ conv.sections[s].id < n
       BY <1>3, SectionIds DEF Numbered
<1>14. \A k \in Nat : k < n => k < n + 1 /\ k # n BY <1>3
<1>15. n < n + 1 BY <1>3
<1>16. (\A u \in Threads : Starting(u) => Top(u).id < next_section_id)'
  <2> SUFFICES ASSUME NEW u \in Threads, Starting(u)' PROVE (Top(u).id < next_section_id)' OBVIOUS
  <2>1. CASE u = t BY <1>5, <1>10, <1>15, <2>1
  <2>2. CASE u # t BY <1>5, <1>9, <1>11, <1>14, <2>2
  <2> QED BY <2>1, <2>2
<1>17. (\A u, v \in Threads : Starting(u) /\ Starting(v) /\ Top(u).id = Top(v).id => u = v)'
  <2> SUFFICES ASSUME NEW u \in Threads, NEW v \in Threads, Starting(u)', Starting(v)', Top(u)'.id = Top(v)'.id
               PROVE  u = v
      OBVIOUS
  <2>1. CASE u = t /\ v # t BY <1>5, <1>9, <1>10, <1>11, <1>14, <2>1
  <2>2. CASE u # t /\ v = t BY <1>5, <1>9, <1>10, <1>11, <1>14, <2>2
  <2>3. CASE u # t /\ v # t BY <1>9, <2>3 DEF Numbered
  <2> QED BY <2>1, <2>2, <2>3
<1>18. (\A r \in DOMAIN teams, u \in Threads : Starting(u) => teams[r].id # Top(u).id)'
  <2> SUFFICES ASSUME NEW r \in DOMAIN teams, NEW u \in Threads, Starting(u)' PROVE teams[r].id # Top(u)'.id
      BY <1>2
  <2>1. CASE u = t BY <1>5, <1>10, <1>12, <1>14, <2>1
  <2>2. CASE u # t BY <1>9, <2>2 DEF Numbered
  <2> QED BY <2>1, <2>2
<1>19. (\A u \in Threads, s \in DOMAIN conv.sections : Is(u, "start") => conv.sections[s].id # Top(u).id)'
  <2> SUFFICES ASSUME NEW s \in DOMAIN conv.sections, NEW u \in Threads, Is(u, "start")'
               PROVE  conv.sections[s].id # Top(u)'.id
      BY <1>2
  <2>1. CASE u = t BY <1>5, <1>10, <1>13, <1>14, <2>1
  <2>2. CASE u # t BY <1>8, <2>2 DEF Numbered
  <2> QED BY <2>1, <2>2
<1>20. /\ (\A r \in DOMAIN teams : teams[r].id < next_section_id)'
       /\ (\A s \in DOMAIN conv.sections : conv.sections[s].id < next_section_id)'
       BY <1>2, <1>5, <1>12, <1>13, <1>14
<1>21. /\ (\A r, q \in DOMAIN teams : teams[r].id = teams[q].id => r = q)'
       /\ (\A s, q \in DOMAIN conv.sections : conv.sections[s].id = conv.sections[q].id => s = q)'
       BY <1>2 DEF Numbered
<1> QED BY <1>7, <1>16, <1>17, <1>18, <1>19, <1>20, <1>21 DEF Numbered

LEMMA RecordStartNumbers ==
    ASSUME TInv, FInv, Numbered, NEW t \in Threads, RecordStart(t)
    PROVE  Numbered'
<1>1. PICK f : f = Moved(t, "call", Top(t).open) OBVIOUS
<1>2. /\ frames[t] # << >> /\ Top(t).at = "start"
      /\ f \in FrameType /\ f.at = "call" /\ f.id = Top(t).id /\ Local(t, f) /\ teams' = teams
      /\ next_section_id' = next_section_id /\ conv' = HandleParallelStart(conv, t, Top(t).id)
      /\ Top(t).id \in Nat
      BY <1>1, RecordStartIs DEF GoesTo, Local
<1>3. Is(t, "start") /\ Starting(t) BY <1>2 DEF Is, Starting
<1>4. PICK n \in Nat : n = Len(conv.sections) + 1 BY StartIs, <1>2 DEF TInv, WellFormed
<1>5. /\ DOMAIN conv.sections = 1 .. n - 1 /\ DOMAIN conv'.sections = 1 .. n
      /\ conv'.sections[n].id = Top(t).id
      /\ \A s \in DOMAIN conv.sections : conv'.sections[s] = conv.sections[s]
  <2>1. PICK x : x = [id |-> Top(t).id, main |-> t, nb_threads |-> 0, working |-> << >>, left |-> {}] OBVIOUS
  <2>2. x.id = Top(t).id BY <2>1
  <2>3. /\ DOMAIN conv.sections = 1 .. n - 1 /\ DOMAIN conv'.sections = 1 .. n
        /\ conv'.sections[n] = x
        /\ \A s \in DOMAIN conv.sections : conv'.sections[s] = conv.sections[s]
        BY <1>2, <1>4, <2>1, StartIs DEF TInv, WellFormed
  <2> QED BY <2>2, <2>3
<1>6. "incr" \in Places /\ "start" \in Places /\ "call" \in Places BY DEF Places
<1>7. \A u \in Threads : Is(u, "incr")' => Is(u, "incr") /\ Top(u)' = Top(u)
      BY <1>2, <1>6, LocalIs
<1>8. \A u \in Threads : Is(u, "start")' => Is(u, "start") /\ Top(u)' = Top(u) /\ u # t
      BY <1>2, <1>6, LocalIs
<1>9. \A u \in Threads : Starting(u)' => Starting(u) /\ Top(u)'.id = Top(u).id
  <2> SUFFICES ASSUME NEW u \in Threads, Starting(u)' PROVE Starting(u) /\ Top(u)'.id = Top(u).id OBVIOUS
  <2>1. CASE u = t BY <1>2, <1>3, <2>1, LocalIs
  <2>2. CASE u # t BY <1>2, <1>6, <2>2, LocalIs DEF Starting
  <2> QED BY <2>1, <2>2
<1>10. \A s \in DOMAIN conv'.sections :
          \/ s \in DOMAIN conv.sections /\ conv'.sections[s].id = conv.sections[s].id
          \/ s = n /\ conv'.sections[s].id = Top(t).id
  <2> TAKE s \in DOMAIN conv'.sections
  <2>1. s \in 1 .. n - 1 \/ s = n BY <1>5
  <2> QED BY <1>5, <2>1
<1>11. \A s \in DOMAIN conv.sections : conv.sections[s].id # Top(t).id BY <1>3 DEF Numbered
<1>12. (\A s, q \in DOMAIN conv.sections : conv.sections[s].id = conv.sections[q].id => s = q)'
       BY <1>10, <1>11 DEF Numbered
<1>13. (\A s \in DOMAIN conv.sections : conv.sections[s].id < next_section_id)'
       BY <1>2, <1>3, <1>10 DEF Numbered
<1>14. (\A u \in Threads, s \in DOMAIN conv.sections : Is(u, "start") => conv.sections[s].id # Top(u).id)'
  <2> SUFFICES ASSUME NEW u \in Threads, NEW s \in DOMAIN conv'.sections, Is(u, "start")'
               PROVE  conv'.sections[s].id # Top(u)'.id
      OBVIOUS
  <2>1. Is(u, "start") /\ Top(u)' = Top(u) /\ u # t /\ Starting(u) BY <1>8 DEF Starting
  <2>2. Top(u).id # Top(t).id BY <1>3, <2>1 DEF Numbered
  <2> QED BY <1>10, <2>1, <2>2 DEF Numbered
<1>15. /\ (\A u, v \in Threads : Is(u, "incr") /\ Is(v, "incr") => u = v)'
       /\ (\A u \in Threads : Is(u, "incr") => Top(u).id = next_section_id)'
       BY <1>2, <1>7 DEF Numbered
<1>16. (\A u \in Threads : Starting(u) => Top(u).id < next_section_id)' BY <1>2, <1>9 DEF Numbered
<1>17. (\A u, v \in Threads : Starting(u) /\ Starting(v) /\ Top(u).id = Top(v).id => u = v)'
       BY <1>9 DEF Numbered
<1>18. (\A r \in DOMAIN teams, u \in Threads : Starting(u) => teams[r].id # Top(u).id)' BY <1>2, <1>9 DEF Numbered
<1>19. /\ (\A r \in DOMAIN teams : teams[r].id < next_section_id)'
       /\ (\A r, q \in DOMAIN teams : teams[r].id = teams[q].id => r = q)'
       BY <1>2 DEF Numbered
<1> QED BY <1>12, <1>13, <1>14, <1>15, <1>16, <1>17, <1>18, <1>19 DEF Numbered

LEMMA StartNone ==
    ASSUME TInv, FInv, NEW t \in Threads, NEW H \in SUBSET Threads, NEW r \in Nat,
           NewTeam(t, H, r), NewFrames(t, H, r), Is(t, "call")
    PROVE  NoneStarts /\ \A label \in {"incr", "start", "call"} : ~Is(t, label)'
<1> SUFFICES ASSUME NEW u \in Threads, NEW label \in {"incr", "start", "call"}, Is(u, label)'
             PROVE  Is(u, label) /\ Top(u)' = Top(u) /\ u # t
    BY DEF NoneStarts
<1>0. Started(t, H, r) BY StartFlags
<1>1. u # t /\ u \notin H BY <1>0 DEF Started
<1>2. frames'[u] = frames[u] BY <1>1 DEF NewFrames
<1>3. label \in Places BY DEF Places
<1> QED BY <1>1, <1>2, <1>3, OthersFlags

LEMMA LibParallelStartNumbers ==
    ASSUME TInv, FInv, Numbered, NEW t \in Threads, NEW H \in SUBSET Threads, NEW r \in Nat,
           NewTeam(t, H, r), NewFrames(t, H, r), Is(t, "call"), UNCHANGED <<next_section_id, conv>>
    PROVE  Numbered'
<1>1. NoneStarts /\ ~Starting(t)' BY StartNone DEF Starting
<1>2. \A u \in Threads : Starting(u)' => Starting(u) /\ Top(u)' = Top(u) /\ u # t
      BY <1>1 DEF NoneStarts, Starting
<1>3. Starting(t) BY DEF Starting
<1>4. /\ teams'[r].id = Top(t).id /\ r \notin DOMAIN teams
      /\ \A q \in DOMAIN teams' : q = r \/ (q \in DOMAIN teams /\ teams'[q] = teams[q])
  <2>1. r \in Nat \ {0} /\ DOMAIN teams = 1 .. r - 1 /\ DOMAIN teams' = 1 .. r BY DEF NewTeam
  <2>2. \A q \in 1 .. r : q = r \/ q \in 1 .. r - 1 BY <2>1
  <2>3. r \notin 1 .. r - 1 BY <2>1
  <2> QED BY <2>1, <2>2, <2>3 DEF NewTeam
<1>5. (\A q \in DOMAIN teams : teams[q].id < next_section_id)' BY <1>3, <1>4 DEF Numbered
<1>6. (\A p, q \in DOMAIN teams : teams[p].id = teams[q].id => p = q)'
  <2>1. \A q \in DOMAIN teams : teams[q].id # Top(t).id BY <1>3 DEF Numbered
  <2> QED BY <1>4, <2>1 DEF Numbered
<1>7. (\A q \in DOMAIN teams, u \in Threads : Starting(u) => teams[q].id # Top(u).id)'
  <2> SUFFICES ASSUME NEW q \in DOMAIN teams', NEW u \in Threads, Starting(u)' PROVE teams'[q].id # Top(u)'.id
      OBVIOUS
  <2>1. Starting(u) /\ Top(u)' = Top(u) /\ u # t BY <1>2
  <2>2. Top(u).id # Top(t).id BY <1>3, <2>1 DEF Numbered
  <2>3. q \in DOMAIN teams => teams[q].id # Top(u).id BY <2>1 DEF Numbered
  <2> QED BY <1>4, <2>1, <2>2, <2>3
<1>8. /\ (\A u, v \in Threads : Is(u, "incr") /\ Is(v, "incr") => u = v)'
      /\ (\A u \in Threads : Is(u, "incr") => Top(u).id = next_section_id)'
      BY <1>1 DEF Numbered, NoneStarts
<1>9. (\A u \in Threads : Starting(u) => Top(u).id < next_section_id)' BY <1>2 DEF Numbered
<1>10. (\A u, v \in Threads : Starting(u) /\ Starting(v) /\ Top(u).id = Top(v).id => u = v)' BY <1>2 DEF Numbered
<1>11. /\ (\A s \in DOMAIN conv.sections : conv.sections[s].id < next_section_id)'
       /\ (\A s, q \in DOMAIN conv.sections : conv.sections[s].id = conv.sections[q].id => s = q)'
       BY DEF Numbered
<1>12. (\A u \in Threads, s \in DOMAIN conv.sections : Is(u, "start") => conv.sections[s].id # Top(u).id)'
       BY <1>1 DEF Numbered, NoneStarts
<1> QED BY <1>5, <1>6, <1>7, <1>8, <1>9, <1>10, <1>11, <1>12 DEF Numbered

\* The section of a region that has no team yet.
Blank(s, t) ==
    LET section == conv.sections[s]
    IN section.main = t /\ section.nb_threads = 0 /\ DOMAIN section.working = {} /\ section.left = {}

Nums(r) == 0 .. Len(Members(r)) - 1

\* A section with what the forks and joins of a team have stored.
Filled(s, r) ==
    LET section == conv.sections[s]
    IN  /\ section.main = Members(r)[1]
        /\ \/ section.nb_threads = Len(Members(r))
           \/ section.nb_threads = 0 /\ DOMAIN section.working = {}
        /\ DOMAIN section.working = {k \in Nums(r) : ~ForkingIn(Members(r)[k + 1], r)}
        /\ \A k \in DOMAIN section.working : section.working[k] = Members(r)[k + 1]
        /\ section.left = {k \in Nums(r) : ~Inside(Members(r)[k + 1], r)}

SectionOf(s, r) == s \in DOMAIN conv.sections /\ conv.sections[s].id = teams[r].id /\ Filled(s, r)

CallOK(t) == Is(t, "call") =>
    \E s \in DOMAIN conv.sections : conv.sections[s].id = Top(t).id /\ Blank(s, t)

Sections ==
    /\ \A t \in Threads : CallOK(t)
    /\ \A r \in DOMAIN teams : \E s \in DOMAIN conv.sections : SectionOf(s, r)

Gone(r) == \A u \in Threads : ~Here(u, r)

Lists ==
    /\ IsInjective(conv.finished)
    /\ conv.pending = DOMAIN conv.sections \ Range(conv.finished)
    /\ Range(conv.finished) =
          {s \in DOMAIN conv.sections : \E r \in DOMAIN teams : Gone(r) /\ conv.sections[s].id = teams[r].id}

\* The stack of a thread ends with the sections of the regions it has forked in.
StackOK(t) ==
    \A i \in 1 .. Forked(t) : frames[t][i].team # 0 =>
        LET p == (Len(conv.stack[t]) - Forked(t)) + i
        IN  /\ p \in DOMAIN conv.stack[t]
            /\ conv.sections[conv.stack[t][p]].id = teams[frames[t][i].team].id

Stacks == \A t \in Threads : StackOK(t)

Linked == ~conv.failed /\ Numbered /\ Sections /\ Lists /\ Stacks

-----------------------------------------------------------------------------
LEMMA FilledKept ==
    ASSUME TInv, FInv, NEW r \in DOMAIN teams, NEW s \in DOMAIN conv.sections, SectionOf(s, r),
           s \in DOMAIN conv'.sections, conv'.sections[s] = conv.sections[s], teams'[r] = teams[r],
           \A u \in Threads : (ForkingIn(u, r)' <=> ForkingIn(u, r)) /\ (Inside(u, r)' <=> Inside(u, r))
    PROVE  SectionOf(s, r)'
<1>1. PICK m : m = Members(r) OBVIOUS
<1>2. Members(r)' = m /\ Nums(r)' = Nums(r) BY <1>1 DEF Members, Nums
<1>3. \A k \in Nums(r) : m[k + 1] \in Threads
  <2>1. Len(m) \in Nat /\ DOMAIN m = 1 .. Len(m) /\ \A i \in DOMAIN m : m[i] \in Threads BY <1>1, TeamsAre
  <2>2. \A k \in Nums(r) : k + 1 \in 1 .. Len(m) BY <1>1, <2>1 DEF Nums
  <2> QED BY <2>1, <2>2
<1>4. {k \in Nums(r) : ~ForkingIn(m[k + 1], r)} = {k \in Nums(r) : ~ForkingIn(m[k + 1], r)'} BY <1>3
<1>5. {k \in Nums(r) : ~Inside(m[k + 1], r)} = {k \in Nums(r) : ~Inside(m[k + 1], r)'} BY <1>3
<1>6. Filled(s, r) /\ conv.sections[s].id = teams[r].id BY DEF SectionOf
<1>7. PICK x : x = conv.sections[s] OBVIOUS
<1>8. /\ x.main = m[1]
      /\ x.nb_threads = Len(m) \/ (x.nb_threads = 0 /\ DOMAIN x.working = {})
      /\ DOMAIN x.working = {k \in Nums(r) : ~ForkingIn(m[k + 1], r)'}
      /\ \A k \in DOMAIN x.working : x.working[k] = m[k + 1]
      /\ x.left = {k \in Nums(r) : ~Inside(m[k + 1], r)'}
      BY <1>1, <1>4, <1>5, <1>6, <1>7 DEF Filled
<1>9. conv'.sections[s] = x BY <1>7
<1>10. Filled(s, r)' BY <1>2, <1>8, <1>9 DEF Filled
<1> QED BY <1>6, <1>10 DEF SectionOf

LEMMA CallKept ==
    ASSUME NEW t \in Threads, CallOK(t), Is(t, "call")' => Is(t, "call") /\ Top(t)' = Top(t),
           \A s \in DOMAIN conv.sections : conv.sections[s].id = Top(t).id =>
               s \in DOMAIN conv'.sections /\ conv'.sections[s] = conv.sections[s]
    PROVE  CallOK(t)'
<1> SUFFICES ASSUME Is(t, "call")'
             PROVE  \E s \in DOMAIN conv'.sections : conv'.sections[s].id = Top(t)'.id /\ Blank(s, t)'
    BY DEF CallOK
<1>1. PICK s \in DOMAIN conv.sections : conv.sections[s].id = Top(t).id /\ Blank(s, t) BY DEF CallOK
<1>2. s \in DOMAIN conv'.sections /\ conv'.sections[s] = conv.sections[s] BY <1>1
<1>3. Blank(s, t)' BY <1>1, <1>2 DEF Blank
<1> QED BY <1>1, <1>2, <1>3

LEMMA StackKept ==
    ASSUME TInv, FInv, TeamsGrow, NEW t \in Threads, StackOK(t), SameForked(t) \/ Forked(t)' = 0,
           conv'.stack[t] = conv.stack[t],
           \A s \in DOMAIN conv.sections : conv'.sections[s].id = conv.sections[s].id
    PROVE  StackOK(t)'
<1>1. CASE Forked(t)' = 0
  <2>1. 1 .. 0 = {} OBVIOUS
  <2> QED BY <1>1, <2>1 DEF StackOK
<1>2. CASE SameForked(t)
  <2>1. Forked(t)' = Forked(t) BY <1>2 DEF SameForked
  <2>2. PICK n \in Nat : n = Forked(t) BY ForkedIs
  <2>3. PICK m : m = Len(conv.stack[t]) OBVIOUS
  <2>4. ASSUME NEW i \in 1 .. n, frames'[t][i].team # 0
        PROVE  /\ (m - n) + i \in DOMAIN conv'.stack[t]
               /\ conv'.sections[conv'.stack[t][(m - n) + i]].id = teams'[frames'[t][i].team].id
    <3>1. PICK q : q = frames[t][i].team OBVIOUS
    <3>2. frames'[t][i].team = q BY <1>2, <2>2, <3>1 DEF SameForked
    <3>3. /\ (m - n) + i \in DOMAIN conv.stack[t]
          /\ conv.sections[conv.stack[t][(m - n) + i]].id = teams[q].id
          BY <2>2, <2>3, <2>4, <3>1, <3>2 DEF StackOK
    <3>4. q \in DOMAIN teams
      <4>1. i \in DOMAIN frames[t] BY <2>2, ForkedIs
      <4>2. FrameOK(t, i) BY <4>1 DEF FInv
      <4> QED BY <2>4, <3>1, <3>2, <4>2 DEF FrameOK, InRegion
    <3>5. conv.stack[t][(m - n) + i] \in DOMAIN conv.sections BY <3>3, StackTyped DEF TInv
    <3>6. teams'[q] = teams[q] BY <3>4 DEF TeamsGrow
    <3> QED BY <3>2, <3>3, <3>5, <3>6
  <2> QED BY <2>1, <2>2, <2>3, <2>4 DEF StackOK
<1> QED BY <1>1, <1>2

LEMMA ListsKept ==
    ASSUME Lists, SameIds, conv'.finished = conv.finished, conv'.pending = conv.pending,
           TeamsGrow, \A q \in DOMAIN teams : Gone(q)' <=> Gone(q),
           \A q \in DOMAIN teams' : Gone(q)' => q \in DOMAIN teams
    PROVE  Lists'
<1>1. \A s \in DOMAIN conv.sections :
         (\E r \in DOMAIN teams' : Gone(r)' /\ conv'.sections[s].id = teams'[r].id)
         <=> (\E r \in DOMAIN teams : Gone(r) /\ conv.sections[s].id = teams[r].id)
  <2> TAKE s \in DOMAIN conv.sections
  <2>1. ASSUME NEW r \in DOMAIN teams', Gone(r)', conv'.sections[s].id = teams'[r].id
        PROVE  r \in DOMAIN teams /\ Gone(r) /\ conv.sections[s].id = teams[r].id
        BY <2>1 DEF SameIds, TeamsGrow
  <2>2. ASSUME NEW r \in DOMAIN teams, Gone(r), conv.sections[s].id = teams[r].id
        PROVE  r \in DOMAIN teams' /\ Gone(r)' /\ conv'.sections[s].id = teams'[r].id
        BY <2>2 DEF SameIds, TeamsGrow
  <2> QED BY <2>1, <2>2
<1>2. {s \in DOMAIN conv'.sections : \E r \in DOMAIN teams' : Gone(r)' /\ conv'.sections[s].id = teams'[r].id}
      = {s \in DOMAIN conv.sections : \E r \in DOMAIN teams : Gone(r) /\ conv.sections[s].id = teams[r].id}
      BY <1>1 DEF SameIds
<1> QED BY <1>2 DEF Lists, SameIds

\* Steps that disturb no region and no section.
LEMMA StillKeeps ==
    ASSUME TInv, FInv, Sections, Lists, Stacks, teams' = teams, SameSections(conv, conv'),
           \A u \in Threads : SameFlags(u) /\ SameForked(u),
           \A u \in Threads : Is(u, "call")' => Is(u, "call") /\ Top(u)' = Top(u)
    PROVE  Sections' /\ Lists' /\ Stacks'
<1>1. /\ conv'.sections = conv.sections /\ conv'.finished = conv.finished
      /\ conv'.pending = conv.pending /\ conv'.stack = conv.stack
      BY DEF SameSections
<1>2. SameIds /\ TeamsGrow BY <1>1 DEF SameIds, TeamsGrow
<1>3. \A r \in DOMAIN teams : r \in Nat BY TeamsAre
<1>4. \A u \in Threads : CallOK(u)' BY <1>1, CallKept DEF Sections
<1>5. ASSUME NEW r \in DOMAIN teams PROVE \E s \in DOMAIN conv.sections : SectionOf(s, r)'
  <2>1. PICK s \in DOMAIN conv.sections : SectionOf(s, r) BY DEF Sections
  <2>2. \A u \in Threads : (ForkingIn(u, r)' <=> ForkingIn(u, r)) /\ (Inside(u, r)' <=> Inside(u, r))
        BY <1>3 DEF SameFlags
  <2> QED BY <1>1, <2>1, <2>2, FilledKept
<1>6. \A r \in DOMAIN teams : Gone(r)' <=> Gone(r) BY <1>3 DEF Gone, SameFlags
<1>7. Lists' BY <1>1, <1>2, <1>6, ListsKept
<1>8. Stacks' BY <1>1, <1>2, StackKept DEF Stacks
<1> QED BY <1>1, <1>4, <1>5, <1>7, <1>8 DEF Sections

LEMMA RecordStartLinks ==
    ASSUME TInv, FInv, Linked, NEW t \in Threads, RecordStart(t)
    PROVE  ~conv'.failed /\ Sections' /\ Lists' /\ Stacks'
<1>1. PICK f : f = Moved(t, "call", Top(t).open) OBVIOUS
<1>2. /\ frames[t] # << >> /\ Top(t).at = "start"
      /\ f \in FrameType /\ f.at = "call" /\ f.id = Top(t).id /\ Local(t, f) /\ teams' = teams
      /\ conv' = HandleParallelStart(conv, t, Top(t).id) /\ Top(t).id \in Nat
      BY <1>1, RecordStartIs DEF GoesTo, Local
<1>3. PICK x : x = [id |-> Top(t).id, main |-> t, nb_threads |-> 0, working |-> << >>, left |-> {}] OBVIOUS
<1>4. x.id = Top(t).id /\ x.main = t /\ x.nb_threads = 0 /\ x.working = << >> /\ x.left = {} BY <1>3
<1>5. DOMAIN x.working = {} BY <1>4
<1>6. PICK n : n = Len(conv.sections) + 1 OBVIOUS
<1>7. /\ conv'.failed = conv.failed /\ conv'.stack = conv.stack
      /\ conv'.finished = conv.finished /\ conv'.pending = conv.pending \cup {n} /\ n \in Nat \ {0}
      /\ DOMAIN conv.sections = 1 .. n - 1 /\ DOMAIN conv'.sections = 1 .. n
      /\ conv'.sections[n] = x
      /\ \A s \in DOMAIN conv.sections : conv'.sections[s] = conv.sections[s]
  <2>1. /\ conv'.failed = conv.failed /\ conv'.stack = conv.stack
        /\ conv'.finished = conv.finished /\ conv'.pending = conv.pending \cup {n} /\ n \in Nat
        /\ DOMAIN conv.sections = 1 .. n - 1 /\ DOMAIN conv'.sections = 1 .. n
        /\ conv'.sections[n] = x
        /\ \A s \in DOMAIN conv.sections : conv'.sections[s] = conv.sections[s]
        BY <1>2, <1>3, <1>6, StartIs DEF TInv, WellFormed
  <2>2. n # 0
    <3>1. Len(conv.sections) \in Nat BY LenProperties DEF TInv, WellFormed, ConvType
    <3> QED BY <1>6, <3>1
  <2> QED BY <2>1, <2>2
<1>8. /\ n \in DOMAIN conv'.sections /\ n \notin DOMAIN conv.sections
      /\ DOMAIN conv'.sections = DOMAIN conv.sections \cup {n}
  <2>1. n \in 1 .. n /\ n \notin 1 .. n - 1 /\ 1 .. n = (1 .. n - 1) \cup {n} BY <1>7
  <2> QED BY <1>7, <2>1
<1>9. \A u \in Threads : SameFlags(u) /\ SameForked(u) BY <1>2, LocalFlags DEF Borders
<1>10. "call" \in Places /\ "start" \in Places BY DEF Places
<1>11. CallOK(t)'
  <2>1. Top(t)' = f BY <1>2, LocalIs
  <2>2. Blank(n, t)' BY <1>4, <1>5, <1>7 DEF Blank
  <2>3. conv'.sections[n].id = Top(t)'.id BY <1>2, <1>4, <1>7, <2>1
  <2> QED BY <1>8, <2>2, <2>3 DEF CallOK
<1>12. ASSUME NEW u \in Threads PROVE CallOK(u)'
  <2>1. CASE u = t BY <1>11, <2>1
  <2>2. CASE u # t
    <3>1. Is(u, "call")' => Is(u, "call") /\ Top(u)' = Top(u) BY <1>2, <1>10, <2>2, LocalIs
    <3> QED BY <1>7, <1>8, <3>1, CallKept DEF Linked, Sections
  <2> QED BY <2>1, <2>2
<1>13. ASSUME NEW r \in DOMAIN teams PROVE \E s \in DOMAIN conv'.sections : SectionOf(s, r)'
  <2>1. PICK s \in DOMAIN conv.sections : SectionOf(s, r) BY DEF Linked, Sections
  <2>2. r \in Nat BY TeamsAre
  <2>3. \A u \in Threads : (ForkingIn(u, r)' <=> ForkingIn(u, r)) /\ (Inside(u, r)' <=> Inside(u, r))
        BY <1>9, <2>2 DEF SameFlags
  <2>4. s \in DOMAIN conv'.sections /\ conv'.sections[s] = conv.sections[s] BY <1>7, <1>8
  <2>5. SectionOf(s, r)' BY <1>2, <2>1, <2>3, <2>4, FilledKept
  <2> QED BY <2>4, <2>5
<1>14. \A r \in DOMAIN teams : Gone(r)' <=> Gone(r)
  <2>1. \A r \in DOMAIN teams : r \in Nat BY TeamsAre
  <2> QED BY <1>9, <2>1 DEF Gone, SameFlags
<1>15. \A r \in DOMAIN teams : teams[r].id # Top(t).id
  <2>1. Starting(t) BY <1>2 DEF Starting, Is
  <2> QED BY <2>1 DEF Linked, Numbered
<1>16. Lists'
  <2>1. IsInjective(conv'.finished) BY <1>7 DEF Linked, Lists
  <2>2. Range(conv.finished) \subseteq DOMAIN conv.sections BY DEF Linked, Lists
  <2>3. conv'.pending = DOMAIN conv'.sections \ Range(conv'.finished)
        BY <1>7, <1>8, <2>2 DEF Linked, Lists
  <2>4. ASSUME NEW s \in DOMAIN conv'.sections
        PROVE  s \in Range(conv.finished) <=> \E r \in DOMAIN teams' : Gone(r)' /\ conv'.sections[s].id = teams'[r].id
    <3>1. CASE s = n BY <1>2, <1>4, <1>7, <1>8, <1>15, <2>2, <3>1
    <3>2. CASE s # n
      <4>1. s \in DOMAIN conv.sections /\ conv'.sections[s] = conv.sections[s] BY <1>7, <1>8, <3>2
      <4>2. s \in Range(conv.finished) <=> \E r \in DOMAIN teams : Gone(r) /\ conv.sections[s].id = teams[r].id
            BY <4>1 DEF Linked, Lists
      <4> QED BY <1>2, <1>14, <4>1, <4>2
    <3> QED BY <3>1, <3>2
  <2>5. Range(conv'.finished) =
          {s \in DOMAIN conv'.sections : \E r \in DOMAIN teams' : Gone(r)' /\ conv'.sections[s].id = teams'[r].id}
        BY <1>7, <1>8, <2>2, <2>4
  <2> QED BY <2>1, <2>3, <2>5 DEF Lists
<1>17. Stacks'
  <2>1. TeamsGrow BY <1>2 DEF TeamsGrow
  <2> QED BY <1>7, <1>9, <2>1, StackKept DEF Linked, Stacks
<1> QED BY <1>2, <1>7, <1>12, <1>13, <1>16, <1>17 DEF Linked, Sections

LEMMA LibParallelStartLinks ==
    ASSUME TInv, FInv, Linked, NEW t \in Threads, NEW H \in SUBSET Threads, NEW r \in Nat,
           NewTeam(t, H, r), NewFrames(t, H, r), Is(t, "call"), conv' = conv
    PROVE  ~conv'.failed /\ Sections' /\ Lists' /\ Stacks'
<1>0. Started(t, H, r) BY StartFlags
<1>1. /\ \A u \in Threads, q \in Nat : q # r =>
            /\ ForkingIn(u, q)' <=> ForkingIn(u, q)
            /\ Inside(u, q)' <=> Inside(u, q)
            /\ Here(u, q)' <=> Here(u, q)
      /\ \A u \in {t} \cup H : ForkingIn(u, r)' /\ Inside(u, r)' /\ Here(u, r)'
      /\ \A u \in Threads : SameForked(u)
      BY <1>0 DEF Started
<1>2. /\ r \in Nat \ {0} /\ r \notin DOMAIN teams /\ DOMAIN teams' = DOMAIN teams \cup {r} /\ TeamsGrow
      /\ \A q \in DOMAIN teams : q \in Nat /\ q # r
  <2>1. r \in Nat \ {0} /\ DOMAIN teams = 1 .. r - 1 /\ DOMAIN teams' = 1 .. r BY DEF NewTeam
  <2>2. 1 .. r = (1 .. r - 1) \cup {r} /\ r \notin 1 .. r - 1 BY <2>1
  <2>3. \A q \in DOMAIN teams : teams'[q] = teams[q] BY <2>1 DEF NewTeam
  <2> QED BY <2>1, <2>2, <2>3 DEF TeamsGrow
<1>3. NoneStarts BY StartNone
<1>4. \A u \in Threads : CallOK(u)' BY <1>3, CallKept DEF NoneStarts, Linked, Sections
<1>5. ASSUME NEW q \in DOMAIN teams PROVE \E s \in DOMAIN conv'.sections : SectionOf(s, q)'
  <2>1. PICK s \in DOMAIN conv.sections : SectionOf(s, q) BY DEF Linked, Sections
  <2>2. \A u \in Threads : (ForkingIn(u, q)' <=> ForkingIn(u, q)) /\ (Inside(u, q)' <=> Inside(u, q))
        BY <1>1, <1>2
  <2>3. teams'[q] = teams[q] BY <1>2 DEF TeamsGrow
  <2> QED BY <2>1, <2>2, <2>3, FilledKept
<1>6. \E s \in DOMAIN conv'.sections : SectionOf(s, r)'
  <2>1. PICK s \in DOMAIN conv.sections : conv.sections[s].id = Top(t).id /\ Blank(s, t)
        BY DEF Linked, Sections, CallOK
  <2>2. PICK m : m = teams'[r].members OBVIOUS
  <2>3. Members(r)' = m BY <2>2 DEF Members
  <2>4. /\ m[1] = t /\ Range(m) = {t} \cup H /\ Len(m) \in Nat \ {0} /\ DOMAIN m = 1 .. Len(m)
        /\ teams'[r].id = Top(t).id
        BY <2>2 DEF NewTeam
  <2>5. \A k \in 0 .. Len(m) - 1 : m[k + 1] \in {t} \cup H
    <3>1. \A k \in 0 .. Len(m) - 1 : k + 1 \in DOMAIN m BY <2>4
    <3>2. \A i \in DOMAIN m : m[i] \in Range(m) BY DEF Range
    <3> QED BY <2>4, <3>1, <3>2
  <2>6. {k \in 0 .. Len(m) - 1 : ~ForkingIn(m[k + 1], r)'} = {} BY <1>1, <2>5
  <2>7. {k \in 0 .. Len(m) - 1 : ~Inside(m[k + 1], r)'} = {} BY <1>1, <2>5
  <2>8. PICK x : x = conv.sections[s] OBVIOUS
  <2>9. x.main = t /\ x.nb_threads = 0 /\ DOMAIN x.working = {} /\ x.left = {} BY <2>1, <2>8 DEF Blank
  <2>10. conv'.sections[s] = x BY <2>8
  <2>11. Filled(s, r)' BY <2>3, <2>4, <2>6, <2>7, <2>9, <2>10 DEF Filled, Nums
  <2> QED BY <2>1, <2>4, <2>11 DEF SectionOf
<1>7. \A q \in DOMAIN teams : Gone(q)' <=> Gone(q) BY <1>1, <1>2 DEF Gone
<1>8. \A q \in DOMAIN teams' : Gone(q)' => q \in DOMAIN teams
  <2>1. ~Gone(r)' BY <1>1 DEF Gone
  <2> QED BY <1>2, <2>1
<1>9. SameIds BY DEF SameIds
<1>10. Lists' BY <1>2, <1>7, <1>8, <1>9, ListsKept DEF Linked
<1>11. Stacks' BY <1>1, <1>2, StackKept DEF Linked, Stacks
<1> QED BY <1>2, <1>4, <1>5, <1>6, <1>10, <1>11 DEF Linked, Sections

LEMMA LibParallelEndLinks ==
    ASSUME TInv, FInv, Linked, NEW t \in Threads, NEW r \in Nat \ {0}, NEW l \in Nat \ {0}, Emptied(t, r, l)
    PROVE  ~conv'.failed /\ Sections' /\ Lists' /\ Stacks'
<1>1. /\ \A u \in Threads, q \in Nat :
            /\ ForkingIn(u, q)' <=> ForkingIn(u, q)
            /\ Inside(u, q)' <=> Inside(u, q)
            /\ q # r => (Here(u, q)' <=> Here(u, q))
      /\ Here(t, r) /\ Here(t, r)'
      /\ \A u \in Threads : SameForked(u) \/ Forked(u)' = 0
      /\ \A u \in Threads : Is(u, "call")' => Is(u, "call") /\ Top(u)' = Top(u)
      BY EndFlags
<1>2. teams' = teams /\ conv' = conv /\ SameIds /\ TeamsGrow BY DEF Emptied, SameIds, TeamsGrow
<1>3. \A q \in DOMAIN teams : q \in Nat BY TeamsAre
<1>4. \A u \in Threads : CallOK(u)' BY <1>1, <1>2, CallKept DEF Linked, Sections
<1>5. ASSUME NEW q \in DOMAIN teams PROVE \E s \in DOMAIN conv'.sections : SectionOf(s, q)'
  <2>1. PICK s \in DOMAIN conv.sections : SectionOf(s, q) BY DEF Linked, Sections
  <2>2. \A u \in Threads : (ForkingIn(u, q)' <=> ForkingIn(u, q)) /\ (Inside(u, q)' <=> Inside(u, q))
        BY <1>1, <1>3
  <2> QED BY <1>2, <2>1, <2>2, FilledKept
<1>6. \A q \in DOMAIN teams : Gone(q)' <=> Gone(q) BY <1>1, <1>3 DEF Gone
<1>7. Lists' BY <1>2, <1>6, ListsKept DEF Linked
<1>8. Stacks' BY <1>1, <1>2, StackKept DEF Linked, Stacks
<1> QED BY <1>2, <1>4, <1>5, <1>7, <1>8 DEF Linked, Sections

\* The section that __find_matching_section finds for a region that has not ended.
LEMMA Matching ==
    ASSUME TInv, FInv, Linked, NEW r \in DOMAIN teams, NEW s \in DOMAIN conv.sections, SectionOf(s, r),
           ~Gone(r)
    PROVE  /\ MatchingSections(conv, teams[r].id) = {s} /\ Min({s}) = s
           /\ s \in conv.pending /\ s \notin Range(conv.finished) /\ s \in Nat
           /\ \A q \in DOMAIN teams, p \in DOMAIN conv.sections : SectionOf(p, q) /\ q # r => p # s
<1>1. conv.sections[s].id = teams[r].id BY DEF SectionOf
<1>2. s \notin Range(conv.finished)
  <2> SUFFICES ASSUME s \in Range(conv.finished) PROVE FALSE OBVIOUS
  <2>1. PICK q \in DOMAIN teams : Gone(q) /\ conv.sections[s].id = teams[q].id BY DEF Linked, Lists
  <2>2. q = r BY <1>1, <2>1 DEF Linked, Numbered
  <2> QED BY <2>1, <2>2
<1>3. s \in conv.pending BY <1>2 DEF Linked, Lists
<1>4. MatchingSections(conv, teams[r].id) = {s}
  <2>1. \A p \in conv.pending : p \in DOMAIN conv.sections BY DEF TInv, WellFormed
  <2>2. \A p \in conv.pending : conv.sections[p].id = teams[r].id <=> p = s
        BY <1>1, <2>1 DEF Linked, Numbered
  <2> QED BY <1>3, <2>2 DEF MatchingSections
<1>5. s \in Nat BY <1>3 DEF TInv, WellFormed, ConvType
<1>6. Min({s}) = s
  <2>1. {s} \in SUBSET Nat /\ {s} # {} BY <1>5
  <2> QED BY <2>1, MinIs
<1>7. \A q \in DOMAIN teams, p \in DOMAIN conv.sections : SectionOf(p, q) /\ q # r => p # s
      BY <1>1 DEF SectionOf, Linked, Numbered
<1> QED BY <1>2, <1>3, <1>4, <1>5, <1>6, <1>7

\* The number of a thread in its team.
LEMMA NumIs ==
    ASSUME TInv, FInv, NEW r \in DOMAIN teams, NEW t \in Threads, NEW n \in Nat, InRegion(t, r, n)
    PROVE  /\ n \in Nums(r) /\ Members(r)[n + 1] = t
           /\ \A k \in Nums(r) : Members(r)[k + 1] \in Threads /\ (Members(r)[k + 1] = t => k = n)
<1>1. Len(Members(r)) \in Nat \ {0} /\ DOMAIN Members(r) = 1 .. Len(Members(r))
      /\ \A i \in DOMAIN Members(r) : Members(r)[i] \in Threads
      BY TeamsAre
<1>2. n + 1 \in DOMAIN Members(r) /\ Members(r)[n + 1] = t BY DEF InRegion
<1>3. n \in Nums(r) BY <1>1, <1>2 DEF Nums
<1>4. ASSUME NEW k \in Nums(r) PROVE Members(r)[k + 1] \in Threads /\ (Members(r)[k + 1] = t => k = n)
  <2>1. k + 1 \in DOMAIN Members(r) /\ k \in Nat BY <1>1 DEF Nums
  <2>2. Members(r)[k + 1] = t => k + 1 = n + 1 BY <1>2, <2>1 DEF FInv, TeamOK
  <2> QED BY <1>1, <2>1, <2>2
<1> QED BY <1>2, <1>3, <1>4

\* The other regions, when one section changes and its id does not.
LEMMA OthersKept ==
    ASSUME TInv, FInv, Linked, NEW r \in DOMAIN teams, NEW s \in DOMAIN conv.sections, SectionOf(s, r),
           ~Gone(r), teams' = teams, SameIds, SectionOf(s, r)',
           \A p \in DOMAIN conv.sections \ {s} : conv'.sections[p] = conv.sections[p],
           \A u \in Threads, q \in DOMAIN teams : q # r =>
               (ForkingIn(u, q)' <=> ForkingIn(u, q)) /\ (Inside(u, q)' <=> Inside(u, q)),
           \A u \in Threads : Is(u, "call")' => Is(u, "call") /\ Top(u)' = Top(u)
    PROVE  Sections'
<1>1. DOMAIN conv'.sections = DOMAIN conv.sections BY DEF SameIds
<1>2. ASSUME NEW u \in Threads PROVE CallOK(u)'
  <2> SUFFICES ASSUME Is(u, "call")' PROVE CallOK(u)' BY DEF CallOK
  <2>1. Is(u, "call") /\ Top(u)' = Top(u) OBVIOUS
  <2>2. Top(u).id # teams[r].id BY <2>1 DEF Starting, Linked, Numbered
  <2>3. \A p \in DOMAIN conv.sections : conv.sections[p].id = Top(u).id =>
            p \in DOMAIN conv'.sections /\ conv'.sections[p] = conv.sections[p]
        BY <1>1, <2>2 DEF SectionOf
  <2>4. CallOK(u) BY DEF Linked, Sections
  <2> QED BY <2>1, <2>3, <2>4, CallKept
<1>3. ASSUME NEW q \in DOMAIN teams, q # r PROVE \E p \in DOMAIN conv'.sections : SectionOf(p, q)'
  <2>1. PICK p \in DOMAIN conv.sections : SectionOf(p, q) BY DEF Linked, Sections
  <2>2. p # s
    <3>1. conv.sections[p].id = teams[q].id /\ conv.sections[s].id = teams[r].id BY <2>1 DEF SectionOf
    <3>2. teams[q].id # teams[r].id BY <1>3 DEF Linked, Numbered
    <3> QED BY <3>1, <3>2
  <2>3. conv'.sections[p] = conv.sections[p] BY <2>2
  <2>4. \A u \in Threads : (ForkingIn(u, q)' <=> ForkingIn(u, q)) /\ (Inside(u, q)' <=> Inside(u, q))
        BY <1>3
  <2> QED BY <1>1, <2>1, <2>3, <2>4, FilledKept
<1> QED BY <1>1, <1>2, <1>3 DEF Sections

LEMMA RecordForkLinks ==
    ASSUME TInv, FInv, Linked, NEW t \in Threads, RecordFork(t)
    PROVE  ~conv'.failed /\ SameIds /\ NoneStarts /\ Sections' /\ Lists' /\ Stacks'
<1>1. PICK f : f = Moved(t, "run", Top(t).open) OBVIOUS
<1>2. PICK r : r = Top(t).team OBVIOUS
<1>3. /\ frames[t] # << >> /\ Top(t).at = "fork" /\ r # 0
      /\ f \in FrameType /\ f.at = "run" /\ Local(t, f) /\ teams' = teams
      /\ conv' = HandleNewFork(conv, t, teams[r].id, Top(t).num, Len(teams[r].members))
      BY <1>1, <1>2, RecordForkIs DEF GoesTo, Local
<1>4. Top(t) \in FrameType /\ InRegion(t, r, Top(t).num) BY <1>2, <1>3, TopOK
<1>5. PICK n \in Nat : n = Top(t).num BY <1>4 DEF FrameType
<1>6. r \in DOMAIN teams /\ r \in Nat BY <1>2, <1>4 DEF InRegion, FrameType
<1>7. PICK m : m = Members(r) OBVIOUS
<1>8. PICK s \in DOMAIN conv.sections : SectionOf(s, r) BY <1>6 DEF Linked, Sections
<1>9. /\ \A u \in Threads \ {t} : SameFlags(u) /\ SameForked(u)
      /\ ForkingIn(t, r) /\ Here(t, r) /\ Inside(t, r)
      /\ \A q \in Nat : /\ ~ForkingIn(t, q)' /\ (ForkingIn(t, q) => q = r)
                        /\ Inside(t, q)' <=> Inside(t, q)
                        /\ Here(t, q)' <=> Here(t, q)
      /\ Forked(t)' = Len(frames[t]) /\ Forked(t) = Len(frames[t]) - 1
      /\ \A i \in DOMAIN frames[t] : frames'[t][i].team = frames[t][i].team
      BY <1>2, <1>3, <1>6, ForkFlags
<1>10. ~Gone(r) BY <1>9 DEF Gone
<1>11. /\ MatchingSections(conv, teams[r].id) = {s} /\ Min({s}) = s
       /\ s \in conv.pending /\ s \notin Range(conv.finished) /\ s \in Nat
       BY <1>6, <1>8, <1>10, Matching
<1>12. PICK x \in SectionType : x = conv.sections[s] BY SectionTyped DEF TInv
<1>13. /\ x.id = teams[r].id /\ x.main = m[1]
       /\ x.nb_threads = Len(m) \/ (x.nb_threads = 0 /\ DOMAIN x.working = {})
       /\ DOMAIN x.working = {k \in Nums(r) : ~ForkingIn(m[k + 1], r)}
       /\ \A k \in DOMAIN x.working : x.working[k] = m[k + 1]
       /\ x.left = {k \in Nums(r) : ~Inside(m[k + 1], r)}
       BY <1>7, <1>8, <1>12 DEF SectionOf, Filled
<1>14. PICK id \in Nat : id = teams[r].id BY <1>6, TeamIds
<1>15. PICK nb \in Nat : nb = Len(m) BY <1>6, <1>7, TeamsAre
<1>16. conv' = HandleNewFork(conv, t, id, n, nb) BY <1>3, <1>5, <1>7, <1>14, <1>15 DEF Members
<1>17. ~Fails(conv, id, nb) BY <1>11, <1>12, <1>13, <1>14, <1>15 DEF Fails
<1>18. PICK w : w = [k \in DOMAIN x.working \cup {n} |-> IF k = n THEN t ELSE x.working[k]] OBVIOUS
<1>19. PICK y : y = [x EXCEPT !.nb_threads = nb, !.working = w] OBVIOUS
<1>20. y.id = x.id /\ y.main = x.main /\ y.nb_threads = nb /\ y.working = w /\ y.left = x.left
       BY <1>19 DEF SectionType
<1>21. /\ DOMAIN conv'.sections = DOMAIN conv.sections
       /\ conv'.sections[s] = y
       /\ \A q \in DOMAIN conv.sections \ {s} : conv'.sections[q] = conv.sections[q]
       /\ conv'.pending = conv.pending /\ conv'.finished = conv.finished /\ conv'.failed = conv.failed
       /\ conv'.stack[t] = Append(conv.stack[t], s)
       /\ \A u \in Threads \ {t} : conv'.stack[u] = conv.stack[u]
  <2>1. Min(MatchingSections(conv, id)) = s BY <1>11, <1>14
  <2>2. [conv.sections[s] EXCEPT !.nb_threads = nb,
             !.working = [k \in DOMAIN @ \cup {n} |-> IF k = n THEN t ELSE @[k]]] = y
        BY <1>12, <1>18, <1>19
  <2>3. WellFormed(conv) BY DEF TInv
  <2>4. Forks(conv, HandleNewFork(conv, t, id, n, nb), t, n, nb, Min(MatchingSections(conv, id)))
        BY <1>17, <2>3, ForkIs
  <2>5. Forks(conv, conv', t, n, nb, s) BY <1>16, <2>1, <2>4
  <2> QED BY <2>2, <2>5 DEF Forks
<1>22. SameIds
  <2>1. \A q \in DOMAIN conv.sections : conv'.sections[q].id = conv.sections[q].id
        BY <1>12, <1>20, <1>21
  <2> QED BY <1>21, <2>1 DEF SameIds
<1>23. NoneStarts BY <1>3, LocalNone
<1>24. /\ n \in Nums(r) /\ m[n + 1] = t
       /\ \A k \in Nums(r) : m[k + 1] \in Threads /\ (m[k + 1] = t => k = n)
       BY <1>4, <1>5, <1>6, <1>7, NumIs
<1>25. SectionOf(s, r)'
  <2>1. DOMAIN w = DOMAIN x.working \cup {n} BY <1>18
  <2>2. \A k \in Nums(r) : ~ForkingIn(m[k + 1], r)' <=> (~ForkingIn(m[k + 1], r) \/ k = n)
    <3> TAKE k \in Nums(r)
    <3>1. CASE k = n BY <1>6, <1>9, <1>24, <3>1
    <3>2. CASE k # n
      <4>1. m[k + 1] \in Threads \ {t} BY <1>24, <3>2
      <4> QED BY <1>6, <1>9, <3>2, <4>1 DEF SameFlags
    <3> QED BY <3>1, <3>2
  <2>3. DOMAIN w = {k \in Nums(r) : ~ForkingIn(m[k + 1], r)'} BY <1>13, <1>24, <2>1, <2>2
  <2>4. \A k \in DOMAIN w : w[k] = m[k + 1] BY <1>13, <1>18, <1>24, <2>1
  <2>5. \A k \in Nums(r) : Inside(m[k + 1], r)' <=> Inside(m[k + 1], r)
        BY <1>6, <1>9, <1>24 DEF SameFlags
  <2>6. y.left = {k \in Nums(r) : ~Inside(m[k + 1], r)'} BY <1>13, <1>20, <2>5
  <2>7. Members(r)' = m /\ Nums(r)' = Nums(r) BY <1>3, <1>7 DEF Members, Nums
  <2>8. y.main = m[1] /\ y.nb_threads = Len(m) /\ DOMAIN y.working = DOMAIN w /\ y.working = w
        BY <1>13, <1>15, <1>20
  <2>9. Filled(s, r)' BY <1>21, <2>3, <2>4, <2>6, <2>7, <2>8 DEF Filled
  <2>10. conv'.sections[s].id = teams'[r].id BY <1>3, <1>13, <1>20, <1>21
  <2> QED BY <1>21, <2>9, <2>10 DEF SectionOf
<1>26. \A q \in DOMAIN teams : q \in Nat BY <1>6, TeamsAre
<1>27. Sections'
  <2>1. \A u \in Threads, q \in DOMAIN teams : q # r =>
            (ForkingIn(u, q)' <=> ForkingIn(u, q)) /\ (Inside(u, q)' <=> Inside(u, q))
        BY <1>9, <1>26 DEF SameFlags
  <2>2. \A u \in Threads : Is(u, "call")' => Is(u, "call") /\ Top(u)' = Top(u) BY <1>23 DEF NoneStarts
  <2> QED BY <1>3, <1>6, <1>8, <1>10, <1>21, <1>22, <1>25, <2>1, <2>2, OthersKept
<1>28. Lists'
  <2>1. \A q \in DOMAIN teams : Gone(q)' <=> Gone(q) BY <1>9, <1>26 DEF Gone, SameFlags
  <2>2. TeamsGrow BY <1>3 DEF TeamsGrow
  <2> QED BY <1>3, <1>21, <1>22, <2>1, <2>2, ListsKept DEF Linked
<1>29. StackOK(t)'
  <2>1. PICK l \in Nat \ {0} : l = Len(frames[t]) BY <1>3, TopFrame DEF TInv
  <2>2. PICK c : c = conv.stack[t] OBVIOUS
  <2>3. c \in Seq(Nat) /\ \A i \in DOMAIN c : c[i] \in DOMAIN conv.sections
        BY <2>2, StackTyped DEF TInv
  <2>4. PICK d \in Nat : d = Len(c) BY <2>3, LenProperties
  <2>5. /\ Append(c, s) \in Seq(Nat) /\ Len(Append(c, s)) = d + 1
        /\ \A i \in 1 .. d : Append(c, s)[i] = c[i]
        /\ Append(c, s)[d + 1] = s
        BY <1>11, <2>3, <2>4, AppendIs
  <2>6. PICK e : e = Append(c, s) OBVIOUS
  <2>7. /\ conv'.stack[t] = e /\ Len(e) = d + 1 /\ DOMAIN e = 1 .. d + 1 /\ DOMAIN c = 1 .. d
        /\ \A i \in 1 .. d : e[i] = c[i]
        /\ e[d + 1] = s
        BY <1>21, <2>2, <2>3, <2>4, <2>5, <2>6, LenProperties
  <2>8. Forked(t)' = l /\ Forked(t) = l - 1 BY <1>9, <2>1
  <2>9. ASSUME NEW i \in 1 .. l, frames'[t][i].team # 0
        PROVE  /\ ((d + 1) - l) + i \in DOMAIN e
               /\ conv'.sections[e[((d + 1) - l) + i]].id = teams'[frames'[t][i].team].id
    <3>1. i \in DOMAIN frames[t] BY <2>1, FramesAre DEF TInv
    <3>2. frames'[t][i].team = frames[t][i].team BY <1>9, <3>1
    <3>3. CASE i = l
      <4>1. frames[t][i].team = r BY <1>2, <1>3, <2>1, <3>3, TopIndex
      <4>2. ((d + 1) - l) + i = d + 1 BY <3>3
      <4> QED BY <1>3, <1>13, <1>20, <1>21, <2>7, <3>2, <4>1, <4>2
    <3>4. CASE i # l
      <4>1. i \in 1 .. l - 1 /\ ((d + 1) - l) + i = (d - (l - 1)) + i BY <3>4
      <4>2. (d - (l - 1)) + i \in DOMAIN c /\ conv.sections[c[(d - (l - 1)) + i]].id = teams[frames[t][i].team].id
            BY <2>2, <2>4, <2>8, <2>9, <3>2, <4>1 DEF Linked, Stacks, StackOK
      <4>3. PICK p : p = (d - (l - 1)) + i OBVIOUS
      <4>4. p \in 1 .. d /\ p \in 1 .. d + 1 BY <2>7, <4>2, <4>3
      <4>5. e[p] = c[p] /\ c[p] \in DOMAIN conv.sections BY <2>3, <2>7, <4>4
      <4>6. conv'.sections[c[p]].id = conv.sections[c[p]].id BY <1>22, <4>5 DEF SameIds
      <4> QED BY <1>3, <2>7, <3>2, <4>1, <4>2, <4>3, <4>4, <4>5, <4>6
    <3> QED BY <3>3, <3>4
  <2> QED BY <2>7, <2>8, <2>9 DEF StackOK
<1>30. ASSUME NEW u \in Threads PROVE StackOK(u)'
  <2>1. CASE u = t BY <1>29, <2>1
  <2>2. CASE u # t
    <3>1. TeamsGrow BY <1>3 DEF TeamsGrow
    <3>2. SameForked(u) /\ conv'.stack[u] = conv.stack[u] BY <1>9, <1>21, <2>2
    <3> QED BY <1>22, <3>1, <3>2, StackKept DEF SameIds, Linked, Stacks
  <2> QED BY <2>1, <2>2
<1>31. ~conv'.failed BY <1>21 DEF Linked
<1> QED BY <1>22, <1>23, <1>27, <1>28, <1>30, <1>31 DEF Stacks

\* The top of the stack of a thread that is in a region.
LEMMA TopOfStack ==
    ASSUME TInv, FInv, Linked, NEW t \in Threads, frames[t] # << >>, Top(t).at # "fork", Top(t).team # 0,
           NEW r \in DOMAIN teams, r = Top(t).team, NEW s \in DOMAIN conv.sections, SectionOf(s, r)
    PROVE  conv.stack[t] # << >> /\ Last(conv.stack[t]) = s
<1>1. PICK l \in Nat \ {0} : l = Len(frames[t]) /\ Top(t) = frames[t][l] BY TopFrame DEF TInv
<1>2. Forked(t) = l BY <1>1 DEF Forked, Is
<1>3. PICK d \in Nat : d = Len(conv.stack[t]) BY StackTyped DEF TInv
<1>4. l \in 1 .. l /\ (d - l) + l = d BY <1>1
<1>5. (d - l) + l \in DOMAIN conv.stack[t] /\ conv.sections[conv.stack[t][(d - l) + l]].id = teams[r].id
      BY <1>1, <1>2, <1>3, <1>4 DEF Linked, Stacks, StackOK
<1>6. d \in DOMAIN conv.stack[t] /\ conv.sections[conv.stack[t][d]].id = teams[r].id BY <1>4, <1>5
<1>7. conv.stack[t] # << >>
  <2>1. DOMAIN conv.stack[t] # {} BY <1>6
  <2> QED BY <2>1
<1>8. Last(conv.stack[t]) = conv.stack[t][d] BY <1>3 DEF Last
<1>9. conv.stack[t][d] \in DOMAIN conv.sections BY <1>6, StackTyped DEF TInv
<1>10. conv.stack[t][d] = s BY <1>6, <1>9 DEF SectionOf, Linked, Numbered
<1> QED BY <1>7, <1>8, <1>10

LEMMA RecordJoinLinks ==
    ASSUME TInv, FInv, Linked, NEW t \in Threads, RecordJoin(t)
    PROVE  ~conv'.failed /\ SameIds /\ NoneStarts /\ Sections' /\ Lists' /\ Stacks'
<1>1. PICK f : f = Moved(t, "joined", Top(t).open) OBVIOUS
<1>2. PICK r : r = Top(t).team OBVIOUS
<1>3. /\ frames[t] # << >> /\ Top(t).at = "run" /\ r # 0
      /\ f \in FrameType /\ f.at = "joined" /\ Local(t, f) /\ teams' = teams
      /\ conv' = HandleNewJoin(conv, t, Top(t).num)
      BY <1>1, <1>2, RecordJoinIs DEF GoesTo, Local
<1>4. Top(t) \in FrameType /\ InRegion(t, r, Top(t).num) BY <1>2, <1>3, TopOK
<1>5. PICK n \in Nat : n = Top(t).num BY <1>4 DEF FrameType
<1>6. r \in DOMAIN teams /\ r \in Nat BY <1>2, <1>4 DEF InRegion, FrameType
<1>7. PICK m : m = Members(r) OBVIOUS
<1>8. PICK s \in DOMAIN conv.sections : SectionOf(s, r) BY <1>6 DEF Linked, Sections
<1>9. /\ \A u \in Threads \ {t} : SameFlags(u)
      /\ \A u \in Threads : SameForked(u)
      /\ Here(t, r) /\ Inside(t, r)
      /\ \A q \in Nat : /\ ~ForkingIn(t, q)' /\ ~ForkingIn(t, q)
                        /\ Inside(t, q)' <=> Inside(t, q) /\ q # r
                        /\ Here(t, q)' <=> Here(t, q)
      BY <1>2, <1>3, <1>6, JoinFlags
<1>10. ~Gone(r) BY <1>9 DEF Gone
<1>11. conv.stack[t] # << >> /\ Last(conv.stack[t]) = s BY <1>2, <1>3, <1>6, <1>8, TopOfStack
<1>12. PICK x \in SectionType : x = conv.sections[s] BY SectionTyped DEF TInv
<1>13. /\ x.id = teams[r].id /\ x.main = m[1]
       /\ x.nb_threads = Len(m) \/ (x.nb_threads = 0 /\ DOMAIN x.working = {})
       /\ DOMAIN x.working = {k \in Nums(r) : ~ForkingIn(m[k + 1], r)}
       /\ \A k \in DOMAIN x.working : x.working[k] = m[k + 1]
       /\ x.left = {k \in Nums(r) : ~Inside(m[k + 1], r)}
       BY <1>7, <1>8, <1>12 DEF SectionOf, Filled
<1>14. PICK y : y = [x EXCEPT !.left = @ \cup {n}] OBVIOUS
<1>15. /\ y.id = x.id /\ y.main = x.main /\ y.nb_threads = x.nb_threads /\ y.working = x.working
       /\ y.left = x.left \cup {n}
       BY <1>14 DEF SectionType
<1>16. /\ DOMAIN conv'.sections = DOMAIN conv.sections
       /\ conv'.sections[s] = y
       /\ \A q \in DOMAIN conv.sections \ {s} : conv'.sections[q] = conv.sections[q]
       /\ conv'.pending = conv.pending /\ conv'.finished = conv.finished /\ conv'.failed = conv.failed
       /\ conv'.stack = conv.stack
  <2>1. WellFormed(conv) BY DEF TInv
  <2>2. Joins(conv, HandleNewJoin(conv, t, n), t, n, Last(conv.stack[t])) BY <1>11, <2>1, JoinIs
  <2>3. Joins(conv, conv', t, n, s) BY <1>3, <1>5, <1>11, <2>2
  <2> QED BY <1>12, <1>14, <2>3 DEF Joins
<1>17. SameIds
  <2>1. \A q \in DOMAIN conv.sections : conv'.sections[q].id = conv.sections[q].id
        BY <1>12, <1>15, <1>16
  <2> QED BY <1>16, <2>1 DEF SameIds
<1>18. NoneStarts BY <1>3, LocalNone
<1>19. /\ n \in Nums(r) /\ m[n + 1] = t
       /\ \A k \in Nums(r) : m[k + 1] \in Threads /\ (m[k + 1] = t => k = n)
       BY <1>4, <1>5, <1>6, <1>7, NumIs
<1>20. SectionOf(s, r)'
  <2>1. \A k \in Nums(r) : ~Inside(m[k + 1], r)' <=> (~Inside(m[k + 1], r) \/ k = n)
    <3> TAKE k \in Nums(r)
    <3>1. CASE k = n BY <1>6, <1>9, <1>19, <3>1
    <3>2. CASE k # n
      <4>1. m[k + 1] \in Threads \ {t} BY <1>19, <3>2
      <4> QED BY <1>6, <1>9, <3>2, <4>1 DEF SameFlags
    <3> QED BY <3>1, <3>2
  <2>2. y.left = {k \in Nums(r) : ~Inside(m[k + 1], r)'} BY <1>13, <1>15, <1>19, <2>1
  <2>3. \A k \in Nums(r) : ForkingIn(m[k + 1], r)' <=> ForkingIn(m[k + 1], r)
        BY <1>6, <1>9, <1>19 DEF SameFlags
  <2>4. DOMAIN y.working = {k \in Nums(r) : ~ForkingIn(m[k + 1], r)'} BY <1>13, <1>15, <2>3
  <2>5. Members(r)' = m /\ Nums(r)' = Nums(r) BY <1>3, <1>7 DEF Members, Nums
  <2>6. /\ y.main = m[1] /\ \A k \in DOMAIN y.working : y.working[k] = m[k + 1]
        /\ y.nb_threads = Len(m) \/ (y.nb_threads = 0 /\ DOMAIN y.working = {})
        BY <1>13, <1>15
  <2>7. Filled(s, r)' BY <1>16, <2>2, <2>4, <2>5, <2>6 DEF Filled
  <2>8. conv'.sections[s].id = teams'[r].id BY <1>3, <1>13, <1>15, <1>16
  <2> QED BY <1>16, <2>7, <2>8 DEF SectionOf
<1>21. \A q \in DOMAIN teams : q \in Nat BY <1>6, TeamsAre
<1>22. Sections'
  <2>1. \A u \in Threads, q \in DOMAIN teams : q # r =>
            (ForkingIn(u, q)' <=> ForkingIn(u, q)) /\ (Inside(u, q)' <=> Inside(u, q))
        BY <1>9, <1>21 DEF SameFlags
  <2>2. \A u \in Threads : Is(u, "call")' => Is(u, "call") /\ Top(u)' = Top(u) BY <1>18 DEF NoneStarts
  <2> QED BY <1>3, <1>6, <1>8, <1>10, <1>16, <1>17, <1>20, <2>1, <2>2, OthersKept
<1>23. TeamsGrow BY <1>3 DEF TeamsGrow
<1>24. Lists'
  <2>1. \A q \in DOMAIN teams : Gone(q)' <=> Gone(q) BY <1>9, <1>21 DEF Gone, SameFlags
  <2> QED BY <1>3, <1>16, <1>17, <1>23, <2>1, ListsKept DEF Linked
<1>25. Stacks' BY <1>9, <1>16, <1>17, <1>23, StackKept DEF SameIds, Linked, Stacks
<1>26. ~conv'.failed BY <1>16 DEF Linked
<1> QED BY <1>17, <1>18, <1>22, <1>24, <1>25, <1>26

\* An injective sequence to which a new element is appended.
LEMMA AppendNew ==
    ASSUME NEW z \in Seq(Nat), IsInjective(z), NEW x \in Nat, x \notin Range(z)
    PROVE  IsInjective(Append(z, x)) /\ Range(Append(z, x)) = Range(z) \cup {x}
<1>1. PICK e : e = Append(z, x) OBVIOUS
<1>2. /\ Len(z) \in Nat /\ e \in Seq(Nat) /\ Len(e) = Len(z) + 1
      /\ \A i \in 1 .. Len(z) : e[i] = z[i]
      /\ e[Len(z) + 1] = x
      BY <1>1, AppendIs
<1>3. DOMAIN e = 1 .. Len(z) + 1 /\ DOMAIN z = 1 .. Len(z) BY <1>2, LenProperties
<1>4. \A i \in DOMAIN e : (i \in DOMAIN z /\ e[i] = z[i]) \/ (i = Len(z) + 1 /\ e[i] = x)
  <2> TAKE i \in DOMAIN e
  <2>1. i \in 1 .. Len(z) \/ i = Len(z) + 1 BY <1>2, <1>3
  <2> QED BY <1>2, <1>3, <2>1
<1>5. \A i \in DOMAIN z : i \in DOMAIN e /\ e[i] = z[i] /\ z[i] \in Range(z) BY <1>2, <1>3 DEF Range
<1>6. Len(z) + 1 \in DOMAIN e BY <1>2, <1>3
<1>7. IsInjective(e) BY <1>4, <1>5 DEF IsInjective
<1>8. Range(e) = Range(z) \cup {x} BY <1>2, <1>4, <1>5, <1>6 DEF Range
<1> QED BY <1>1, <1>7, <1>8

LEMMA RecordJoinDoneLinks ==
    ASSUME TInv, FInv, Linked, NEW t \in Threads, NEW l \in Nat \ {0}, Popped(t, l)
    PROVE  ~conv'.failed /\ SameIds /\ NoneStarts /\ Sections' /\ Lists' /\ Stacks'
<1>1. PICK r : r = Top(t).team OBVIOUS
<1>2. /\ frames[t] # << >> /\ Top(t).at = "done" /\ l = Len(frames[t]) /\ teams' = teams
      /\ conv' = HandleJoinDone(conv, t)
      /\ \A u \in Threads : u # t => frames'[u] = frames[u]
      BY DEF Popped
<1>3. r \in Nat BY <1>1, <1>2, TopOK DEF FrameType
<1>4. /\ r \in DOMAIN teams /\ r # 0
      /\ \A u \in Threads \ {t} : SameFlags(u) /\ SameForked(u) /\ ~Here(u, r)
      /\ \A q \in Nat : /\ ForkingIn(t, q)' <=> ForkingIn(t, q)
                        /\ Inside(t, q)' <=> Inside(t, q)
                        /\ Here(t, q)' <=> Here(t, q) /\ q # r
      /\ Here(t, r) /\ ~Inside(t, r) /\ ~ForkingIn(t, r)
      /\ Forked(t) = l /\ Forked(t)' = l - 1
      /\ \A i \in 1 .. l - 1 : frames'[t][i].team = frames[t][i].team
      /\ \A label \in Places : label # "run" => ~Is(t, label)'
      BY <1>1, <1>3, DoneFlags
<1>5. PICK m : m = Members(r) OBVIOUS
<1>6. PICK s \in DOMAIN conv.sections : SectionOf(s, r) BY <1>4 DEF Linked, Sections
<1>7. ~Gone(r) BY <1>4 DEF Gone
<1>8. conv.stack[t] # << >> /\ Last(conv.stack[t]) = s BY <1>1, <1>2, <1>4, <1>6, TopOfStack
<1>9. /\ MatchingSections(conv, teams[r].id) = {s} /\ Min({s}) = s
      /\ s \in conv.pending /\ s \notin Range(conv.finished) /\ s \in Nat
      BY <1>4, <1>6, <1>7, Matching
<1>10. conv.sections[s].id = teams[r].id /\ Filled(s, r) BY <1>6 DEF SectionOf
<1>11. PICK nb \in Nat \ {0} : nb = Len(m) BY <1>4, <1>5, TeamsAre
<1>12. \A k \in Nums(r) : ~ForkingIn(m[k + 1], r) /\ ~Inside(m[k + 1], r)
  <2>1. \A k \in Nums(r) : m[k + 1] \in Threads
    <3>1. DOMAIN m = 1 .. nb /\ \A i \in DOMAIN m : m[i] \in Threads BY <1>4, <1>5, <1>11, TeamsAre
    <3>2. \A k \in Nums(r) : k + 1 \in 1 .. nb BY <1>5, <1>11 DEF Nums
    <3> QED BY <3>1, <3>2
  <2>2. \A u \in Threads : ~ForkingIn(u, r) /\ ~Inside(u, r)
    <3>1. \A u \in Threads : ~Here(u, r) => ~ForkingIn(u, r) /\ ~Inside(u, r) BY DEF Here, ForkingIn, Inside
    <3> QED BY <1>4, <3>1
  <2> QED BY <2>1, <2>2
<1>13. /\ DOMAIN conv.sections[s].working = Nums(r) /\ conv.sections[s].left = Nums(r)
       /\ conv.sections[s].nb_threads = nb
  <2>1. DOMAIN conv.sections[s].working = Nums(r) /\ conv.sections[s].left = Nums(r)
        BY <1>5, <1>10, <1>12 DEF Filled
  <2>2. 0 \in Nums(r) BY <1>5, <1>11 DEF Nums
  <2>3. DOMAIN conv.sections[s].working # {} BY <2>1, <2>2
  <2> QED BY <1>5, <1>10, <1>11, <2>1, <2>3 DEF Filled
<1>14. ~DoneFails(conv, t)
  <2>1. 0 .. conv.sections[s].nb_threads - 1 = Nums(r) BY <1>5, <1>11, <1>13 DEF Nums
  <2> QED BY <1>8, <1>9, <1>10, <1>13, <2>1 DEF DoneFails
<1>15. Ends(conv, conv', t, s, s)
  <2>1. WellFormed(conv) BY DEF TInv
  <2>2. Ends(conv, HandleJoinDone(conv, t), t, Last(conv.stack[t]),
             Min(MatchingSections(conv, conv.sections[Last(conv.stack[t])].id)))
        BY <1>14, <2>1, DoneIs
  <2>3. Min(MatchingSections(conv, conv.sections[s].id)) = s BY <1>9, <1>10
  <2> QED BY <1>2, <1>8, <2>2, <2>3
<1>16. /\ conv'.sections = conv.sections /\ conv'.failed = conv.failed
       /\ conv'.pending = conv.pending \ {s} /\ conv'.finished = Append(conv.finished, s)
       /\ conv'.stack[t] = Front(conv.stack[t])
       /\ \A u \in Threads \ {t} : conv'.stack[u] = conv.stack[u]
       BY <1>15 DEF Ends
<1>17. SameIds /\ TeamsGrow BY <1>2, <1>16 DEF SameIds, TeamsGrow
<1>18. NoneStarts
  <2> SUFFICES ASSUME NEW u \in Threads, NEW label \in {"incr", "start", "call"}, Is(u, label)'
               PROVE  Is(u, label) /\ Top(u)' = Top(u)
      BY DEF NoneStarts
  <2>1. label \in Places /\ label # "run" BY DEF Places
  <2>2. u # t BY <1>4, <2>1
  <2> QED BY <1>2, <2>1, <2>2, OthersFlags
<1>19. \A q \in DOMAIN teams : q \in Nat BY <1>4, TeamsAre
<1>20. \A u \in Threads, q \in DOMAIN teams :
          (ForkingIn(u, q)' <=> ForkingIn(u, q)) /\ (Inside(u, q)' <=> Inside(u, q))
       BY <1>4, <1>19 DEF SameFlags
<1>21. Sections'
  <2>1. \A u \in Threads : CallOK(u)' BY <1>16, <1>18, CallKept DEF NoneStarts, Linked, Sections
  <2>2. ASSUME NEW q \in DOMAIN teams PROVE \E p \in DOMAIN conv'.sections : SectionOf(p, q)'
    <3>1. PICK p \in DOMAIN conv.sections : SectionOf(p, q) BY DEF Linked, Sections
    <3>2. \A u \in Threads : (ForkingIn(u, q)' <=> ForkingIn(u, q)) /\ (Inside(u, q)' <=> Inside(u, q))
          BY <1>20
    <3> QED BY <1>2, <1>16, <3>1, <3>2, FilledKept
  <2> QED BY <1>2, <2>1, <2>2 DEF Sections
<1>22. \A q \in DOMAIN teams : Gone(q)' <=> Gone(q) \/ q = r
  <2>1. ASSUME NEW q \in DOMAIN teams, q # r PROVE Gone(q)' <=> Gone(q)
    <3>1. \A u \in Threads : Here(u, q)' <=> Here(u, q) BY <1>4, <1>19, <2>1 DEF SameFlags
    <3> QED BY <3>1 DEF Gone
  <2>2. Gone(r)'
    <3>1. \A u \in Threads : ~Here(u, r)' BY <1>3, <1>4 DEF SameFlags
    <3> QED BY <3>1 DEF Gone
  <2> QED BY <2>1, <2>2
<1>23. Lists'
  <2>1. conv.finished \in Seq(Nat) BY DEF TInv, WellFormed, ConvType
  <2>2. IsInjective(conv'.finished) /\ Range(conv'.finished) = Range(conv.finished) \cup {s}
        BY <1>9, <1>16, <2>1, AppendNew DEF Linked, Lists
  <2>3. conv'.pending = DOMAIN conv'.sections \ Range(conv'.finished)
        BY <1>16, <2>2 DEF Linked, Lists
  <2>4. ASSUME NEW p \in DOMAIN conv.sections
        PROVE  (\E q \in DOMAIN teams : Gone(q)' /\ conv.sections[p].id = teams[q].id)
               <=> p \in Range(conv.finished) \/ p = s
    <3>1. p \in Range(conv.finished) <=> \E q \in DOMAIN teams : Gone(q) /\ conv.sections[p].id = teams[q].id
          BY DEF Linked, Lists
    <3>2. conv.sections[p].id = teams[r].id <=> p = s BY <1>10 DEF Linked, Numbered
    <3> QED BY <1>4, <1>22, <3>1, <3>2
  <2>5. Range(conv.finished) \subseteq DOMAIN conv.sections BY DEF Linked, Lists
  <2>6. Range(conv'.finished) =
          {p \in DOMAIN conv'.sections : \E q \in DOMAIN teams' : Gone(q)' /\ conv'.sections[p].id = teams'[q].id}
        BY <1>2, <1>16, <2>2, <2>4, <2>5
  <2> QED BY <2>2, <2>3, <2>6 DEF Lists
<1>24. StackOK(t)'
  <2>1. PICK c : c = conv.stack[t] OBVIOUS
  <2>2. c \in Seq(Nat) /\ c # << >> BY <1>8, <2>1, StackTyped DEF TInv
  <2>3. PICK d \in Nat \ {0} : d = Len(c) BY <2>2, FrontIs
  <2>4. PICK e : e = Front(c) OBVIOUS
  <2>5. e \in Seq(Nat) /\ Len(e) = d - 1 /\ \A i \in 1 .. d - 1 : e[i] = c[i]
        BY <2>2, <2>3, <2>4, FrontIs
  <2>6. DOMAIN e = 1 .. d - 1 /\ DOMAIN c = 1 .. d BY <2>2, <2>3, <2>5, LenProperties
  <2>7. conv'.stack[t] = e BY <1>16, <2>1, <2>4
  <2>8. ASSUME NEW i \in 1 .. l - 1, frames'[t][i].team # 0
        PROVE  /\ ((d - 1) - (l - 1)) + i \in DOMAIN e
               /\ conv'.sections[e[((d - 1) - (l - 1)) + i]].id = teams'[frames'[t][i].team].id
    <3>1. frames'[t][i].team = frames[t][i].team BY <1>4
    <3>2. i \in 1 .. l /\ ((d - 1) - (l - 1)) + i = (d - l) + i OBVIOUS
    <3>3. (d - l) + i \in DOMAIN c /\ conv.sections[c[(d - l) + i]].id = teams[frames[t][i].team].id
          BY <1>4, <2>1, <2>3, <2>8, <3>1, <3>2 DEF Linked, Stacks, StackOK
    <3>4. (d - l) + i \in 1 .. d - 1 BY <2>6, <3>3
    <3>5. e[(d - l) + i] = c[(d - l) + i] BY <2>5, <3>4
    <3> QED BY <1>2, <1>16, <2>6, <3>1, <3>2, <3>3, <3>4, <3>5
  <2> QED BY <1>4, <2>5, <2>7, <2>8 DEF StackOK
<1>25. ASSUME NEW u \in Threads PROVE StackOK(u)'
  <2>1. CASE u = t BY <1>24, <2>1
  <2>2. CASE u # t BY <1>4, <1>16, <1>17, <2>2, StackKept DEF SameIds, Linked, Stacks
  <2> QED BY <2>1, <2>2
<1>26. ~conv'.failed BY <1>16 DEF Linked
<1> QED BY <1>17, <1>18, <1>21, <1>23, <1>25, <1>26 DEF Stacks

CInv == ~raced => Linked

LEMMA QuietLinks ==
    ASSUME TInv, FInv, Linked, NEW t \in Threads, Quiet(t)
    PROVE  Linked' /\ (raced' <=> raced)
<1>1. PICK f \in FrameType : Local(t, f) /\ f.at \in Plain BY DEF Quiet
<1>2. /\ Top(t).at \in Plain /\ next_section_id' = next_section_id /\ raced' = raced
      /\ SameSections(conv, conv') /\ teams' = teams
      BY <1>1 DEF Quiet, Local
<1>3. f.at \notin Borders /\ Top(t).at \notin Borders /\ f.at \notin {"incr", "start", "call"}
      BY <1>1, <1>2 DEF Plain, Borders
<1>4. \A u \in Threads : SameFlags(u) /\ SameForked(u) BY <1>1, <1>3, LocalFlags
<1>5. NoneStarts BY <1>1, <1>3, LocalNone
<1>6. SameIds /\ conv'.failed = conv.failed BY <1>2 DEF SameIds, SameSections
<1>7. Numbered' BY <1>2, <1>5, <1>6, NumbersKept DEF Linked
<1>8. Sections' /\ Lists' /\ Stacks' BY <1>2, <1>4, <1>5, StillKeeps DEF Linked, NoneStarts
<1> QED BY <1>2, <1>6, <1>7, <1>8 DEF Linked

LEMMA ReadIdLinks ==
    ASSUME TInv, FInv, Linked, NEW t \in Threads, ReadId(t), ~raced'
    PROVE  Linked'
<1>1. PICK f : f = [Top(t) EXCEPT !.at = "incr", !.id = next_section_id] OBVIOUS
<1>2. /\ Top(t).at = "run" /\ Local(t, f) /\ f \in FrameType /\ f.at = "incr"
      /\ conv' = conv /\ teams' = teams
      BY <1>1, ReadIdIs DEF Local
<1>3. \A u \in Threads : SameFlags(u) /\ SameForked(u) BY <1>2, LocalFlags DEF Borders
<1>4. \A u \in Threads : Is(u, "call")' => Is(u, "call") /\ Top(u)' = Top(u)
  <2>1. "call" \in Places BY DEF Places
  <2> QED BY <1>2, <2>1, LocalIs
<1>5. SameSections(conv, conv') BY <1>2 DEF SameSections
<1>6. Sections' /\ Lists' /\ Stacks' BY <1>2, <1>3, <1>4, <1>5, StillKeeps DEF Linked
<1>7. Numbered' BY ReadIdNumbers DEF Linked
<1> QED BY <1>2, <1>6, <1>7 DEF Linked

LEMMA WriteIdLinks ==
    ASSUME TInv, FInv, Linked, NEW t \in Threads, WriteId(t)
    PROVE  Linked' /\ raced' = raced
<1>1. PICK f : f = Moved(t, "start", Top(t).open) OBVIOUS
<1>2. /\ Top(t).at = "incr" /\ Local(t, f) /\ f \in FrameType /\ f.at = "start"
      /\ conv' = conv /\ teams' = teams /\ raced' = raced
      BY <1>1, WriteIdIs DEF GoesTo, Local
<1>3. \A u \in Threads : SameFlags(u) /\ SameForked(u) BY <1>2, LocalFlags DEF Borders
<1>4. \A u \in Threads : Is(u, "call")' => Is(u, "call") /\ Top(u)' = Top(u)
  <2>1. "call" \in Places BY DEF Places
  <2> QED BY <1>2, <2>1, LocalIs
<1>5. SameSections(conv, conv') BY <1>2 DEF SameSections
<1>6. Sections' /\ Lists' /\ Stacks' BY <1>2, <1>3, <1>4, <1>5, StillKeeps DEF Linked
<1>7. Numbered' BY WriteIdNumbers DEF Linked
<1> QED BY <1>2, <1>6, <1>7 DEF Linked

LEMMA InitLinks == Init => CInv
<1> SUFFICES ASSUME Init PROVE Linked BY DEF CInv
<1>1. TInv /\ FInv BY InitFrames
<1>2. /\ teams = << >> /\ conv.sections = << >> /\ conv.pending = {} /\ conv.finished = << >>
      /\ ~conv.failed
      BY DEF Init
<1>3. DOMAIN teams = {} /\ DOMAIN conv.sections = {} /\ DOMAIN conv.finished = {} BY <1>2
<1>4. ASSUME NEW t \in Threads, NEW i \in DOMAIN frames[t]
      PROVE  frames[t] = << Frame(0, 0, "run") >> /\ i = 1
  <2>1. t \in Initial
    <3> SUFFICES ASSUME t \notin Initial PROVE FALSE OBVIOUS
    <3>1. frames[t] = << >> BY DEF Init
    <3>2. DOMAIN frames[t] = {} BY <3>1
    <3> QED BY <1>4, <3>2
  <2>2. frames[t] = << Frame(0, 0, "run") >> BY <2>1 DEF Init
  <2>3. DOMAIN frames[t] = {1} BY <2>2
  <2> QED BY <1>4, <2>2, <2>3
<1>5. \A t \in Threads : \A i \in DOMAIN frames[t] : frames[t][i].at = "run" /\ frames[t][i].team = 0
      BY <1>4 DEF Frame
<1>6. \A t \in Threads : frames[t] # << >> => Top(t).at = "run" BY <1>1, <1>5, TopIndex
<1>7. \A t \in Threads : ~Is(t, "incr") /\ ~Is(t, "start") /\ ~Is(t, "call") BY <1>6 DEF Is
<1>8. Numbered BY <1>3, <1>7 DEF Numbered, Starting
<1>9. Sections BY <1>3, <1>7 DEF Sections, CallOK
<1>10. Lists
  <2>1. Range(conv.finished) = {} BY <1>3 DEF Range
  <2> QED BY <1>2, <1>3, <2>1 DEF Lists, IsInjective
<1>11. Stacks
  <2>1. \A t \in Threads : \A i \in 1 .. Forked(t) : frames[t][i].team = 0 BY <1>1, <1>5, ForkedIs
  <2> QED BY <2>1 DEF Stacks, StackOK
<1> QED BY <1>2, <1>8, <1>9, <1>10, <1>11 DEF Linked

LEMMA StepLinks ==
    ASSUME TInv, FInv, CInv, NEW t \in Threads, Step(t)
    PROVE  CInv'
<1> SUFFICES ASSUME ~raced' PROVE Linked' BY DEF CInv
<1>1. CASE ReadId(t)
  <2>1. ~raced BY <1>1 DEF ReadId
  <2> QED BY <1>1, <2>1, ReadIdLinks DEF CInv
<1>2. CASE WriteId(t)
  <2>1. raced' = raced BY <1>2 DEF WriteId
  <2> QED BY <1>2, <2>1, WriteIdLinks DEF CInv
<1>3. CASE RecordStart(t)
  <2>1. Linked BY <1>3 DEF RecordStart, CInv
  <2>2. Numbered' BY <1>3, <2>1, RecordStartNumbers DEF Linked
  <2> QED BY <1>3, <2>1, <2>2, RecordStartLinks DEF Linked
<1>4. CASE LibParallelStart(t)
  <2>1. Linked BY <1>4 DEF LibParallelStart, CInv
  <2>2. PICK H \in SUBSET Threads, r \in Nat : NewTeam(t, H, r) /\ NewFrames(t, H, r)
        BY <1>4, LibParallelStartIs
  <2>3. Is(t, "call") /\ UNCHANGED <<next_section_id, conv>> BY <1>4, LibParallelStartIs DEF Is
  <2>4. Numbered' BY <2>1, <2>2, <2>3, LibParallelStartNumbers DEF Linked
  <2>5. ~conv'.failed /\ Sections' /\ Lists' /\ Stacks' BY <2>1, <2>2, <2>3, LibParallelStartLinks
  <2> QED BY <2>4, <2>5 DEF Linked
<1>5. CASE RecordFork(t)
  <2>1. Linked /\ teams' = teams /\ next_section_id' = next_section_id BY <1>5 DEF RecordFork, CInv
  <2>2. ~conv'.failed /\ SameIds /\ NoneStarts /\ Sections' /\ Lists' /\ Stacks' BY <1>5, <2>1, RecordForkLinks
  <2>3. Numbered' BY <2>1, <2>2, NumbersKept DEF Linked
  <2> QED BY <2>2, <2>3 DEF Linked
<1>6. CASE RecordJoin(t)
  <2>1. Linked /\ teams' = teams /\ next_section_id' = next_section_id BY <1>6 DEF RecordJoin, CInv
  <2>2. ~conv'.failed /\ SameIds /\ NoneStarts /\ Sections' /\ Lists' /\ Stacks' BY <1>6, <2>1, RecordJoinLinks
  <2>3. Numbered' BY <2>1, <2>2, NumbersKept DEF Linked
  <2> QED BY <2>2, <2>3 DEF Linked
<1>7. CASE LibParallelEnd(t)
  <2>1. Linked BY <1>7 DEF LibParallelEnd, CInv
  <2>2. PICK r \in Nat \ {0}, l \in Nat \ {0} : Emptied(t, r, l) BY <1>7, LibParallelEndIs
  <2>3. ~conv'.failed /\ Sections' /\ Lists' /\ Stacks' BY <2>1, <2>2, LibParallelEndLinks
  <2>4. teams' = teams /\ next_section_id' = next_section_id /\ SameIds BY <2>2 DEF Emptied, SameIds
  <2>5. NoneStarts BY <2>2, EndFlags DEF NoneStarts
  <2>6. Numbered' BY <2>1, <2>4, <2>5, NumbersKept DEF Linked
  <2> QED BY <2>3, <2>6 DEF Linked
<1>8. CASE RecordJoinDone(t)
  <2>1. Linked /\ teams' = teams /\ next_section_id' = next_section_id BY <1>8 DEF RecordJoinDone, CInv
  <2>2. PICK l \in Nat \ {0} : Popped(t, l) BY <1>8, RecordJoinDoneIs
  <2>3. ~conv'.failed /\ SameIds /\ NoneStarts /\ Sections' /\ Lists' /\ Stacks'
        BY <2>1, <2>2, RecordJoinDoneLinks
  <2>4. Numbered' BY <2>1, <2>3, NumbersKept DEF Linked
  <2> QED BY <2>3, <2>4 DEF Linked
<1>9. CASE Quiet(t)
  <2>1. raced' = raced BY <1>9 DEF Quiet
  <2> QED BY <1>9, <2>1, QuietLinks DEF CInv
<1> QED BY <1>1, <1>2, <1>3, <1>4, <1>5, <1>6, <1>7, <1>8, <1>9, StepKinds

LEMMA StutterLinks ==
    ASSUME TInv, FInv, CInv, UNCHANGED vars
    PROVE  CInv'
<1>1. /\ next_section_id' = next_section_id /\ frames' = frames /\ teams' = teams /\ conv' = conv
      /\ raced' = raced
      BY DEF vars
<1> SUFFICES ASSUME Linked PROVE Linked' BY <1>1 DEF CInv
<1>2. \A u \in Threads : /\ SameFlags(u) /\ SameForked(u) /\ Top(u)' = Top(u)
                         /\ \A label \in Places : Is(u, label)' <=> Is(u, label)
      BY <1>1, OthersFlags
<1>3. NoneStarts
  <2>1. "incr" \in Places /\ "start" \in Places /\ "call" \in Places BY DEF Places
  <2> QED BY <1>2, <2>1 DEF NoneStarts
<1>4. SameSections(conv, conv') /\ SameIds BY <1>1 DEF SameSections, SameIds
<1>5. Numbered' BY <1>1, <1>3, <1>4, NumbersKept DEF Linked
<1>6. Sections' /\ Lists' /\ Stacks' BY <1>1, <1>2, <1>3, <1>4, StillKeeps DEF Linked, NoneStarts
<1> QED BY <1>1, <1>5, <1>6 DEF Linked

(* Until two threads increment _next_section_id together, every region has *)
(* a section of its own, with all that its threads have recorded and       *)
(* nothing else, on the stack of those that are in it.                     *)
THEOREM RegionsLinked == Spec => [](TInv /\ FInv /\ CInv)
<1>1. Init => TInv /\ FInv /\ CInv BY InitFrames, InitLinks
<1>2. TInv /\ FInv /\ CInv /\ [Next]_vars => CInv'
      BY StepLinks, StutterLinks DEF Next
<1>3. Spec => [](TInv /\ FInv) BY FramesFormed
<1> QED BY <1>1, <1>2, <1>3, PTL DEF Spec

LEMMA FollowsFromLinked ==
    ASSUME TInv, FInv, CInv
    PROVE  SectionsFollow
<1> SUFFICES ASSUME Linked
             PROVE  /\ ~conv.failed
                    /\ \A t \in Threads, r \in DOMAIN teams : InTeam(t, r) =>
                          LET section == conv.sections[Last(conv.stack[t])]
                          IN /\ conv.stack[t] # << >>
                             /\ section.id = teams[r].id
                             /\ section.main = teams[r].members[1]
                             /\ Top(t).num \in DOMAIN section.working /\ section.working[Top(t).num] = t
    BY DEF SectionsFollow, CInv
<1> SUFFICES ASSUME NEW t \in Threads, NEW r \in DOMAIN teams, InTeam(t, r)
             PROVE  LET section == conv.sections[Last(conv.stack[t])]
                    IN /\ conv.stack[t] # << >>
                       /\ section.id = teams[r].id
                       /\ section.main = teams[r].members[1]
                       /\ Top(t).num \in DOMAIN section.working /\ section.working[Top(t).num] = t
    BY DEF Linked
<1>1. frames[t] # << >> /\ Top(t).team = r /\ r # 0 /\ Top(t).at # "fork" BY DEF InTeam
<1>2. PICK s \in DOMAIN conv.sections : SectionOf(s, r) BY DEF Linked, Sections
<1>3. conv.stack[t] # << >> /\ Last(conv.stack[t]) = s BY <1>1, <1>2, TopOfStack
<1>4. Top(t) \in FrameType /\ InRegion(t, r, Top(t).num) BY <1>1, TopOK
<1>5. PICK n \in Nat : n = Top(t).num BY <1>4 DEF FrameType
<1>6. n \in Nums(r) /\ Members(r)[n + 1] = t BY <1>4, <1>5, NumIs
<1>7. ~ForkingIn(t, r)
  <2>1. \A i \in DOMAIN frames[t] : i # Len(frames[t]) => frames[t][i].at = "run" BY <1>1, TopOK
  <2>2. frames[t][Len(frames[t])].at # "fork" BY <1>1, TopIndex
  <2> QED BY <2>1, <2>2 DEF ForkingIn
<1>8. PICK x : x = conv.sections[s] OBVIOUS
<1>9. /\ x.id = teams[r].id /\ x.main = Members(r)[1]
      /\ DOMAIN x.working = {k \in Nums(r) : ~ForkingIn(Members(r)[k + 1], r)}
      /\ \A k \in DOMAIN x.working : x.working[k] = Members(r)[k + 1]
      BY <1>2, <1>8 DEF SectionOf, Filled
<1>10. n \in DOMAIN x.working /\ x.working[n] = t BY <1>6, <1>7, <1>9
<1> QED BY <1>3, <1>5, <1>8, <1>9, <1>10 DEF Members

LEMMA EndedGone ==
    ASSUME NEW r \in DOMAIN teams
    PROVE  r \in Ended <=> Gone(r)
BY DEF Ended, Gone, Here

LEMMA CompleteFromLinked ==
    ASSUME TInv, FInv, CInv
    PROVE  LinksComplete
<1> SUFFICES ASSUME Linked
             PROVE  /\ IsInjective(conv.finished)
                    /\ {conv.sections[s].id : s \in Range(conv.finished)} = {teams[r].id : r \in Ended}
                    /\ \A s \in Range(conv.finished), r \in Ended : conv.sections[s].id = teams[r].id =>
                          /\ conv.sections[s].working =
                                [k \in 0 .. Len(teams[r].members) - 1 |-> teams[r].members[k + 1]]
                          /\ conv.sections[s].left = DOMAIN conv.sections[s].working
    BY DEF LinksComplete, CInv
<1>1. \A r \in Ended : r \in DOMAIN teams /\ Gone(r) BY EndedGone DEF Ended
<1>2. \A r \in DOMAIN teams : Gone(r) => r \in Ended BY EndedGone
<1>3. \A s \in Range(conv.finished) : s \in DOMAIN conv.sections
         /\ \E r \in Ended : conv.sections[s].id = teams[r].id
      BY <1>2 DEF Linked, Lists
<1>4. ASSUME NEW r \in Ended
      PROVE  \E s \in Range(conv.finished) : conv.sections[s].id = teams[r].id /\ SectionOf(s, r)
  <2>1. PICK s \in DOMAIN conv.sections : SectionOf(s, r) BY <1>1 DEF Linked, Sections
  <2>2. conv.sections[s].id = teams[r].id BY <2>1 DEF SectionOf
  <2>3. s \in Range(conv.finished) BY <1>1, <2>2 DEF Linked, Lists
  <2> QED BY <2>1, <2>2, <2>3
<1>5. {conv.sections[s].id : s \in Range(conv.finished)} = {teams[r].id : r \in Ended} BY <1>3, <1>4
<1>6. ASSUME NEW s \in Range(conv.finished), NEW r \in Ended, conv.sections[s].id = teams[r].id
      PROVE  /\ conv.sections[s].working = [k \in 0 .. Len(teams[r].members) - 1 |-> teams[r].members[k + 1]]
             /\ conv.sections[s].left = DOMAIN conv.sections[s].working
  <2>1. PICK p \in Range(conv.finished) : conv.sections[p].id = teams[r].id /\ SectionOf(p, r) BY <1>4
  <2>2. p = s BY <1>3, <1>6, <2>1 DEF Linked, Numbered
  <2>3. r \in DOMAIN teams /\ Gone(r) BY <1>1
  <2>4. PICK m : m = Members(r) OBVIOUS
  <2>5. \A k \in Nums(r) : m[k + 1] \in Threads
    <3>1. PICK nb \in Nat : nb = Len(m) /\ DOMAIN m = 1 .. nb /\ \A i \in DOMAIN m : m[i] \in Threads
          BY <2>3, <2>4, TeamsAre
    <3>2. \A k \in Nums(r) : k + 1 \in 1 .. nb BY <2>4, <3>1 DEF Nums
    <3> QED BY <3>1, <3>2
  <2>6. \A k \in Nums(r) : ~ForkingIn(m[k + 1], r) /\ ~Inside(m[k + 1], r)
        BY <2>3, <2>5 DEF Gone, Here, ForkingIn, Inside
  <2>7. PICK x \in SectionType : x = conv.sections[s] BY <1>3, SectionTyped DEF TInv
  <2>8. DOMAIN x.working = Nums(r) /\ x.left = Nums(r) /\ \A k \in DOMAIN x.working : x.working[k] = m[k + 1]
        BY <2>1, <2>2, <2>4, <2>6, <2>7 DEF SectionOf, Filled
  <2>9. x.working = [k \in Nums(r) |-> m[k + 1]]
    <3>1. PICK D \in SUBSET Nat : x.working \in [D -> Threads] BY <2>7 DEF SectionType, Workers
    <3>2. x.working = [k \in DOMAIN x.working |-> x.working[k]] BY <3>1
    <3> QED BY <2>8, <3>2
  <2> QED BY <2>4, <2>7, <2>8, <2>9 DEF Members, Nums
<1>7. IsInjective(conv.finished) BY DEF Linked, Lists
<1> QED BY <1>5, <1>6, <1>7

(* For any threads and any nesting of regions, the handlers of the forks,  *)
(* joins and ends take an event for one of the region that its thread is   *)
(* in, unless two threads have incremented _next_section_id together.      *)
THEOREM SectionsFollowHolds == Spec => []SectionsFollow
<1>1. TInv /\ FInv /\ CInv => SectionsFollow BY FollowsFromLinked
<1> QED BY <1>1, RegionsLinked, PTL

(* The finished sections are the regions that have ended, each once, with  *)
(* a link to and from every thread of the team.                            *)
THEOREM LinksCompleteHolds == Spec => []LinksComplete
<1>1. TInv /\ FInv /\ CInv => LinksComplete BY CompleteFromLinked
<1> QED BY <1>1, RegionsLinked, PTL

(* The constructs that a thread has open, with their places. *)
Place(t, x, i, a) ==
    /\ i \in DOMAIN frames[t] /\ a \in DOMAIN frames[t][i].open
    /\ frames[t][i].open[a] = x
Before(i, a, j, b) == i < j \/ (i = j /\ a < b)

In(t, x) == \E i, a \in Nat : Place(t, x, i, a)
Once(t) == \A x \in Constructs : \A i, a, j, b \in Nat :
              Place(t, x, i, a) /\ Place(t, x, j, b) => i = j /\ a = b

\* The constructs that were opened in the critical section.
After(t, y) == \E i, a, j, b \in Nat :
                  Place(t, "critical", i, a) /\ Place(t, y, j, b) /\ Before(i, a, j, b)
Later(t) == {y \in Constructs : After(t, y)}

\* What is asked for is not open.
Asked(t) == /\ Is(t, "critical") \/ Is(t, "in critical") => ~In(t, "critical")
            /\ Is(t, "lock") \/ Is(t, "in lock") => ~In(t, "lock")

Wait(t) == IF Waiting(t) THEN 1 ELSE 0
Leave(t) == IF Leaving(t) THEN 1 ELSE 0

\* The state of the critical section is under those of the constructs in it, and
\* is gone when the end of it is recorded.
Shown(t) == \A p \in DOMAIN conv.states[t] : conv.states[t][p] = "Critical" =>
    /\ In(t, "critical") /\ ~Leaving(t)
    /\ Len(conv.states[t]) - p <= Cardinality(Later(t)) + Wait(t)
LevelOK(t) == Len(conv.states[t]) = 1 + Cardinality(Open(t)) + Wait(t) - Leave(t)

ThreadOK(t) == /\ Once(t) /\ Asked(t)
               /\ ~conv.failed => Shown(t) /\ LevelOK(t)

\* A thread is in the critical section.
Holds(t) == Is(t, "in critical") \/ In(t, "critical")
Alone == /\ \A t, u \in Threads : Holds(t) /\ Holds(u) => t = u
         /\ \A t \in Threads : Holds(t) => critical

SInv == Alone /\ \A t \in Threads : ThreadOK(t)

LEMMA PlaceIs ==
    ASSUME TInv, NEW t \in Threads, NEW i \in DOMAIN frames[t]
    PROVE  /\ i \in 1 .. Len(frames[t]) /\ i \in Nat /\ Len(frames[t]) \in Nat
           /\ frames[t][i] \in FrameType /\ frames[t][i].open \in Seq(Constructs)
           /\ Len(frames[t][i].open) \in Nat
           /\ DOMAIN frames[t][i].open = 1 .. Len(frames[t][i].open)
           /\ \A a \in DOMAIN frames[t][i].open : a \in Nat /\ frames[t][i].open[a] \in Constructs
<1>1. /\ Len(frames[t]) \in Nat /\ DOMAIN frames[t] = 1 .. Len(frames[t])
      /\ frames[t][i] \in FrameType
      BY FramesAre DEF TInv
<1>2. frames[t][i].open \in Seq(Constructs) BY <1>1 DEF FrameType
<1> QED BY <1>1, <1>2, LenProperties, ElementOfSeq

LEMMA OpenIs ==
    ASSUME TInv, NEW t \in Threads
    PROVE  Open(t) = {x \in Constructs : In(t, x)}
<1>1. ASSUME NEW x \in Open(t) PROVE x \in Constructs /\ In(t, x)
  <2>1. PICK i \in DOMAIN frames[t] : x \in Range(frames[t][i].open) BY DEF Open
  <2>2. PICK a \in DOMAIN frames[t][i].open : frames[t][i].open[a] = x BY <2>1 DEF Range
  <2> QED BY <2>2, PlaceIs DEF In, Place
<1>2. ASSUME NEW x \in Constructs, In(t, x) PROVE x \in Open(t)
  <2>1. PICK i \in Nat, a \in Nat : Place(t, x, i, a) BY <1>2 DEF In
  <2>2. i \in DOMAIN frames[t] /\ x \in Range(frames[t][i].open) BY <2>1 DEF Place, Range
  <2> QED BY <2>2 DEF Open
<1> QED BY <1>1, <1>2

OpensAre == \A t \in Threads : Open(t) = {x \in Constructs : In(t, x)}

LEMMA OpensTyped == TInv => OpensAre
BY OpenIs DEF OpensAre

LEMMA Sized ==
    ASSUME NEW S \in SUBSET Constructs
    PROVE  IsFiniteSet(S) /\ Cardinality(S) \in Nat
<1>1. IsFiniteSet(Constructs)
  <2>1. IsFiniteSet({}) BY FS_EmptySet
  <2>2. IsFiniteSet({} \cup {"plain"}) BY <2>1, FS_AddElement
  <2>3. IsFiniteSet(({} \cup {"plain"}) \cup {"critical"}) BY <2>2, FS_AddElement
  <2>4. IsFiniteSet((({} \cup {"plain"}) \cup {"critical"}) \cup {"lock"}) BY <2>3, FS_AddElement
  <2>5. Constructs = ((({} \cup {"plain"}) \cup {"critical"}) \cup {"lock"}) BY DEF Constructs
  <2> QED BY <2>4, <2>5
<1>2. IsFiniteSet(S) BY <1>1, FS_Subset
<1> QED BY <1>2, FS_CardinalityType

-----------------------------------------------------------------------------
(* Threads whose constructs stay. *)
Marks == {"critical", "in critical", "lock", "in lock", "out critical"}
SameMarks(u) == \A label \in Marks : Is(u, label)' <=> Is(u, label)
SamePlaces(u) == \A x \in Constructs, i \in Nat, a \in Nat : Place(u, x, i, a)' <=> Place(u, x, i, a)
SameStates(u) == /\ Len(conv'.states[u]) = Len(conv.states[u])
                 /\ DOMAIN conv'.states[u] = DOMAIN conv.states[u]
                 /\ \A p \in DOMAIN conv.states[u] :
                       conv'.states[u][p] = "Critical" => conv.states[u][p] = "Critical"

LEMMA PlacesStay ==
    ASSUME TInv, TInv', NEW u \in Threads, SamePlaces(u)
    PROVE  /\ \A x \in Constructs : In(u, x)' <=> In(u, x)
           /\ Once(u)' <=> Once(u)
           /\ Open(u)' = Open(u) /\ Later(u)' = Later(u)
<1>1. \A x \in Constructs : In(u, x)' <=> In(u, x) BY DEF SamePlaces, In
<1>2. Once(u)' <=> Once(u) BY DEF SamePlaces, Once
<1>3. Open(u) = {x \in Constructs : In(u, x)} BY OpenIs
<1>4. Open(u)' = {x \in Constructs : In(u, x)'}
  <2>1. OpensAre' BY OpensTyped, PTL
  <2> QED BY <2>1 DEF OpensAre
<1>5. Open(u)' = Open(u) BY <1>1, <1>3, <1>4
<1>6. ASSUME NEW y \in Constructs PROVE After(u, y)' <=> After(u, y)
  <2>1. "critical" \in Constructs BY DEF Constructs
  <2> QED BY <2>1 DEF SamePlaces, After
<1>7. Later(u)' = Later(u) BY <1>6 DEF Later
<1> QED BY <1>1, <1>2, <1>5, <1>7

LEMMA MarksStay ==
    ASSUME NEW u \in Threads, SameMarks(u)
    PROVE  /\ (Waiting(u)' <=> Waiting(u)) /\ (Leaving(u)' <=> Leaving(u))
           /\ Wait(u)' = Wait(u) /\ Leave(u)' = Leave(u)
<1>1. Waiting(u) <=> Is(u, "critical") \/ Is(u, "in critical") \/ Is(u, "lock") \/ Is(u, "in lock")
      BY DEF Waiting, Is
<1>2. Waiting(u)' <=> Is(u, "critical")' \/ Is(u, "in critical")' \/ Is(u, "lock")' \/ Is(u, "in lock")'
      BY DEF Waiting, Is
<1>3. (Leaving(u) <=> Is(u, "out critical")) /\ (Leaving(u)' <=> Is(u, "out critical")')
      BY DEF Leaving, Is
<1>4. (Waiting(u)' <=> Waiting(u)) /\ (Leaving(u)' <=> Leaving(u))
      BY <1>1, <1>2, <1>3 DEF SameMarks, Marks
<1> QED BY <1>4 DEF Wait, Leave

LEMMA StaysOK ==
    ASSUME TInv, TInv', NEW u \in Threads, SamePlaces(u), SameMarks(u), ThreadOK(u),
           ~conv'.failed => ~conv.failed /\ SameStates(u)
    PROVE  ThreadOK(u)' /\ (Holds(u)' <=> Holds(u))
<1>1. /\ \A x \in Constructs : In(u, x)' <=> In(u, x)
      /\ Once(u)' <=> Once(u)
      /\ Open(u)' = Open(u) /\ Later(u)' = Later(u)
      BY PlacesStay
<1>2. /\ (Waiting(u)' <=> Waiting(u)) /\ (Leaving(u)' <=> Leaving(u))
      /\ Wait(u)' = Wait(u) /\ Leave(u)' = Leave(u)
      BY MarksStay
<1>3. (In(u, "critical")' <=> In(u, "critical")) /\ (In(u, "lock")' <=> In(u, "lock"))
      BY <1>1 DEF Constructs
<1>4. Asked(u)' BY <1>3 DEF SameMarks, Marks, ThreadOK, Asked
<1>5. Holds(u)' <=> Holds(u) BY <1>3 DEF SameMarks, Marks, Holds
<1>6. ASSUME ~conv'.failed PROVE Shown(u)' /\ LevelOK(u)'
  <2>1. ~conv.failed /\ SameStates(u) /\ Shown(u) /\ LevelOK(u) BY <1>6 DEF ThreadOK
  <2>2. LevelOK(u)' BY <1>1, <1>2, <2>1 DEF LevelOK, SameStates
  <2>3. ASSUME NEW p \in DOMAIN conv'.states[u], conv'.states[u][p] = "Critical"
        PROVE  /\ In(u, "critical")' /\ ~Leaving(u)'
               /\ Len(conv'.states[u]) - p <= Cardinality(Later(u)') + Wait(u)'
    <3>1. p \in DOMAIN conv.states[u] /\ conv.states[u][p] = "Critical" BY <2>1, <2>3 DEF SameStates
    <3>2. In(u, "critical") /\ ~Leaving(u) /\ Len(conv.states[u]) - p <= Cardinality(Later(u)) + Wait(u)
          BY <2>1, <3>1 DEF Shown
    <3>3. Len(conv'.states[u]) = Len(conv.states[u]) BY <2>1 DEF SameStates
    <3>4. Cardinality(Later(u)') = Cardinality(Later(u)) /\ Wait(u)' = Wait(u) BY <1>1, <1>2
    <3>5. In(u, "critical")' /\ ~Leaving(u)' BY <1>2, <1>3, <3>2
    <3> QED BY <3>2, <3>3, <3>4, <3>5
  <2> QED BY <2>2, <2>3 DEF Shown
<1> QED BY <1>1, <1>4, <1>5, <1>6 DEF ThreadOK

\* A thread whose frames and states stay.
LEMMA OthersStay ==
    ASSUME NEW u \in Threads, frames'[u] = frames[u]
    PROVE  SamePlaces(u) /\ SameMarks(u)
<1>1. SamePlaces(u) BY DEF SamePlaces, Place
<1>2. SameMarks(u) BY DEF SameMarks, Is, Top
<1> QED BY <1>1, <1>2

LEMMA StatesAre ==
    ASSUME TInv, NEW u \in Threads
    PROVE  /\ conv.states[u] \in Seq(States) /\ conv.states[u] # << >>
           /\ Len(conv.states[u]) \in Nat \ {0} /\ DOMAIN conv.states[u] = 1 .. Len(conv.states[u])
<1>1. conv.states[u] \in Seq(States) /\ conv.states[u] # << >> BY StatesOf DEF TInv, WellFormed
<1> QED BY <1>1, LenProperties, FrontIs

\* The state on the top is another.
LEMMA StateSetStays ==
    ASSUME TInv, NEW t \in Threads, NEW x \in States, x # "Critical",
           conv'.states[t] = Append(Front(conv.states[t]), x),
           \A u \in Threads \ {t} : conv'.states[u] = conv.states[u]
    PROVE  \A u \in Threads : SameStates(u)
<1> SUFFICES ASSUME NEW u \in Threads PROVE SameStates(u) OBVIOUS
<1>1. CASE u # t
  <2>1. conv'.states[u] = conv.states[u] BY <1>1
  <2> QED BY <2>1 DEF SameStates
<1>2. CASE u = t
  <2>1. PICK s \in Seq(States) : s = conv.states[t] BY StatesAre
  <2>2. s # << >> /\ Len(s) \in Nat \ {0} /\ DOMAIN s = 1 .. Len(s) BY <2>1, StatesAre
  <2> DEFINE r == Append(Front(s), x)
  <2>3. /\ Len(r) = Len(s) /\ DOMAIN r = DOMAIN s /\ r[Len(s)] = x
        /\ \A i \in 1 .. Len(s) : i # Len(s) => r[i] = s[i]
        BY <2>1, <2>2, TopReplaced
  <2>4. conv'.states[u] = r /\ conv.states[u] = s BY <1>2, <2>1
  <2> HIDE DEF r
  <2>5. \A p \in DOMAIN s : r[p] = "Critical" => s[p] = "Critical" BY <2>2, <2>3
  <2> QED BY <2>3, <2>4, <2>5 DEF SameStates
<1> QED BY <1>1, <1>2

-----------------------------------------------------------------------------
(* The steps of the regions. *)
LEMMA LocalTop ==
    ASSUME TInv, NEW t \in Threads, NEW f \in FrameType, Local(t, f)
    PROVE  /\ frames[t] # << >> /\ frames'[t] # << >> /\ Top(t)' = f
           /\ \A label : Is(t, label)' <=> f.at = label
           /\ \A label : Is(t, label) <=> Top(t).at = label
<1>1. frames[t] # << >> /\ frames'[t] # << >> /\ Len(frames'[t]) = Len(frames[t])
      /\ frames'[t][Len(frames[t])] = f
      BY DEF Local, Replaced
<1>2. Top(t)' = f BY <1>1 DEF Top, Last
<1> QED BY <1>1, <1>2 DEF Is

LEMMA LocalOthers ==
    ASSUME TInv, NEW t \in Threads, NEW f \in FrameType, Local(t, f)
    PROVE  \A u \in Threads \ {t} : frames'[u] = frames[u] /\ SamePlaces(u) /\ SameMarks(u)
<1>1. \A u \in Threads \ {t} : frames'[u] = frames[u] BY DEF Local, Replaced
<1> QED BY <1>1, OthersStay

LEMMA LocalPlaces ==
    ASSUME TInv, NEW t \in Threads, NEW f \in FrameType, Local(t, f), f.open = Top(t).open
    PROVE  SamePlaces(t)
<1>1. SameDomain(t) BY LocalFrame
<1>2. ASSUME NEW i \in DOMAIN frames[t] PROVE frames'[t][i].open = frames[t][i].open
  <2>1. Kept(t, f, t, i) BY LocalFrame
  <2> QED BY <2>1 DEF Kept
<1>3. DOMAIN frames'[t] = DOMAIN frames[t] BY <1>1 DEF SameDomain
<1> QED BY <1>2, <1>3 DEF SamePlaces, Place

LEMMA LocalStays ==
    ASSUME TInv, NEW t \in Threads, NEW f \in FrameType, Local(t, f), f.open = Top(t).open,
           Top(t).at \notin Marks, f.at \notin Marks
    PROVE  \A u \in Threads : SamePlaces(u) /\ SameMarks(u)
<1>1. SamePlaces(t) BY LocalPlaces
<1>2. SameMarks(t) BY LocalTop DEF SameMarks
<1> QED BY <1>1, <1>2, LocalOthers

LEMMA GoesStays ==
    ASSUME TInv, NEW t \in Threads, NEW from \in Places \ Marks, NEW to \in Places \ Marks, GoesTo(t, from, to)
    PROVE  \A u \in Threads : SamePlaces(u) /\ SameMarks(u)
<1> DEFINE f == Moved(t, to, Top(t).open)
<1>1. f \in FrameType /\ f.at = to /\ Local(t, f) /\ f.open = Top(t).open BY DEF GoesTo
<1>2. Top(t).at = from BY DEF GoesTo
<1> HIDE DEF f
<1> QED BY <1>1, <1>2, LocalStays

LEMMA NewFramesStay ==
    ASSUME TInv, FInv, NEW t \in Threads, NEW H \in SUBSET Threads, NEW r \in Nat,
           NewTeam(t, H, r), NewFrames(t, H, r), frames[t] # << >>, Top(t).at = "call"
    PROVE  \A u \in Threads : SamePlaces(u) /\ SameMarks(u)
<1> SUFFICES ASSUME NEW u \in Threads PROVE SamePlaces(u) /\ SameMarks(u) OBVIOUS
<1>1. CASE u = t
  <2>1. PICK l : l = Len(frames[t]) OBVIOUS
  <2>2. LeaderFrames(t, r, l) BY <2>1 DEF NewFrames
  <2>3. /\ l \in Nat \ {0} /\ Len(frames'[t]) = l + 1 /\ DOMAIN frames'[t] = 1 .. l + 1
        /\ \A i \in 1 .. l - 1 : frames'[t][i] = frames[t][i]
        /\ frames'[t][l] = [Top(t) EXCEPT !.at = "run"]
        /\ frames'[t][l + 1].at = "fork" /\ frames'[t][l + 1].open = << >>
        BY <2>2 DEF LeaderFrames, Joining
  <2>4. Top(t) \in FrameType /\ Top(t) = frames[t][l] /\ DOMAIN frames[t] = 1 .. l
        BY <2>1, TopFrame, FramesAre DEF TInv
  <2>5. frames'[t][l].open = frames[t][l].open BY <2>3, <2>4 DEF FrameType
  <2>6. ASSUME NEW i \in 1 .. l PROVE frames'[t][i].open = frames[t][i].open
    <3>1. CASE i = l BY <2>5, <3>1
    <3>2. CASE i # l
      <4>1. i \in 1 .. l - 1 BY <2>3, <3>2
      <4> QED BY <2>3, <4>1
    <3> QED BY <3>1, <3>2
  <2>7. SamePlaces(t)
    <3> SUFFICES ASSUME NEW x \in Constructs, NEW i \in Nat, NEW a \in Nat
                 PROVE  Place(t, x, i, a)' <=> Place(t, x, i, a)
        BY DEF SamePlaces
    <3>1. CASE i \in 1 .. l
      <4>1. i \in 1 .. l + 1 BY <2>3, <3>1
      <4> QED BY <2>3, <2>4, <2>6, <3>1, <4>1 DEF Place
    <3>2. CASE i = l + 1
      <4>1. i \notin DOMAIN frames[t] BY <2>3, <2>4, <3>2
      <4>2. DOMAIN frames'[t][i].open = {} BY <2>3, <3>2
      <4> QED BY <4>1, <4>2 DEF Place
    <3>3. CASE i \notin 1 .. l + 1
      <4>1. i \notin 1 .. l BY <2>3, <3>3
      <4> QED BY <2>3, <2>4, <3>3, <4>1 DEF Place
    <3>4. i \in 1 .. l \/ i = l + 1 \/ i \notin 1 .. l + 1 BY <2>3
    <3> QED BY <3>1, <3>2, <3>3, <3>4
  <2>8. Top(t)'.at = "fork" BY <2>3 DEF Top, Last
  <2>9. SameMarks(t) BY <2>8 DEF SameMarks, Is, Marks
  <2> QED BY <1>1, <2>7, <2>9
<1>2. CASE u \in H
  <2>1. frames[u] = << >> BY <1>2 DEF NewTeam
  <2>2. Len(frames'[u]) = 1 /\ DOMAIN frames'[u] = {1} /\ frames'[u][1].at = "fork" /\ frames'[u][1].open = << >>
        BY <1>2 DEF NewFrames, Joining
  <2>3. SamePlaces(u)
    <3> SUFFICES ASSUME NEW x \in Constructs, NEW i \in Nat, NEW a \in Nat
                 PROVE  ~Place(u, x, i, a)' /\ ~Place(u, x, i, a)
        BY DEF SamePlaces
    <3>1. DOMAIN frames[u] = {} BY <2>1
    <3>2. DOMAIN frames'[u][1].open = {} BY <2>2
    <3>3. ASSUME Place(u, x, i, a)' PROVE FALSE
      <4>1. i = 1 /\ a \in DOMAIN frames'[u][1].open BY <2>2, <3>3 DEF Place
      <4> QED BY <3>2, <4>1
    <3> QED BY <3>1, <3>3 DEF Place
  <2>4. Top(u)'.at = "fork" BY <2>2 DEF Top, Last
  <2>5. SameMarks(u) BY <2>1, <2>4 DEF SameMarks, Is, Marks
  <2> QED BY <2>3, <2>5
<1>3. CASE u # t /\ u \notin H
  <2>1. frames'[u] = frames[u] BY <1>3 DEF NewFrames
  <2> QED BY <2>1, OthersStay
<1> QED BY <1>1, <1>2, <1>3

\* A thread that has no frame, or only one without constructs, and then none.
LEMMA EmptiedStays ==
    ASSUME TInv, FInv, NEW t \in Threads, NEW r \in Nat \ {0}, NEW l \in Nat \ {0}, Emptied(t, r, l)
    PROVE  \A u \in Threads : SamePlaces(u) /\ SameMarks(u)
<1> SUFFICES ASSUME NEW u \in Threads PROVE SamePlaces(u) /\ SameMarks(u) OBVIOUS
<1>1. CASE u = t
  <2>1. /\ frames[t] # << >> /\ Top(t).at = "joined" /\ Top(t).open = << >>
        /\ l = Len(frames[t]) /\ Len(frames'[t]) = l /\ DOMAIN frames'[t] = DOMAIN frames[t]
        /\ \A i \in DOMAIN frames[t] : i # l => frames'[t][i] = frames[t][i]
        /\ frames'[t][l] = [Top(t) EXCEPT !.at = "done"]
        BY DEF Emptied
  <2>2. Top(t) \in FrameType /\ Top(t) = frames[t][l] BY <2>1, TopFrame DEF TInv
  <2>3. frames'[t][l].open = frames[t][l].open /\ frames'[t][l].at = "done" BY <2>1, <2>2 DEF FrameType
  <2>4. \A i \in DOMAIN frames[t] : frames'[t][i].open = frames[t][i].open BY <2>1, <2>3
  <2>5. SamePlaces(t) BY <2>1, <2>4 DEF SamePlaces, Place
  <2>6. Top(t)'.at = "done" BY <2>1, <2>3 DEF Top, Last
  <2>7. SameMarks(t) BY <2>1, <2>6 DEF SameMarks, Is, Marks
  <2> QED BY <1>1, <2>5, <2>7
<1>2. CASE u \in Range(Members(r)) \ {t}
  <2>1. frames'[u] = << >> /\ Len(frames[u]) = 1 /\ Top(u).at = "joined" BY <1>2 DEF Emptied
  <2>1a. DOMAIN frames[u] = 1 .. Len(frames[u]) /\ (frames[u] # << >> <=> Len(frames[u]) # 0)
        BY FramesAre DEF TInv
  <2>2. DOMAIN frames[u] = 1 .. 1 /\ frames[u] # << >> BY <2>1, <2>1a
  <2>3. Top(u) = frames[u][1] /\ Top(u).open = << >> BY <2>1, <2>2, TopFrame, TopOK DEF TInv, Borders
  <2>4. SamePlaces(u)
    <3> SUFFICES ASSUME NEW x \in Constructs, NEW i \in Nat, NEW a \in Nat
                 PROVE  ~Place(u, x, i, a)' /\ ~Place(u, x, i, a)
        BY DEF SamePlaces
    <3>1. DOMAIN frames'[u] = {} BY <2>1
    <3>2. DOMAIN frames[u][1].open = {} BY <2>3
    <3>3. ASSUME Place(u, x, i, a) PROVE FALSE
      <4>1. i = 1 /\ a \in DOMAIN frames[u][1].open BY <2>2, <3>3 DEF Place
      <4> QED BY <3>2, <4>1
    <3> QED BY <3>1, <3>3 DEF Place
  <2>5. SameMarks(u) BY <2>1 DEF SameMarks, Is, Marks
  <2> QED BY <2>4, <2>5
<1>3. CASE u # t /\ u \notin Range(Members(r))
  <2>1. frames'[u] = frames[u] BY <1>3 DEF Emptied
  <2> QED BY <2>1, OthersStay
<1> QED BY <1>1, <1>2, <1>3

LEMMA PoppedStays ==
    ASSUME TInv, FInv, TInv', NEW t \in Threads, NEW l \in Nat \ {0}, Popped(t, l)
    PROVE  \A u \in Threads : SamePlaces(u) /\ SameMarks(u)
<1> SUFFICES ASSUME NEW u \in Threads PROVE SamePlaces(u) /\ SameMarks(u) OBVIOUS
<1>1. CASE u = t
  <2>1. /\ frames[t] # << >> /\ Top(t).at = "done"
        /\ l = Len(frames[t]) /\ Len(frames'[t]) = l - 1 /\ DOMAIN frames'[t] = 1 .. l - 1
        /\ \A i \in 1 .. l - 1 : frames'[t][i] = frames[t][i]
        BY DEF Popped
  <2>2. Top(t) = frames[t][l] /\ DOMAIN frames[t] = 1 .. l BY <2>1, TopFrame, FramesAre DEF TInv
  <2>3. Top(t).open = << >> BY <2>1, TopOK DEF Borders
  <2>4. SamePlaces(t)
    <3> SUFFICES ASSUME NEW x \in Constructs, NEW i \in Nat, NEW a \in Nat
                 PROVE  Place(t, x, i, a)' <=> Place(t, x, i, a)
        BY DEF SamePlaces
    <3>1. CASE i \in 1 .. l - 1
      <4>1. i \in 1 .. l BY <3>1
      <4> QED BY <2>1, <2>2, <3>1, <4>1 DEF Place
    <3>2. CASE i = l
      <4>1. i \notin DOMAIN frames'[t] BY <2>1, <3>2
      <4>2. DOMAIN frames[t][i].open = {} BY <2>2, <2>3, <3>2
      <4> QED BY <4>1, <4>2 DEF Place
    <3>3. CASE i \notin 1 .. l
      <4>1. i \notin 1 .. l - 1 BY <3>3
      <4> QED BY <2>1, <2>2, <3>3, <4>1 DEF Place
    <3>4. i \in 1 .. l - 1 \/ i = l \/ i \notin 1 .. l OBVIOUS
    <3> QED BY <3>1, <3>2, <3>3, <3>4
  <2>5. frames'[t] # << >> => Top(t)'.at = "run"
    <3> SUFFICES ASSUME frames'[t] # << >> PROVE Top(t)'.at = "run" OBVIOUS
    <3>1. frames'[t] \in Seq(FrameType) BY DEF TInv
    <3>2. Len(frames'[t]) # 0 BY <3>1, EmptySeq
    <3>3. l - 1 \in 1 .. l /\ l - 1 \in 1 .. l - 1 /\ l - 1 # l BY <2>1, <3>2
    <3>4. frames[t][l - 1].at = "run" BY <2>1, <2>2, <3>3, TopOK
    <3>5. Top(t)' = frames'[t][l - 1] BY <2>1 DEF Top, Last
    <3> QED BY <2>1, <3>3, <3>4, <3>5
  <2>6. SameMarks(t) BY <2>1, <2>5 DEF SameMarks, Is, Marks
  <2> QED BY <1>1, <2>4, <2>6
<1>2. CASE u # t
  <2>1. frames'[u] = frames[u] BY <1>2 DEF Popped
  <2> QED BY <2>1, OthersStay
<1> QED BY <1>1, <1>2

\* A step of a region changes no construct.
RegionStep(t) ==
    \/ ReadId(t) \/ WriteId(t) \/ RecordStart(t) \/ LibParallelStart(t) \/ RecordFork(t)
    \/ RecordJoin(t) \/ LibParallelEnd(t) \/ RecordJoinDone(t)

StaysAll == /\ \A u \in Threads : SamePlaces(u) /\ SameMarks(u) /\ (~conv'.failed => SameStates(u))
            /\ critical' = critical /\ ~conv.failed

LEMMA SameConv ==
    ASSUME conv'.states = conv.states
    PROVE  \A u \in Threads : SameStates(u)
BY DEF SameStates

LEMMA RegionStays ==
    ASSUME TInv, FInv, TInv', NEW t \in Threads, RegionStep(t)
    PROVE  StaysAll
<1>0. critical' = critical
      BY DEF RegionStep, ReadId, WriteId, RecordStart, LibParallelStart, RecordFork, RecordJoin,
             LibParallelEnd, RecordJoinDone
<1>c. WellFormed(conv) BY DEF TInv
<1>1. CASE ReadId(t)
  <2> DEFINE f == [Top(t) EXCEPT !.at = "incr", !.id = next_section_id]
  <2>1. /\ frames[t] # << >> /\ Top(t).at = "run" /\ ~conv.failed
        /\ Local(t, f) /\ f \in FrameType /\ f.at = "incr" /\ conv' = conv
        BY <1>1, ReadIdIs
  <2>2. f.open = Top(t).open BY <2>1, TopFrame DEF TInv, FrameType
  <2> HIDE DEF f
  <2>3. \A u \in Threads : SamePlaces(u) /\ SameMarks(u) BY <2>1, <2>2, LocalStays DEF Marks
  <2> QED BY <1>0, <2>1, <2>3, SameConv DEF StaysAll
<1>2. CASE WriteId(t)
  <2>1. GoesTo(t, "incr", "start") /\ conv' = conv BY <1>2, WriteIdIs
  <2>2. \A u \in Threads : SamePlaces(u) /\ SameMarks(u) BY <2>1, GoesStays DEF Marks, Places
  <2>3. ~conv.failed BY <2>1 DEF GoesTo
  <2> QED BY <1>0, <2>1, <2>2, <2>3, SameConv DEF StaysAll
<1>3. CASE RecordStart(t)
  <2>1. GoesTo(t, "start", "call") /\ conv' = HandleParallelStart(conv, t, Top(t).id) /\ Top(t).id \in Nat
        BY <1>3, RecordStartIs
  <2>2. \A u \in Threads : SamePlaces(u) /\ SameMarks(u) BY <2>1, GoesStays DEF Marks, Places
  <2>3. ~conv.failed BY <2>1 DEF GoesTo
  <2>4. conv'.states = conv.states BY <2>1, <1>c, StartIs DEF WellFormed
  <2> QED BY <1>0, <2>2, <2>3, <2>4, SameConv DEF StaysAll
<1>4. CASE LibParallelStart(t)
  <2>1. PICK H \in SUBSET Threads, r \in Nat : NewTeam(t, H, r) /\ NewFrames(t, H, r)
        BY <1>4, LibParallelStartIs
  <2>2. frames[t] # << >> /\ Top(t).at = "call" /\ ~conv.failed /\ conv' = conv BY <1>4, LibParallelStartIs
  <2>3. \A u \in Threads : SamePlaces(u) /\ SameMarks(u) BY <2>1, <2>2, NewFramesStay
  <2> QED BY <1>0, <2>2, <2>3, SameConv DEF StaysAll
<1>5. CASE RecordFork(t)
  <2>1. PICK id \in Nat, num \in Nat, n \in Nat : conv' = HandleNewFork(conv, t, id, num, n)
    <3>1. LET team == teams[Top(t).team]
          IN conv' = HandleNewFork(conv, t, team.id, Top(t).num, Len(team.members))
          BY <1>5 DEF RecordFork
    <3>2. frames[t] # << >> /\ Top(t).team # 0
      <4>1. GoesTo(t, "fork", "run") /\ Top(t).team # 0 BY <1>5, RecordForkIs
      <4> QED BY <4>1 DEF GoesTo
    <3> QED BY <3>1, <3>2, RegionOf
  <2>2. GoesTo(t, "fork", "run") BY <1>5, RecordForkIs
  <2>3. \A u \in Threads : SamePlaces(u) /\ SameMarks(u) BY <2>2, GoesStays DEF Marks, Places
  <2>4. ~conv.failed BY <2>2 DEF GoesTo
  <2>5. ASSUME ~conv'.failed PROVE \A u \in Threads : SameStates(u)
    <3>1. ~Fails(conv, id, n) BY <1>c, <2>1, <2>5, Fails1, FailedFormed
    <3>2. Forks(conv, conv', t, num, n, Min(MatchingSections(conv, id))) BY <1>c, <2>1, <3>1, ForkIs
    <3> QED BY <3>2, StateSetStays DEF Forks, States
  <2> QED BY <1>0, <2>3, <2>4, <2>5 DEF StaysAll
<1>6. CASE RecordJoin(t)
  <2>1. GoesTo(t, "run", "joined") /\ conv' = HandleNewJoin(conv, t, Top(t).num) BY <1>6, RecordJoinIs
  <2>2. \A u \in Threads : SamePlaces(u) /\ SameMarks(u) BY <2>1, GoesStays DEF Marks, Places
  <2>3. ~conv.failed /\ frames[t] # << >> BY <2>1 DEF GoesTo
  <2>4. Top(t).num \in Nat BY <2>3, TopFrame DEF TInv, FrameType
  <2>5. ASSUME ~conv'.failed PROVE \A u \in Threads : SameStates(u)
    <3>1. conv.stack[t] # << >> BY <1>c, <2>1, <2>5, Fails2, FailedFormed
    <3>2. Joins(conv, conv', t, Top(t).num, Last(conv.stack[t])) BY <1>c, <2>1, <2>4, <3>1, JoinIs
    <3> QED BY <3>2, StateSetStays DEF Joins, States
  <2> QED BY <1>0, <2>2, <2>3, <2>5 DEF StaysAll
<1>7. CASE LibParallelEnd(t)
  <2>1. PICK r \in Nat \ {0}, l \in Nat \ {0} : Emptied(t, r, l) BY <1>7, LibParallelEndIs
  <2>2. \A u \in Threads : SamePlaces(u) /\ SameMarks(u) BY <2>1, EmptiedStays
  <2>3. ~conv.failed /\ conv' = conv BY <2>1 DEF Emptied
  <2> QED BY <1>0, <2>2, <2>3, SameConv DEF StaysAll
<1>8. CASE RecordJoinDone(t)
  <2>1. PICK l \in Nat \ {0} : Popped(t, l) BY <1>8, RecordJoinDoneIs
  <2>2. \A u \in Threads : SamePlaces(u) /\ SameMarks(u) BY <2>1, PoppedStays
  <2>3. ~conv.failed /\ conv' = HandleJoinDone(conv, t) BY <2>1 DEF Popped
  <2>4. ASSUME ~conv'.failed PROVE \A u \in Threads : SameStates(u)
    <3>1. ~DoneFails(conv, t) BY <1>c, <2>3, <2>4, Fails3, FailedFormed
    <3> DEFINE s == Last(conv.stack[t])
    <3>2. Ends(conv, conv', t, s, Min(MatchingSections(conv, conv.sections[s].id))) BY <1>c, <2>3, <3>1, DoneIs
    <3> QED BY <3>2, StateSetStays DEF Ends, States
  <2> QED BY <1>0, <2>2, <2>3, <2>4 DEF StaysAll
<1> QED BY <1>1, <1>2, <1>3, <1>4, <1>5, <1>6, <1>7, <1>8 DEF RegionStep

LEMMA StaysKeep ==
    ASSUME TInv, TInv', SInv, StaysAll
    PROVE  SInv'
<1>1. \A u \in Threads : ThreadOK(u)' /\ (Holds(u)' <=> Holds(u))
      BY StaysOK DEF StaysAll, SInv
<1>2. Alone' BY <1>1 DEF SInv, Alone, StaysAll
<1> QED BY <1>1, <1>2 DEF SInv

-----------------------------------------------------------------------------
(* The steps of the constructs. *)
LEMMA DoesIs ==
    ASSUME TInv, NEW t \in Threads, NEW from, NEW to, NEW open, Does(t, from, to, open)
    PROVE  /\ frames[t] # << >> /\ ~conv.failed /\ open \in Seq(Constructs)
           /\ \A label : (Is(t, label) <=> from = label) /\ (Is(t, label)' <=> to = label)
           /\ \A u \in Threads \ {t} : SamePlaces(u) /\ SameMarks(u)
           /\ DOMAIN frames'[t] = DOMAIN frames[t] /\ Len(frames[t]) \in DOMAIN frames[t]
           /\ frames[t][Len(frames[t])].open = Top(t).open /\ frames'[t][Len(frames[t])].open = open
           /\ \A i \in DOMAIN frames[t] : i # Len(frames[t]) => frames'[t][i].open = frames[t][i].open
<1>1. PICK f \in FrameType : f = Moved(t, to, open) /\ Local(t, f) /\ f.at = to /\ f.open = open
      BY DEF Does, Local
<1>2. /\ frames[t] # << >> /\ Top(t).at = from /\ ~conv.failed /\ open \in Seq(Constructs) BY DEF Does
<1>3. \A label : (Is(t, label) <=> from = label) /\ (Is(t, label)' <=> to = label)
      BY <1>1, <1>2, LocalTop
<1>4. \A u \in Threads \ {t} : SamePlaces(u) /\ SameMarks(u) BY <1>1, LocalOthers
<1>5. Len(frames[t]) \in DOMAIN frames[t] /\ Top(t) = frames[t][Len(frames[t])] BY <1>2, TopIndex
<1>6. DOMAIN frames'[t] = DOMAIN frames[t] /\ frames'[t][Len(frames[t])] = f
      /\ \A i \in DOMAIN frames[t] : i # Len(frames[t]) => frames'[t][i] = frames[t][i]
      BY <1>1 DEF Local, Replaced
<1> QED BY <1>1, <1>2, <1>3, <1>4, <1>5, <1>6

\* A construct is opened at (m, n), after all that are open.
Appends(t, x, m, n) ==
    /\ m \in Nat /\ n \in Nat
    /\ \A y \in Constructs, i \in Nat, a \in Nat :
          /\ Place(t, y, i, a)' <=> Place(t, y, i, a) \/ (y = x /\ i = m /\ a = n)
          /\ Place(t, y, i, a) => Before(i, a, m, n)

LEMMA AppendsIs ==
    ASSUME TInv, NEW t \in Threads, NEW from, NEW to, NEW x \in Constructs,
           Does(t, from, to, Append(Top(t).open, x))
    PROVE  \E m \in Nat, n \in Nat : Appends(t, x, m, n)
<1> DEFINE o == Append(Top(t).open, x)
<1>1. PICK m : m = Len(frames[t]) OBVIOUS
<1>2. PICK s : s = Top(t).open OBVIOUS
<1>3. PICK r : r = Append(s, x) OBVIOUS
<1>4. /\ frames[t] # << >>
      /\ DOMAIN frames'[t] = DOMAIN frames[t] /\ m \in DOMAIN frames[t]
      /\ frames[t][m].open = s /\ frames'[t][m].open = r
      /\ \A i \in DOMAIN frames[t] : i # m => frames'[t][i].open = frames[t][i].open
  <2>1. PICK open : open = o OBVIOUS
  <2>2. Does(t, from, to, open) BY <2>1
  <2>3. /\ frames[t] # << >>
        /\ DOMAIN frames'[t] = DOMAIN frames[t] /\ Len(frames[t]) \in DOMAIN frames[t]
        /\ frames[t][Len(frames[t])].open = Top(t).open /\ frames'[t][Len(frames[t])].open = open
        /\ \A i \in DOMAIN frames[t] : i # Len(frames[t]) => frames'[t][i].open = frames[t][i].open
        BY <2>2, DoesIs
  <2> QED BY <1>1, <1>2, <1>3, <2>1, <2>3
<1>5. s \in Seq(Constructs) /\ m \in Nat /\ m = Len(frames[t]) /\ DOMAIN frames[t] = 1 .. m
      BY <1>1, <1>2, <1>4, Opens, FramesAre DEF TInv
<1>6. /\ Len(s) \in Nat /\ r \in Seq(Constructs) /\ Len(r) = Len(s) + 1
      /\ \A i \in 1 .. Len(s) : r[i] = s[i]
      /\ r[Len(s) + 1] = x
      BY <1>3, <1>5, AppendIs
<1>7. DOMAIN s = 1 .. Len(s) /\ DOMAIN r = 1 .. Len(s) + 1 BY <1>5, <1>6, LenProperties
<1>8. PICK n \in Nat : n = Len(s) + 1 BY <1>6
<1>9. ASSUME NEW y \in Constructs, NEW i \in Nat, NEW a \in Nat
      PROVE  /\ Place(t, y, i, a)' <=> Place(t, y, i, a) \/ (y = x /\ i = m /\ a = n)
             /\ Place(t, y, i, a) => Before(i, a, m, n)
  <2>1. CASE i # m
    <3>1. Place(t, y, i, a)' <=> Place(t, y, i, a) BY <1>4, <2>1 DEF Place
    <3>2. Place(t, y, i, a) => i < m BY <1>5, <2>1 DEF Place
    <3> QED BY <2>1, <3>1, <3>2 DEF Before
  <2>2. CASE i = m
    <3>1. Place(t, y, i, a) <=> a \in 1 .. Len(s) /\ s[a] = y BY <1>4, <1>7, <2>2 DEF Place
    <3>2. Place(t, y, i, a)' <=> a \in 1 .. Len(s) + 1 /\ r[a] = y BY <1>4, <1>7, <2>2 DEF Place
    <3>3. a \in 1 .. Len(s) + 1 <=> a \in 1 .. Len(s) \/ a = n BY <1>6, <1>8
    <3>4. a \in 1 .. Len(s) => a < n /\ r[a] = s[a] BY <1>6, <1>8
    <3>5. r[n] = x BY <1>6, <1>8
    <3> QED BY <2>2, <3>1, <3>2, <3>3, <3>4, <3>5 DEF Before
  <2> QED BY <2>1, <2>2
<1>10. Appends(t, x, m, n) BY <1>5, <1>9 DEF Appends
<1> QED BY <1>5, <1>10

\* The place of what was at (i, b) when what was at (m, n) is gone, and where it is then.
Old(m, n, i, b) == IF i = m /\ b >= n THEN b + 1 ELSE b
New(m, n, i, a) == IF i = m /\ a > n THEN a - 1 ELSE a

Removes(t, x, m, n) ==
    /\ m \in Nat /\ n \in Nat /\ Place(t, x, m, n)
    /\ \A y \in Constructs, i \in Nat, a \in Nat :
          /\ Place(t, y, i, a)' => Place(t, y, i, Old(m, n, i, a))
          /\ Place(t, y, i, a) /\ ~(i = m /\ a = n) => Place(t, y, i, New(m, n, i, a))' /\ New(m, n, i, a) \in Nat

LEMMA RemovesIs ==
    ASSUME TInv, NEW t \in Threads, NEW from, NEW to, NEW x \in Constructs, x \in Range(Top(t).open),
           Does(t, from, to, Without(Top(t).open, x))
    PROVE  \E m \in Nat, n \in Nat : Removes(t, x, m, n)
<1> DEFINE o == Without(Top(t).open, x)
<1>1. PICK m : m = Len(frames[t]) OBVIOUS
<1>2. PICK s : s = Top(t).open OBVIOUS
<1>3. PICK r : r = Without(s, x) OBVIOUS
<1>4. /\ frames[t] # << >>
      /\ DOMAIN frames'[t] = DOMAIN frames[t] /\ m \in DOMAIN frames[t]
      /\ frames[t][m].open = s /\ frames'[t][m].open = r
      /\ \A i \in DOMAIN frames[t] : i # m => frames'[t][i].open = frames[t][i].open
  <2>1. PICK open : open = o OBVIOUS
  <2>2. Does(t, from, to, open) BY <2>1
  <2>3. /\ frames[t] # << >>
        /\ DOMAIN frames'[t] = DOMAIN frames[t] /\ Len(frames[t]) \in DOMAIN frames[t]
        /\ frames[t][Len(frames[t])].open = Top(t).open /\ frames'[t][Len(frames[t])].open = open
        /\ \A i \in DOMAIN frames[t] : i # Len(frames[t]) => frames'[t][i].open = frames[t][i].open
        BY <2>2, DoesIs
  <2> QED BY <1>1, <1>2, <1>3, <2>1, <2>3
<1>5. s \in Seq(Constructs) /\ m \in Nat /\ m = Len(frames[t]) /\ DOMAIN frames[t] = 1 .. m
      BY <1>1, <1>2, <1>4, Opens, FramesAre DEF TInv
<1>6. PICK k \in DOMAIN s : s[k] = x BY <1>2 DEF Range
<1>7. PICK n \in DOMAIN s : Lacks(s, x, r, n) BY <1>3, <1>5, <1>6, WithoutIs
<1>8. /\ n \in DOMAIN s /\ s[n] = x
      /\ r \in Seq(Constructs) /\ Len(r) = Len(s) - 1
      /\ \A j \in 1 .. Len(s) - 1 : r[j] = IF j < n THEN s[j] ELSE s[j + 1]
      BY <1>7 DEF Lacks
<1>9. PICK len \in Nat : len = Len(s) /\ DOMAIN s = 1 .. len /\ DOMAIN r = 1 .. len - 1
      BY <1>5, <1>8, LenProperties
<1>10. n \in Nat /\ n \in 1 .. len BY <1>8, <1>9
<1>11. \A j \in 1 .. len - 1 : r[j] = IF j < n THEN s[j] ELSE s[j + 1] BY <1>8, <1>9
<1>12. ASSUME NEW y \in Constructs, NEW i \in Nat, NEW a \in Nat
       PROVE  /\ Place(t, y, i, a)' => Place(t, y, i, Old(m, n, i, a))
              /\ Place(t, y, i, a) /\ ~(i = m /\ a = n) =>
                    Place(t, y, i, New(m, n, i, a))' /\ New(m, n, i, a) \in Nat
  <2>1. CASE i # m
    <3>1. Place(t, y, i, a)' <=> Place(t, y, i, a) BY <1>4, <2>1 DEF Place
    <3>2. Old(m, n, i, a) = a /\ New(m, n, i, a) = a BY <2>1 DEF Old, New
    <3> QED BY <3>1, <3>2
  <2>2. CASE i = m
    <3>1. \A b : Place(t, y, i, b) <=> b \in 1 .. len /\ s[b] = y BY <1>4, <1>9, <2>2 DEF Place
    <3>2. \A b : Place(t, y, i, b)' <=> b \in 1 .. len - 1 /\ r[b] = y BY <1>4, <1>9, <2>2 DEF Place
    <3>3. ASSUME Place(t, y, i, a)' PROVE Place(t, y, i, Old(m, n, i, a))
      <4>1. a \in 1 .. len - 1 /\ r[a] = y BY <3>2, <3>3
      <4>2. CASE a < n
        <5>1. Old(m, n, i, a) = a /\ a \in 1 .. len /\ s[a] = y BY <1>10, <1>11, <4>1, <4>2 DEF Old
        <5> QED BY <3>1, <5>1
      <4>3. CASE ~(a < n)
        <5>1. Old(m, n, i, a) = a + 1 /\ a + 1 \in 1 .. len /\ s[a + 1] = y
              BY <1>10, <1>11, <2>2, <4>1, <4>3 DEF Old
        <5> QED BY <3>1, <5>1
      <4> QED BY <4>2, <4>3
    <3>4. ASSUME Place(t, y, i, a), a # n
          PROVE  Place(t, y, i, New(m, n, i, a))' /\ New(m, n, i, a) \in Nat
      <4>1. a \in 1 .. len /\ s[a] = y BY <3>1, <3>4
      <4>2. CASE a < n
        <5>1. New(m, n, i, a) = a /\ a \in 1 .. len - 1 /\ r[a] = y BY <1>10, <1>11, <4>1, <4>2 DEF New
        <5> QED BY <3>2, <5>1
      <4>3. CASE ~(a < n)
        <5>0. a > n BY <1>10, <3>4, <4>3
        <5>1. New(m, n, i, a) = a - 1 /\ a - 1 \in 1 .. len - 1 /\ a - 1 \in Nat
              BY <1>10, <2>2, <4>1, <5>0 DEF New
        <5>2. ~(a - 1 < n) /\ (a - 1) + 1 = a BY <1>10, <5>0
        <5>3. r[a - 1] = s[(a - 1) + 1] BY <1>11, <5>1, <5>2
        <5> QED BY <3>2, <4>1, <5>1, <5>2, <5>3
      <4> QED BY <4>2, <4>3
    <3> QED BY <2>2, <3>3, <3>4
  <2> QED BY <2>1, <2>2
<1>13. Place(t, x, m, n) BY <1>4, <1>8 DEF Place
<1>14. Removes(t, x, m, n) BY <1>5, <1>10, <1>12, <1>13 DEF Removes
<1> QED BY <1>5, <1>10, <1>14

LEMMA Opened ==
    ASSUME TInv, TInv', NEW t \in Threads
    PROVE  /\ Open(t) = {y \in Constructs : In(t, y)} /\ Open(t)' = {y \in Constructs : In(t, y)'}
           /\ IsFiniteSet(Open(t)) /\ Cardinality(Open(t)) \in Nat
           /\ IsFiniteSet(Open(t)') /\ Cardinality(Open(t)') \in Nat
           /\ IsFiniteSet(Later(t)) /\ Cardinality(Later(t)) \in Nat
           /\ IsFiniteSet(Later(t)') /\ Cardinality(Later(t)') \in Nat
<1>1. Open(t) = {y \in Constructs : In(t, y)} BY OpenIs
<1>2. OpensAre' BY OpensTyped, PTL
<1>3. Open(t)' = {y \in Constructs : In(t, y)'} BY <1>2 DEF OpensAre
<1>4. Open(t) \in SUBSET Constructs /\ Open(t)' \in SUBSET Constructs BY <1>1, <1>3
<1>5. Later(t) \in SUBSET Constructs /\ Later(t)' \in SUBSET Constructs BY DEF Later
<1> QED BY <1>1, <1>3, <1>4, <1>5, Sized

LEMMA AppendsPlaces ==
    ASSUME TInv, TInv', NEW t \in Threads, NEW x \in Constructs, NEW m \in Nat, NEW n \in Nat,
           Appends(t, x, m, n), Once(t), ~In(t, x)
    PROVE  /\ Once(t)' /\ \A y \in Constructs : In(t, y)' <=> In(t, y) \/ y = x
           /\ Cardinality(Open(t)') = Cardinality(Open(t)) + 1
           /\ x # "critical" /\ In(t, "critical") => Cardinality(Later(t)') >= Cardinality(Later(t)) + 1
<1>1. \A y \in Constructs, i \in Nat, a \in Nat :
          /\ Place(t, y, i, a)' <=> Place(t, y, i, a) \/ (y = x /\ i = m /\ a = n)
          /\ Place(t, y, i, a) => Before(i, a, m, n)
      BY DEF Appends
<1>2. \A i \in Nat, a \in Nat : ~Place(t, x, i, a) BY DEF In
<1>3. Once(t)'
  <2> SUFFICES ASSUME NEW y \in Constructs, NEW i \in Nat, NEW a \in Nat, NEW j \in Nat, NEW b \in Nat,
                      Place(t, y, i, a)', Place(t, y, j, b)'
               PROVE  i = j /\ a = b
      BY DEF Once
  <2>1. CASE y = x BY <1>1, <1>2, <2>1
  <2>2. CASE y # x
    <3>1. Place(t, y, i, a) /\ Place(t, y, j, b) BY <1>1, <2>2
    <3> QED BY <3>1 DEF Once
  <2> QED BY <2>1, <2>2
<1>4. ASSUME NEW y \in Constructs PROVE In(t, y)' <=> In(t, y) \/ y = x
  <2>1. ASSUME In(t, y)' PROVE In(t, y) \/ y = x
    <3>1. PICK i \in Nat, a \in Nat : Place(t, y, i, a)' BY <2>1 DEF In
    <3> QED BY <1>1, <3>1 DEF In
  <2>2. ASSUME In(t, y) PROVE In(t, y)'
    <3>1. PICK i \in Nat, a \in Nat : Place(t, y, i, a) BY <2>2 DEF In
    <3> QED BY <1>1, <3>1 DEF In
  <2>3. ASSUME y = x PROVE In(t, y)'
    <3>1. Place(t, y, m, n)' BY <1>1, <2>3
    <3> QED BY <3>1 DEF In
  <2> QED BY <2>1, <2>2, <2>3
<1>5. PICK P : P = Open(t) OBVIOUS
<1>6. Open(t)' = P \cup {x} /\ x \notin P /\ IsFiniteSet(P) /\ Cardinality(P) \in Nat
      BY <1>4, <1>5, Opened
<1>7. Cardinality(P \cup {x}) = Cardinality(P) + 1 BY <1>6, FS_AddElement
<1>8. Cardinality(Open(t)') = Cardinality(Open(t)) + 1 BY <1>5, <1>6, <1>7
<1>9. ASSUME x # "critical", In(t, "critical")
      PROVE  Cardinality(Later(t)') >= Cardinality(Later(t)) + 1
  <2>1. PICK P1 : P1 = Later(t) OBVIOUS
  <2>2. PICK P2 : P2 = Later(t)' OBVIOUS
  <2>3. IsFiniteSet(P1) /\ IsFiniteSet(P2) /\ Cardinality(P1) \in Nat /\ Cardinality(P2) \in Nat
        BY <2>1, <2>2, Opened
  <2>4. "critical" \in Constructs BY DEF Constructs
  <2>5. x \notin P1 BY <1>2, <2>1 DEF Later, After
  <2>6. ASSUME NEW y \in P1 PROVE y \in P2
    <3>1. y \in Constructs /\ After(t, y) BY <2>1, <2>6 DEF Later
    <3>2. PICK i \in Nat, a \in Nat, j \in Nat, b \in Nat :
             Place(t, "critical", i, a) /\ Place(t, y, j, b) /\ Before(i, a, j, b)
          BY <3>1 DEF After
    <3>3. Place(t, "critical", i, a)' /\ Place(t, y, j, b)' BY <1>1, <2>4, <3>1, <3>2
    <3>4. After(t, y)' BY <3>2, <3>3 DEF After, Before
    <3> QED BY <2>2, <3>1, <3>4 DEF Later
  <2>7. x \in P2
    <3>1. PICK i \in Nat, a \in Nat : Place(t, "critical", i, a) BY <1>9 DEF In
    <3>2. Place(t, "critical", i, a)' /\ Place(t, x, m, n)' /\ Before(i, a, m, n) BY <1>1, <2>4, <3>1
    <3>3. After(t, x)' BY <3>2 DEF After, Before
    <3> QED BY <2>2, <3>3 DEF Later
  <2>8. P1 \cup {x} \subseteq P2 BY <2>6, <2>7
  <2>9. Cardinality(P1 \cup {x}) = Cardinality(P1) + 1 /\ IsFiniteSet(P1 \cup {x})
        BY <2>3, <2>5, FS_AddElement
  <2>10. Cardinality(P1 \cup {x}) <= Cardinality(P2) BY <2>3, <2>8, FS_Subset
  <2> QED BY <2>1, <2>2, <2>3, <2>9, <2>10
<1> QED BY <1>3, <1>4, <1>8, <1>9

LEMMA RemovesPlaces ==
    ASSUME TInv, TInv', NEW t \in Threads, NEW x \in Constructs, NEW m \in Nat, NEW n \in Nat,
           Removes(t, x, m, n), Once(t)
    PROVE  /\ Once(t)' /\ \A y \in Constructs : In(t, y)' <=> In(t, y) /\ y # x
           /\ In(t, x)
           /\ Cardinality(Open(t)') = Cardinality(Open(t)) - 1
           /\ x # "critical" => Cardinality(Later(t)') >= Cardinality(Later(t)) - 1
<1>1. \A y \in Constructs, i \in Nat, a \in Nat :
          /\ Place(t, y, i, a)' => Place(t, y, i, Old(m, n, i, a))
          /\ Place(t, y, i, a) /\ ~(i = m /\ a = n) => Place(t, y, i, New(m, n, i, a))' /\ New(m, n, i, a) \in Nat
      BY DEF Removes
<1>2. Place(t, x, m, n) BY DEF Removes
<1>3. \A i \in Nat, a \in Nat : Place(t, x, i, a) => i = m /\ a = n BY <1>2 DEF Once
<1>4. \A i, a \in Nat : Old(m, n, i, a) \in Nat /\ ~(i = m /\ Old(m, n, i, a) = n) BY DEF Old
<1>5. \A i, a, b \in Nat : Old(m, n, i, a) = Old(m, n, i, b) => a = b BY DEF Old
<1>6. Once(t)'
  <2> SUFFICES ASSUME NEW y \in Constructs, NEW i \in Nat, NEW a \in Nat, NEW j \in Nat, NEW b \in Nat,
                      Place(t, y, i, a)', Place(t, y, j, b)'
               PROVE  i = j /\ a = b
      BY DEF Once
  <2>1. Place(t, y, i, Old(m, n, i, a)) /\ Place(t, y, j, Old(m, n, j, b)) BY <1>1
  <2>2. i = j /\ Old(m, n, i, a) = Old(m, n, j, b) BY <1>4, <2>1 DEF Once
  <2> QED BY <1>5, <2>2
<1>7. ASSUME NEW y \in Constructs PROVE In(t, y)' <=> In(t, y) /\ y # x
  <2>1. ASSUME In(t, y)' PROVE In(t, y) /\ y # x
    <3>1. PICK i \in Nat, a \in Nat : Place(t, y, i, a)' BY <2>1 DEF In
    <3>2. Place(t, y, i, Old(m, n, i, a)) /\ Old(m, n, i, a) \in Nat BY <1>1, <1>4, <3>1
    <3>3. y # x BY <1>3, <1>4, <3>2
    <3> QED BY <3>2, <3>3 DEF In
  <2>2. ASSUME In(t, y), y # x PROVE In(t, y)'
    <3>1. PICK i \in Nat, a \in Nat : Place(t, y, i, a) BY <2>2 DEF In
    <3>2. ~(i = m /\ a = n) BY <1>2, <2>2, <3>1 DEF Place
    <3>3. Place(t, y, i, New(m, n, i, a))' /\ New(m, n, i, a) \in Nat BY <1>1, <3>1, <3>2
    <3> QED BY <3>3 DEF In
  <2> QED BY <2>1, <2>2
<1>8. In(t, x) BY <1>2 DEF In
<1>9. PICK P : P = Open(t) OBVIOUS
<1>10. Open(t)' = P \ {x} /\ x \in P /\ IsFiniteSet(P) /\ Cardinality(P) \in Nat
      BY <1>7, <1>8, <1>9, Opened
<1>11. Cardinality(P \ {x}) = Cardinality(P) - 1 BY <1>10, FS_RemoveElement
<1>12. Cardinality(Open(t)') = Cardinality(Open(t)) - 1 BY <1>9, <1>10, <1>11
<1>13. ASSUME x # "critical" PROVE Cardinality(Later(t)') >= Cardinality(Later(t)) - 1
  <2>1. PICK P1 : P1 = Later(t) OBVIOUS
  <2>2. PICK P2 : P2 = Later(t)' OBVIOUS
  <2>3. IsFiniteSet(P1) /\ IsFiniteSet(P2) /\ Cardinality(P1) \in Nat /\ Cardinality(P2) \in Nat
        BY <2>1, <2>2, Opened
  <2>4. "critical" \in Constructs BY DEF Constructs
  <2>5. ASSUME NEW y \in P1, y # x PROVE y \in P2
    <3>1. y \in Constructs /\ After(t, y) BY <2>1, <2>5 DEF Later
    <3>2. PICK i \in Nat, a \in Nat, j \in Nat, b \in Nat :
             Place(t, "critical", i, a) /\ Place(t, y, j, b) /\ Before(i, a, j, b)
          BY <3>1 DEF After
    <3>3. ~(i = m /\ a = n) /\ ~(j = m /\ b = n) BY <1>2, <1>13, <2>5, <3>2 DEF Place
    <3>4. /\ Place(t, "critical", i, New(m, n, i, a))' /\ New(m, n, i, a) \in Nat
          /\ Place(t, y, j, New(m, n, j, b))' /\ New(m, n, j, b) \in Nat
          BY <1>1, <2>4, <3>1, <3>2, <3>3
    <3>5. Before(i, New(m, n, i, a), j, New(m, n, j, b)) BY <3>2, <3>3 DEF Before, New
    <3>6. After(t, y)' BY <3>4, <3>5 DEF After, Before
    <3> QED BY <2>2, <3>1, <3>6 DEF Later
  <2>6. P1 \ {x} \subseteq P2 BY <2>5
  <2>7. Cardinality(P1 \ {x}) >= Cardinality(P1) - 1 /\ IsFiniteSet(P1 \ {x})
    <3>1. CASE x \in P1
      <4>1. IsFiniteSet(P1 \ {x}) /\ Cardinality(P1 \ {x}) = Cardinality(P1) - 1
            BY <2>3, <3>1, FS_RemoveElement
      <4> QED BY <2>3, <4>1
    <3>2. CASE x \notin P1
      <4>1. P1 \ {x} = P1 BY <3>2
      <4> QED BY <2>3, <4>1
    <3> QED BY <3>1, <3>2
  <2>8. Cardinality(P1 \ {x}) <= Cardinality(P2) BY <2>3, <2>6, FS_Subset
  <2>9. Cardinality(P1 \ {x}) \in Nat BY <2>7, FS_CardinalityType
  <2> QED BY <2>1, <2>2, <2>3, <2>7, <2>8, <2>9
<1> QED BY <1>6, <1>7, <1>8, <1>12, <1>13

\* Nothing is opened in a critical section that can be left.
LEMMA NothingLater ==
    ASSUME TInv, NEW t \in Threads, Once(t), frames[t] # << >>,
           Top(t).open # << >>, Last(Top(t).open) = "critical"
    PROVE  In(t, "critical") /\ Later(t) = {}
<1>1. PICK m \in Nat : m = Len(frames[t]) /\ m \in DOMAIN frames[t] /\ Top(t) = frames[t][m]
                       /\ DOMAIN frames[t] = 1 .. m
      BY TopIndex, FramesAre DEF TInv
<1>2. PICK s \in Seq(Constructs) : s = Top(t).open BY Opens
<1>3. PICK n \in Nat : n = Len(s) /\ DOMAIN s = 1 .. n /\ n # 0 BY <1>2, LenProperties, EmptySeq
<1>4. n \in DOMAIN s /\ s[n] = "critical" BY <1>2, <1>3 DEF Last
<1>5. Place(t, "critical", m, n) BY <1>1, <1>2, <1>4 DEF Place
<1>6. In(t, "critical") BY <1>5 DEF In
<1>7. ASSUME NEW y \in Constructs PROVE ~After(t, y)
  <2> SUFFICES ASSUME NEW i \in Nat, NEW a \in Nat, NEW j \in Nat, NEW b \in Nat,
                      Place(t, "critical", i, a), Place(t, y, j, b), Before(i, a, j, b)
               PROVE  FALSE
      BY DEF After
  <2>1. i = m /\ a = n BY <1>5 DEF Once, Constructs
  <2>2. j \in 1 .. m /\ (j = m => b \in 1 .. n) BY <1>1, <1>2, <1>3 DEF Place
  <2> QED BY <2>1, <2>2 DEF Before
<1>8. Later(t) = {} BY <1>7 DEF Later
<1> QED BY <1>6, <1>8

\* The states of t become d more, the one on the top being x unless it was there.
Moves(t, d, x) ==
    /\ ~conv'.failed /\ Len(conv'.states[t]) = Len(conv.states[t]) + d /\ Len(conv.states[t]) \in Nat
    /\ \A p \in DOMAIN conv'.states[t] :
          /\ p \in Nat /\ p <= Len(conv.states[t]) + d
          /\ conv'.states[t][p] = "Critical" =>
                \/ p \in DOMAIN conv.states[t] /\ conv.states[t][p] = "Critical"
                \/ x = "Critical" /\ p = Len(conv.states[t]) + d
    /\ \A u \in Threads \ {t} : SameStates(u)

LEMMA StatesMove ==
    ASSUME TInv, ~conv.failed, NEW t \in Threads, NEW s \in Seq(States), Restated(conv, conv', t, s),
           NEW d \in Int, NEW x, Len(s) = Len(conv.states[t]) + d,
           \A p \in 1 .. Len(s) : s[p] = "Critical" =>
              \/ p \in 1 .. Len(conv.states[t]) /\ conv.states[t][p] = "Critical"
              \/ x = "Critical" /\ p = Len(s)
    PROVE  Moves(t, d, x)
<1>1. conv'.states[t] = s /\ ~conv'.failed /\ \A u \in Threads \ {t} : conv'.states[u] = conv.states[u]
      BY DEF Restated
<1>2. DOMAIN s = 1 .. Len(s) /\ Len(s) \in Nat BY LenProperties
<1>3. DOMAIN conv.states[t] = 1 .. Len(conv.states[t]) /\ Len(conv.states[t]) \in Nat BY StatesAre
<1>4. \A u \in Threads \ {t} : SameStates(u) BY <1>1 DEF SameStates
<1>5. ASSUME NEW p \in DOMAIN s
      PROVE  /\ p \in Nat /\ p <= Len(conv.states[t]) + d
             /\ s[p] = "Critical" =>
                   \/ p \in DOMAIN conv.states[t] /\ conv.states[t][p] = "Critical"
                   \/ x = "Critical" /\ p = Len(conv.states[t]) + d
  <2>1. p \in 1 .. Len(s) BY <1>2
  <2> QED BY <1>2, <1>3, <2>1
<1> QED BY <1>1, <1>3, <1>4, <1>5 DEF Moves

LEMMA PushMoves ==
    ASSUME TInv, ~conv.failed, NEW t \in Threads, NEW x \in States, x # "Critical",
           Restated(conv, conv', t, Append(conv.states[t], x))
    PROVE  Moves(t, 1, x)
<1>1. PICK c \in Seq(States) : c = conv.states[t] /\ Len(c) \in Nat BY StatesAre
<1> DEFINE s == Append(c, x)
<1>2. /\ s \in Seq(States) /\ Len(s) = Len(c) + 1
      /\ \A i \in 1 .. Len(c) : s[i] = c[i]
      /\ s[Len(c) + 1] = x
      BY <1>1, AppendIs
<1>3. Restated(conv, conv', t, s) BY <1>1
<1> HIDE DEF s
<1>4. ASSUME NEW p \in 1 .. Len(s), s[p] = "Critical" PROVE p \in 1 .. Len(c) /\ c[p] = "Critical"
  <2>1. p \in 1 .. Len(c) \/ p = Len(c) + 1 BY <1>1, <1>2
  <2> QED BY <1>2, <1>4, <2>1
<1> QED BY <1>1, <1>2, <1>3, <1>4, StatesMove

LEMMA PopMoves ==
    ASSUME TInv, ~conv.failed, NEW t \in Threads, Len(conv.states[t]) > 1,
           Restated(conv, conv', t, IF Len(conv.states[t]) > 1 THEN Front(conv.states[t]) ELSE conv.states[t])
    PROVE  Moves(t, -1, "Blocked")
<1>1. PICK c \in Seq(States) : c = conv.states[t] /\ Len(c) \in Nat /\ c # << >> BY StatesAre
<1> DEFINE s == Front(c)
<1>2. s \in Seq(States) /\ Len(s) = Len(c) - 1 /\ \A i \in 1 .. Len(c) - 1 : s[i] = c[i] BY <1>1, FrontIs
<1>3. Restated(conv, conv', t, s) BY <1>1
<1> HIDE DEF s
<1>4. ASSUME NEW p \in 1 .. Len(s), s[p] = "Critical" PROVE p \in 1 .. Len(c) /\ c[p] = "Critical"
  <2>1. p \in 1 .. Len(c) /\ p \in 1 .. Len(c) - 1 BY <1>1, <1>2
  <2> QED BY <1>2, <1>4, <2>1
<1>5. -1 \in Int /\ Len(s) = Len(c) + -1 BY <1>1, <1>2
<1> QED BY <1>1, <1>2, <1>3, <1>4, <1>5, StatesMove

LEMMA EntersMoves ==
    ASSUME TInv, ~conv.failed, NEW t \in Threads, NEW x \in States, Len(conv.states[t]) > 1,
           conv' = HandleEnters(conv, t, x)
    PROVE  Moves(t, 0, x)
<1>1. PICK c \in Seq(States) : c = conv.states[t] /\ Len(c) \in Nat /\ c # << >> BY StatesAre
<1> DEFINE s == Append(Front(c), x)
<1>2. Restated(conv, conv', t, s) BY <1>1, EntersIs DEF TInv, WellFormed
<1>3. /\ s \in Seq(States) /\ Len(s) = Len(c) /\ s[Len(c)] = x
      /\ \A i \in 1 .. Len(c) : i # Len(c) => s[i] = c[i]
      BY <1>1, TopReplaced
<1> HIDE DEF s
<1>4. ASSUME NEW p \in 1 .. Len(s), s[p] = "Critical"
      PROVE  (p \in 1 .. Len(c) /\ c[p] = "Critical") \/ (x = "Critical" /\ p = Len(s))
      BY <1>1, <1>3, <1>4
<1> QED BY <1>1, <1>2, <1>3, <1>4, StatesMove

LEMMA SameMoves ==
    ASSUME TInv, ~conv.failed, NEW t \in Threads, conv' = conv
    PROVE  Moves(t, 0, "Blocked")
<1>1. conv \in ConvType BY DEF TInv, WellFormed
<1>2. conv.states[t] \in Seq(States) /\ Len(conv.states[t]) \in Nat BY StatesAre
<1>3. Restated(conv, conv', t, conv.states[t]) BY <1>1 DEF Restated
<1> QED BY <1>2, <1>3, StatesMove

\* The marks of a thread that has one.
LEMMA MarkIs ==
    ASSUME NEW t \in Threads, NEW at, \A label : Is(t, label) <=> at = label
    PROVE  /\ Wait(t) = IF at \in {"critical", "in critical", "lock", "in lock"} THEN 1 ELSE 0
           /\ Leave(t) = IF at = "out critical" THEN 1 ELSE 0
           /\ Leaving(t) <=> at = "out critical"
<1>1. Waiting(t) <=> Is(t, "critical") \/ Is(t, "in critical") \/ Is(t, "lock") \/ Is(t, "in lock")
      BY DEF Waiting, Is
<1>2. Leaving(t) <=> Is(t, "out critical") BY DEF Leaving, Is
<1> QED BY <1>1, <1>2 DEF Wait, Leave

LEMMA MarkIsThen ==
    ASSUME NEW t \in Threads, NEW at, \A label : Is(t, label)' <=> at = label
    PROVE  /\ Wait(t)' = IF at \in {"critical", "in critical", "lock", "in lock"} THEN 1 ELSE 0
           /\ Leave(t)' = IF at = "out critical" THEN 1 ELSE 0
           /\ Leaving(t)' <=> at = "out critical"
<1>1. Waiting(t)' <=> Is(t, "critical")' \/ Is(t, "in critical")' \/ Is(t, "lock")' \/ Is(t, "in lock")'
      BY DEF Waiting, Is
<1>2. Leaving(t)' <=> Is(t, "out critical")' BY DEF Leaving, Is
<1> QED BY <1>1, <1>2 DEF Wait, Leave

InCritical == "in critical"
OutCritical == "out critical"
Waits == {"critical", "in critical", "lock", "in lock"}
Openers == {"run", "in critical", "in lock"}
Closers == {"run", "out critical"}

\* What a thread asks for is not open.
Free(t, to) == /\ to \in {"critical", "in critical"} => ~In(t, "critical")
               /\ to \in {"lock", "in lock"} => ~In(t, "lock")

LEMMA Counted ==
    ASSUME TInv, TInv', NEW t \in Threads
    PROVE  /\ Cardinality(Open(t)) \in Nat /\ Cardinality(Open(t)') \in Nat
           /\ Cardinality(Later(t)) \in Nat /\ Cardinality(Later(t)') \in Nat
BY Opened

\* How a step moves the states: it ends a wait, or there is none.
Up(t, from, st) == \E d \in Int : d = (IF from = "run" THEN 1 ELSE 0) /\ Moves(t, d, st)
Down(t, from) == \E d \in Int : d = (IF from = "run" THEN -1 ELSE 0) /\ Moves(t, d, "Blocked")

\* What it makes of the constructs.
Opening(t, from, x) == Does(t, from, "run", Append(Top(t).open, x))
Closing(t, from, x) == x \in Range(Top(t).open) /\ Does(t, from, "run", Without(Top(t).open, x))
Keeping(t, from, to) == Does(t, from, to, Top(t).open)
Innermost(t) == Top(t).open # << >> /\ Last(Top(t).open) = "critical"

\* A thread that opens a construct.
LEMMA OpeningOK ==
    ASSUME TInv, TInv', NEW t \in Threads, NEW x \in Constructs, NEW from \in Openers,
           Opening(t, from, x), ~In(t, x), ThreadOK(t),
           NEW st, Up(t, from, st),
           st = "Critical" => x = "critical", x = "critical" => from = InCritical
    PROVE  ThreadOK(t)' /\ (Holds(t)' => Holds(t))
<1>1. PICK open : open = Append(Top(t).open, x) OBVIOUS
<1>2. Does(t, from, "run", open) BY <1>1 DEF Opening
<1>3. ~conv.failed /\ \A label : (Is(t, label) <=> from = label) /\ (Is(t, label)' <=> "run" = label)
      BY <1>2, DoesIs
<1>4. Wait(t) = (IF from = "run" THEN 0 ELSE 1) /\ Leave(t) = 0 BY <1>3, MarkIs DEF Openers
<1>5. Wait(t)' = 0 /\ Leave(t)' = 0 /\ ~Leaving(t)' BY <1>3, MarkIsThen
<1>6. Once(t) /\ Shown(t) /\ LevelOK(t) BY <1>3 DEF ThreadOK
<1>7. PICK m \in Nat, n \in Nat : Appends(t, x, m, n) BY AppendsIs DEF Opening
<1>8. /\ Once(t)' /\ \A y \in Constructs : In(t, y)' <=> In(t, y) \/ y = x
      /\ Cardinality(Open(t)') = Cardinality(Open(t)) + 1
      /\ x # "critical" /\ In(t, "critical") => Cardinality(Later(t)') >= Cardinality(Later(t)) + 1
      BY <1>6, <1>7, AppendsPlaces
<1>9. Asked(t)' BY <1>3 DEF Asked
<1>d. PICK d \in Int : d = (IF from = "run" THEN 1 ELSE 0) /\ Moves(t, d, st) BY DEF Up
<1>d0. d \in Int BY <1>d
<1>10. PICK o \in Nat, l \in Nat, k \in Nat, q \in Nat : /\ o = Cardinality(Open(t)) /\ l = Cardinality(Later(t))
                                             /\ k = Cardinality(Later(t)') /\ q = Len(conv.states[t])
      BY <1>d, Counted DEF Moves
<1>11. /\ ~conv'.failed /\ Len(conv'.states[t]) = q + d
       /\ \A p \in DOMAIN conv'.states[t] :
             /\ p \in Nat /\ p <= q + d
             /\ conv'.states[t][p] = "Critical" =>
                   \/ p \in DOMAIN conv.states[t] /\ conv.states[t][p] = "Critical"
                   \/ st = "Critical" /\ p = q + d
       BY <1>d, <1>10 DEF Moves
<1>w. PICK w \in Nat : w = Wait(t) /\ d + w = 1
  <2>1. CASE from = "run"
    <3>1. Wait(t) = 0 /\ d = 1 /\ d + 0 = 1 BY <1>4, <1>d, <2>1
    <3> QED BY <3>1
  <2>2. CASE from # "run"
    <3>1. Wait(t) = 1 /\ d = 0 /\ d + 1 = 1 BY <1>4, <1>d, <2>2
    <3> QED BY <3>1
  <2> QED BY <2>1, <2>2
<1>12. q = 1 + o + w BY <1>4, <1>6, <1>10, <1>w DEF LevelOK
<1>12a. q + d = 1 + (o + 1) + 0 - 0
  <2>1. \A a, b, c, e \in Int : a = 1 + b + c /\ e + c = 1 => a + e = 1 + (b + 1) + 0 - 0 OBVIOUS
  <2>2. q \in Int /\ o \in Int /\ w \in Int /\ d \in Int BY <1>d0, <1>10, <1>w
  <2> QED BY <1>12, <1>w, <2>1, <2>2
<1>13. LevelOK(t)' BY <1>5, <1>8, <1>10, <1>11, <1>12a DEF LevelOK
<1>14. ASSUME NEW p \in DOMAIN conv'.states[t], conv'.states[t][p] = "Critical"
       PROVE  /\ In(t, "critical")' /\ ~Leaving(t)'
              /\ Len(conv'.states[t]) - p <= Cardinality(Later(t)') + Wait(t)'
  <2>1. CASE p \in DOMAIN conv.states[t] /\ conv.states[t][p] = "Critical"
    <3>1. In(t, "critical") /\ q - p <= l + w BY <1>6, <1>10, <1>w, <2>1 DEF Shown
    <3>2. x # "critical" BY <3>1
    <3>3. k >= l + 1 BY <1>8, <1>10, <3>1, <3>2
    <3>4. p \in Nat BY <1>11, <1>14
    <3>5. (q + d) - p <= k + 0
      <4>1. \A a, e, c, x1, x2, y \in Int : a - y <= x1 + c /\ x2 >= x1 + 1 /\ e + c = 1 => (a + e) - y <= x2 + 0
            OBVIOUS
      <4>2. q \in Int /\ l \in Int /\ k \in Int /\ w \in Int /\ d \in Int /\ p \in Int BY <1>d0, <1>10, <1>w, <3>4
      <4> QED BY <1>w, <3>1, <3>3, <4>1, <4>2
    <3>6. In(t, "critical")' BY <1>8, <3>1 DEF Constructs
    <3> QED BY <1>5, <1>10, <1>11, <3>5, <3>6
  <2>2. CASE st = "Critical" /\ p = q + d
    <3>1. In(t, "critical")' BY <1>8, <2>2 DEF Constructs
    <3>2. (q + d) - p <= k + 0
      <4>1. \A a, e, x2, y \in Int : y = a + e /\ x2 >= 0 => (a + e) - y <= x2 + 0 OBVIOUS
      <4>2. q \in Int /\ k \in Int /\ k >= 0 /\ d \in Int /\ p \in Int BY <1>d0, <1>10, <1>11, <1>14
      <4> QED BY <2>2, <4>1, <4>2
    <3> QED BY <1>5, <1>10, <1>11, <3>1, <3>2
  <2> QED BY <1>11, <1>14, <2>1, <2>2
<1>15. Shown(t)' BY <1>14 DEF Shown
<1>16. Holds(t)' => Holds(t) BY <1>3, <1>8 DEF Holds, Constructs, InCritical
<1> QED BY <1>8, <1>9, <1>13, <1>15, <1>16 DEF ThreadOK

\* A thread that closes a construct.
LEMMA ClosingOK ==
    ASSUME TInv, TInv', NEW t \in Threads, NEW x \in Constructs, NEW from \in Closers,
           Closing(t, from, x), ThreadOK(t),
           Down(t, from),
           x = "critical" <=> from = OutCritical
    PROVE  ThreadOK(t)' /\ (Holds(t)' => Holds(t)) /\ (x = "critical" => Holds(t) /\ ~Holds(t)')
<1>1. PICK open : open = Without(Top(t).open, x) OBVIOUS
<1>2. Does(t, from, "run", open) BY <1>1 DEF Closing
<1>3. ~conv.failed /\ \A label : (Is(t, label) <=> from = label) /\ (Is(t, label)' <=> "run" = label)
      BY <1>2, DoesIs
<1>4. Wait(t) = 0 /\ Leave(t) = (IF from = "run" THEN 0 ELSE 1) /\ (Leaving(t) <=> from = OutCritical)
      BY <1>3, MarkIs DEF Closers, OutCritical
<1>5. Wait(t)' = 0 /\ Leave(t)' = 0 /\ ~Leaving(t)' BY <1>3, MarkIsThen
<1>6. Once(t) /\ Shown(t) /\ LevelOK(t) BY <1>3 DEF ThreadOK
<1>7. PICK m \in Nat, n \in Nat : Removes(t, x, m, n) BY RemovesIs DEF Closing
<1>8. /\ Once(t)' /\ \A y \in Constructs : In(t, y)' <=> In(t, y) /\ y # x
      /\ In(t, x)
      /\ Cardinality(Open(t)') = Cardinality(Open(t)) - 1
      /\ x # "critical" => Cardinality(Later(t)') >= Cardinality(Later(t)) - 1
      BY <1>6, <1>7, RemovesPlaces
<1>9. Asked(t)' BY <1>3 DEF Asked
<1>d. PICK d \in Int : d = (IF from = "run" THEN -1 ELSE 0) /\ Moves(t, d, "Blocked") BY DEF Down
<1>d0. d \in Int BY <1>d
<1>10. PICK o \in Nat, l \in Nat, k \in Nat, q \in Nat : /\ o = Cardinality(Open(t)) /\ l = Cardinality(Later(t))
                                             /\ k = Cardinality(Later(t)') /\ q = Len(conv.states[t])
      BY <1>d, Counted DEF Moves
<1>11. /\ ~conv'.failed /\ Len(conv'.states[t]) = q + d
       /\ \A p \in DOMAIN conv'.states[t] :
             /\ p \in Nat /\ p <= q + d
             /\ conv'.states[t][p] = "Critical" => p \in DOMAIN conv.states[t] /\ conv.states[t][p] = "Critical"
       BY <1>d, <1>10 DEF Moves
<1>w. PICK w \in Nat : w = Leave(t) /\ d + 1 = w
  <2>1. CASE from = "run"
    <3>1. Leave(t) = 0 /\ d = -1 /\ d + 1 = 0 BY <1>4, <1>d, <2>1
    <3> QED BY <3>1
  <2>2. CASE from # "run"
    <3>1. Leave(t) = 1 /\ d = 0 /\ d + 1 = 1 BY <1>4, <1>d, <2>2
    <3> QED BY <3>1
  <2> QED BY <2>1, <2>2
<1>12. q = 1 + o + 0 - w BY <1>4, <1>6, <1>10, <1>w DEF LevelOK
<1>12a. q + d = 1 + (o - 1) + 0 - 0
  <2>1. \A a, b, c, e \in Int : a = 1 + b + 0 - c /\ e + 1 = c => a + e = 1 + (b - 1) + 0 - 0 OBVIOUS
  <2>2. q \in Int /\ o \in Int /\ w \in Int /\ d \in Int BY <1>d0, <1>10, <1>w
  <2> QED BY <1>12, <1>w, <2>1, <2>2
<1>13. LevelOK(t)' BY <1>5, <1>8, <1>10, <1>11, <1>12a DEF LevelOK
<1>14. ASSUME NEW p \in DOMAIN conv'.states[t], conv'.states[t][p] = "Critical"
       PROVE  /\ In(t, "critical")' /\ ~Leaving(t)'
              /\ Len(conv'.states[t]) - p <= Cardinality(Later(t)') + Wait(t)'
  <2>1. p \in DOMAIN conv.states[t] /\ conv.states[t][p] = "Critical" /\ p \in Nat BY <1>11, <1>14
  <2>2. In(t, "critical") /\ ~Leaving(t) /\ q - p <= l + 0 BY <1>4, <1>6, <1>10, <2>1 DEF Shown
  <2>3. x # "critical" /\ from = "run" BY <1>4, <2>2 DEF Closers, OutCritical
  <2>4. k >= l - 1 BY <1>8, <1>10, <2>3
  <2>4a. d = -1 /\ p \in Nat BY <1>d, <2>1, <2>3
  <2>5. (q + d) - p <= k + 0
    <3>1. \A a, x1, x2, y \in Int : a - y <= x1 + 0 /\ x2 >= x1 - 1 => (a + -1) - y <= x2 + 0 OBVIOUS
    <3>2. q \in Int /\ l \in Int /\ k \in Int /\ p \in Int BY <1>10, <2>4a
    <3> QED BY <2>2, <2>4, <2>4a, <3>1, <3>2
  <2>6. In(t, "critical")' BY <1>8, <2>2, <2>3 DEF Constructs
  <2> QED BY <1>5, <1>10, <1>11, <2>5, <2>6
<1>15. Shown(t)' BY <1>14 DEF Shown
<1>16. (Holds(t)' => Holds(t)) /\ (x = "critical" => Holds(t) /\ ~Holds(t)')
       BY <1>3, <1>8 DEF Holds, Constructs, OutCritical, Closers
<1> QED BY <1>8, <1>9, <1>13, <1>15, <1>16 DEF ThreadOK

\* A thread that begins to wait, or ends it.
LEMMA WaitingOK ==
    ASSUME TInv, TInv', NEW t \in Threads, NEW from \in {"run", "critical", "lock"}, NEW to \in Waits,
           Keeping(t, from, to), ThreadOK(t),
           Free(t, to),
           Up(t, from, "Blocked")
    PROVE  ThreadOK(t)' /\ (to # "in critical" => (Holds(t)' => Holds(t)))
<1>1. PICK open : open = Top(t).open OBVIOUS
<1>2. Does(t, from, to, open) BY <1>1 DEF Keeping
<1>3. ~conv.failed /\ \A label : (Is(t, label) <=> from = label) /\ (Is(t, label)' <=> to = label)
      BY <1>2, DoesIs
<1>4. Wait(t) = (IF from = "run" THEN 0 ELSE 1) /\ Leave(t) = 0 BY <1>3, MarkIs
<1>5. Wait(t)' = 1 /\ Leave(t)' = 0 /\ ~Leaving(t)' BY <1>3, MarkIsThen DEF Waits
<1>6. Once(t) /\ Shown(t) /\ LevelOK(t) BY <1>3 DEF ThreadOK
<1>7. SamePlaces(t)
  <2>1. PICK f \in FrameType : Local(t, f) /\ f.open = Top(t).open BY <1>1, <1>2 DEF Does, Local
  <2> QED BY <2>1, LocalPlaces
<1>8. /\ \A y \in Constructs : In(t, y)' <=> In(t, y)
      /\ Once(t)' /\ Open(t)' = Open(t) /\ Later(t)' = Later(t)
      BY <1>6, <1>7, PlacesStay
<1>8a. (In(t, "critical")' <=> In(t, "critical")) /\ (In(t, "lock")' <=> In(t, "lock")) BY <1>8 DEF Constructs
<1>9. Asked(t)' BY <1>3, <1>8a DEF Asked, Free
<1>d. PICK d \in Int : d = (IF from = "run" THEN 1 ELSE 0) /\ Moves(t, d, "Blocked") BY DEF Up
<1>d0. d \in Int BY <1>d
<1>10. PICK o \in Nat, l \in Nat, q \in Nat : /\ o = Cardinality(Open(t)) /\ l = Cardinality(Later(t))
                                              /\ q = Len(conv.states[t])
      BY <1>d, Counted DEF Moves
<1>11. /\ ~conv'.failed /\ Len(conv'.states[t]) = q + d
       /\ \A p \in DOMAIN conv'.states[t] :
             /\ p \in Nat /\ p <= q + d
             /\ conv'.states[t][p] = "Critical" => p \in DOMAIN conv.states[t] /\ conv.states[t][p] = "Critical"
       BY <1>d, <1>10 DEF Moves
<1>w. PICK w \in Nat : w = Wait(t) /\ d + w = 1
  <2>1. CASE from = "run"
    <3>1. Wait(t) = 0 /\ d = 1 /\ d + 0 = 1 BY <1>4, <1>d, <2>1
    <3> QED BY <3>1
  <2>2. CASE from # "run"
    <3>1. Wait(t) = 1 /\ d = 0 /\ d + 1 = 1 BY <1>4, <1>d, <2>2
    <3> QED BY <3>1
  <2> QED BY <2>1, <2>2
<1>12. q = 1 + o + w BY <1>4, <1>6, <1>10, <1>w DEF LevelOK
<1>12a. q + d = 1 + o + 1 - 0
  <2>1. \A a, b, c, e \in Int : a = 1 + b + c /\ e + c = 1 => a + e = 1 + b + 1 - 0 OBVIOUS
  <2>2. q \in Int /\ o \in Int /\ w \in Int /\ d \in Int BY <1>d0, <1>10, <1>w
  <2> QED BY <1>12, <1>w, <2>1, <2>2
<1>13. LevelOK(t)' BY <1>5, <1>8, <1>10, <1>11, <1>12a DEF LevelOK
<1>14. ASSUME NEW p \in DOMAIN conv'.states[t], conv'.states[t][p] = "Critical"
       PROVE  /\ In(t, "critical")' /\ ~Leaving(t)'
              /\ Len(conv'.states[t]) - p <= Cardinality(Later(t)') + Wait(t)'
  <2>1. p \in DOMAIN conv.states[t] /\ conv.states[t][p] = "Critical" /\ p \in Nat BY <1>11, <1>14
  <2>2. In(t, "critical") /\ q - p <= l + w BY <1>6, <1>10, <1>w, <2>1 DEF Shown
  <2>3. (q + d) - p <= l + 1
    <3>1. \A a, e, c, x1, y \in Int : a - y <= x1 + c /\ e + c = 1 => (a + e) - y <= x1 + 1 OBVIOUS
    <3>2. q \in Int /\ l \in Int /\ w \in Int /\ d \in Int /\ p \in Int BY <1>d0, <1>10, <1>w, <2>1
    <3> QED BY <1>w, <2>2, <3>1, <3>2
  <2> QED BY <1>5, <1>8, <1>8a, <1>10, <1>11, <2>2, <2>3
<1>15. Shown(t)' BY <1>14 DEF Shown
<1>16. to # "in critical" => (Holds(t)' => Holds(t)) BY <1>3, <1>8a DEF Holds
<1> QED BY <1>8, <1>9, <1>13, <1>15, <1>16 DEF ThreadOK

\* A thread that records the end of its critical section.
LEMMA EndingOK ==
    ASSUME TInv, TInv', NEW t \in Threads, Keeping(t, "run", OutCritical), ThreadOK(t),
           Innermost(t), Down(t, "run")
    PROVE  ThreadOK(t)' /\ (Holds(t)' => Holds(t))
<1>1. PICK open : open = Top(t).open OBVIOUS
<1>2. Does(t, "run", OutCritical, open) BY <1>1 DEF Keeping
<1>3. /\ frames[t] # << >> /\ ~conv.failed
      /\ \A label : (Is(t, label) <=> "run" = label) /\ (Is(t, label)' <=> OutCritical = label)
      BY <1>2, DoesIs
<1>4. Wait(t) = 0 /\ Leave(t) = 0 BY <1>3, MarkIs
<1>5. Wait(t)' = 0 /\ Leave(t)' = 1 BY <1>3, MarkIsThen DEF OutCritical
<1>6. Once(t) /\ Shown(t) /\ LevelOK(t) BY <1>3 DEF ThreadOK
<1>7. SamePlaces(t)
  <2>1. PICK f \in FrameType : Local(t, f) /\ f.open = Top(t).open BY <1>1, <1>2 DEF Does, Local
  <2> QED BY <2>1, LocalPlaces
<1>8. /\ \A y \in Constructs : In(t, y)' <=> In(t, y)
      /\ Once(t)' /\ Open(t)' = Open(t) /\ Later(t)' = Later(t)
      BY <1>6, <1>7, PlacesStay
<1>9. Asked(t)' BY <1>3 DEF Asked, OutCritical
<1>d. Moves(t, -1, "Blocked") BY DEF Down
<1>10. PICK o \in Nat, q \in Nat : o = Cardinality(Open(t)) /\ q = Len(conv.states[t]) BY <1>d, Counted DEF Moves
<1>11. /\ ~conv'.failed /\ Len(conv'.states[t]) = q + -1
       /\ \A p \in DOMAIN conv'.states[t] :
             /\ p \in Nat /\ p <= q + -1
             /\ conv'.states[t][p] = "Critical" => p \in DOMAIN conv.states[t] /\ conv.states[t][p] = "Critical"
       BY <1>d, <1>10 DEF Moves
<1>12. q = 1 + o + 0 - 0 BY <1>4, <1>6, <1>10 DEF LevelOK
<1>12a. q + -1 = 1 + o + 0 - 1 BY <1>10, <1>12
<1>13. LevelOK(t)' BY <1>5, <1>8, <1>10, <1>11, <1>12a DEF LevelOK
<1>14. ASSUME NEW p \in DOMAIN conv'.states[t] PROVE conv'.states[t][p] # "Critical"
  <2>1. SUFFICES ASSUME conv'.states[t][p] = "Critical" PROVE FALSE OBVIOUS
  <2>2. p \in DOMAIN conv.states[t] /\ conv.states[t][p] = "Critical" /\ p \in Nat /\ p <= q + -1
        BY <1>11, <1>14, <2>1
  <2>3. q - p <= Cardinality(Later(t)) + 0 BY <1>4, <1>6, <1>10, <2>2 DEF Shown
  <2>4. Cardinality(Later(t)) = 0
    <3>1. Later(t) = {} BY <1>3, <1>6, NothingLater DEF Innermost
    <3> QED BY <3>1, FS_EmptySet
  <2>5. q - p <= 0 + 0 BY <2>3, <2>4
  <2>6. q \in Nat BY <1>10
  <2> QED BY <2>2, <2>5, <2>6
<1>15. Shown(t)' BY <1>14 DEF Shown
<1>16. Holds(t)' => Holds(t) BY <1>3, <1>8 DEF Holds, Constructs, OutCritical
<1> QED BY <1>8, <1>9, <1>13, <1>15, <1>16 DEF ThreadOK

-----------------------------------------------------------------------------
(* The steps of the constructs, one by one. *)

\* A step of t alone, after which its constructs and states are as they should be.
Own(t) == /\ ThreadOK(t)' /\ ~conv.failed
          /\ \A u \in Threads \ {t} : SamePlaces(u) /\ SameMarks(u) /\ SameStates(u)

LEMMA OwnIs ==
    ASSUME TInv, NEW t \in Threads, NEW from, NEW to, NEW open, Does(t, from, to, open),
           NEW d, NEW x, Moves(t, d, x), ThreadOK(t)'
    PROVE  Own(t)
<1>1. ~conv.failed /\ \A u \in Threads \ {t} : SamePlaces(u) /\ SameMarks(u) BY DoesIs
<1>2. \A u \in Threads \ {t} : SameStates(u) BY DEF Moves
<1> QED BY <1>1, <1>2 DEF Own

LEMMA OwnKeeps ==
    ASSUME TInv, TInv', SInv, NEW t \in Threads, Own(t),
           \/ (Holds(t)' => Holds(t)) /\ critical' = critical
           \/ ~critical /\ critical'
           \/ Holds(t) /\ ~Holds(t)'
    PROVE  SInv'
<1>1. \A u \in Threads \ {t} : ThreadOK(u)' /\ (Holds(u)' <=> Holds(u)) BY StaysOK DEF Own, SInv
<1>2. \A u \in Threads : ThreadOK(u)' BY <1>1 DEF Own
<1>3. Alone'
  <2>1. CASE (Holds(t)' => Holds(t)) /\ critical' = critical
    <3>1. \A u \in Threads : Holds(u)' => Holds(u) BY <1>1, <2>1
    <3> QED BY <2>1, <3>1 DEF SInv, Alone
  <2>2. CASE ~critical /\ critical'
    <3>1. \A u \in Threads : ~Holds(u) BY <2>2 DEF SInv, Alone
    <3>2. \A u \in Threads : Holds(u)' => u = t BY <1>1, <3>1
    <3> QED BY <2>2, <3>2 DEF Alone
  <2>3. CASE Holds(t) /\ ~Holds(t)'
    <3>1. \A u \in Threads : Holds(u) => u = t BY <2>3 DEF SInv, Alone
    <3>2. \A u \in Threads : ~Holds(u)' BY <1>1, <2>3, <3>1
    <3> QED BY <3>2 DEF Alone
  <2> QED BY <2>1, <2>2, <2>3
<1> QED BY <1>2, <1>3 DEF SInv

\* Under the state of a construct, or of a wait, is another.
LEMMA OpenStates ==
    ASSUME TInv, NEW t \in Threads, ThreadOK(t), ~conv.failed, NEW x \in Constructs, In(t, x), ~Leaving(t)
    PROVE  Len(conv.states[t]) > 1
<1>1. PICK P : P = Open(t) OBVIOUS
<1>2. P = {y \in Constructs : In(t, y)} BY <1>1, OpenIs
<1>3. x \in P /\ P \in SUBSET Constructs BY <1>2
<1>4. IsFiniteSet(P) /\ Cardinality(P) \in Nat BY <1>3, Sized
<1>5. Cardinality(P) # 0 BY <1>3, <1>4, FS_EmptySet
<1>6. PICK o \in Nat : o = Cardinality(P) BY <1>4
<1>7. PICK w \in Nat : w = Wait(t) BY DEF Wait
<1>8. Leave(t) = 0 BY DEF Leave
<1>9. Len(conv.states[t]) = 1 + o + w - 0 BY <1>1, <1>6, <1>7, <1>8 DEF ThreadOK, LevelOK
<1>10. o # 0 /\ o \in Nat /\ w \in Nat BY <1>5, <1>6, <1>7
<1> QED BY <1>9, <1>10

LEMMA WaitStates ==
    ASSUME TInv, NEW t \in Threads, ThreadOK(t), ~conv.failed, NEW from \in Waits, Is(t, from)
    PROVE  Len(conv.states[t]) > 1
<1>1. PICK P : P = Open(t) OBVIOUS
<1>2. P = {y \in Constructs : In(t, y)} BY <1>1, OpenIs
<1>3. P \in SUBSET Constructs BY <1>2
<1>4. PICK o \in Nat : o = Cardinality(P) BY <1>3, Sized
<1>5. Waiting(t) /\ ~Leaving(t) BY DEF Is, Waiting, Leaving, Waits
<1>6. Wait(t) = 1 /\ Leave(t) = 0 BY <1>5 DEF Wait, Leave
<1>7. Len(conv.states[t]) = 1 + o + 1 - 0 BY <1>1, <1>4, <1>6 DEF ThreadOK, LevelOK
<1>8. o \in Nat BY <1>4
<1> QED BY <1>7, <1>8

LEMMA UpPush ==
    ASSUME TInv, ~conv.failed, NEW t \in Threads, NEW x \in States, x # "Critical",
           Restated(conv, conv', t, Append(conv.states[t], x))
    PROVE  Up(t, "run", x)
<1>1. Moves(t, 1, x) BY PushMoves
<1> QED BY <1>1 DEF Up

LEMMA UpEnters ==
    ASSUME TInv, ~conv.failed, NEW t \in Threads, ThreadOK(t), NEW from \in Waits, Is(t, from),
           NEW x \in States, conv' = HandleEnters(conv, t, x)
    PROVE  Up(t, from, x)
<1>1. Len(conv.states[t]) > 1 BY WaitStates
<1>2. Moves(t, 0, x) BY <1>1, EntersMoves
<1>3. from # "run" BY DEF Waits
<1> QED BY <1>2, <1>3 DEF Up

LEMMA UpSame ==
    ASSUME TInv, ~conv.failed, NEW t \in Threads, NEW from, from # "run", conv' = conv
    PROVE  Up(t, from, "Blocked") /\ Down(t, from)
<1>1. Moves(t, 0, "Blocked") BY SameMoves
<1> QED BY <1>1 DEF Up, Down

LEMMA DownPop ==
    ASSUME TInv, ~conv.failed, NEW t \in Threads, ThreadOK(t), NEW x \in Constructs, In(t, x), ~Leaving(t),
           Restated(conv, conv', t, IF Len(conv.states[t]) > 1 THEN Front(conv.states[t]) ELSE conv.states[t])
    PROVE  Down(t, "run")
<1>1. Len(conv.states[t]) > 1 BY OpenStates
<1>2. Moves(t, -1, "Blocked") BY <1>1, PopMoves
<1> QED BY <1>2 DEF Down

LEMMA InTop ==
    ASSUME TInv, NEW t \in Threads, frames[t] # << >>, NEW x \in Range(Top(t).open)
    PROVE  x \in Constructs /\ In(t, x)
<1>1. Len(frames[t]) \in DOMAIN frames[t] /\ Top(t) = frames[t][Len(frames[t])] BY TopIndex
<1>2. x \in Open(t) BY <1>1 DEF Open
<1> QED BY <1>2, OpenIs

LEMMA NotOpen ==
    ASSUME TInv, NEW t \in Threads, NEW x \in Constructs, MayEnter(t, x)
    PROVE  ~In(t, x)
BY OpenIs DEF MayEnter

-----------------------------------------------------------------------------
LEMMA OpensKeep ==
    ASSUME TInv, TInv', SInv, NEW t \in Threads, NEW x \in Constructs, NEW from \in Openers, NEW st,
           Opening(t, from, x), ~In(t, x), Up(t, from, st), critical' = critical,
           st = "Critical" => x = "critical", x = "critical" => from = InCritical
    PROVE  SInv'
<1>1. ThreadOK(t) BY DEF SInv
<1>2. ThreadOK(t)' /\ (Holds(t)' => Holds(t)) BY <1>1, OpeningOK
<1>3. PICK open : open = Append(Top(t).open, x) OBVIOUS
<1>4. Does(t, from, "run", open) BY <1>3 DEF Opening
<1>5. PICK d \in Int : Moves(t, d, st) BY DEF Up
<1>6. Own(t) BY <1>2, <1>4, <1>5, OwnIs
<1> QED BY <1>2, <1>6, OwnKeeps

LEMMA ClosesKeep ==
    ASSUME TInv, TInv', SInv, NEW t \in Threads, NEW x \in Constructs, NEW from \in Closers,
           Closing(t, from, x), Down(t, from), x # "critical" => critical' = critical,
           x = "critical" <=> from = OutCritical
    PROVE  SInv'
<1>1. ThreadOK(t) BY DEF SInv
<1>2. ThreadOK(t)' /\ (Holds(t)' => Holds(t)) /\ (x = "critical" => Holds(t) /\ ~Holds(t)')
      BY <1>1, ClosingOK
<1>3. PICK open : open = Without(Top(t).open, x) OBVIOUS
<1>4. Does(t, from, "run", open) BY <1>3 DEF Closing
<1>5. PICK d \in Int : Moves(t, d, "Blocked") BY DEF Down
<1>6. Own(t) BY <1>2, <1>4, <1>5, OwnIs
<1> QED BY <1>2, <1>6, OwnKeeps

LEMMA WaitsKeep ==
    ASSUME TInv, TInv', SInv, NEW t \in Threads, NEW from \in {"run", "critical", "lock"}, NEW to \in Waits,
           Keeping(t, from, to), Free(t, to), Up(t, from, "Blocked"),
           \/ to # InCritical /\ critical' = critical
           \/ ~critical /\ critical'
    PROVE  SInv'
<1>1. ThreadOK(t) BY DEF SInv
<1>2. ThreadOK(t)' /\ (to # "in critical" => (Holds(t)' => Holds(t))) BY <1>1, WaitingOK
<1>3. PICK open : open = Top(t).open OBVIOUS
<1>4. Does(t, from, to, open) BY <1>3 DEF Keeping
<1>5. PICK d \in Int : Moves(t, d, "Blocked") BY DEF Up
<1>6. Own(t) BY <1>2, <1>4, <1>5, OwnIs
<1>7. to # InCritical => (Holds(t)' => Holds(t)) BY <1>2 DEF InCritical
<1> QED BY <1>6, <1>7, OwnKeeps

LEMMA EndsKeep ==
    ASSUME TInv, TInv', SInv, NEW t \in Threads, Keeping(t, "run", OutCritical), Innermost(t), Down(t, "run"),
           critical' = critical
    PROVE  SInv'
<1>1. ThreadOK(t) BY DEF SInv
<1>2. ThreadOK(t)' /\ (Holds(t)' => Holds(t)) BY <1>1, EndingOK
<1>3. PICK open : open = Top(t).open OBVIOUS
<1>4. Does(t, "run", OutCritical, open) BY <1>3 DEF Keeping
<1>5. PICK d \in Int : Moves(t, d, "Blocked") BY DEF Down
<1>6. Own(t) BY <1>2, <1>4, <1>5, OwnIs
<1> QED BY <1>2, <1>6, OwnKeeps

ConstructStep(t) ==
    \/ EnterPlain(t) \/ ExitPlain(t) \/ AskCritical(t) \/ LibCriticalStart(t) \/ RecordCritical(t)
    \/ RecordCriticalEnd(t) \/ LibCriticalEnd(t)
    \/ AskLock(t) \/ LibSetLock(t) \/ RecordLocked(t) \/ UnsetLock(t)

LEMMA ConstructsKeep ==
    ASSUME TInv, FInv, TInv', SInv, NEW t \in Threads, ConstructStep(t)
    PROVE  SInv'
<1>0. ThreadOK(t) BY DEF SInv
<1>1. CASE EnterPlain(t)
  <2>1. Opening(t, "run", "plain") /\ Restated(conv, conv', t, Append(conv.states[t], "Construct"))
        BY <1>1, EnterPlainIs DEF Opening
  <2>2. ~conv.failed /\ MayEnter(t, "plain") /\ critical' = critical BY <1>1 DEF EnterPlain, MayEnter, At
  <2>3. Up(t, "run", "Construct") BY <2>1, <2>2, UpPush DEF States
  <2>4. ~In(t, "plain") BY <2>2, NotOpen DEF Constructs
  <2> QED BY <2>1, <2>2, <2>3, <2>4, OpensKeep DEF Constructs, Openers
<1>2. CASE ExitPlain(t)
  <2>1. /\ Restated(conv, conv', t, IF Len(conv.states[t]) > 1 THEN Front(conv.states[t]) ELSE conv.states[t])
        /\ Does(t, "run", "run", Without(Top(t).open, "plain"))
        BY <1>2, ExitPlainIs
  <2>2. /\ ~conv.failed /\ critical' = critical /\ frames[t] # << >> /\ Top(t).at = "run"
        /\ Top(t).open # << >> /\ Last(Top(t).open) = "plain"
        BY <1>2 DEF ExitPlain, At
  <2>3. "plain" \in Range(Top(t).open) BY <2>2, Opens
  <2>4. "plain" \in Constructs /\ In(t, "plain") BY <2>2, <2>3, InTop
  <2>5. ~Leaving(t) BY <2>2 DEF Leaving
  <2>6. Down(t, "run") BY <1>0, <2>1, <2>2, <2>4, <2>5, DownPop
  <2>7. Closing(t, "run", "plain") BY <2>1, <2>3 DEF Closing
  <2> QED BY <2>2, <2>4, <2>6, <2>7, ClosesKeep DEF Closers, OutCritical
<1>3. CASE AskCritical(t)
  <2>1. Keeping(t, "run", "critical") /\ Restated(conv, conv', t, Append(conv.states[t], "Blocked"))
        BY <1>3, AskCriticalIs DEF Keeping
  <2>2. ~conv.failed /\ MayEnter(t, "critical") /\ critical' = critical BY <1>3 DEF AskCritical, MayEnter, At
  <2>3. Up(t, "run", "Blocked") BY <2>1, <2>2, UpPush DEF States
  <2>4. Free(t, "critical") BY <2>2, NotOpen DEF Constructs, Free
  <2> QED BY <2>1, <2>2, <2>3, <2>4, WaitsKeep DEF Waits, InCritical
<1>4. CASE LibCriticalStart(t)
  <2>1. Keeping(t, "critical", "in critical") /\ conv' = conv BY <1>4, LibCriticalStartIs DEF Keeping
  <2>2. ~conv.failed /\ ~critical /\ critical' /\ Is(t, "critical") BY <1>4 DEF LibCriticalStart, At, Is
  <2>3. Up(t, "critical", "Blocked") BY <2>1, <2>2, UpSame
  <2>4. Free(t, "in critical") BY <1>0, <2>2 DEF ThreadOK, Asked, Free
  <2> QED BY <2>1, <2>2, <2>3, <2>4, WaitsKeep DEF Waits, InCritical
<1>5. CASE RecordCritical(t)
  <2>1. Opening(t, "in critical", "critical") /\ conv' = HandleEnters(conv, t, "Critical")
        BY <1>5, RecordCriticalIs DEF Opening
  <2>2. ~conv.failed /\ critical' = critical /\ Is(t, "in critical") BY <1>5 DEF RecordCritical, At, Is
  <2>3. Up(t, "in critical", "Critical") BY <1>0, <2>1, <2>2, UpEnters DEF States, Waits
  <2>4. ~In(t, "critical") BY <1>0, <2>2 DEF ThreadOK, Asked
  <2> QED BY <2>1, <2>2, <2>3, <2>4, OpensKeep DEF Constructs, Openers, InCritical
<1>6. CASE RecordCriticalEnd(t)
  <2>1. /\ Keeping(t, "run", OutCritical)
        /\ Restated(conv, conv', t, IF Len(conv.states[t]) > 1 THEN Front(conv.states[t]) ELSE conv.states[t])
        BY <1>6, RecordCriticalEndIs DEF Keeping, OutCritical
  <2>2. /\ ~conv.failed /\ critical' = critical /\ frames[t] # << >> /\ Top(t).at = "run"
        /\ Innermost(t)
        BY <1>6 DEF RecordCriticalEnd, At, Innermost
  <2>3. In(t, "critical") BY <1>0, <2>2, NothingLater DEF Innermost, ThreadOK
  <2>4. ~Leaving(t) BY <2>2 DEF Leaving
  <2>5. Down(t, "run") BY <1>0, <2>1, <2>2, <2>3, <2>4, DownPop DEF Constructs
  <2> QED BY <2>1, <2>2, <2>5, EndsKeep
<1>7. CASE LibCriticalEnd(t)
  <2>1. Does(t, "out critical", "run", Without(Top(t).open, "critical")) /\ conv' = conv
        BY <1>7, FInvLeaving, LibCriticalEndIs
  <2>2. /\ ~conv.failed /\ frames[t] # << >> /\ Top(t).at = "out critical"
        /\ Top(t).open # << >> /\ Last(Top(t).open) = "critical"
        BY <1>7, FInvLeaving DEF LibCriticalEnd, At, LeavingOpen
  <2>3. "critical" \in Range(Top(t).open) BY <2>2, Opens
  <2>4. Closing(t, OutCritical, "critical") BY <2>1, <2>3 DEF Closing, OutCritical
  <2>5. Down(t, OutCritical) BY <2>1, <2>2, UpSame DEF OutCritical
  <2> QED BY <2>4, <2>5, ClosesKeep DEF Closers, OutCritical, Constructs
<1>8. CASE AskLock(t)
  <2>1. Keeping(t, "run", "lock") /\ Restated(conv, conv', t, Append(conv.states[t], "Blocked"))
        BY <1>8, AskLockIs DEF Keeping
  <2>2. ~conv.failed /\ MayEnter(t, "lock") /\ critical' = critical BY <1>8 DEF AskLock, MayEnter, At
  <2>3. Up(t, "run", "Blocked") BY <2>1, <2>2, UpPush DEF States
  <2>4. Free(t, "lock") BY <2>2, NotOpen DEF Constructs, Free
  <2> QED BY <2>1, <2>2, <2>3, <2>4, WaitsKeep DEF Waits, InCritical
<1>9. CASE LibSetLock(t)
  <2>1. Keeping(t, "lock", "in lock") /\ conv' = conv BY <1>9, LibSetLockIs DEF Keeping
  <2>2. ~conv.failed /\ critical' = critical /\ Is(t, "lock") BY <1>9 DEF LibSetLock, At, Is
  <2>3. Up(t, "lock", "Blocked") BY <2>1, <2>2, UpSame
  <2>4. Free(t, "in lock") BY <1>0, <2>2 DEF ThreadOK, Asked, Free
  <2> QED BY <2>1, <2>2, <2>3, <2>4, WaitsKeep DEF Waits, InCritical
<1>10. CASE RecordLocked(t)
  <2>1. Opening(t, "in lock", "lock") /\ conv' = HandleEnters(conv, t, "Locked")
        BY <1>10, RecordLockedIs DEF Opening
  <2>2. ~conv.failed /\ critical' = critical /\ Is(t, "in lock") BY <1>10 DEF RecordLocked, At, Is
  <2>3. Up(t, "in lock", "Locked") BY <1>0, <2>1, <2>2, UpEnters DEF States, Waits
  <2>4. ~In(t, "lock") BY <1>0, <2>2 DEF ThreadOK, Asked
  <2> QED BY <2>1, <2>2, <2>3, <2>4, OpensKeep DEF Constructs, Openers
<1>11. CASE UnsetLock(t)
  <2>1. /\ Restated(conv, conv', t, IF Len(conv.states[t]) > 1 THEN Front(conv.states[t]) ELSE conv.states[t])
        /\ Does(t, "run", "run", Without(Top(t).open, "lock"))
        BY <1>11, UnsetLockIs
  <2>2. /\ ~conv.failed /\ critical' = critical /\ frames[t] # << >> /\ Top(t).at = "run"
        /\ "lock" \in Range(Top(t).open)
        BY <1>11 DEF UnsetLock, At
  <2>3. "lock" \in Constructs /\ In(t, "lock") BY <2>2, InTop
  <2>4. ~Leaving(t) BY <2>2 DEF Leaving
  <2>5. Down(t, "run") BY <1>0, <2>1, <2>2, <2>3, <2>4, DownPop
  <2>6. Closing(t, "run", "lock") BY <2>1, <2>2 DEF Closing
  <2> QED BY <2>2, <2>3, <2>5, <2>6, ClosesKeep DEF Closers, OutCritical
<1> QED BY <1>1, <1>2, <1>3, <1>4, <1>5, <1>6, <1>7, <1>8, <1>9, <1>10, <1>11 DEF ConstructStep

LEMMA InitShown == Init => SInv
<1> SUFFICES ASSUME Init PROVE SInv OBVIOUS
<1>1. TInv BY InitFrames
<1>2. ASSUME NEW t \in Threads
      PROVE  /\ \A i \in DOMAIN frames[t] : frames[t][i].open = << >>
             /\ \A label \in Marks : ~Is(t, label)
             /\ conv.states[t] = << "Working" >>
  <2>1. frames[t] = << Frame(0, 0, "run") >> \/ frames[t] = << >> BY DEF Init
  <2>2. CASE frames[t] = << Frame(0, 0, "run") >>
    <3>1. DOMAIN frames[t] = {1} /\ Len(frames[t]) = 1 /\ frames[t][1].open = << >> /\ frames[t][1].at = "run"
          BY <2>2 DEF Frame
    <3>2. Top(t).at = "run" BY <3>1 DEF Top, Last
    <3>3. conv.states[t] = << "Working" >> BY DEF Init
    <3> QED BY <3>1, <3>2, <3>3 DEF Is, Marks
  <2>3. CASE frames[t] = << >>
    <3>1. conv.states[t] = << "Working" >> BY DEF Init
    <3> QED BY <2>3, <3>1 DEF Is
  <2> QED BY <2>1, <2>2, <2>3
<1>3. ASSUME NEW t \in Threads PROVE ThreadOK(t) /\ ~Holds(t)
  <2>1. \A x, i, a : ~Place(t, x, i, a) BY <1>2 DEF Place
  <2>2. \A x : ~In(t, x) BY <2>1 DEF In
  <2>3. Once(t) /\ Asked(t) /\ ~Holds(t) BY <1>2, <2>1, <2>2 DEF Once, Asked, Holds, Marks
  <2>4. ~Waiting(t) /\ ~Leaving(t) BY <1>2 DEF Waiting, Leaving, Is, Marks
  <2>5. Wait(t) = 0 /\ Leave(t) = 0 BY <2>4 DEF Wait, Leave
  <2>6. PICK P : P = Open(t) OBVIOUS
  <2>7. P = {} BY <1>1, <2>2, <2>6, OpenIs
  <2>8. Cardinality(P) = 0 BY <2>7, FS_EmptySet
  <2>9. PICK s : s = conv.states[t] OBVIOUS
  <2>9a. s = << "Working" >> BY <1>2, <2>9
  <2>10. Len(s) = 1 /\ DOMAIN s = {1} /\ s[1] # "Critical" BY <2>9a
  <2>11. Len(conv.states[t]) = 1 /\ Cardinality(Open(t)) = 0 BY <2>6, <2>8, <2>9, <2>10
  <2>12. LevelOK(t) BY <2>5, <2>11 DEF LevelOK
  <2>13. Shown(t) BY <2>9, <2>10 DEF Shown
  <2> QED BY <2>3, <2>12, <2>13 DEF ThreadOK
<1> QED BY <1>3 DEF SInv, Alone

LEMMA StutterShown ==
    ASSUME TInv, TInv', SInv, UNCHANGED vars
    PROVE  SInv'
<1>1. frames' = frames /\ conv' = conv /\ critical' = critical BY DEF vars
<1>2. ASSUME NEW u \in Threads PROVE ThreadOK(u)' /\ (Holds(u)' <=> Holds(u))
  <2>1. SamePlaces(u) /\ SameMarks(u) BY <1>1, OthersStay
  <2>2. SameStates(u) BY <1>1, SameConv
  <2>3. ~conv'.failed => ~conv.failed BY <1>1
  <2> QED BY <2>1, <2>2, <2>3, StaysOK DEF SInv
<1> QED BY <1>1, <1>2 DEF SInv, Alone

LEMMA StepShown ==
    ASSUME TInv, FInv, TInv', SInv, NEW t \in Threads, Step(t)
    PROVE  SInv'
<1>1. RegionStep(t) \/ ConstructStep(t) BY DEF Step, RegionStep, ConstructStep
<1>2. CASE RegionStep(t)
  <2>1. StaysAll BY <1>2, RegionStays
  <2> QED BY <2>1, StaysKeep
<1>3. CASE ConstructStep(t) BY <1>3, ConstructsKeep
<1> QED BY <1>1, <1>2, <1>3

LEMMA ShownFromStates ==
    ASSUME TInv, SInv
    PROVE  StatesShown
<1> SUFFICES ASSUME ~conv.failed
             PROVE  /\ \A t \in Threads : Len(conv.states[t]) = 1 + Pushed(t)
                    /\ \A t, u \in Threads : "Critical" \in Range(conv.states[t]) \cap Range(conv.states[u])
                          => t = u
    BY DEF StatesShown
<1>1. ASSUME NEW t \in Threads PROVE Len(conv.states[t]) = 1 + Pushed(t)
  <2>1. PICK P : P = Open(t) OBVIOUS
  <2>2. P \in SUBSET Constructs BY <2>1, OpenIs
  <2>3. PICK o \in Nat : o = Cardinality(P) BY <2>2, Sized
  <2>4. PICK w \in Nat : w = Wait(t) BY DEF Wait
  <2>5. PICK l \in Nat : l = Leave(t) BY DEF Leave
  <2>6. Len(conv.states[t]) = 1 + o + w - l
        BY <2>1, <2>3, <2>4, <2>5 DEF SInv, ThreadOK, LevelOK
  <2>7. Pushed(t) = o + w - l BY <2>1, <2>3, <2>4, <2>5 DEF Pushed, Wait, Leave
  <2>8. 1 + o + w - l = 1 + (o + w - l) BY <2>3, <2>4, <2>5
  <2> QED BY <2>6, <2>7, <2>8
<1>2. ASSUME NEW t \in Threads, "Critical" \in Range(conv.states[t]) PROVE Holds(t)
  <2>1. PICK p \in DOMAIN conv.states[t] : conv.states[t][p] = "Critical" BY <1>2 DEF Range
  <2> QED BY <2>1 DEF SInv, ThreadOK, Shown, Holds
<1>3. \A t, u \in Threads : "Critical" \in Range(conv.states[t]) \cap Range(conv.states[u]) => t = u
      BY <1>2 DEF SInv, Alone
<1> QED BY <1>1, <1>3

(* For any threads, regions and constructs, a thread shows one state more  *)
(* than it has constructs open, and no two threads show the critical       *)
(* section together.                                                       *)
THEOREM StatesShownHolds == Spec => []StatesShown
<1>1. Init => SInv BY InitShown
<1>2. TInv /\ FInv /\ TInv' /\ SInv /\ [Next]_vars => SInv'
      BY StepShown, StutterShown DEF Next
<1>3. Spec => [](TInv /\ FInv) BY FramesFormed
<1>4. TInv /\ SInv => StatesShown BY ShownFromStates
<1> QED BY <1>1, <1>2, <1>3, <1>4, PTL DEF Spec
============================================================================
