-------------------------- MODULE PthreadLocks_proofs --------------------------
(***************************************************************************)
(* For any number of threads, locks and programs: as long as the module's  *)
(* destructor has not run, the wrappers keep the exclusion of mutexes and  *)
(* spin locks, across trylocks that fail and waits on conditions.  And the *)
(* converter behind them attributes the locks to the threads that have     *)
(* them, adds up sections that do not overlap, and shows the states of the *)
(* threads as they are, in whatever order the threads record their events. *)
(***************************************************************************)
EXTENDS PthreadLocks, SequenceTheorems, WellFoundedInduction, TLAPS

M == Mutexes \cup Spins

Has(t, l) == \E i \in DOMAIN held[t] : held[t][i] = l
Once(s) == \A i, j \in DOMAIN s : s[i] = s[j] /\ s[i] \in M => i = j
OnceFor(s, l) == \A i, j \in DOMAIN s : s[i] = l /\ s[j] = l => i = j

Labels == {"app", "waiting", "got", "blocked", "woken", "tried", "failed", "releasing"}

(* The variables that the exclusion depends on have their kinds, and where *)
(* a thread is in a wrapper goes with the call that it makes.              *)
KInv ==
    /\ work \in Programs
    /\ next \in [Threads -> Nat \ {0}]
    /\ at \in [Threads -> Labels]
    /\ owner \in [Exclusive -> Threads \cup {NoThread}]
    /\ held \in [Threads -> Seq(Exclusive)]
    /\ \A t \in Threads :
         /\ at[t] # "app" => next[t] <= Len(work[t])
         /\ at[t] \in {"waiting", "got"} => Call(t).op \in Blocking
         /\ at[t] \in {"tried", "failed"} => Call(t).op = "trylock"
         /\ at[t] \in {"blocked", "woken"} => Call(t).op = "wait"
         /\ at[t] = "releasing" => Call(t).op = "unlock"

(* A thread has what its program has locked and not unlocked; while it is  *)
(* in an unlock, the program is not past it yet.                           *)
Programmed(t) ==
    \A l \in Mutexes : LockedBefore(work[t], next[t], l) =>
        Has(t, l) \/ (at[t] = "releasing" /\ Call(t).lock = l)
PInv == \A t \in Threads : Programmed(t)

(* The exclusive locks that a thread has are its own, but for the mutex of *)
(* the condition that it waits on, and so is the lock that a wrapper has   *)
(* got and not given to it yet, or has not released yet.                   *)
Owns(t) ==
    /\ \A i \in DOMAIN held[t] : held[t][i] \in M =>
          \/ owner[held[t][i]] = t
          \/ at[t] \in {"blocked", "woken"} /\ Call(t).mutex = held[t][i]
    /\ at[t] = "tried" \/ (at[t] = "got" /\ Call(t).op = "lock")
          \/ (at[t] = "releasing" /\ Call(t).lock \in M)
       => owner[Call(t).lock] = t /\ ~Has(t, Call(t).lock)
    /\ Once(held[t])
OInv == initialized => \A t \in Threads : Owns(t)

-----------------------------------------------------------------------------
(* Programs and sequences. *)

LEMMA CallFits ==
    ASSUME KInv, NEW t \in Threads, next[t] <= Len(work[t])
    PROVE  /\ Fits(Call(t))
           /\ next[t] \in DOMAIN work[t]
           /\ Call(t).op = "wait" => LockedBefore(work[t], next[t], Call(t).mutex)
BY ProgramsAssumption DEF KInv, Call

LEMMA AppendHas ==
    ASSUME NEW s \in Seq(Exclusive), NEW l \in Exclusive
    PROVE  /\ Append(s, l) \in Seq(Exclusive)
           /\ \A k : (\E i \in DOMAIN Append(s, l) : Append(s, l)[i] = k)
                       <=> k = l \/ \E i \in DOMAIN s : s[i] = k
           /\ Once(s) /\ (l \in M => \A i \in DOMAIN s : s[i] # l) => Once(Append(s, l))
           /\ \A k : OnceFor(s, k) /\ (k = l => \A i \in DOMAIN s : s[i] # l) => OnceFor(Append(s, l), k)
<1> DEFINE r == Append(s, l)
<1>1. r \in Seq(Exclusive) /\ Len(r) = Len(s) + 1 /\ DOMAIN r = 1 .. Len(s) + 1
      /\ DOMAIN s = 1 .. Len(s) /\ Len(s) \in Nat
      OBVIOUS
<1>2. \A i \in 1 .. Len(s) : r[i] = s[i] OBVIOUS
<1>3. r[Len(s) + 1] = l OBVIOUS
<1> HIDE DEF r
<1>4. \A k : (\E i \in DOMAIN r : r[i] = k) <=> k = l \/ \E i \in DOMAIN s : s[i] = k
  <2> TAKE k
  <2>1. ASSUME NEW i \in DOMAIN r, r[i] = k PROVE k = l \/ \E j \in DOMAIN s : s[j] = k
        BY <1>1, <1>2, <1>3, <2>1
  <2>2. k = l => \E i \in DOMAIN r : r[i] = k BY <1>1, <1>3
  <2>3. ASSUME NEW j \in DOMAIN s, s[j] = k PROVE \E i \in DOMAIN r : r[i] = k
        BY <1>1, <1>2, <2>3
  <2> QED BY <2>1, <2>2, <2>3
<1>5. ASSUME Once(s), l \in M => \A i \in DOMAIN s : s[i] # l PROVE Once(r)
  <2> SUFFICES ASSUME NEW i \in DOMAIN r, NEW j \in DOMAIN r, r[i] = r[j], r[i] \in M PROVE i = j
      BY DEF Once
  <2>1. CASE i \in 1 .. Len(s) /\ j \in 1 .. Len(s) BY <1>1, <1>2, <1>5, <2>1 DEF Once
  <2>2. CASE i = Len(s) + 1 /\ j \in 1 .. Len(s) BY <1>1, <1>2, <1>3, <1>5, <2>2
  <2>3. CASE j = Len(s) + 1 /\ i \in 1 .. Len(s) BY <1>1, <1>2, <1>3, <1>5, <2>3
  <2> QED BY <1>1, <2>1, <2>2, <2>3
<1>6. ASSUME NEW k, OnceFor(s, k), k = l => \A i \in DOMAIN s : s[i] # l PROVE OnceFor(r, k)
  <2> SUFFICES ASSUME NEW i \in DOMAIN r, NEW j \in DOMAIN r, r[i] = k, r[j] = k PROVE i = j
      BY DEF OnceFor
  <2>1. CASE i \in 1 .. Len(s) /\ j \in 1 .. Len(s) BY <1>1, <1>2, <1>6, <2>1 DEF OnceFor
  <2>2. CASE i = Len(s) + 1 /\ j \in 1 .. Len(s) BY <1>1, <1>2, <1>3, <1>6, <2>2
  <2>3. CASE j = Len(s) + 1 /\ i \in 1 .. Len(s) BY <1>1, <1>2, <1>3, <1>6, <2>3
  <2> QED BY <1>1, <2>1, <2>2, <2>3
<1> QED BY <1>1, <1>4, <1>5, <1>6 DEF r

LEMMA PositionIs ==
    ASSUME NEW s \in Seq(Exclusive), NEW l, \E i \in DOMAIN s : s[i] = l
    PROVE  /\ PositionOf(s, l) \in DOMAIN s
           /\ s[PositionOf(s, l)] = l
           /\ \A j \in DOMAIN s : s[j] = l => j <= PositionOf(s, l)
<1> DEFINE I == {i \in DOMAIN s : s[i] = l}
           D == {Len(s) - i : i \in I}
<1>1. Len(s) \in Nat /\ DOMAIN s = 1 .. Len(s) OBVIOUS
<1>2. D \subseteq Nat /\ D # {} BY <1>1
<1>3. PICK d \in D : \A e \in D : d <= e
  <2>1. PICK d \in D : \A e \in D : <<e, d>> \notin OpToRel(<, Nat)
        BY <1>2, NatLessThanWellFounded, WFMin
  <2>2. \A e \in D : e \in Nat /\ ~(e < d) BY <1>2, <2>1 DEF OpToRel
  <2>3. d \in D /\ d \in Nat BY <1>2, <2>1
  <2> HIDE DEF D
  <2>4. \A e \in D : d <= e BY <2>2, <2>3
  <2> QED BY <2>3, <2>4
<1>4. PICK i \in I : d = Len(s) - i BY <1>3
<1>5. ASSUME NEW j \in I PROVE j <= i
  <2>1. Len(s) - j \in D OBVIOUS
  <2>2. Len(s) - i <= Len(s) - j BY <1>3, <1>4, <2>1
  <2>3. i \in Nat /\ j \in Nat BY <1>1
  <2> QED BY <1>1, <2>2, <2>3
<1>6. \E k \in DOMAIN s : s[k] = l /\ \A j \in DOMAIN s : s[j] = l => j <= k BY <1>4, <1>5
<1> QED BY <1>6 DEF PositionOf

(* What is left of the locks of a thread that gives the lock l back.       *)
LEMMA RemoveHas ==
    ASSUME NEW s \in Seq(Exclusive), NEW l, \E i \in DOMAIN s : s[i] = l
    PROVE  LET r == RemoveAt(s, PositionOf(s, l))
           IN /\ r \in Seq(Exclusive)
              /\ \A i \in DOMAIN r : \E j \in DOMAIN s : r[i] = s[j]
              /\ \A k : k # l /\ (\E i \in DOMAIN s : s[i] = k) => \E i \in DOMAIN r : r[i] = k
              /\ Once(s) => Once(r)
              /\ Once(s) /\ l \in M => \A i \in DOMAIN r : r[i] # l
              /\ \A k : OnceFor(s, k) => OnceFor(r, k)
              /\ OnceFor(s, l) => \A i \in DOMAIN r : r[i] # l
<1> DEFINE n == PositionOf(s, l)
           r == RemoveAt(s, n)
           Back(i) == IF i < n THEN i ELSE i + 1
<1>0. Len(s) \in Nat /\ DOMAIN s = 1 .. Len(s) OBVIOUS
<1>1. n \in 1 .. Len(s) /\ s[n] = l BY <1>0, PositionIs
<1> HIDE DEF n
<1>2. r \in Seq(Exclusive) /\ Len(r) = Len(s) - 1 /\ DOMAIN r = 1 .. Len(s) - 1
      /\ \A i \in DOMAIN r : r[i] = s[Back(i)]
  <2> DEFINE a == SubSeq(s, 1, n - 1)
             b == SubSeq(s, n + 1, Len(s))
  <2>1. a \in Seq(Exclusive) /\ Len(a) = n - 1 /\ \A i \in 1 .. n - 1 : a[i] = s[i]
    <3>1. \A i \in 1 .. n - 1 : s[i] \in Exclusive BY <1>0, <1>1
    <3> QED BY <1>0, <1>1, <3>1, SubSeqProperties
  <2>2. b \in Seq(Exclusive) /\ Len(b) = Len(s) - n /\ \A i \in 1 .. Len(s) - n : b[i] = s[i + n]
    <3>1. \A i \in n + 1 .. Len(s) : s[i] \in Exclusive BY <1>0, <1>1
    <3>2. n + 1 \in Int /\ Len(s) \in Int BY <1>0, <1>1
    <3>3. /\ b \in Seq(Exclusive)
          /\ Len(b) = IF n + 1 <= Len(s) THEN Len(s) - (n + 1) + 1 ELSE 0
          /\ \A i \in 1 .. Len(s) - (n + 1) + 1 : b[i] = s[n + 1 + i - 1]
          BY <3>1, <3>2, SubSeqProperties
    <3> HIDE DEF b
    <3>4. Len(b) = Len(s) - n
      <4>1. Len(b) = IF n + 1 <= Len(s) THEN Len(s) - (n + 1) + 1 ELSE 0 BY <3>3
      <4>2. Len(s) \in Nat /\ n \in Nat /\ n <= Len(s) BY <1>0, <1>1
      <4>3. CASE n + 1 <= Len(s) BY <4>1, <4>2, <4>3
      <4>4. CASE ~(n + 1 <= Len(s)) BY <4>1, <4>2, <4>4
      <4> QED BY <4>3, <4>4
    <3>5. Len(s) - (n + 1) + 1 = Len(s) - n /\ \A i \in 1 .. Len(s) - n : n + 1 + i - 1 = i + n
          BY <1>0, <1>1
    <3> QED BY <3>3, <3>4, <3>5
  <2>3. r = a \o b BY DEF RemoveAt
  <2> HIDE DEF a, b, r
  <2>4. /\ r \in Seq(Exclusive) /\ Len(r) = Len(a) + Len(b)
        /\ \A i \in 1 .. Len(a) + Len(b) : r[i] = IF i <= Len(a) THEN a[i] ELSE b[i - Len(a)]
        BY <2>1, <2>2, <2>3, ConcatProperties
  <2>5. Len(r) = Len(s) - 1 /\ DOMAIN r = 1 .. Len(s) - 1 BY <1>0, <1>1, <2>1, <2>2, <2>4
  <2>6. ASSUME NEW i \in DOMAIN r PROVE r[i] = s[Back(i)]
    <3>0. i \in 1 .. Len(s) - 1 /\ i \in 1 .. Len(a) + Len(b) /\ Len(a) = n - 1
      <4>1. Len(a) + Len(b) = Len(s) - 1 BY <1>0, <1>1, <2>1, <2>2
      <4> QED BY <2>1, <2>5, <4>1
    <3>1. CASE i < n
      <4>1. i <= Len(a) /\ i \in 1 .. n - 1 BY <1>0, <1>1, <3>0, <3>1
      <4>2. r[i] = a[i] BY <2>4, <3>0, <4>1
      <4> QED BY <2>1, <3>1, <4>1, <4>2
    <3>2. CASE ~(i < n)
      <4>1. r[i] = b[i - (n - 1)] /\ i - (n - 1) \in 1 .. Len(s) - n
        <5>1. ~(i <= Len(a)) BY <1>0, <1>1, <3>0, <3>2
        <5>2. r[i] = b[i - Len(a)] BY <2>4, <3>0, <5>1
        <5>3. i - (n - 1) \in 1 .. Len(s) - n BY <1>0, <1>1, <3>0, <3>2
        <5> QED BY <3>0, <5>2, <5>3
      <4>2. b[i - (n - 1)] = s[i - (n - 1) + n] BY <2>2, <4>1
      <4>3. i - (n - 1) + n = i + 1 BY <1>0, <1>1, <2>5
      <4> QED BY <3>2, <4>1, <4>2, <4>3
    <3> QED BY <3>1, <3>2
  <2> QED BY <2>4, <2>5, <2>6
<1> HIDE DEF r
<1>3. \A i \in DOMAIN r : Back(i) \in DOMAIN s /\ Back(i) # n BY <1>0, <1>1, <1>2
<1>4. \A j \in DOMAIN s : j # n => \E i \in DOMAIN r : Back(i) = j
  <2> SUFFICES ASSUME NEW j \in DOMAIN s, j # n PROVE \E i \in DOMAIN r : Back(i) = j OBVIOUS
  <2>1. CASE j < n
    <3>1. j \in DOMAIN r /\ Back(j) = j BY <1>0, <1>1, <1>2, <2>1
    <3> QED BY <3>1
  <2>2. CASE j > n
    <3>1. j - 1 \in DOMAIN r /\ Back(j - 1) = j BY <1>0, <1>1, <1>2, <2>2
    <3> QED BY <3>1
  <2> QED BY <1>0, <1>1, <2>1, <2>2
<1>5. \A i, j \in DOMAIN r : Back(i) = Back(j) => i = j BY <1>0, <1>1, <1>2
<1> HIDE DEF Back
<1>6. \A k : k # l /\ (\E i \in DOMAIN s : s[i] = k) => \E i \in DOMAIN r : r[i] = k
      BY <1>1, <1>2, <1>4
<1>7. Once(s) => Once(r) BY <1>2, <1>3, <1>5 DEF Once
<1>8. Once(s) /\ l \in M => \A i \in DOMAIN r : r[i] # l BY <1>0, <1>1, <1>2, <1>3 DEF Once
<1>9. ASSUME NEW k, OnceFor(s, k) PROVE OnceFor(r, k) BY <1>2, <1>3, <1>5, <1>9 DEF OnceFor
<1>10. OnceFor(s, l) => \A i \in DOMAIN r : r[i] # l BY <1>0, <1>1, <1>2, <1>3 DEF OnceFor
<1> QED BY <1>2, <1>3, <1>6, <1>7, <1>8, <1>9, <1>10 DEF r, n
-----------------------------------------------------------------------------
(* Where the threads are. *)

OwnerOK(f) == f \in [Exclusive -> Threads \cup {NoThread}]
HeldOK(f) == f \in [Threads -> Seq(Exclusive)]

(* What the step of one thread leaves of the others. *)
Alone(t) ==
    \A u \in Threads \ {t} : next'[u] = next[u] /\ at'[u] = at[u] /\ held'[u] = held[u]

\* A thread may be at this label in the call c.
GoesWith(label, c) ==
    /\ label \in {"waiting", "got"} => c.op \in Blocking
    /\ label \in {"tried", "failed"} => c.op = "trylock"
    /\ label \in {"blocked", "woken"} => c.op = "wait"
    /\ label = "releasing" => c.op = "unlock"

LEMMA StaysInCall ==
    ASSUME KInv, NEW t \in Threads, NEW label \in Labels, Goto(t, label), work' = work,
           next[t] <= Len(work[t]), GoesWith(label, Call(t)), OwnerOK(owner'), HeldOK(held')
    PROVE  KInv'
BY DEF KInv, Goto, GoesWith, OwnerOK, HeldOK, Call, Labels

LEMMA LeavesCall ==
    ASSUME KInv, NEW t \in Threads, Return(t), work' = work, OwnerOK(owner'), HeldOK(held')
    PROVE  KInv'
<1>1. at' = [at EXCEPT ![t] = "app"] /\ next' = [next EXCEPT ![t] = @ + 1] BY DEF Return
<1>2. next'[t] \in Nat \ {0} /\ at'[t] = "app" BY <1>1 DEF KInv
<1>3. \A u \in Threads \ {t} : next'[u] = next[u] /\ at'[u] = at[u] BY <1>1 DEF KInv
<1>4. next' \in [Threads -> Nat \ {0}] /\ at' \in [Threads -> Labels]
      BY <1>1, <1>2 DEF KInv, Labels
<1> QED BY <1>2, <1>3, <1>4 DEF KInv, OwnerOK, HeldOK, Call

LEMMA GivenHeld ==
    ASSUME KInv, NEW t \in Threads, Given(t), Call(t).lock \in Exclusive
    PROVE  /\ HeldOK(held') /\ held'[t] = Append(held[t], Call(t).lock)
           /\ \A u \in Threads \ {t} : held'[u] = held[u]
BY AppendHas DEF KInv, Given, HeldOK

LEMMA GivenBackHeld ==
    ASSUME KInv, NEW t \in Threads, GivenBack(t), HasLock(t)
    PROVE  /\ HeldOK(held')
           /\ \A u \in Threads \ {t} : held'[u] = held[u]
           /\ \A i \in DOMAIN held'[t] : \E j \in DOMAIN held[t] : held'[t][i] = held[t][j]
           /\ \A k : k # Call(t).lock /\ Has(t, k) => Has(t, k)'
           /\ Once(held[t]) => Once(held'[t])
           /\ Once(held[t]) /\ Call(t).lock \in M => \A i \in DOMAIN held'[t] : held'[t][i] # Call(t).lock
           /\ \A k : OnceFor(held[t], k) => OnceFor(held'[t], k)
           /\ OnceFor(held[t], Call(t).lock) => \A i \in DOMAIN held'[t] : held'[t][i] # Call(t).lock
<1> DEFINE l == Call(t).lock
           r == RemoveAt(held[t], PositionOf(held[t], l))
<1>0. held[t] \in Seq(Exclusive) /\ \E i \in DOMAIN held[t] : held[t][i] = l
      BY DEF KInv, HasLock
<1>1. /\ r \in Seq(Exclusive)
      /\ \A i \in DOMAIN r : \E j \in DOMAIN held[t] : r[i] = held[t][j]
      /\ \A k : k # l /\ (\E i \in DOMAIN held[t] : held[t][i] = k) => \E i \in DOMAIN r : r[i] = k
      /\ Once(held[t]) => Once(r)
      /\ Once(held[t]) /\ l \in M => \A i \in DOMAIN r : r[i] # l
      /\ \A k : OnceFor(held[t], k) => OnceFor(r, k)
      /\ OnceFor(held[t], l) => \A i \in DOMAIN r : r[i] # l
      BY <1>0, RemoveHas
<1>2. held' = [held EXCEPT ![t] = r] BY DEF GivenBack
<1> HIDE DEF r, l
<1>3. held'[t] = r /\ HeldOK(held') /\ \A u \in Threads \ {t} : held'[u] = held[u]
      BY <1>1, <1>2 DEF KInv, HeldOK
<1> QED BY <1>1, <1>3 DEF l, Has

LEMMA InitKinds == Init => KInv
<1> SUFFICES ASSUME Init PROVE KInv OBVIOUS
<1>1. << >> \in Seq(Exclusive) OBVIOUS
<1> QED BY <1>1 DEF Init, KInv, Labels

LEMMA NextKinds == KInv /\ [Next]_vars => KInv'
<1> SUFFICES ASSUME KInv, [Next]_vars PROVE KInv' OBVIOUS
<1>0. OwnerOK(owner) /\ HeldOK(held) BY DEF KInv, OwnerOK, HeldOK
<1>a. \A t \in Threads : at[t] # "app" => next[t] <= Len(work[t]) BY DEF KInv
<1>1. ASSUME NEW t \in Threads, Start(t) PROVE KInv'
  <2>1. Goto(t, "waiting") /\ work' = work /\ owner' = owner /\ held' = held
        /\ next[t] <= Len(work[t]) /\ Call(t).op \in Blocking
        BY <1>1 DEF Start, MakesCall, real
  <2>2. GoesWith("waiting", Call(t)) BY <2>1 DEF GoesWith
  <2> QED BY <1>0, <2>1, <2>2, StaysInCall DEF Labels
<1>2. ASSUME NEW t \in Threads, NotLocked(t) PROVE KInv'
  <2>1. Given(t) /\ Return(t) /\ work' = work /\ owner' = owner /\ next[t] <= Len(work[t])
        /\ Call(t).op \in {"lock", "trylock"}
        BY <1>2 DEF NotLocked, MakesCall, real
  <2>2. HeldOK(held') BY <2>1, CallFits, GivenHeld DEF Fits, Exclusive
  <2> QED BY <1>0, <2>1, <2>2, LeavesCall
<1>3. ASSUME NEW t \in Threads, NEW l \in Exclusive, NEW label \in {"got", "tried"},
             owner' = [owner EXCEPT ![l] = t], Goto(t, label), work' = work, held' = held,
             at[t] # "app" \/ next[t] <= Len(work[t]), GoesWith(label, Call(t))
      PROVE  KInv'
  <2>1. OwnerOK(owner') BY <1>0, <1>3 DEF OwnerOK
  <2> QED BY <1>0, <1>a, <1>3, <2>1, StaysInCall DEF Labels
<1>4. ASSUME NEW t \in Threads, Lock(t) PROVE KInv'
  <2>1. at[t] = "waiting" /\ Call(t).op \in {"lock", "wrlock"}
        /\ owner' = [owner EXCEPT ![Call(t).lock] = t] /\ Goto(t, "got") /\ work' = work /\ held' = held
        BY <1>4 DEF Lock
  <2>2. Call(t).lock \in Exclusive BY <1>a, <2>1, CallFits DEF Fits, Exclusive
  <2> QED BY <1>3, <2>1, <2>2 DEF GoesWith, Blocking
<1>5. ASSUME NEW t \in Threads, LockAgain(t) PROVE KInv'
  <2>1. at[t] = "woken" /\ owner' = [owner EXCEPT ![Call(t).mutex] = t] /\ Goto(t, "got")
        /\ work' = work /\ held' = held
        BY <1>5 DEF LockAgain
  <2>2. Call(t).op = "wait" BY <2>1 DEF KInv
  <2>3. Call(t).mutex \in Exclusive BY <1>a, <2>1, <2>2, CallFits DEF Fits, Exclusive
  <2> QED BY <1>3, <2>1, <2>2, <2>3 DEF GoesWith, Blocking
<1>6. ASSUME NEW t \in Threads, Trylock(t) PROVE KInv'
  <2>1. next[t] <= Len(work[t]) /\ Call(t).op = "trylock" /\ work' = work /\ held' = held
        BY <1>6 DEF Trylock, MakesCall
  <2>2. Call(t).lock \in Exclusive BY <2>1, CallFits DEF Fits, Exclusive
  <2>3. CASE owner' = [owner EXCEPT ![Call(t).lock] = t] /\ Goto(t, "tried")
        BY <1>3, <2>1, <2>2, <2>3 DEF GoesWith
  <2>4. CASE owner' = owner /\ Goto(t, "failed")
    <3>1. GoesWith("failed", Call(t)) BY <2>1 DEF GoesWith
    <3> QED BY <1>0, <2>1, <2>4, <3>1, StaysInCall DEF Labels
  <2> QED BY <1>6, <2>3, <2>4 DEF Trylock
<1>7. ASSUME NEW t \in Threads, ReadLock(t) \/ SemWait(t) \/ Wakes(t) PROVE KInv'
  <2>1. PICK label \in {"got", "woken"} :
          /\ Goto(t, label) /\ work' = work /\ held' = held /\ owner' = owner /\ at[t] # "app"
          /\ label = "got" => Call(t).op \in Blocking
          /\ label = "woken" => at[t] = "blocked"
        BY <1>7 DEF ReadLock, SemWait, Wakes, Blocking, real
  <2>2. GoesWith(label, Call(t)) BY <2>1 DEF GoesWith, KInv
  <2> QED BY <1>0, <1>a, <2>1, <2>2, StaysInCall DEF Labels
<1>8. ASSUME NEW t \in Threads, CondWait(t) PROVE KInv'
  <2>1. at[t] = "waiting" /\ Call(t).op = "wait" /\ owner' = [owner EXCEPT ![Call(t).mutex] = NoThread]
        /\ Goto(t, "blocked") /\ work' = work /\ held' = held
        BY <1>8 DEF CondWait
  <2>2. OwnerOK(owner') BY <1>0, <2>1 DEF OwnerOK
  <2>3. GoesWith("blocked", Call(t)) BY <2>1 DEF GoesWith
  <2> QED BY <1>0, <1>a, <2>1, <2>2, <2>3, StaysInCall DEF Labels
<1>9. ASSUME NEW t \in Threads, Stop(t) PROVE KInv'
  <2>1. at[t] = "got" /\ Return(t) /\ work' = work /\ owner' = owner BY <1>9 DEF Stop, real
  <2>2. CASE Call(t).op \in {"lock", "rdlock", "wrlock"}
    <3>1. Given(t) BY <1>9, <2>2 DEF Stop
    <3>2. Call(t).lock \in Exclusive BY <1>a, <2>1, <2>2, CallFits DEF Fits, Exclusive
    <3> QED BY <1>0, <2>1, <3>1, <3>2, GivenHeld, LeavesCall
  <2>3. CASE Call(t).op \notin {"lock", "rdlock", "wrlock"}
        BY <1>0, <1>9, <2>1, <2>3, LeavesCall DEF Stop
  <2> QED BY <2>2, <2>3
<1>10. ASSUME NEW t \in Threads, StopTry(t) PROVE KInv'
  <2>1. at[t] \in {"tried", "failed"} /\ Return(t) /\ work' = work /\ owner' = owner
        BY <1>10 DEF StopTry, real
  <2>2. CASE at[t] = "tried"
    <3>1. Given(t) /\ Call(t).op = "trylock" BY <1>10, <2>2 DEF StopTry, KInv
    <3>2. Call(t).lock \in Exclusive BY <1>a, <2>2, <3>1, CallFits DEF Fits, Exclusive
    <3> QED BY <1>0, <2>1, <3>1, <3>2, GivenHeld, LeavesCall
  <2>3. CASE at[t] # "tried" BY <1>0, <1>10, <2>1, <2>3, LeavesCall DEF StopTry
  <2> QED BY <2>2, <2>3
<1>11. ASSUME NEW t \in Threads, StartUnlock(t) PROVE KInv'
  <2>1. Goto(t, "releasing") /\ work' = work /\ owner' = owner /\ GivenBack(t) /\ HasLock(t)
        /\ next[t] <= Len(work[t]) /\ Call(t).op = "unlock"
        BY <1>11 DEF StartUnlock, MakesCall, real
  <2>2. GoesWith("releasing", Call(t)) BY <2>1 DEF GoesWith
  <2> QED BY <1>0, <2>1, <2>2, GivenBackHeld, StaysInCall DEF Labels
<1>12. ASSUME NEW t \in Threads, NotUnlocked(t) PROVE KInv'
  <2>1. Return(t) /\ work' = work /\ owner' = owner /\ GivenBack(t) /\ HasLock(t)
        BY <1>12 DEF NotUnlocked, real
  <2> QED BY <1>0, <2>1, GivenBackHeld, LeavesCall
<1>13. ASSUME NEW t \in Threads, SkipsUnlock(t) \/ Post(t) PROVE KInv'
  <2>1. Return(t) /\ work' = work /\ owner' = owner /\ held' = held
        BY <1>13 DEF SkipsUnlock, Post, real
  <2> QED BY <1>0, <2>1, LeavesCall
<1>14. ASSUME NEW t \in Threads, Unlock(t) PROVE KInv'
  <2>1. Return(t) /\ work' = work /\ held' = held
        /\ (owner' = owner \/ owner' = [owner EXCEPT ![Call(t).lock] = NoThread])
        BY <1>14 DEF Unlock
  <2>2. OwnerOK(owner') BY <1>0, <2>1 DEF OwnerOK
  <2> QED BY <1>0, <2>1, <2>2, LeavesCall
<1>15. ASSUME NEW b \in Barriers, BarrierOpens(b) PROVE KInv'
      BY <1>15 DEF BarrierOpens, KInv, Call, real, Labels, Blocking
<1>16. CASE Conclude \/ Terminated \/ UNCHANGED vars
      BY <1>16 DEF Conclude, Terminated, vars, real, KInv, Call
<1> QED BY <1>1, <1>2, <1>4, <1>5, <1>6, <1>7, <1>8, <1>9, <1>10, <1>11, <1>12, <1>13, <1>14, <1>15,
           <1>16 DEF Next, Step

-----------------------------------------------------------------------------
(* What the programs have locked. *)

LEMMA LockedNext ==
    ASSUME NEW p, NEW i \in Nat \ {0}, NEW l, LockedBefore(p, i + 1, l)
    PROVE  \/ p[i].op = "lock" /\ p[i].lock = l
           \/ LockedBefore(p, i, l) /\ ~(p[i].op = "unlock" /\ p[i].lock = l)
<1>1. PICK j \in 1 .. i + 1 - 1 :
        /\ p[j].op = "lock" /\ p[j].lock = l
        /\ \A k \in j + 1 .. i + 1 - 1 : ~(p[k].op = "unlock" /\ p[k].lock = l)
      BY DEF LockedBefore
<1>2. CASE j = i BY <1>1, <1>2
<1>3. CASE j # i
  <2>1. j \in 1 .. i - 1 /\ i \in j + 1 .. i + 1 - 1 BY <1>1, <1>3
  <2>2. \A k \in j + 1 .. i - 1 : k \in j + 1 .. i + 1 - 1 BY <1>1
  <2> QED BY <1>1, <2>1, <2>2 DEF LockedBefore
<1> QED BY <1>2, <1>3

LEMMA ProgrammedStays ==
    ASSUME NEW u \in Threads, Programmed(u), work' = work, next'[u] = next[u],
           at'[u] = at[u] \/ at[u] # "releasing", \A l \in Mutexes : Has(u, l) => Has(u, l)'
    PROVE  Programmed(u)'
BY DEF Programmed, Call

LEMMA ProgrammedReturns ==
    ASSUME KInv, NEW t \in Threads, Programmed(t), Return(t), work' = work,
           \A l \in Mutexes : Has(t, l) /\ ~(Call(t).op = "unlock" /\ Call(t).lock = l) => Has(t, l)',
           \A l \in Mutexes : Call(t).op = "lock" /\ Call(t).lock = l => Has(t, l)'
    PROVE  Programmed(t)'
<1> SUFFICES ASSUME NEW l \in Mutexes, LockedBefore(work[t], next'[t], l)
             PROVE  Has(t, l)'
    BY DEF Programmed
<1>1. next'[t] = next[t] + 1 /\ next[t] \in Nat \ {0} BY DEF Return, KInv
<1>2. \/ Call(t).op = "lock" /\ Call(t).lock = l
      \/ LockedBefore(work[t], next[t], l) /\ ~(Call(t).op = "unlock" /\ Call(t).lock = l)
      BY <1>1, LockedNext DEF Call
<1>3. CASE Call(t).op = "lock" /\ Call(t).lock = l BY <1>3
<1>4. CASE LockedBefore(work[t], next[t], l) /\ ~(Call(t).op = "unlock" /\ Call(t).lock = l)
  <2>1. at[t] = "releasing" => Call(t).op = "unlock" BY DEF KInv
  <2>2. Has(t, l) BY <1>4, <2>1 DEF Programmed
  <2> QED BY <1>4, <2>2
<1> QED BY <1>2, <1>3, <1>4

LEMMA InitProgrammed == Init => PInv
<1> SUFFICES ASSUME Init, NEW t \in Threads, NEW l \in Mutexes PROVE ~LockedBefore(work[t], next[t], l)
    BY DEF PInv, Programmed
<1>1. next[t] = 1 BY DEF Init
<1> QED BY <1>1 DEF LockedBefore

LEMMA HasGiven ==
    ASSUME KInv, NEW t \in Threads, Given(t), Call(t).lock \in Exclusive
    PROVE  \A l : Has(t, l)' <=> l = Call(t).lock \/ Has(t, l)
<1>1. held'[t] = Append(held[t], Call(t).lock) /\ held[t] \in Seq(Exclusive)
      BY GivenHeld DEF KInv
<1> QED BY <1>1, AppendHas DEF Has

LEMMA NextProgrammed == KInv /\ PInv /\ [Next]_vars => PInv'
<1> SUFFICES ASSUME KInv, PInv, [Next]_vars PROVE PInv' OBVIOUS
<1>a. \A t \in Threads : at[t] # "app" => next[t] <= Len(work[t]) BY DEF KInv
<1>0. ASSUME work' = work, NEW t \in Threads, Alone(t), Programmed(t)' PROVE PInv'
      BY <1>0, ProgrammedStays DEF PInv, Alone, Has
<1>b. ASSUME NEW t \in Threads, NEW label, Goto(t, label) \/ Return(t), held' = held PROVE Alone(t)
      BY <1>b DEF Alone, Goto, Return, KInv
<1>c. ASSUME NEW t \in Threads, NEW label \in Labels, Goto(t, label), at[t] # "releasing", held' = held, work' = work
      PROVE  PInv'
      BY <1>0, <1>b, <1>c, ProgrammedStays DEF PInv, Goto, Has
<1>1. ASSUME NEW t \in Threads, Start(t) PROVE PInv'
      BY <1>1, <1>c DEF Start, MakesCall, Labels
<1>2. ASSUME NEW t \in Threads, Given(t), Return(t), work' = work, Call(t).lock \in Exclusive PROVE PInv'
  <2>1. Alone(t) BY <1>2, GivenHeld DEF Alone, Return, KInv
  <2>2. Programmed(t)' BY <1>2, HasGiven, ProgrammedReturns DEF PInv
  <2> QED BY <1>0, <1>2, <2>1, <2>2
<1>3. ASSUME NEW t \in Threads, Return(t), work' = work, held' = held, Call(t).op # "lock" PROVE PInv'
  <2>1. Programmed(t)' BY <1>3, ProgrammedReturns DEF PInv, Has
  <2> QED BY <1>0, <1>b, <1>3, <2>1
<1>4. ASSUME NEW t \in Threads, NotLocked(t) PROVE PInv'
  <2>1. Given(t) /\ Return(t) /\ work' = work /\ next[t] <= Len(work[t])
        /\ Call(t).op \in {"lock", "trylock"}
        BY <1>4 DEF NotLocked, MakesCall
  <2> QED BY <1>2, <2>1, CallFits DEF Fits, Exclusive
<1>5. ASSUME NEW t \in Threads, Lock(t) \/ ReadLock(t) \/ SemWait(t) PROVE PInv'
      BY <1>5, <1>c DEF Lock, ReadLock, SemWait, Labels
<1>6. ASSUME NEW t \in Threads, CondWait(t) \/ Wakes(t) \/ LockAgain(t) PROVE PInv'
      BY <1>6, <1>c DEF CondWait, Wakes, LockAgain, Labels
<1>7. ASSUME NEW t \in Threads, Stop(t) PROVE PInv'
  <2>1. at[t] = "got" /\ Return(t) /\ work' = work BY <1>7 DEF Stop
  <2>2. CASE Call(t).op \in {"lock", "rdlock", "wrlock"}
        BY <1>a, <1>2, <1>7, <2>1, <2>2, CallFits DEF Stop, Fits, Exclusive
  <2>3. CASE Call(t).op \notin {"lock", "rdlock", "wrlock"} BY <1>3, <1>7, <2>1, <2>3 DEF Stop
  <2> QED BY <2>2, <2>3
<1>8. ASSUME NEW t \in Threads, Trylock(t) PROVE PInv'
      BY <1>8, <1>c DEF Trylock, MakesCall, Labels
<1>9. ASSUME NEW t \in Threads, StopTry(t) PROVE PInv'
  <2>1. at[t] \in {"tried", "failed"} /\ Return(t) /\ work' = work /\ Call(t).op = "trylock"
        BY <1>9 DEF StopTry, KInv
  <2>2. CASE at[t] = "tried" BY <1>a, <1>2, <1>9, <2>1, <2>2, CallFits DEF StopTry, Fits, Exclusive
  <2>3. CASE at[t] # "tried" BY <1>3, <1>9, <2>1, <2>3 DEF StopTry
  <2> QED BY <2>2, <2>3
<1>10. ASSUME NEW t \in Threads, StartUnlock(t) PROVE PInv'
  <2>1. Goto(t, "releasing") /\ work' = work /\ GivenBack(t) /\ HasLock(t) /\ at[t] = "app"
        BY <1>10 DEF StartUnlock, MakesCall
  <2>2. Alone(t) BY <2>1, GivenBackHeld DEF Alone, Goto, KInv
  <2>3. next'[t] = next[t] /\ at'[t] = "releasing" BY <2>1 DEF Goto, KInv
  <2>4. Programmed(t)'
    <3> SUFFICES ASSUME NEW l \in Mutexes, LockedBefore(work[t], next[t], l), l # Call(t).lock
                 PROVE  Has(t, l)'
        BY <2>1, <2>3 DEF Programmed, Call
    <3>1. Has(t, l) BY <2>1 DEF PInv, Programmed
    <3> QED BY <2>1, <3>1, GivenBackHeld
  <2> QED BY <1>0, <2>1, <2>2, <2>4
<1>11. ASSUME NEW t \in Threads, NotUnlocked(t) PROVE PInv'
  <2>1. Return(t) /\ work' = work /\ GivenBack(t) /\ HasLock(t) /\ Call(t).op = "unlock"
        BY <1>11 DEF NotUnlocked, MakesCall
  <2>2. Alone(t) BY <2>1, GivenBackHeld DEF Alone, Return, KInv
  <2>3. Programmed(t)' BY <2>1, GivenBackHeld, ProgrammedReturns DEF PInv
  <2> QED BY <1>0, <2>1, <2>2, <2>3
<1>12. ASSUME NEW t \in Threads, SkipsUnlock(t) \/ Post(t) \/ Unlock(t) PROVE PInv'
  <2>1. Return(t) /\ work' = work /\ held' = held /\ Call(t).op # "lock"
        BY <1>12 DEF SkipsUnlock, Post, Unlock, MakesCall, KInv
  <2> QED BY <1>3, <2>1
<1>13. ASSUME NEW b \in Barriers, BarrierOpens(b) PROVE PInv'
  <2>1. work' = work /\ next' = next /\ held' = held BY <1>13 DEF BarrierOpens
  <2>2. \A u \in Threads : at'[u] = at[u] \/ at[u] # "releasing" BY <1>13 DEF BarrierOpens
  <2> QED BY <2>1, <2>2, ProgrammedStays DEF PInv, Has
<1>14. CASE Conclude \/ Terminated \/ UNCHANGED vars
  <2>1. work' = work /\ next' = next /\ held' = held /\ at' = at
        BY <1>14 DEF Conclude, Terminated, vars
  <2> QED BY <2>1, ProgrammedStays DEF PInv, Has
<1> QED BY <1>1, <1>4, <1>5, <1>6, <1>7, <1>8, <1>9, <1>10, <1>11, <1>12, <1>13, <1>14 DEF Next, Step

-----------------------------------------------------------------------------
(* Who owns the locks. *)

LEMMA OwnsStays ==
    ASSUME KInv, NEW u \in Threads, Owns(u), work' = work, next'[u] = next[u], at'[u] = at[u],
           held'[u] = held[u], \A l \in M : owner[l] = u => owner'[l] = u
    PROVE  Owns(u)'
<1>1. Call(u)' = Call(u) BY DEF Call
<1>2. at[u] = "tried" \/ (at[u] = "got" /\ Call(u).op = "lock") => Call(u).lock \in M
      BY CallFits DEF KInv, Fits, M
<1> QED BY <1>1, <1>2 DEF Owns, Has, Once

(* What Owns asks of a thread that has not got or given back a lock. *)
LEMMA OwnsHeld ==
    ASSUME NEW t \in Threads, at'[t] \in Labels \ {"tried", "got", "releasing"} \/ 
                 (at'[t] = "got" /\ Call(t)'.op # "lock"),
           Once(held[t]), held'[t] = held[t],
           \A i \in DOMAIN held[t] : held[t][i] \in M => owner'[held[t][i]] = t
    PROVE  Owns(t)'
BY DEF Owns, Once

LEMMA InitOwns == Init => OInv
<1> SUFFICES ASSUME Init, NEW t \in Threads PROVE Owns(t) BY DEF OInv
<1>1. at[t] = "app" /\ held[t] = << >> BY DEF Init
<1>2. DOMAIN << >> = {} OBVIOUS
<1> QED BY <1>1, <1>2 DEF Owns, Once

LEMMA NextOwns == KInv /\ PInv /\ OInv /\ [Next]_vars => OInv'
<1> SUFFICES ASSUME KInv, PInv, OInv, [Next]_vars, initialized' PROVE OInv' BY DEF OInv
<1>0. initialized /\ \A t \in Threads : Owns(t)
  <2>1. initialized
        BY DEF Next, Step, vars, Start, NotLocked, Lock, ReadLock, SemWait, CondWait, Wakes, LockAgain,
               Stop, Trylock, StopTry, StartUnlock, NotUnlocked, SkipsUnlock, Unlock, Post,
               BarrierOpens, Conclude, Terminated
  <2> QED BY <2>1 DEF OInv
<1>a. \A t \in Threads : at[t] # "app" => next[t] <= Len(work[t]) BY DEF KInv
<1>b. ASSUME work' = work, NEW t \in Threads, Alone(t), Owns(t)',
             \A l \in M : owner'[l] = owner[l] \/ owner[l] \in {t, NoThread}
      PROVE  OInv'
      BY <1>0, <1>b, OwnsStays, KindsAssumption DEF OInv, Alone
<1>c. ASSUME NEW t \in Threads, NEW label, Goto(t, label) \/ Return(t), held' = held PROVE Alone(t)
      BY <1>c DEF Alone, Goto, Return, KInv
<1>d. \A t \in Threads : at[t] \notin {"blocked", "woken"} =>
          \A i \in DOMAIN held[t] : held[t][i] \in M => owner[held[t][i]] = t
      BY <1>0 DEF Owns
<1>e. \A t \in Threads : Once(held[t]) BY <1>0 DEF Owns

(* Steps that leave the locks alone. *)
<1>1. ASSUME NEW t \in Threads, NEW label \in {"waiting", "failed"}, Goto(t, label), at[t] = "app",
             held' = held, owner' = owner, work' = work
      PROVE  OInv'
  <2>1. at'[t] = label BY <1>1 DEF Goto, KInv
  <2>2. Owns(t)' BY <1>1, <1>d, <1>e, <2>1, OwnsHeld DEF Labels
  <2> QED BY <1>1, <1>b, <1>c, <2>2
<1>2. ASSUME NEW t \in Threads, Return(t), held' = held, owner' = owner, work' = work,
             at[t] \notin {"blocked", "woken"}
      PROVE  OInv'
  <2>1. at'[t] = "app" BY <1>2 DEF Return, KInv
  <2>2. Owns(t)' BY <1>2, <1>d, <1>e, <2>1, OwnsHeld DEF Labels
  <2> QED BY <1>2, <1>b, <1>c, <2>2
<1>3. ASSUME NEW t \in Threads, Start(t) PROVE OInv'
      BY <1>1, <1>3 DEF Start, MakesCall, real
<1>4. ASSUME NEW t \in Threads, ReadLock(t) \/ SemWait(t) PROVE OInv'
  <2>1. Goto(t, "got") /\ at[t] = "waiting" /\ Call(t).op # "lock" /\ held' = held /\ owner' = owner /\ work' = work
        BY <1>4 DEF ReadLock, SemWait
  <2>2. at'[t] = "got" /\ Call(t)' = Call(t) BY <2>1 DEF Goto, KInv, Call
  <2>3. Owns(t)' BY <1>d, <1>e, <2>1, <2>2, OwnsHeld
  <2> QED BY <1>b, <1>c, <2>1, <2>3
<1>5. ASSUME NEW t \in Threads, Wakes(t) PROVE OInv'
  <2>1. Goto(t, "woken") /\ at[t] = "blocked" /\ held' = held /\ owner' = owner /\ work' = work
        BY <1>5 DEF Wakes, real
  <2>2. at'[t] = "woken" /\ Call(t)' = Call(t) BY <2>1 DEF Goto, KInv, Call
  <2>3. Owns(t)' BY <1>0, <2>1, <2>2 DEF Owns, Once
  <2> QED BY <1>b, <1>c, <2>1, <2>3
<1>6. ASSUME NEW t \in Threads, SkipsUnlock(t) \/ Post(t) PROVE OInv'
      BY <1>2, <1>6 DEF SkipsUnlock, Post, MakesCall, real

(* Steps that take or release one. *)
<1>7. ASSUME NEW t \in Threads, NEW label \in {"got", "tried"}, Goto(t, label), held' = held, work' = work,
             at[t] \in {"app", "waiting"}, Call(t).lock \in Exclusive, owner[Call(t).lock] = NoThread,
             owner' = [owner EXCEPT ![Call(t).lock] = t]
      PROVE  OInv'
  <2> DEFINE l == Call(t).lock
  <2>1. at'[t] = label /\ Call(t)' = Call(t) BY <1>7 DEF Goto, KInv, Call
  <2>2. owner'[l] = t /\ \A k \in M : k # l => owner'[k] = owner[k]
        BY <1>7 DEF KInv, M, Exclusive
  <2>3. \A i \in DOMAIN held[t] : held[t][i] \in M => owner'[held[t][i]] = t BY <1>7, <1>d, <2>2
  <2>4. label = "tried" \/ Call(t).op = "lock" => ~Has(t, l)
    <3>1. label = "tried" \/ Call(t).op = "lock" => l \in M
      <4>1. Call(t)' = Call(t) BY <2>1
      <4> QED BY <1>7, <4>1, NextKinds, CallFits, <1>a DEF KInv, Fits, M, Call, Goto
    <3> QED BY <1>7, <1>d, <3>1, KindsAssumption DEF Has
  <2>5. Owns(t)' BY <1>7, <1>e, <2>1, <2>2, <2>3, <2>4 DEF Owns, Has, Once
  <2> QED BY <1>7, <1>b, <1>c, <2>2, <2>5
<1>8. ASSUME NEW t \in Threads, Lock(t) PROVE OInv'
  <2>1. Call(t).lock \in Exclusive BY <1>a, <1>8, CallFits DEF Lock, Fits, Exclusive
  <2> QED BY <1>7, <1>8, <2>1 DEF Lock
<1>9. ASSUME NEW t \in Threads, Trylock(t) PROVE OInv'
  <2>1. Call(t).lock \in Exclusive BY <1>9, CallFits DEF Trylock, MakesCall, Fits, Exclusive
  <2> QED BY <1>1, <1>7, <1>9, <2>1 DEF Trylock, MakesCall
<1>10. ASSUME NEW t \in Threads, CondWait(t) PROVE OInv'
  <2> DEFINE m == Call(t).mutex
  <2>1. at[t] = "waiting" /\ Call(t).op = "wait" /\ owner' = [owner EXCEPT ![m] = NoThread]
        /\ Goto(t, "blocked") /\ work' = work /\ held' = held
        BY <1>10 DEF CondWait
  <2>2. m \in Mutexes /\ LockedBefore(work[t], next[t], m) BY <1>a, <2>1, CallFits DEF Fits
  <2>3. Has(t, m) BY <2>1, <2>2 DEF PInv, Programmed
  <2>4. owner[m] = t BY <1>d, <2>1, <2>2, <2>3 DEF Has, M
  <2>5. at'[t] = "blocked" /\ Call(t)' = Call(t) BY <2>1 DEF Goto, KInv, Call
  <2>6. \A k \in M : k # m => owner'[k] = owner[k] BY <2>1
  <2>7. Owns(t)' BY <1>d, <1>e, <2>1, <2>5, <2>6 DEF Owns, Once
  <2> QED BY <1>b, <1>c, <2>1, <2>4, <2>6, <2>7
<1>11. ASSUME NEW t \in Threads, LockAgain(t) PROVE OInv'
  <2> DEFINE m == Call(t).mutex
  <2>1. at[t] = "woken" /\ owner[m] = NoThread /\ owner' = [owner EXCEPT ![m] = t]
        /\ Goto(t, "got") /\ work' = work /\ held' = held /\ Call(t).op = "wait"
        BY <1>11 DEF LockAgain, KInv
  <2>2. m \in Exclusive BY <1>a, <2>1, CallFits DEF Fits, Exclusive
  <2>3. owner'[m] = t /\ \A k \in M : k # m => owner'[k] = owner[k] BY <2>1, <2>2 DEF KInv
  <2>4. at'[t] = "got" /\ Call(t)' = Call(t) BY <2>1 DEF Goto, KInv, Call
  <2>5. \A i \in DOMAIN held[t] : held[t][i] \in M => owner'[held[t][i]] = t
        BY <1>0, <2>1, <2>3 DEF Owns
  <2>6. Owns(t)' BY <1>e, <2>1, <2>4, <2>5, OwnsHeld
  <2> QED BY <1>b, <1>c, <2>1, <2>3, <2>6
<1>12. ASSUME NEW t \in Threads, Unlock(t) PROVE OInv'
  <2> DEFINE l == Call(t).lock
  <2>1. at[t] = "releasing" /\ Return(t) /\ work' = work /\ held' = held BY <1>12 DEF Unlock
  <2>2. at'[t] = "app" BY <2>1 DEF Return, KInv
  <2>3. l \in Exclusive BY <1>a, <2>1, CallFits DEF KInv, Fits
  <2>4. CASE owner[l] = t
    <3>1. owner' = [owner EXCEPT ![l] = NoThread] BY <1>12, <2>4 DEF Unlock
    <3>2. \A i \in DOMAIN held[t] : held[t][i] \in M => held[t][i] # l
          BY <1>0, <2>1 DEF Owns, Has
    <3>3. Owns(t)' BY <1>d, <1>e, <2>1, <2>2, <3>1, <3>2, OwnsHeld DEF Labels
    <3> QED BY <1>b, <1>c, <2>1, <2>4, <3>1, <3>3
  <2>5. CASE owner[l] # t BY <1>2, <1>12, <2>1, <2>5 DEF Unlock
  <2> QED BY <2>4, <2>5

(* Steps that give a lock to the application, or take it back. *)
<1>13. ASSUME NEW t \in Threads, Given(t), Return(t), work' = work, owner' = owner,
              at[t] = "tried" \/ at[t] = "got", Call(t).lock \in Exclusive,
              Call(t).lock \in M => at[t] = "tried" \/ Call(t).op = "lock"
       PROVE  OInv'
  <2> DEFINE l == Call(t).lock
  <2>1. held'[t] = Append(held[t], l) /\ held[t] \in Seq(Exclusive) /\ Alone(t)
        BY <1>13, GivenHeld DEF KInv, Alone, Return
  <2>2. at'[t] = "app" BY <1>13 DEF Return, KInv
  <2>3. l \in M => owner[l] = t /\ \A i \in DOMAIN held[t] : held[t][i] # l
        BY <1>0, <1>13 DEF Owns, Has
  <2>4. Once(held'[t]) BY <1>13, <1>e, <2>1, <2>3, AppendHas
  <2>5. \A i \in DOMAIN held'[t] : held'[t][i] = l \/ \E j \in DOMAIN held[t] : held[t][j] = held'[t][i]
        BY <1>13, <2>1, AppendHas
  <2>6. \A i \in DOMAIN held'[t] : held'[t][i] \in M => owner'[held'[t][i]] = t
        BY <1>13, <1>d, <2>3, <2>5
  <2>7. Owns(t)' BY <2>2, <2>4, <2>6 DEF Owns, Once
  <2> QED BY <1>13, <1>b, <2>1, <2>7
<1>14. ASSUME NEW t \in Threads, NotLocked(t) \/ NotUnlocked(t) PROVE FALSE
       BY <1>0, <1>14 DEF NotLocked, NotUnlocked, Passes
<1>15. ASSUME NEW t \in Threads, Stop(t) PROVE OInv'
  <2>1. at[t] = "got" /\ Return(t) /\ work' = work /\ owner' = owner BY <1>15 DEF Stop, real
  <2>2. CASE Call(t).op \in {"lock", "rdlock", "wrlock"}
    <3>1. Given(t) BY <1>15, <2>2 DEF Stop
    <3>2. Call(t).lock \in Exclusive /\ (Call(t).lock \in M => Call(t).op = "lock")
          BY <1>a, <2>1, <2>2, CallFits, KindsAssumption DEF Fits, Exclusive, M
    <3> QED BY <1>13, <2>1, <3>1, <3>2
  <2>3. CASE Call(t).op \notin {"lock", "rdlock", "wrlock"} BY <1>2, <1>15, <2>1, <2>3 DEF Stop
  <2> QED BY <2>2, <2>3
<1>16. ASSUME NEW t \in Threads, StopTry(t) PROVE OInv'
  <2>1. at[t] \in {"tried", "failed"} /\ Return(t) /\ work' = work /\ owner' = owner /\ Call(t).op = "trylock"
        BY <1>16 DEF StopTry, KInv, real
  <2>2. CASE at[t] = "tried"
    <3>1. Given(t) BY <1>16, <2>2 DEF StopTry
    <3>2. Call(t).lock \in Exclusive BY <1>a, <2>1, CallFits DEF Fits, Exclusive
    <3> QED BY <1>13, <2>1, <2>2, <3>1, <3>2
  <2>3. CASE at[t] # "tried" BY <1>2, <1>16, <2>1, <2>3 DEF StopTry
  <2> QED BY <2>2, <2>3
<1>17. ASSUME NEW t \in Threads, StartUnlock(t) PROVE OInv'
  <2> DEFINE l == Call(t).lock
  <2>1. Goto(t, "releasing") /\ work' = work /\ owner' = owner /\ GivenBack(t) /\ HasLock(t) /\ at[t] = "app"
        BY <1>17 DEF StartUnlock, MakesCall, real
  <2>2. /\ Alone(t)
        /\ \A i \in DOMAIN held'[t] : \E j \in DOMAIN held[t] : held'[t][i] = held[t][j]
        /\ Once(held'[t])
        /\ l \in M => \A i \in DOMAIN held'[t] : held'[t][i] # l
        BY <1>e, <2>1, GivenBackHeld DEF Alone, Goto, KInv
  <2>3. at'[t] = "releasing" /\ Call(t)' = Call(t) BY <2>1 DEF Goto, KInv, Call
  <2>4. l \in M => owner[l] = t BY <1>d, <2>1 DEF HasLock
  <2>5. \A i \in DOMAIN held'[t] : held'[t][i] \in M => owner'[held'[t][i]] = t BY <1>d, <2>1, <2>2
  <2>6. Owns(t)' BY <2>1, <2>2, <2>3, <2>4, <2>5 DEF Owns, Has, Once
  <2> QED BY <1>b, <2>1, <2>2, <2>6
<1>18. ASSUME NEW b \in Barriers, BarrierOpens(b) PROVE OInv'
  <2>1. work' = work /\ next' = next /\ held' = held /\ owner' = owner BY <1>18 DEF BarrierOpens, real
  <2> SUFFICES ASSUME NEW t \in Threads PROVE Owns(t)' BY DEF OInv
  <2>2. CASE t \in Meets(b)
    <3>1. at[t] = "waiting" /\ Call(t).lock = b /\ at'[t] = "got" /\ Call(t)' = Call(t)
          BY <1>18, <2>1, <2>2 DEF BarrierOpens, Call
    <3>2. Call(t).op # "lock" BY <1>a, <3>1, CallFits, KindsAssumption DEF Fits, Exclusive
    <3> QED BY <1>d, <1>e, <2>1, <3>1, <3>2, OwnsHeld
  <2>3. CASE t \notin Meets(b)
    <3>1. at'[t] = at[t] BY <1>18, <2>3 DEF BarrierOpens
    <3> QED BY <1>0, <2>1, <3>1, OwnsStays
  <2> QED BY <2>2, <2>3
<1>19. CASE Terminated \/ UNCHANGED vars
  <2>1. work' = work /\ next' = next /\ held' = held /\ at' = at /\ owner' = owner
        BY <1>19 DEF Terminated, vars, real
  <2> QED BY <1>0, <2>1, OwnsStays DEF OInv
<1>20. ~Conclude BY DEF Conclude
<1> QED BY <1>3, <1>4, <1>5, <1>6, <1>8, <1>9, <1>10, <1>11, <1>12, <1>14, <1>15, <1>16, <1>17, <1>18,
           <1>19, <1>20 DEF Next, Step

-----------------------------------------------------------------------------
(* No two threads are given the same mutex or spin lock before the         *)
(* destructor of the module runs, whatever programs they run: the wrappers *)
(* keep what the locks of libpthread promise.                              *)
THEOREM ExclusionUntilExitHolds == Spec => []ExclusionUntilExit
<1>1. KInv /\ OInv => ExclusionUntilExit
  <2> SUFFICES ASSUME KInv, OInv, initialized, NEW t \in Threads, NEW u \in Threads, t # u,
                      NEW l \in Believes(t), l \in Believes(u)
               PROVE  FALSE
      BY DEF ExclusionUntilExit, MutualExclusion
  <2>1. Owns(t) /\ Owns(u) BY DEF OInv
  <2>2. owner[l] = t BY <2>1 DEF Believes, Owns, M
  <2>3. owner[l] = u BY <2>1 DEF Believes, Owns, M
  <2> QED BY <2>2, <2>3
<1> QED BY InitKinds, InitProgrammed, InitOwns, NextKinds, NextProgrammed, NextOwns, <1>1, PTL DEF Spec
-----------------------------------------------------------------------------
(* What the converter knows.                                               *)

LockInfo == [nb_acquire : Nat, last_owner : Threads \cup {NoThread},
             time_acquire : Nat, time_release : Nat, duration : Nat]
States == {BlockedOn(l) : l \in Locks} \cup {CriticalIn(l) : l \in Locks}
Warnings == [lock : Locks, locked : Threads \cup {NoThread}, unlocks : Threads]
Known == [clock : Nat, info : [Locks -> LockInfo], stack : [Threads -> Seq(States)],
          warned : SUBSET Warnings]

(* The converter's variables have their kinds, and no lock was acquired    *)
(* after the present: the durations, which the code computes with unsigned *)
(* numbers, are natural.                                                   *)
ConvOK(c) == c \in Known /\ \A l \in Locks : c.info[l].time_acquire <= c.clock

Popped(s) == IF s = << >> THEN s ELSE SubSeq(s, 1, Len(s) - 1)

\* Of the stacks, only that of t may differ, and is s now.
StackIs(c, d, t, s) ==
    /\ d.stack[t] = s
    /\ \A u \in Threads \ {t} : d.stack[u] = c.stack[u]

\* Of the locks, only what is known of l may differ.
OnlyLock(c, d, l) == \A k \in Locks \ {l} : d.info[k] = c.info[k]

LEMMA PoppedSeq == ASSUME NEW S, NEW s \in Seq(S) PROVE Popped(s) \in Seq(S)
<1>1. CASE s = << >> BY <1>1 DEF Popped
<1>2. CASE s # << >>
  <2>1. Len(s) \in Nat \ {0} /\ \A i \in 1 .. Len(s) : s[i] \in S BY <1>2, EmptySeq
  <2>2. \A i \in 1 .. Len(s) - 1 : s[i] \in S BY <2>1
  <2>3. 1 \in Int /\ Len(s) - 1 \in Int BY <2>1
  <2>4. SubSeq(s, 1, Len(s) - 1) \in Seq(S) BY <2>2, <2>3, SubSeqProperties
  <2> QED BY <1>2, <2>4 DEF Popped
<1> QED BY <1>1, <1>2

LEMMA PushIs ==
    ASSUME NEW c, ConvOK(c), NEW t \in Threads, NEW state \in States
    PROVE  LET d == PushState(c, t, state)
           IN /\ ConvOK(d)
              /\ d.clock = c.clock /\ d.info = c.info /\ d.warned = c.warned
              /\ StackIs(c, d, t, Append(c.stack[t], state))
<1> DEFINE d == PushState(c, t, state)
           f == [c.stack EXCEPT ![t] = Append(@, state)]
<1>1. c \in Known BY DEF ConvOK
<1>2. c.stack[t] \in Seq(States) BY <1>1 DEF Known
<1>3. Append(c.stack[t], state) \in Seq(States) BY <1>2
<1>4. f \in [Threads -> Seq(States)] BY <1>1, <1>3 DEF Known
<1>5. d = [c EXCEPT !.stack = f] BY DEF PushState
<1> HIDE DEF d
<1>6. f[t] = Append(c.stack[t], state) /\ \A u \in Threads \ {t} : f[u] = c.stack[u]
      BY <1>1 DEF Known
<1> HIDE DEF f
<1>7. d \in Known /\ d.clock = c.clock /\ d.info = c.info /\ d.warned = c.warned /\ d.stack = f
      BY <1>1, <1>4, <1>5 DEF Known
<1> QED BY <1>6, <1>7 DEF d, ConvOK, StackIs

LEMMA PopIs ==
    ASSUME NEW c, ConvOK(c), NEW t \in Threads
    PROVE  LET d == PopState(c, t)
           IN /\ ConvOK(d)
              /\ d.clock = c.clock /\ d.info = c.info /\ d.warned = c.warned
              /\ StackIs(c, d, t, Popped(c.stack[t]))
<1> DEFINE d == PopState(c, t)
           f == [c.stack EXCEPT ![t] = IF @ = << >> THEN @ ELSE SubSeq(@, 1, Len(@) - 1)]
<1>1. c \in Known BY DEF ConvOK
<1>2. c.stack[t] \in Seq(States) BY <1>1 DEF Known
<1>3. Popped(c.stack[t]) \in Seq(States) BY <1>2, PoppedSeq
<1>4. f[t] = Popped(c.stack[t]) /\ \A u \in Threads \ {t} : f[u] = c.stack[u]
      BY <1>1 DEF Known, Popped
<1>5. f = [c.stack EXCEPT ![t] = Popped(c.stack[t])] BY DEF Popped
<1>6. f \in [Threads -> Seq(States)] BY <1>1, <1>3, <1>5 DEF Known
<1>7. d = [c EXCEPT !.stack = f] BY DEF PopState
<1> HIDE DEF d, f
<1>8. d \in Known /\ d.clock = c.clock /\ d.info = c.info /\ d.warned = c.warned /\ d.stack = f
      BY <1>1, <1>6, <1>7 DEF Known
<1> QED BY <1>4, <1>8 DEF d, ConvOK, StackIs

\* A change of what is known of the lock l.
InfoSet(c, d, l, i) == d = [c EXCEPT !.info = [c.info EXCEPT ![l] = i]]

LEMMA InfoIs ==
    ASSUME NEW c, ConvOK(c), NEW l \in Locks, NEW i \in LockInfo, i.time_acquire <= c.clock,
           NEW d, InfoSet(c, d, l, i)
    PROVE  /\ ConvOK(d)
           /\ d.clock = c.clock /\ d.stack = c.stack /\ d.warned = c.warned
           /\ d.info[l] = i /\ OnlyLock(c, d, l)
<1>1. c \in Known BY DEF ConvOK
<1> DEFINE f == [c.info EXCEPT ![l] = i]
<1>2. f \in [Locks -> LockInfo] /\ f[l] = i /\ \A k \in Locks \ {l} : f[k] = c.info[k]
      BY <1>1 DEF Known
<1> HIDE DEF f
<1>3. d = [c EXCEPT !.info = f] BY DEF f, InfoSet
<1>4. d \in Known /\ d.clock = c.clock /\ d.stack = c.stack /\ d.warned = c.warned /\ d.info = f
      BY <1>1, <1>2, <1>3 DEF Known
<1> QED BY <1>2, <1>4 DEF ConvOK, OnlyLock

LEMMA AcquiredIs ==
    ASSUME NEW c, ConvOK(c), NEW t \in Threads, NEW l \in Locks
    PROVE  LET d == Acquired(c, t, l)
           IN /\ ConvOK(d)
              /\ d.clock = c.clock /\ d.stack = c.stack /\ d.warned = c.warned
              /\ d.info[l].last_owner = t /\ d.info[l].time_acquire = c.clock
              /\ d.info[l].duration = c.info[l].duration
              /\ d.info[l].time_release = c.info[l].time_release
              /\ OnlyLock(c, d, l)
<1> DEFINE d == Acquired(c, t, l)
           i == [c.info[l] EXCEPT !.time_acquire = c.clock, !.nb_acquire = @ + 1, !.last_owner = t]
<1>1. c \in Known BY DEF ConvOK
<1>2. c.info[l] \in LockInfo /\ c.clock \in Nat BY <1>1 DEF Known
<1>a. c.info[l].nb_acquire + 1 \in Nat BY <1>2 DEF LockInfo
<1>3. /\ i \in LockInfo /\ i.last_owner = t /\ i.time_acquire = c.clock
      /\ i.duration = c.info[l].duration /\ i.time_release = c.info[l].time_release
  <2> DEFINE r == c.info[l]
  <2>1. r \in LockInfo /\ r.nb_acquire + 1 \in Nat BY <1>2, <1>a
  <2>2. i = [r EXCEPT !.time_acquire = c.clock, !.nb_acquire = r.nb_acquire + 1, !.last_owner = t]
        OBVIOUS
  <2> HIDE DEF r, i
  <2>3. /\ i \in LockInfo /\ i.last_owner = t /\ i.time_acquire = c.clock
        /\ i.duration = r.duration /\ i.time_release = r.time_release
        BY <1>2, <2>1, <2>2 DEF LockInfo
  <2> QED BY <2>3 DEF r
<1>b. i.time_acquire <= c.clock BY <1>2, <1>3
<1>4. InfoSet(c, d, l, i) BY <1>1, <1>2 DEF Acquired, InfoSet, Known, LockInfo
<1> HIDE DEF d, i
<1>5. /\ ConvOK(d) /\ d.clock = c.clock /\ d.stack = c.stack /\ d.warned = c.warned
      /\ d.info[l] = i /\ OnlyLock(c, d, l)
      BY <1>3, <1>4, <1>b, InfoIs
<1> QED BY <1>3, <1>5 DEF d

LEMMA SemAcquiredIs ==
    ASSUME NEW c, ConvOK(c), NEW t \in Threads, NEW l \in Locks
    PROVE  LET d == SemAcquired(c, t, l)
           IN /\ ConvOK(d)
              /\ d.clock = c.clock /\ d.stack = c.stack /\ d.warned = c.warned
              /\ OnlyLock(c, d, l)
<1> DEFINE d == SemAcquired(c, t, l)
           i == [c.info[l] EXCEPT !.nb_acquire = @ + 1, !.last_owner = t]
<1>1. c \in Known /\ c.info[l].time_acquire <= c.clock BY DEF ConvOK
<1>2. c.info[l] \in LockInfo /\ c.clock \in Nat BY <1>1 DEF Known
<1>a. c.info[l].nb_acquire + 1 \in Nat BY <1>2 DEF LockInfo
<1>3. i \in LockInfo /\ i.time_acquire = c.info[l].time_acquire
  <2> DEFINE r == c.info[l]
  <2>1. r \in LockInfo /\ r.nb_acquire + 1 \in Nat BY <1>2, <1>a
  <2>2. i = [r EXCEPT !.nb_acquire = r.nb_acquire + 1, !.last_owner = t] OBVIOUS
  <2> HIDE DEF r, i
  <2>3. i \in LockInfo /\ i.time_acquire = r.time_acquire BY <2>1, <2>2 DEF LockInfo
  <2> QED BY <2>3 DEF r
<1>4. InfoSet(c, d, l, i) BY <1>1, <1>2 DEF SemAcquired, InfoSet, Known, LockInfo
<1> HIDE DEF d, i
<1>5. /\ ConvOK(d) /\ d.clock = c.clock /\ d.stack = c.stack /\ d.warned = c.warned
      /\ d.info[l] = i /\ OnlyLock(c, d, l)
  <2>1. i.time_acquire <= c.clock BY <1>1, <1>3
  <2> QED BY <1>3, <1>4, <2>1, InfoIs
<1> QED BY <1>5 DEF d

LEMMA ReleasedIs ==
    ASSUME NEW c, ConvOK(c), NEW l \in Locks
    PROVE  LET d == Released(c, l)
           IN /\ ConvOK(d)
              /\ d.clock = c.clock /\ d.stack = c.stack /\ d.warned = c.warned
              /\ d.info[l].last_owner = c.info[l].last_owner
              /\ d.info[l].time_release = c.clock
              /\ d.info[l].duration = c.info[l].duration + c.clock - c.info[l].time_acquire
              /\ OnlyLock(c, d, l)
<1> DEFINE d == Released(c, l)
           i == [c.info[l] EXCEPT !.time_release = c.clock,
                                  !.duration = @ + c.clock - c.info[l].time_acquire]
<1>1. c \in Known /\ c.info[l].time_acquire <= c.clock BY DEF ConvOK
<1>2. c.info[l] \in LockInfo /\ c.clock \in Nat BY <1>1 DEF Known
<1>3. c.info[l].duration \in Nat /\ c.info[l].time_acquire \in Nat BY <1>2 DEF LockInfo
<1>4. c.info[l].duration + c.clock - c.info[l].time_acquire \in Nat BY <1>1, <1>2, <1>3
<1>5. /\ i \in LockInfo /\ i.last_owner = c.info[l].last_owner /\ i.time_release = c.clock
      /\ i.duration = c.info[l].duration + c.clock - c.info[l].time_acquire
      /\ i.time_acquire = c.info[l].time_acquire
      BY <1>2, <1>4 DEF LockInfo
<1>6. InfoSet(c, d, l, i) BY <1>1, <1>2 DEF Released, InfoSet, Known, LockInfo
<1> HIDE DEF d, i
<1>7. /\ ConvOK(d) /\ d.clock = c.clock /\ d.stack = c.stack /\ d.warned = c.warned
      /\ d.info[l] = i /\ OnlyLock(c, d, l)
  <2>1. i.time_acquire <= c.clock BY <1>1, <1>5
  <2> QED BY <1>5, <1>6, <2>1, InfoIs
<1> QED BY <1>5, <1>7 DEF d

LEMMA MismatchIs ==
    ASSUME NEW c, ConvOK(c), NEW t \in Threads, NEW l \in Locks
    PROVE  LET d == CheckMismatch(c, t, l)
           IN /\ ConvOK(d)
              /\ d.clock = c.clock /\ d.stack = c.stack /\ d.info = c.info
              /\ \A w \in d.warned \ c.warned : w.lock = l /\ c.info[l].last_owner # t
<1> DEFINE d == CheckMismatch(c, t, l)
           w == [lock |-> l, locked |-> c.info[l].last_owner, unlocks |-> t]
<1>1. CASE c.info[l].last_owner = t BY <1>1 DEF CheckMismatch
<1>2. CASE c.info[l].last_owner # t
  <2>1. c \in Known /\ w \in Warnings /\ w.lock = l
    <3>1. c.info[l] \in LockInfo BY DEF ConvOK, Known
    <3> QED BY <3>1 DEF ConvOK, LockInfo, Warnings
  <2> DEFINE f == c.warned \cup {w}
  <2>2. f \in SUBSET Warnings BY <2>1 DEF Known
  <2>3. d = [c EXCEPT !.warned = f] BY <1>2 DEF CheckMismatch
  <2>4. \A v \in f \ c.warned : v.lock = l BY <2>1
  <2> HIDE DEF d, f
  <2>5. d \in Known /\ d.clock = c.clock /\ d.info = c.info /\ d.stack = c.stack /\ d.warned = f
        BY <2>1, <2>2, <2>3 DEF Known
  <2> QED BY <1>2, <2>4, <2>5 DEF d, ConvOK
<1> QED BY <1>1, <1>2

(* The handlers of the events that a thread t records about a lock l.      *)

Event(code, t, l, ret) == [code |-> code, thread |-> t, lock |-> l, ret |-> ret]
Tick(c) == [c EXCEPT !.clock = @ + 1]
Later(c, d) == ConvOK(d) /\ d.clock = c.clock + 1

\* The lock l is acquired now by t.
TakenNow(c, d, t, l) ==
    /\ d.info[l].last_owner = t /\ d.info[l].time_acquire = d.clock
    /\ d.info[l].duration = c.info[l].duration
    /\ d.info[l].time_release = c.info[l].time_release

LEMMA TickIs ==
    ASSUME NEW c, ConvOK(c)
    PROVE  /\ Later(c, Tick(c))
           /\ Tick(c).info = c.info /\ Tick(c).stack = c.stack /\ Tick(c).warned = c.warned
<1> DEFINE d == Tick(c)
           n == c.clock + 1
<1>1. c \in Known /\ \A l \in Locks : c.info[l].time_acquire <= c.clock BY DEF ConvOK
<1>2. n \in Nat /\ c.clock \in Nat BY <1>1 DEF Known
<1>3. d = [c EXCEPT !.clock = n] BY <1>1 DEF Tick
<1>4. \A l \in Locks : c.info[l].time_acquire \in Nat BY <1>1 DEF Known, LockInfo
<1>5. \A l \in Locks : c.info[l].time_acquire <= n BY <1>1, <1>2, <1>4
<1>6. n = c.clock + 1 OBVIOUS
<1> HIDE DEF d, n
<1>7. d \in Known /\ d.info = c.info /\ d.stack = c.stack /\ d.warned = c.warned /\ d.clock = n
      BY <1>1, <1>2, <1>3 DEF Known
<1> QED BY <1>5, <1>6, <1>7 DEF d, ConvOK, Later

LEMMA KindOf ==
    ASSUME NEW l \in Locks
    PROVE  /\ l \in Exclusive => Kind(l) \in {"mutex", "spin", "rwlock"}
           /\ l \notin Exclusive => Kind(l) \in {"sem", "barrier", "cond"}
           /\ l \in Mutexes => Kind(l) = "mutex"
           /\ BlockedOn(l) \in States /\ CriticalIn(l) \in States
<1>1. BlockedOn(l) \in States /\ CriticalIn(l) \in States BY DEF States
<1>2. CASE l \in Mutexes BY <1>1, <1>2, KindsAssumption DEF Exclusive, Kind
<1>3. CASE l \in Spins BY <1>1, <1>3, KindsAssumption DEF Exclusive, Kind
<1>4. CASE l \in RWLocks BY <1>1, <1>4, KindsAssumption DEF Exclusive, Kind
<1>5. CASE l \notin Exclusive
  <2>1. l \notin Mutexes /\ l \notin Spins /\ l \notin RWLocks BY <1>5 DEF Exclusive
  <2>2. Kind(l) \in {"sem", "barrier", "cond"} BY <2>1 DEF Kind
  <2> QED BY <1>1, <1>5, <2>1, <2>2
<1> QED BY <1>2, <1>3, <1>4, <1>5 DEF Exclusive

LEMMA StartHandled ==
    ASSUME NEW c, ConvOK(c), NEW t \in Threads, NEW l \in Locks
    PROVE  LET d == HandlePthreadEvent(c, Event("start", t, l, 0))
           IN /\ Later(c, d)
              /\ d.info = c.info /\ d.warned = c.warned
              /\ StackIs(c, d, t, Append(c.stack[t], BlockedOn(l)))
<1> DEFINE n == Tick(c)
           d == PushState(n, t, BlockedOn(l))
<1>1. HandlePthreadEvent(c, Event("start", t, l, 0)) = d
      BY DEF HandlePthreadEvent, HandleStart, Event, Tick
<1>2. /\ ConvOK(n) /\ n.clock = c.clock + 1
      /\ n.info = c.info /\ n.stack = c.stack /\ n.warned = c.warned
      BY TickIs DEF Later
<1> HIDE DEF n
<1>3. /\ ConvOK(d) /\ d.clock = n.clock /\ d.info = n.info /\ d.warned = n.warned
      /\ StackIs(n, d, t, Append(n.stack[t], BlockedOn(l)))
      BY <1>2, KindOf, PushIs
<1> HIDE DEF d
<1> QED BY <1>1, <1>2, <1>3 DEF Later, StackIs

LEMMA AcquiresLater ==
    ASSUME NEW c, ConvOK(c), NEW t \in Threads, NEW l \in Locks
    PROVE  LET d == Acquired(Tick(c), t, l)
           IN Later(c, d) /\ d.stack = c.stack /\ d.warned = c.warned /\ TakenNow(c, d, t, l)
              /\ OnlyLock(c, d, l)
<1> DEFINE n == Tick(c)
           d == Acquired(n, t, l)
<1>1. /\ ConvOK(n) /\ n.clock = c.clock + 1
      /\ n.info = c.info /\ n.stack = c.stack /\ n.warned = c.warned
      BY TickIs DEF Later
<1> HIDE DEF n
<1>2. /\ ConvOK(d)
      /\ d.clock = n.clock /\ d.stack = n.stack /\ d.warned = n.warned
      /\ d.info[l].last_owner = t /\ d.info[l].time_acquire = n.clock
      /\ d.info[l].duration = n.info[l].duration
      /\ d.info[l].time_release = n.info[l].time_release
      /\ OnlyLock(n, d, l)
      BY <1>1, AcquiredIs
<1> HIDE DEF d
<1>3. Later(c, d) /\ d.stack = c.stack /\ d.warned = c.warned BY <1>1, <1>2 DEF Later
<1>4. TakenNow(c, d, t, l) BY <1>1, <1>2 DEF TakenNow
<1>5. OnlyLock(c, d, l) BY <1>1, <1>2 DEF OnlyLock
<1> QED BY <1>3, <1>4, <1>5 DEF d, n

LEMMA StopHandled ==
    ASSUME NEW c, ConvOK(c), NEW t \in Threads, NEW l \in Exclusive
    PROVE  LET d == HandlePthreadEvent(c, Event("stop", t, l, 0))
           IN /\ Later(c, d)
              /\ d.warned = c.warned /\ TakenNow(c, d, t, l) /\ OnlyLock(c, d, l)
              /\ StackIs(c, d, t, Append(Popped(c.stack[t]), CriticalIn(l)))
<1> DEFINE n == Acquired(Tick(c), t, l)
           p == PopState(n, t)
           d == PushState(p, t, CriticalIn(l))
<1>0. l \in Locks /\ Kind(l) \in {"mutex", "spin", "rwlock"} BY KindOf DEF Locks, Exclusive
<1>1. HandlePthreadEvent(c, Event("stop", t, l, 0)) = d
      BY <1>0 DEF HandlePthreadEvent, HandleStop, Event, Tick
<1>2. /\ ConvOK(n) /\ n.clock = c.clock + 1 /\ n.stack = c.stack /\ n.warned = c.warned
      /\ TakenNow(c, n, t, l) /\ OnlyLock(c, n, l)
      BY <1>0, AcquiresLater DEF Later
<1> HIDE DEF n
<1>3. /\ ConvOK(p) /\ p.clock = n.clock /\ p.info = n.info /\ p.warned = n.warned
      /\ StackIs(n, p, t, Popped(n.stack[t]))
      BY <1>2, PopIs
<1> HIDE DEF p
<1>4. /\ ConvOK(d) /\ d.clock = p.clock /\ d.info = p.info /\ d.warned = p.warned
      /\ StackIs(p, d, t, Append(p.stack[t], CriticalIn(l)))
      BY <1>0, <1>3, KindOf, PushIs
<1> HIDE DEF d
<1>5. Later(c, d) /\ d.warned = c.warned BY <1>2, <1>3, <1>4 DEF Later
<1>6. TakenNow(c, d, t, l) BY <1>2, <1>3, <1>4 DEF TakenNow
<1>7. OnlyLock(c, d, l) BY <1>2, <1>3, <1>4 DEF OnlyLock
<1>8. StackIs(c, d, t, Append(Popped(c.stack[t]), CriticalIn(l))) BY <1>2, <1>3, <1>4 DEF StackIs
<1> QED BY <1>1, <1>5, <1>6, <1>7, <1>8

LEMMA StopOtherHandled ==
    ASSUME NEW c, ConvOK(c), NEW t \in Threads, NEW l \in Locks \ Exclusive
    PROVE  LET d == HandlePthreadEvent(c, Event("stop", t, l, 0))
           IN /\ Later(c, d)
              /\ d.warned = c.warned /\ OnlyLock(c, d, l)
              /\ StackIs(c, d, t, Popped(c.stack[t]))
<1> DEFINE h == HandlePthreadEvent(c, Event("stop", t, l, 0))
<1>0. l \in Locks /\ Kind(l) \in {"sem", "barrier", "cond"} BY KindOf
<1>1. ASSUME NEW n, ConvOK(n), n.clock = c.clock + 1, n.stack = c.stack, n.warned = c.warned,
             OnlyLock(c, n, l), h = PopState(n, t)
      PROVE  Later(c, h) /\ h.warned = c.warned /\ OnlyLock(c, h, l) /\ StackIs(c, h, t, Popped(c.stack[t]))
  <2> HIDE DEF h
  <2>1. /\ ConvOK(h) /\ h.clock = n.clock /\ h.info = n.info /\ h.warned = n.warned
        /\ StackIs(n, h, t, Popped(n.stack[t]))
        BY <1>1, PopIs
  <2> QED BY <1>1, <2>1 DEF Later, OnlyLock, StackIs
<1>2. /\ ConvOK(Tick(c)) /\ Tick(c).clock = c.clock + 1
      /\ Tick(c).info = c.info /\ Tick(c).stack = c.stack /\ Tick(c).warned = c.warned
      BY TickIs DEF Later
<1>3. CASE Kind(l) = "cond"
  <2>1. h = PopState(Acquired(Tick(c), t, l), t)
        BY <1>3 DEF HandlePthreadEvent, HandleStop, Event, Tick
  <2> DEFINE n == Acquired(Tick(c), t, l)
  <2>2. /\ ConvOK(n) /\ n.clock = c.clock + 1 /\ n.stack = c.stack /\ n.warned = c.warned
        /\ OnlyLock(c, n, l)
        BY <1>0, AcquiresLater DEF Later
  <2> HIDE DEF n, h
  <2> QED BY <1>1, <2>1, <2>2 DEF n, h
<1>4. CASE Kind(l) = "sem"
  <2>1. h = PopState(SemAcquired(Tick(c), t, l), t)
        BY <1>4 DEF HandlePthreadEvent, HandleStop, Event, Tick
  <2> DEFINE n == SemAcquired(Tick(c), t, l)
  <2>2. /\ ConvOK(n) /\ n.clock = Tick(c).clock /\ n.stack = Tick(c).stack /\ n.warned = Tick(c).warned
        /\ OnlyLock(Tick(c), n, l)
        BY <1>0, <1>2, SemAcquiredIs
  <2>3. OnlyLock(c, n, l) BY <1>2, <2>2 DEF OnlyLock
  <2> HIDE DEF n, h
  <2> QED BY <1>1, <1>2, <2>1, <2>2, <2>3 DEF n, h
<1>5. CASE Kind(l) = "barrier"
  <2>1. h = PopState(Tick(c), t)
        BY <1>5 DEF HandlePthreadEvent, HandleStop, Event, Tick
  <2>2. OnlyLock(c, Tick(c), l) BY <1>2 DEF OnlyLock
  <2> HIDE DEF h
  <2> QED BY <1>1, <1>2, <2>1, <2>2 DEF h
<1> HIDE DEF h
<1> QED BY <1>0, <1>3, <1>4, <1>5 DEF h

LEMMA TryMutexHandled ==
    ASSUME NEW c, ConvOK(c), NEW t \in Threads, NEW l \in Mutexes, NEW ret \in Nat
    PROVE  LET d == HandlePthreadEvent(c, Event("trylock", t, l, ret))
           IN /\ Later(c, d)
              /\ d.warned = c.warned /\ TakenNow(c, d, t, l) /\ OnlyLock(c, d, l)
              /\ StackIs(c, d, t, Append(c.stack[t], CriticalIn(l)))
<1> DEFINE n == Acquired(Tick(c), t, l)
           d == PushState(n, t, CriticalIn(l))
<1>0. l \in Locks /\ Kind(l) = "mutex" BY KindOf DEF Locks
<1>1. HandlePthreadEvent(c, Event("trylock", t, l, ret)) = d
      BY <1>0 DEF HandlePthreadEvent, HandleTrylock, Event, Tick
<1>2. /\ ConvOK(n) /\ n.clock = c.clock + 1 /\ n.stack = c.stack /\ n.warned = c.warned
      /\ TakenNow(c, n, t, l) /\ OnlyLock(c, n, l)
      BY <1>0, AcquiresLater DEF Later
<1> HIDE DEF n
<1>3. /\ ConvOK(d) /\ d.clock = n.clock /\ d.info = n.info /\ d.warned = n.warned
      /\ StackIs(n, d, t, Append(n.stack[t], CriticalIn(l)))
      BY <1>0, <1>2, KindOf, PushIs
<1> HIDE DEF d
<1>4. Later(c, d) /\ d.warned = c.warned BY <1>2, <1>3 DEF Later
<1>5. TakenNow(c, d, t, l) BY <1>2, <1>3 DEF TakenNow
<1>6. OnlyLock(c, d, l) BY <1>2, <1>3 DEF OnlyLock
<1>7. StackIs(c, d, t, Append(c.stack[t], CriticalIn(l))) BY <1>2, <1>3 DEF StackIs
<1> QED BY <1>1, <1>4, <1>5, <1>6, <1>7

\* Of a spin lock, only what this lock and this thread become is left open.
LEMMA TrySpinHandled ==
    ASSUME NEW c, ConvOK(c), NEW t \in Threads, NEW l \in Locks, NEW ret \in Nat
    PROVE  LET d == HandlePthreadEvent(c, Event("trylock", t, l, ret))
           IN /\ Later(c, d)
              /\ d.warned = c.warned /\ OnlyLock(c, d, l)
              /\ \A u \in Threads \ {t} : d.stack[u] = c.stack[u]
<1> DEFINE h == HandlePthreadEvent(c, Event("trylock", t, l, ret))
           n == Acquired(Tick(c), t, l)
           d == PushState(n, t, CriticalIn(l))
<1>1. h = d \/ h = Tick(c) BY DEF HandlePthreadEvent, HandleTrylock, Event, Tick
<1>2. CASE h = Tick(c) BY <1>2, TickIs DEF OnlyLock, Later
<1>3. CASE h = d
  <2>1. /\ ConvOK(n) /\ n.clock = c.clock + 1 /\ n.stack = c.stack /\ n.warned = c.warned
        /\ OnlyLock(c, n, l)
        BY AcquiresLater DEF Later
  <2> HIDE DEF n
  <2>2. /\ ConvOK(d) /\ d.clock = n.clock /\ d.info = n.info /\ d.warned = n.warned
        /\ StackIs(n, d, t, Append(n.stack[t], CriticalIn(l)))
        BY <2>1, KindOf, PushIs
  <2> HIDE DEF d, h
  <2>3. Later(c, d) /\ d.warned = c.warned /\ OnlyLock(c, d, l)
        /\ \A u \in Threads \ {t} : d.stack[u] = c.stack[u]
        BY <2>1, <2>2 DEF Later, OnlyLock, StackIs
  <2> QED BY <1>3, <2>3 DEF h
<1> HIDE DEF d, h, n
<1> QED BY <1>1, <1>2, <1>3 DEF h

LEMMA UnlockHandled ==
    ASSUME NEW c, ConvOK(c), NEW t \in Threads, NEW l \in Locks
    PROVE  LET d == HandlePthreadEvent(c, Event("unlock", t, l, 0))
           IN /\ Later(c, d) /\ OnlyLock(c, d, l)
              /\ d.info[l].time_release = d.clock
              /\ d.info[l].duration = c.info[l].duration + d.clock - c.info[l].time_acquire
              /\ \A w \in d.warned \ c.warned : w.lock = l /\ c.info[l].last_owner # t
              /\ StackIs(c, d, t, Popped(c.stack[t]))
<1> DEFINE n == Tick(c)
           r == Released(n, l)
           m == CheckMismatch(r, t, l)
           d == PopState(m, t)
<1>1. HandlePthreadEvent(c, Event("unlock", t, l, 0)) = d
      BY DEF HandlePthreadEvent, HandleUnlock, Event, Tick
<1>2. /\ ConvOK(n) /\ n.clock = c.clock + 1
      /\ n.info = c.info /\ n.stack = c.stack /\ n.warned = c.warned
      BY TickIs DEF Later
<1> HIDE DEF n
<1>3. /\ ConvOK(r)
      /\ r.clock = n.clock /\ r.stack = n.stack /\ r.warned = n.warned
      /\ r.info[l].last_owner = n.info[l].last_owner
      /\ r.info[l].time_release = n.clock
      /\ r.info[l].duration = n.info[l].duration + n.clock - n.info[l].time_acquire
      /\ OnlyLock(n, r, l)
      BY <1>2, ReleasedIs
<1> HIDE DEF r
<1>4. /\ ConvOK(m) /\ m.clock = r.clock /\ m.stack = r.stack /\ m.info = r.info
      /\ \A w \in m.warned \ r.warned : w.lock = l /\ r.info[l].last_owner # t
      BY <1>3, MismatchIs
<1> HIDE DEF m
<1>5. /\ ConvOK(d) /\ d.clock = m.clock /\ d.info = m.info /\ d.warned = m.warned
      /\ StackIs(m, d, t, Popped(m.stack[t]))
      BY <1>4, PopIs
<1> HIDE DEF d
<1>6. Later(c, d) BY <1>2, <1>3, <1>4, <1>5 DEF Later
<1>7. OnlyLock(c, d, l) BY <1>2, <1>3, <1>4, <1>5 DEF OnlyLock
<1>8. StackIs(c, d, t, Popped(c.stack[t])) BY <1>2, <1>3, <1>4, <1>5 DEF StackIs
<1>9. \A w \in d.warned \ c.warned : w.lock = l /\ c.info[l].last_owner # t
      BY <1>2, <1>3, <1>4, <1>5
<1>10. /\ d.info[l].time_release = d.clock
       /\ d.info[l].duration = c.info[l].duration + d.clock - c.info[l].time_acquire
       BY <1>2, <1>3, <1>4, <1>5
<1> QED BY <1>1, <1>6, <1>7, <1>8, <1>9, <1>10

-----------------------------------------------------------------------------
(* What a thread is shown to do.                                           *)

Sections(s) == [i \in DOMAIN s |-> CriticalIn(s[i])]

LEMMA SectionsSeq ==
    ASSUME NEW s \in Seq(Exclusive)
    PROVE  /\ Sections(s) \in Seq(States) /\ Len(Sections(s)) = Len(s)
           /\ \A i \in 1 .. Len(s) : Sections(s)[i] = CriticalIn(s[i])
<1>1. Len(s) \in Nat /\ DOMAIN s = 1 .. Len(s) /\ \A i \in 1 .. Len(s) : s[i] \in Exclusive OBVIOUS
<1>2. \A i \in 1 .. Len(s) : CriticalIn(s[i]) \in States BY <1>1 DEF States, Locks, Exclusive
<1>3. Sections(s) = [i \in 1 .. Len(s) |-> CriticalIn(s[i])] BY <1>1 DEF Sections
<1>4. Sections(s) \in Seq(States) BY <1>1, <1>2, <1>3, IsASeq
<1>5. DOMAIN Sections(s) = 1 .. Len(s) BY <1>3
<1> QED BY <1>1, <1>3, <1>4, <1>5, LenProperties

LEMMA SectionsAppend ==
    ASSUME NEW s \in Seq(Exclusive), NEW l \in Exclusive
    PROVE  Sections(Append(s, l)) = Append(Sections(s), CriticalIn(l))
<1> DEFINE r == Append(s, l)
           p == Sections(r)
           q == Append(Sections(s), CriticalIn(l))
<1>1. /\ r \in Seq(Exclusive) /\ Len(r) = Len(s) + 1 /\ r[Len(s) + 1] = l
      /\ \A i \in 1 .. Len(s) : r[i] = s[i]
      BY AppendProperties
<1> HIDE DEF r
<1>2. p \in Seq(States) /\ Len(p) = Len(r) /\ \A i \in 1 .. Len(r) : p[i] = CriticalIn(r[i])
      BY <1>1, SectionsSeq
<1> HIDE DEF p
<1>3. CriticalIn(l) \in States BY DEF States, Locks, Exclusive
<1>4. /\ Sections(s) \in Seq(States) /\ Len(Sections(s)) = Len(s)
      /\ \A i \in 1 .. Len(s) : Sections(s)[i] = CriticalIn(s[i])
      BY SectionsSeq
<1>5. /\ q \in Seq(States) /\ Len(q) = Len(s) + 1 /\ q[Len(s) + 1] = CriticalIn(l)
      /\ \A i \in 1 .. Len(s) : q[i] = Sections(s)[i]
      BY <1>3, <1>4, AppendProperties
<1> HIDE DEF q
<1>6. Len(s) \in Nat OBVIOUS
<1>7. \A i \in 1 .. Len(p) : p[i] = q[i]
  <2> TAKE i \in 1 .. Len(p)
  <2>1. i \in 1 .. Len(s) \/ i = Len(s) + 1 BY <1>1, <1>2, <1>6
  <2>2. i \in 1 .. Len(r) BY <1>2
  <2>3. p[i] = CriticalIn(r[i]) BY <1>2, <2>2
  <2> QED BY <1>1, <1>4, <1>5, <2>1, <2>3
<1>8. p = q BY <1>1, <1>2, <1>5, <1>7, SeqEqual
<1> QED BY <1>8 DEF p, q, r

\* What was pushed last is what a pop takes.
LEMMA PoppedAppend ==
    ASSUME NEW S, NEW s \in Seq(S), NEW x \in S
    PROVE  Popped(Append(s, x)) = s
<1> DEFINE r == Append(s, x)
           p == SubSeq(r, 1, Len(r) - 1)
<1>1. /\ r \in Seq(S) /\ r # << >> /\ Len(r) = Len(s) + 1
      /\ \A i \in 1 .. Len(s) : r[i] = s[i]
      BY AppendProperties
<1>2. Len(s) \in Nat /\ \A i \in 1 .. Len(s) : s[i] \in S OBVIOUS
<1> HIDE DEF r
<1>3. Len(r) - 1 = Len(s) BY <1>1, <1>2
<1>4. \A i \in 1 .. Len(s) : r[i] \in S BY <1>1, <1>2
<1>5. /\ p \in Seq(S)
      /\ Len(p) = IF 1 <= Len(s) THEN Len(s) - 1 + 1 ELSE 0
      /\ \A i \in 1 .. Len(s) - 1 + 1 : p[i] = r[1 + i - 1]
  <2>1. 1 \in Int /\ Len(s) \in Int BY <1>2
  <2> QED BY <1>3, <1>4, <2>1, SubSeqProperties
<1> HIDE DEF p
<1>6. Len(p) = Len(s)
  <2>1. CASE 1 <= Len(s) BY <1>2, <1>5, <2>1
  <2>2. CASE ~(1 <= Len(s)) BY <1>2, <1>5, <2>2
  <2> QED BY <2>1, <2>2
<1>7. \A i \in 1 .. Len(p) : p[i] = s[i]
  <2> TAKE i \in 1 .. Len(p)
  <2>1. i \in 1 .. Len(s) /\ i \in 1 .. Len(s) - 1 + 1 /\ 1 + i - 1 = i BY <1>2, <1>6
  <2> QED BY <1>1, <1>5, <2>1
<1>8. p = s BY <1>5, <1>6, <1>7, SeqEqual
<1> QED BY <1>1, <1>8 DEF Popped, r, p

(* A thread that gives back the lock that it was given last: its sections  *)
(* are what they were before that lock.                                    *)
LEMMA SectionsPopped ==
    ASSUME NEW s \in Seq(Exclusive), NEW l, \E i \in DOMAIN s : s[i] = l, Last(s) = l
    PROVE  Sections(RemoveAt(s, PositionOf(s, l))) = Popped(Sections(s))
<1> DEFINE n == Len(s)
           a == SubSeq(s, 1, n - 1)
           b == SubSeq(s, n + 1, n)
           p == Sections(s)
           q == SubSeq(p, 1, n - 1)
<1>1. n \in Nat \ {0} /\ DOMAIN s = 1 .. n /\ s[n] = l
  <2>1. n \in Nat /\ DOMAIN s = 1 .. n OBVIOUS
  <2> QED BY <2>1 DEF Last
<1>2. PositionOf(s, l) = n
  <2>1. /\ PositionOf(s, l) \in 1 .. n /\ n \in 1 .. n
        /\ \A j \in 1 .. n : s[j] = l => j <= PositionOf(s, l)
        BY <1>1, PositionIs
  <2> QED BY <1>1, <2>1
<1>3. b = << >>
  <2>1. n + 1 > n BY <1>1
  <2> QED BY <1>1, <2>1, SubSeqEmpty
<1>4. \A i \in 1 .. n : s[i] \in Exclusive BY <1>1
<1>5. /\ a \in Seq(Exclusive) /\ Len(a) = n - 1
      /\ \A i \in 1 .. n - 1 : a[i] = s[i]
  <2>1. \A i \in 1 .. n - 1 : s[i] \in Exclusive BY <1>1, <1>4
  <2> QED BY <1>1, <2>1, SubSeqProperties
<1>6. RemoveAt(s, PositionOf(s, l)) = a
  <2>1. RemoveAt(s, PositionOf(s, l)) = a \o b BY <1>2 DEF RemoveAt
  <2> HIDE DEF a, b
  <2> QED BY <1>3, <1>5, <2>1, ConcatEmptySeq
<1>7. p \in Seq(States) /\ Len(p) = n /\ \A i \in 1 .. n : p[i] = CriticalIn(s[i]) BY SectionsSeq
<1> HIDE DEF p, a
<1>8. /\ q \in Seq(States) /\ Len(q) = n - 1
      /\ \A i \in 1 .. n - 1 : q[i] = p[i]
  <2>1. \A i \in 1 .. n - 1 : p[i] \in States BY <1>1, <1>7
  <2> QED BY <1>1, <2>1, SubSeqProperties
<1>9. Sections(a) \in Seq(States) /\ Len(Sections(a)) = n - 1
      /\ \A i \in 1 .. n - 1 : Sections(a)[i] = CriticalIn(a[i])
      BY <1>5, SectionsSeq
<1> HIDE DEF q
<1>10. ASSUME NEW i \in 1 .. n - 1 PROVE Sections(a)[i] = q[i]
  <2>1. i \in 1 .. n BY <1>1
  <2>2. q[i] = CriticalIn(s[i]) BY <1>7, <1>8, <2>1
  <2>3. Sections(a)[i] = CriticalIn(a[i]) /\ a[i] = s[i] BY <1>5, <1>9
  <2> QED BY <2>2, <2>3
<1>11. Sections(a) = q BY <1>8, <1>9, <1>10, SeqEqual
<1>12. p # << >>
  <2>1. Len(p) # 0 BY <1>1, <1>7
  <2> QED BY <2>1
<1>13. Popped(p) = q BY <1>7, <1>12 DEF Popped, q
<1> QED BY <1>6, <1>11, <1>13 DEF p

InCall == {"waiting", "got", "blocked", "woken"}

\* What a thread at a label shows that has the locks s and is in a call on l.
ShownAs(label, s, l) ==
    IF label \in InCall THEN Append(Sections(s), BlockedOn(l)) ELSE Sections(s)

LEMMA ShownIs ==
    ASSUME NEW label, NEW s \in Seq(Exclusive), NEW l, label \in InCall => l \in Locks
    PROVE  [i \in DOMAIN s |-> CriticalIn(s[i])]
             \o (IF label \in {"waiting", "got", "blocked", "woken"} THEN <<BlockedOn(l)>> ELSE << >>)
           = ShownAs(label, s, l)
<1> DEFINE p == Sections(s)
           shown == p \o (IF label \in {"waiting", "got", "blocked", "woken"} THEN <<BlockedOn(l)>> ELSE << >>)
<1>1. p \in Seq(States) BY SectionsSeq
<1>2. p = [i \in DOMAIN s |-> CriticalIn(s[i])] BY DEF Sections
<1> HIDE DEF p
<1>3. CASE label \in InCall
  <2>1. BlockedOn(l) \in States BY <1>3 DEF States
  <2>2. Append(p, BlockedOn(l)) = p \o <<BlockedOn(l)>> BY <1>1, <2>1, AppendIsConcat
  <2>3. shown = p \o <<BlockedOn(l)>> BY <1>3 DEF InCall
  <2>4. shown = ShownAs(label, s, l) BY <1>3, <2>2, <2>3 DEF ShownAs, p
  <2> QED BY <1>2, <2>4
<1>4. CASE label \notin InCall
  <2>1. p \o << >> = p BY <1>1, ConcatEmptySeq
  <2>2. shown = p \o << >> BY <1>4 DEF InCall
  <2>3. shown = ShownAs(label, s, l) BY <1>4, <2>1, <2>2 DEF ShownAs, p
  <2> QED BY <1>2, <2>3
<1> QED BY <1>3, <1>4

-----------------------------------------------------------------------------
(* Steps.                                                                  *)

LEMMA CallLock ==
    ASSUME KInv, NEW t \in Threads, at[t] # "app" \/ next[t] <= Len(work[t])
    PROVE  Call(t).lock \in Locks /\ Fits(Call(t))
<1>1. next[t] <= Len(work[t]) BY DEF KInv
<1>2. next[t] \in DOMAIN work[t] /\ Fits(Call(t)) BY <1>1, CallFits
<1>3. work[t] \in Seq(Calls) BY ProgramsAssumption DEF KInv
<1>4. Call(t) \in Calls BY <1>2, <1>3 DEF Call
<1> QED BY <1>2, <1>4 DEF Calls

\* What every step of a thread leaves alone.
Own(t) ==
    /\ Alone(t) /\ work' = work /\ initialized' = initialized /\ blurred \subseteq blurred'
    /\ next'[t] = next[t] => Call(t)' = Call(t)

LEMMA OwnGoes ==
    ASSUME KInv, NEW t \in Threads, NEW label, Goto(t, label) \/ Return(t), work' = work,
           initialized' = initialized, blurred \subseteq blurred',
           held' = held \/ Given(t) \/ GivenBack(t)
    PROVE  Own(t)
<1>1. \A u \in Threads \ {t} : next'[u] = next[u] /\ at'[u] = at[u]
      BY DEF Goto, Return, KInv
<1>2. \A u \in Threads \ {t} : held'[u] = held[u] BY DEF Given, GivenBack, KInv
<1> QED BY <1>1, <1>2 DEF Own, Alone, Call

LEMMA StepOwn == ASSUME KInv, NEW t \in Threads, Step(t) PROVE Own(t)
<1>1. CASE Start(t) BY <1>1, OwnGoes DEF Start
<1>2. CASE NotLocked(t) BY <1>2, OwnGoes DEF NotLocked
<1>3. CASE Lock(t) BY <1>3, OwnGoes DEF Lock
<1>4. CASE ReadLock(t)
  <2>1. blurred \subseteq blurred' BY <1>4 DEF ReadLock
  <2> QED BY <1>4, <2>1, OwnGoes DEF ReadLock
<1>5. CASE SemWait(t) BY <1>5, OwnGoes DEF SemWait
<1>6. CASE CondWait(t) BY <1>6, OwnGoes DEF CondWait
<1>7. CASE Wakes(t) BY <1>7, OwnGoes DEF Wakes
<1>8. CASE LockAgain(t) BY <1>8, OwnGoes DEF LockAgain
<1>9. CASE Stop(t) BY <1>9, OwnGoes DEF Stop
<1>10. CASE Trylock(t)
  <2>1. PICK label \in {"tried", "failed"} : Goto(t, label) BY <1>10 DEF Trylock
  <2> QED BY <1>10, <2>1, OwnGoes DEF Trylock
<1>11. CASE StopTry(t)
  <2>1. blurred \subseteq blurred' BY <1>11 DEF StopTry
  <2>2. held' = held \/ Given(t) BY <1>11 DEF StopTry
  <2> QED BY <1>11, <2>1, <2>2, OwnGoes DEF StopTry
<1>12. CASE StartUnlock(t) BY <1>12, OwnGoes DEF StartUnlock
<1>13. CASE NotUnlocked(t) BY <1>13, OwnGoes DEF NotUnlocked
<1>14. CASE SkipsUnlock(t) BY <1>14, OwnGoes DEF SkipsUnlock
<1>15. CASE Unlock(t) BY <1>15, OwnGoes DEF Unlock
<1>16. CASE Post(t) BY <1>16, OwnGoes DEF Post
<1> QED BY <1>1, <1>2, <1>3, <1>4, <1>5, <1>6, <1>7, <1>8, <1>9, <1>10, <1>11, <1>12, <1>13, <1>14,
           <1>15, <1>16 DEF Step

-----------------------------------------------------------------------------
(* Who uses a read-write lock that is not blurred uses it alone.           *)

Uses(t, l) == Has(t, l) \/ (at[t] \in {"got", "releasing"} /\ Call(t).lock = l)
Sole(t) ==
    \A l \in RWLocks \ blurred :
        /\ Uses(t, l) => \/ owner[l] = t /\ readers[l] = {}
                         \/ owner[l] = NoThread /\ readers[l] = {t}
        /\ at[t] \in {"got", "releasing"} /\ Call(t).lock = l => ~Has(t, l)
        /\ OnceFor(held[t], l)
RInv == readers \in [RWLocks -> SUBSET Threads] /\ \A t \in Threads : Sole(t)

LEMMA SoleStays ==
    ASSUME NEW u \in Threads, Sole(u), work' = work, next'[u] = next[u], at'[u] = at[u],
           held'[u] = held[u], blurred \subseteq blurred',
           \A l \in RWLocks \ blurred' : Uses(u, l) => owner'[l] = owner[l] /\ readers'[l] = readers[l]
    PROVE  Sole(u)'
<1>1. Call(u)' = Call(u) BY DEF Call
<1>2. \A l : Has(u, l)' <=> Has(u, l) BY DEF Has
<1>3. \A l : Uses(u, l)' <=> Uses(u, l) BY <1>1, <1>2 DEF Uses
<1> QED BY <1>1, <1>2, <1>3 DEF Sole

\* A step of t that is not about a read-write lock.
LEMMA SoleSelf ==
    ASSUME NEW t \in Threads, Sole(t), held'[t] = held[t], blurred \subseteq blurred',
           \A l \in RWLocks : owner'[l] = owner[l] /\ readers'[l] = readers[l],
           at'[t] \in {"got", "releasing"} => Call(t)'.lock \notin RWLocks
    PROVE  Sole(t)'
<1>1. \A l : Has(t, l)' <=> Has(t, l) BY DEF Has
<1>2. \A l \in RWLocks : Uses(t, l)' => Uses(t, l) BY <1>1 DEF Uses
<1> QED BY <1>1, <1>2 DEF Sole

LEMMA InitSole == Init => RInv
<1> SUFFICES ASSUME Init PROVE RInv OBVIOUS
<1>1. readers \in [RWLocks -> SUBSET Threads] BY DEF Init
<1>2. ASSUME NEW t \in Threads PROVE Sole(t)
  <2>1. at[t] = "app" /\ held[t] = << >> BY DEF Init
  <2>2. DOMAIN held[t] = {} BY <2>1
  <2> QED BY <2>1, <2>2 DEF Sole, Uses, Has, OnceFor
<1> QED BY <1>1, <1>2 DEF RInv

LEMMA NextSole == KInv /\ RInv /\ [Next]_vars => RInv'
<1> SUFFICES ASSUME KInv, RInv, [Next]_vars PROVE RInv' OBVIOUS
<1> DEFINE ReadersOK == readers' \in [RWLocks -> SUBSET Threads]
           SameRW == \A l \in RWLocks : owner'[l] = owner[l] /\ readers'[l] = readers[l]
<1>0. readers \in [RWLocks -> SUBSET Threads] /\ \A t \in Threads : Sole(t) BY DEF RInv
<1>a. \A t \in Threads : at[t] # "app" => next[t] <= Len(work[t]) BY DEF KInv
<1>b. \A l \in Mutexes \cup Spins : l \notin RWLocks BY KindsAssumption

(* A thread takes the step, and the others keep what they use. *)
<1>c. ASSUME NEW t \in Threads, Own(t), ReadersOK, Sole(t)',
             \A u \in Threads \ {t} : \A l \in RWLocks \ blurred' :
                 Uses(u, l) => owner'[l] = owner[l] /\ readers'[l] = readers[l]
      PROVE  RInv'
  <2>1. \A u \in Threads \ {t} : Sole(u)' BY <1>0, <1>c, SoleStays DEF Own, Alone
  <2> QED BY <1>c, <2>1 DEF RInv
<1>d. ASSUME NEW t \in Threads, Own(t), SameRW, readers' = readers, held'[t] = held[t],
             at'[t] \in {"got", "releasing"} => Call(t)'.lock \notin RWLocks
      PROVE  RInv'
  <2>1. Sole(t)' BY <1>0, <1>d, SoleSelf DEF Own
  <2> QED BY <1>0, <1>c, <1>d, <2>1

(* Steps that give a lock to the application, or take it back. *)
<1>1. ASSUME NEW t \in Threads, Own(t), SameRW, readers' = readers, Given(t), at'[t] = "app",
             Call(t).lock \in Exclusive, Call(t).lock \in RWLocks => at[t] = "got"
      PROVE  RInv'
  <2> DEFINE k == Call(t).lock
  <2>1. held'[t] = Append(held[t], k) /\ held[t] \in Seq(Exclusive)
        BY <1>1, GivenHeld DEF KInv
  <2>2. \A l : Has(t, l)' <=> l = k \/ Has(t, l) BY <1>1, HasGiven
  <2>3. Sole(t)'
    <3> SUFFICES ASSUME NEW l \in RWLocks \ blurred' PROVE (Uses(t, l)' => Uses(t, l)) /\ OnceFor(held'[t], l)
        BY <1>0, <1>1 DEF Sole, Own
    <3>1. l \in RWLocks \ blurred BY <1>1 DEF Own
    <3>2. Uses(t, l)' => Uses(t, l) BY <1>1, <2>2, <3>1 DEF Uses
    <3>3. OnceFor(held[t], l) /\ (l = k => ~Has(t, l)) BY <1>0, <1>1, <3>1 DEF Sole
    <3>4. OnceFor(held'[t], l) BY <1>1, <2>1, <3>3, AppendHas DEF Has
    <3> QED BY <3>2, <3>4
  <2> QED BY <1>0, <1>1, <1>c, <2>3
<1>2. ASSUME NEW t \in Threads, Own(t), SameRW, readers' = readers, GivenBack(t), HasLock(t),
             at'[t] \in {"app", "releasing"}, at'[t] = "releasing" => next'[t] = next[t]
      PROVE  RInv'
  <2> DEFINE k == Call(t).lock
  <2>1. /\ \A i \in DOMAIN held'[t] : \E j \in DOMAIN held[t] : held'[t][i] = held[t][j]
        /\ \A l : OnceFor(held[t], l) => OnceFor(held'[t], l)
        /\ OnceFor(held[t], k) => \A i \in DOMAIN held'[t] : held'[t][i] # k
        BY <1>2, GivenBackHeld
  <2>2. \A l : Has(t, l)' => Has(t, l)
    <3> TAKE l
    <3>1. ASSUME NEW i \in DOMAIN held'[t], held'[t][i] = l PROVE Has(t, l)
          BY <2>1, <3>1 DEF Has
    <3> QED BY <3>1 DEF Has
  <2>3. \A l : l = k /\ OnceFor(held[t], l) => ~Has(t, l)' BY <2>1 DEF Has
  <2>4. Has(t, k) BY <1>2 DEF Has, HasLock
  <2>5. ASSUME NEW l \in RWLocks \ blurred'
        PROVE  /\ Uses(t, l)' => Uses(t, l)
               /\ OnceFor(held'[t], l)
               /\ at'[t] \in {"got", "releasing"} /\ Call(t)'.lock = l => ~Has(t, l)'
    <3>1. l \in RWLocks \ blurred BY <1>2, <2>5 DEF Own
    <3>2. OnceFor(held[t], l) BY <1>0, <3>1 DEF Sole
    <3>3. OnceFor(held'[t], l) BY <2>1, <3>2
    <3>4. at'[t] \in {"got", "releasing"} /\ Call(t)'.lock = l => l = k BY <1>2 DEF Own
    <3>5. Uses(t, l)' => Uses(t, l) BY <2>2, <2>4, <3>4 DEF Uses
    <3>6. at'[t] \in {"got", "releasing"} /\ Call(t)'.lock = l => ~Has(t, l)' BY <2>3, <3>2, <3>4
    <3> QED BY <3>3, <3>5, <3>6
  <2>6. Sole(t)' BY <1>0, <1>2, <2>5 DEF Sole, Own
  <2> QED BY <1>0, <1>2, <1>c, <2>6

<1>3. ASSUME NEW t \in Threads, Start(t) \/ Wakes(t) \/ SkipsUnlock(t) \/ Post(t) PROVE RInv'
  <2>1. Own(t) BY <1>3, StepOwn DEF Step
  <2>2. SameRW /\ readers' = readers /\ held' = held
        BY <1>3 DEF Start, Wakes, SkipsUnlock, Post, real
  <2>3. at'[t] \notin {"got", "releasing"}
        BY <1>3 DEF Start, Wakes, SkipsUnlock, Post, Goto, Return, KInv
  <2> QED BY <1>d, <2>1, <2>2, <2>3
<1>4. ASSUME NEW t \in Threads, NotLocked(t) PROVE RInv'
  <2>1. Own(t) BY <1>4, StepOwn DEF Step
  <2>2. SameRW /\ readers' = readers /\ Given(t) /\ at'[t] = "app"
        /\ next[t] <= Len(work[t]) /\ Call(t).op \in {"lock", "trylock"}
        BY <1>4 DEF NotLocked, real, Return, KInv, MakesCall
  <2>3. Call(t).lock \in Mutexes \cup Spins BY <2>2, CallFits DEF Fits
  <2> QED BY <1>1, <1>b, <2>1, <2>2, <2>3 DEF Exclusive
<1>5. ASSUME NEW t \in Threads, Lock(t) PROVE RInv'
  <2> DEFINE k == Call(t).lock
  <2>1. Own(t) BY <1>5, StepOwn DEF Step
  <2>2. /\ at[t] = "waiting" /\ Call(t).op \in {"lock", "wrlock"} /\ owner[k] = NoThread /\ NobodyReads(k)
        /\ owner' = [owner EXCEPT ![k] = t] /\ readers' = readers /\ held' = held
        /\ Goto(t, "got") /\ blurred' = blurred
        BY <1>5 DEF Lock
  <2>3. at'[t] = "got" /\ next' = next /\ Call(t)' = Call(t) BY <2>1, <2>2 DEF Goto, KInv, Own
  <2>4. k \in Exclusive BY <1>a, <2>2, CallFits DEF Fits, Exclusive
  <2>5. CASE k \notin RWLocks
    <3>1. SameRW BY <2>2, <2>5
    <3> QED BY <1>d, <2>1, <2>2, <2>3, <2>5, <3>1
  <2>6. CASE k \in RWLocks
    <3>1. readers[k] = {} BY <2>2, <2>6 DEF NobodyReads
    <3>2. k \notin blurred => \A u \in Threads : ~Uses(u, k)
          BY <1>0, <2>2, <2>6, <3>1, KindsAssumption DEF Sole
    <3>3. \A l \in RWLocks \ {k} : owner'[l] = owner[l] BY <2>2
    <3>4. \A u \in Threads : \A l \in RWLocks \ blurred' :
              Uses(u, l) => owner'[l] = owner[l] /\ readers'[l] = readers[l]
          BY <2>2, <3>2, <3>3
    <3>5. owner'[k] = t BY <2>2, <2>4 DEF KInv
    <3>6. Sole(t)'
      <4>1. \A l : Has(t, l)' <=> Has(t, l) BY <2>2 DEF Has
      <4>2. \A l : l # k => (Uses(t, l)' => Uses(t, l)) BY <2>3, <4>1 DEF Uses
      <4>3. ASSUME NEW l \in RWLocks \ blurred'
            PROVE  /\ Uses(t, l)' => \/ owner'[l] = t /\ readers'[l] = {}
                                     \/ owner'[l] = NoThread /\ readers'[l] = {t}
                   /\ at'[t] \in {"got", "releasing"} /\ Call(t)'.lock = l => ~Has(t, l)'
                   /\ OnceFor(held'[t], l)
        <5>1. l \in RWLocks \ blurred /\ OnceFor(held'[t], l) BY <1>0, <2>2 DEF Sole
        <5>2. CASE l = k
          <6>1. ~Has(t, l) BY <3>2, <5>1, <5>2 DEF Uses
          <6> QED BY <2>2, <3>1, <3>5, <4>1, <5>1, <5>2, <6>1
        <5>3. CASE l # k
          <6>1. Uses(t, l)' => Uses(t, l) BY <4>2, <5>3
          <6>2. owner'[l] = owner[l] /\ readers'[l] = readers[l] BY <2>2, <3>3, <5>3
          <6>3. Uses(t, l) => \/ owner[l] = t /\ readers[l] = {}
                              \/ owner[l] = NoThread /\ readers[l] = {t}
                BY <1>0, <5>1 DEF Sole
          <6> QED BY <2>3, <5>1, <5>3, <6>1, <6>2, <6>3
        <5> QED BY <5>2, <5>3
      <4> QED BY <4>3 DEF Sole
    <3> QED BY <1>0, <1>c, <2>1, <2>2, <3>4, <3>6
  <2> QED BY <2>5, <2>6
<1>6. ASSUME NEW t \in Threads, ReadLock(t) PROVE RInv'
  <2> DEFINE k == Call(t).lock
  <2>1. Own(t) BY <1>6, StepOwn DEF Step
  <2>2. /\ at[t] = "waiting" /\ Call(t).op = "rdlock" /\ owner[k] = NoThread
        /\ readers' = [readers EXCEPT ![k] = @ \cup {t}] /\ owner' = owner /\ held' = held
        /\ blurred' = IF readers[k] = {} THEN blurred ELSE blurred \cup {k}
        /\ Goto(t, "got")
        BY <1>6 DEF ReadLock
  <2>3. at'[t] = "got" /\ next' = next /\ Call(t)' = Call(t) BY <2>1, <2>2 DEF Goto, KInv, Own
  <2>4. k \in RWLocks BY <1>a, <2>2, CallFits DEF Fits
  <2>5. ReadersOK /\ readers'[k] = readers[k] \cup {t} /\ \A l \in RWLocks \ {k} : readers'[l] = readers[l]
        BY <1>0, <2>2, <2>4
  <2>6. k \notin blurred' => readers[k] = {} /\ k \notin blurred BY <2>2
  <2>7. k \notin blurred' => \A u \in Threads : ~Uses(u, k)
        BY <1>0, <2>2, <2>4, <2>6, KindsAssumption DEF Sole
  <2>8. \A u \in Threads : \A l \in RWLocks \ blurred' :
            Uses(u, l) => owner'[l] = owner[l] /\ readers'[l] = readers[l]
        BY <2>2, <2>5, <2>7
  <2>9. Sole(t)'
    <3>1. \A l : Has(t, l)' <=> Has(t, l) BY <2>2 DEF Has
    <3>2. \A l : l # k => (Uses(t, l)' => Uses(t, l)) BY <2>3, <3>1 DEF Uses
    <3>3. ASSUME NEW l \in RWLocks \ blurred'
          PROVE  /\ Uses(t, l)' => \/ owner'[l] = t /\ readers'[l] = {}
                                   \/ owner'[l] = NoThread /\ readers'[l] = {t}
                 /\ at'[t] \in {"got", "releasing"} /\ Call(t)'.lock = l => ~Has(t, l)'
                 /\ OnceFor(held'[t], l)
      <4>1. l \in RWLocks \ blurred BY <2>1 DEF Own
      <4>2. OnceFor(held'[t], l) BY <1>0, <2>2, <4>1 DEF Sole
      <4>3. CASE l = k
        <5>1. ~Has(t, l) BY <2>7, <4>3 DEF Uses
        <5>2. owner'[l] = NoThread /\ readers'[l] = {t} BY <2>2, <2>5, <2>6, <4>3
        <5> QED BY <3>1, <4>2, <5>1, <5>2
      <4>4. CASE l # k
        <5>1. Uses(t, l)' => Uses(t, l) BY <3>2, <4>4
        <5>2. owner'[l] = owner[l] /\ readers'[l] = readers[l] BY <2>2, <2>5, <4>4
        <5>3. Uses(t, l) => \/ owner[l] = t /\ readers[l] = {}
                            \/ owner[l] = NoThread /\ readers[l] = {t}
              BY <1>0, <4>1 DEF Sole
        <5> QED BY <2>3, <4>2, <4>4, <5>1, <5>2, <5>3
      <4> QED BY <4>3, <4>4
    <3> QED BY <3>3 DEF Sole
  <2> QED BY <1>c, <2>1, <2>5, <2>8, <2>9
<1>7. ASSUME NEW t \in Threads, SemWait(t) PROVE RInv'
  <2>1. Own(t) BY <1>7, StepOwn DEF Step
  <2>2. at[t] = "waiting" /\ Call(t).op = "sem_wait" /\ owner' = owner /\ readers' = readers
        /\ held' = held /\ Goto(t, "got")
        BY <1>7 DEF SemWait
  <2>3. Call(t)' = Call(t) BY <2>1, <2>2 DEF Goto, Own
  <2>4. Call(t).lock \notin RWLocks BY <1>a, <2>2, CallFits, KindsAssumption DEF Fits, Exclusive
  <2> QED BY <1>d, <2>1, <2>2, <2>3, <2>4
<1>8. ASSUME NEW t \in Threads, CondWait(t) \/ LockAgain(t) PROVE RInv'
  <2> DEFINE m == Call(t).mutex
  <2>1. Own(t) BY <1>8, StepOwn DEF Step
  <2>2. at[t] \in {"waiting", "woken"} /\ Call(t).op = "wait" /\ readers' = readers /\ held' = held
        /\ next' = next
        /\ \E who : owner' = [owner EXCEPT ![m] = who]
        BY <1>8 DEF CondWait, LockAgain, KInv, Goto
  <2>3. Call(t)' = Call(t) BY <2>1, <2>2 DEF Own
  <2>4. Call(t).lock \in Conditions /\ m \in Mutexes BY <1>a, <2>2, CallFits DEF Fits
  <2>5. Call(t).lock \notin RWLocks BY <2>4, KindsAssumption DEF Exclusive
  <2>6. SameRW BY <1>b, <2>2, <2>4
  <2> QED BY <1>d, <2>1, <2>2, <2>3, <2>5, <2>6
<1>9. ASSUME NEW t \in Threads, Stop(t) PROVE RInv'
  <2>1. Own(t) BY <1>9, StepOwn DEF Step
  <2>2. at[t] = "got" /\ SameRW /\ readers' = readers /\ at'[t] = "app"
        BY <1>9 DEF Stop, real, Return, KInv
  <2>3. CASE Call(t).op \in {"lock", "rdlock", "wrlock"}
    <3>1. Given(t) BY <1>9, <2>3 DEF Stop
    <3>2. Call(t).lock \in Exclusive BY <1>a, <2>2, <2>3, CallFits DEF Fits, Exclusive
    <3> QED BY <1>1, <2>1, <2>2, <3>1, <3>2
  <2>4. CASE Call(t).op \notin {"lock", "rdlock", "wrlock"}
    <3>1. held' = held BY <1>9, <2>4 DEF Stop
    <3> QED BY <1>d, <2>1, <2>2, <3>1
  <2> QED BY <2>3, <2>4
<1>10. ASSUME NEW t \in Threads, Trylock(t) PROVE RInv'
  <2>1. Own(t) BY <1>10, StepOwn DEF Step
  <2>2. /\ next[t] <= Len(work[t]) /\ Call(t).op = "trylock" /\ readers' = readers /\ held' = held
        /\ owner' = owner \/ owner' = [owner EXCEPT ![Call(t).lock] = t]
        /\ at'[t] \in {"tried", "failed"}
        BY <1>10 DEF Trylock, MakesCall, Goto, KInv
  <2>3. Call(t).lock \notin RWLocks BY <1>b, <2>2, CallFits DEF Fits
  <2>4. SameRW
    <3>1. CASE owner' = owner BY <2>2, <3>1
    <3>2. CASE owner' = [owner EXCEPT ![Call(t).lock] = t] BY <2>2, <2>3, <3>2
    <3> QED BY <2>2, <3>1, <3>2
  <2> QED BY <1>d, <2>1, <2>2, <2>4
<1>11. ASSUME NEW t \in Threads, StopTry(t) PROVE RInv'
  <2>1. Own(t) BY <1>11, StepOwn DEF Step
  <2>2. at[t] \in {"tried", "failed"} /\ Call(t).op = "trylock" /\ SameRW /\ readers' = readers /\ at'[t] = "app"
        BY <1>11 DEF StopTry, real, Return, KInv
  <2>3. Call(t).lock \in Mutexes \cup Spins BY <1>a, <2>2, CallFits DEF Fits
  <2>4. CASE Given(t) BY <1>1, <1>b, <2>1, <2>2, <2>3, <2>4 DEF Exclusive
  <2>5. CASE held' = held BY <1>d, <2>1, <2>2, <2>5
  <2> QED BY <1>11, <2>4, <2>5 DEF StopTry
<1>12. ASSUME NEW t \in Threads, StartUnlock(t) PROVE RInv'
  <2>1. Own(t) BY <1>12, StepOwn DEF Step
  <2>2. SameRW /\ readers' = readers /\ GivenBack(t) /\ HasLock(t) /\ at'[t] = "releasing" /\ next'[t] = next[t]
        BY <1>12 DEF StartUnlock, real, Goto, KInv
  <2> QED BY <1>2, <2>1, <2>2
<1>13. ASSUME NEW t \in Threads, NotUnlocked(t) PROVE RInv'
  <2>1. Own(t) BY <1>13, StepOwn DEF Step
  <2>2. SameRW /\ readers' = readers /\ GivenBack(t) /\ HasLock(t) /\ at'[t] = "app"
        /\ Call(t).lock \in Mutexes
        BY <1>13 DEF NotUnlocked, real, Return, KInv, Passes
  <2> QED BY <1>2, <1>b, <2>1, <2>2
<1>14. ASSUME NEW t \in Threads, Unlock(t) PROVE RInv'
  <2> DEFINE k == Call(t).lock
  <2>1. Own(t) BY <1>14, StepOwn DEF Step
  <2>2. at[t] = "releasing" /\ at'[t] = "app" /\ held' = held /\ blurred' = blurred
        BY <1>14 DEF Unlock, Return, KInv
  <2>3. /\ \A l \in RWLocks \ {k} : owner'[l] = owner[l] /\ readers'[l] = readers[l]
        /\ ReadersOK
    <3>1. CASE owner' = [owner EXCEPT ![k] = NoThread] /\ readers' = readers BY <1>0, <3>1
    <3>2. CASE readers' = [readers EXCEPT ![k] = @ \ {t}] /\ owner' = owner BY <1>0, <3>2
    <3> QED BY <1>14, <3>1, <3>2 DEF Unlock
  <2>4. Uses(t, k) /\ \A l \in RWLocks \ blurred : l = k => ~Uses(t, l)'
    <3>1. Uses(t, k) BY <2>2 DEF Uses
    <3>2. ASSUME NEW l \in RWLocks \ blurred, l = k PROVE ~Uses(t, l)'
      <4>1. ~Has(t, l) BY <1>0, <2>2, <3>2 DEF Sole
      <4>2. Has(t, l)' <=> Has(t, l) BY <2>2 DEF Has
      <4> QED BY <2>2, <4>1, <4>2 DEF Uses
    <3> QED BY <3>1, <3>2
  <2>5. k \in RWLocks \ blurred => \A u \in Threads \ {t} : ~Uses(u, k)
        BY <1>0, <2>4, KindsAssumption DEF Sole
  <2>6. \A u \in Threads \ {t} : \A l \in RWLocks \ blurred' :
            Uses(u, l) => owner'[l] = owner[l] /\ readers'[l] = readers[l]
        BY <2>2, <2>3, <2>5
  <2>7. Sole(t)'
    <3>1. \A l : Has(t, l)' <=> Has(t, l) BY <2>2 DEF Has
    <3>2. \A l : Uses(t, l)' => Uses(t, l) BY <2>2, <3>1 DEF Uses
    <3>3. ASSUME NEW l \in RWLocks \ blurred
          PROVE  Uses(t, l)' => \/ owner'[l] = t /\ readers'[l] = {}
                                \/ owner'[l] = NoThread /\ readers'[l] = {t}
      <4>1. CASE l = k BY <2>4, <4>1
      <4>2. CASE l # k
        <5>1. owner'[l] = owner[l] /\ readers'[l] = readers[l] BY <2>3, <4>2
        <5>2. Uses(t, l) => \/ owner[l] = t /\ readers[l] = {}
                            \/ owner[l] = NoThread /\ readers[l] = {t}
              BY <1>0 DEF Sole
        <5> QED BY <3>2, <5>1, <5>2
      <4> QED BY <4>1, <4>2
    <3>4. \A l \in RWLocks \ blurred : OnceFor(held'[t], l) BY <1>0, <2>2 DEF Sole
    <3> QED BY <2>2, <3>3, <3>4 DEF Sole
  <2> QED BY <1>c, <2>1, <2>3, <2>6, <2>7
<1>15. ASSUME NEW b \in Barriers, BarrierOpens(b) PROVE RInv'
  <2>1. work' = work /\ next' = next /\ held' = held /\ owner' = owner /\ readers' = readers /\ blurred' = blurred
        BY <1>15 DEF BarrierOpens, real
  <2> SUFFICES ASSUME NEW t \in Threads PROVE Sole(t)' BY <1>0, <2>1 DEF RInv
  <2>2. CASE t \in Meets(b)
    <3>1. Call(t)' = Call(t) /\ Call(t).lock = b BY <1>15, <2>1, <2>2 DEF BarrierOpens, Call
    <3>2. b \notin RWLocks BY KindsAssumption DEF Exclusive
    <3> QED BY <1>0, <2>1, <3>1, <3>2, SoleSelf
  <2>3. CASE t \notin Meets(b)
    <3>1. at'[t] = at[t] BY <1>15, <2>3 DEF BarrierOpens
    <3> QED BY <1>0, <2>1, <3>1, SoleStays
  <2> QED BY <2>2, <2>3
<1>16. CASE Conclude \/ Terminated \/ UNCHANGED vars
  <2>1. /\ work' = work /\ next' = next /\ held' = held /\ at' = at /\ owner' = owner
        /\ readers' = readers /\ blurred' = blurred
        BY <1>16 DEF Conclude, Terminated, vars, real
  <2> QED BY <1>0, <2>1, SoleStays DEF RInv
<1> QED BY <1>3, <1>4, <1>5, <1>6, <1>7, <1>8, <1>9, <1>10, <1>11, <1>12, <1>13, <1>14, <1>15, <1>16
        DEF Next, Step

-----------------------------------------------------------------------------
(* What the events of the steps do to the converter.                       *)

LEMMA RecordIs ==
    ASSUME NEW t, NEW code, NEW ret, Record(t, code, ret)
    PROVE  /\ initialized => conv' = HandlePthreadEvent(conv, Event(code, t, Call(t).lock, ret))
           /\ ~initialized => conv' = conv
BY DEF Record, Event

\* The calls whose end the application sees as a lock that it was given.
Taking == {"lock", "rdlock", "wrlock"}

LEMMA StartConv ==
    ASSUME KInv, ConvOK(conv), initialized, NEW t \in Threads, Start(t)
    PROVE  /\ Later(conv, conv') /\ conv'.info = conv.info /\ conv'.warned = conv.warned
           /\ StackIs(conv, conv', t, Append(conv.stack[t], BlockedOn(Call(t).lock)))
<1>1. Record(t, "start", 0) /\ next[t] <= Len(work[t]) BY DEF Start, MakesCall
<1>2. Call(t).lock \in Locks BY <1>1, CallLock
<1>3. conv' = HandlePthreadEvent(conv, Event("start", t, Call(t).lock, 0)) BY <1>1, RecordIs
<1> QED BY <1>2, <1>3, StartHandled

LEMMA StopConv ==
    ASSUME KInv, ConvOK(conv), initialized, NEW t \in Threads, Stop(t), Call(t).op \in Taking
    PROVE  /\ Call(t).lock \in Exclusive
           /\ Later(conv, conv') /\ conv'.warned = conv.warned
           /\ TakenNow(conv, conv', t, Call(t).lock) /\ OnlyLock(conv, conv', Call(t).lock)
           /\ StackIs(conv, conv', t, Append(Popped(conv.stack[t]), CriticalIn(Call(t).lock)))
<1>1. Record(t, "stop", 0) /\ at[t] = "got" BY DEF Stop
<1>2. Call(t).lock \in Exclusive BY <1>1, CallLock DEF Fits, Taking, Exclusive
<1>3. conv' = HandlePthreadEvent(conv, Event("stop", t, Call(t).lock, 0)) BY <1>1, RecordIs
<1> QED BY <1>2, <1>3, StopHandled

LEMMA StopOtherConv ==
    ASSUME KInv, ConvOK(conv), initialized, NEW t \in Threads, Stop(t), Call(t).op \notin Taking
    PROVE  /\ Call(t).lock \notin Exclusive
           /\ Later(conv, conv') /\ conv'.warned = conv.warned
           /\ OnlyLock(conv, conv', Call(t).lock)
           /\ StackIs(conv, conv', t, Popped(conv.stack[t]))
<1>1. Record(t, "stop", 0) /\ at[t] = "got" BY DEF Stop
<1>2. Call(t).op \in Blocking BY <1>1 DEF KInv
<1>3. Call(t).lock \in Locks \ Exclusive
      BY <1>1, <1>2, CallLock, KindsAssumption DEF Fits, Taking, Blocking
<1>4. conv' = HandlePthreadEvent(conv, Event("stop", t, Call(t).lock, 0)) BY <1>1, RecordIs
<1> QED BY <1>3, <1>4, StopOtherHandled

LEMMA StopTryConv ==
    ASSUME KInv, ConvOK(conv), initialized, NEW t \in Threads, StopTry(t)
    PROVE  \/ /\ Call(t).lock \in Spins
              /\ Later(conv, conv') /\ conv'.warned = conv.warned
              /\ OnlyLock(conv, conv', Call(t).lock)
              /\ \A u \in Threads \ {t} : conv'.stack[u] = conv.stack[u]
           \/ /\ Call(t).lock \in Mutexes /\ at[t] = "tried"
              /\ Later(conv, conv') /\ conv'.warned = conv.warned
              /\ TakenNow(conv, conv', t, Call(t).lock) /\ OnlyLock(conv, conv', Call(t).lock)
              /\ StackIs(conv, conv', t, Append(conv.stack[t], CriticalIn(Call(t).lock)))
           \/ Call(t).lock \in Mutexes /\ at[t] = "failed" /\ conv' = conv /\ held' = held
<1> DEFINE l == Call(t).lock
<1>1. at[t] \in {"tried", "failed"} /\ Call(t).op = "trylock" BY DEF StopTry, KInv
<1>2. l \in Locks /\ l \in Mutexes \cup Spins BY <1>1, CallLock DEF Fits
<1>3. CASE l \in Spins
  <2>1. PICK ret \in {0, 1} : Record(t, "trylock", ret) BY <1>3 DEF StopTry
  <2>2. conv' = HandlePthreadEvent(conv, Event("trylock", t, l, ret)) /\ ret \in Nat BY <2>1, RecordIs
  <2> QED BY <1>2, <1>3, <2>2, TrySpinHandled
<1>4. CASE l \notin Spins /\ at[t] = "tried"
  <2>1. Record(t, "trylock", 0) BY <1>4 DEF StopTry
  <2>2. conv' = HandlePthreadEvent(conv, Event("trylock", t, l, 0)) /\ 0 \in Nat BY <2>1, RecordIs
  <2>3. l \in Mutexes BY <1>2, <1>4
  <2> QED BY <1>4, <2>2, <2>3, TryMutexHandled
<1>5. CASE l \notin Spins /\ at[t] = "failed" BY <1>2, <1>5 DEF StopTry
<1> QED BY <1>1, <1>3, <1>4, <1>5

LEMMA StartUnlockConv ==
    ASSUME KInv, ConvOK(conv), initialized, NEW t \in Threads, StartUnlock(t)
    PROVE  LET l == Call(t).lock
           IN /\ l \in Exclusive
              /\ Later(conv, conv') /\ OnlyLock(conv, conv', l)
              /\ conv'.info[l].time_release = conv'.clock
              /\ conv'.info[l].duration = conv.info[l].duration + conv'.clock - conv.info[l].time_acquire
              /\ \A w \in conv'.warned \ conv.warned : w.lock = l /\ conv.info[l].last_owner # t
              /\ StackIs(conv, conv', t, Popped(conv.stack[t]))
<1>1. Record(t, "unlock", 0) /\ next[t] <= Len(work[t]) /\ Call(t).op = "unlock"
      BY DEF StartUnlock, MakesCall
<1>2. Call(t).lock \in Exclusive /\ Call(t).lock \in Locks BY <1>1, CallLock DEF Fits
<1>3. conv' = HandlePthreadEvent(conv, Event("unlock", t, Call(t).lock, 0)) BY <1>1, RecordIs
<1> QED BY <1>2, <1>3, UnlockHandled

\* The steps that record nothing.
Quiet(t) ==
    \/ NotLocked(t) \/ Lock(t) \/ ReadLock(t) \/ SemWait(t) \/ CondWait(t) \/ Wakes(t)
    \/ LockAgain(t) \/ Trylock(t) \/ NotUnlocked(t) \/ SkipsUnlock(t) \/ Unlock(t) \/ Post(t)
Recording(t) == Start(t) \/ Stop(t) \/ StopTry(t) \/ StartUnlock(t)

LEMMA StepKinds ==
    ASSUME NEW t \in Threads
    PROVE  /\ Step(t) => Quiet(t) \/ Recording(t)
           /\ Quiet(t) => conv' = conv
           /\ Recording(t) /\ ~initialized => conv' = conv
           /\ Quiet(t) /\ initialized => held' = held /\ nested' = nested
<1>1. Step(t) => Quiet(t) \/ Recording(t) BY DEF Step, Quiet, Recording
<1>2. Quiet(t) => conv' = conv
      BY DEF Quiet, NotLocked, Lock, ReadLock, SemWait, CondWait, Wakes, LockAgain, Trylock,
             NotUnlocked, SkipsUnlock, Unlock, Post
<1>3. Recording(t) /\ ~initialized => conv' = conv
      BY DEF Recording, Start, Stop, StopTry, StartUnlock, Record
<1>4. Quiet(t) /\ initialized => held' = held /\ nested' = nested
      BY DEF Quiet, NotLocked, Lock, ReadLock, SemWait, CondWait, Wakes, LockAgain, Trylock,
             NotUnlocked, SkipsUnlock, Unlock, Post, Passes
<1> QED BY <1>1, <1>2, <1>3, <1>4

LEMMA ConvKinds == KInv /\ ConvOK(conv) /\ [Next]_vars => ConvOK(conv')
<1> SUFFICES ASSUME KInv, ConvOK(conv), [Next]_vars, conv' # conv PROVE ConvOK(conv') OBVIOUS
<1>1. PICK t \in Threads : Step(t)
      BY DEF Next, vars, BarrierOpens, Conclude, Terminated
<1>2. Recording(t) /\ initialized BY <1>1, StepKinds
<1>3. CASE Start(t) BY <1>2, <1>3, StartConv DEF Later
<1>4. CASE Stop(t) BY <1>2, <1>4, StopConv, StopOtherConv DEF Later
<1>5. CASE StopTry(t) BY <1>2, <1>5, StopTryConv DEF Later
<1>6. CASE StartUnlock(t) BY <1>2, <1>6, StartUnlockConv DEF Later
<1> QED BY <1>2, <1>3, <1>4, <1>5, <1>6 DEF Recording

LEMMA InitConv == Init => ConvOK(conv)
<1> SUFFICES ASSUME Init PROVE ConvOK(conv) OBVIOUS
<1>1. NewLockInfo \in LockInfo /\ NewLockInfo.time_acquire = 0 BY DEF NewLockInfo, LockInfo
<1>2. << >> \in Seq(States) /\ 0 \in Nat OBVIOUS
<1>3. conv = [clock |-> 0, info |-> [l \in Locks |-> NewLockInfo],
              stack |-> [t \in Threads |-> << >>], warned |-> {}]
      BY DEF Init, NothingKnown
<1>4. conv \in Known /\ conv.clock = 0 /\ \A l \in Locks : conv.info[l] = NewLockInfo
      BY <1>1, <1>2, <1>3 DEF Known
<1> QED BY <1>1, <1>4 DEF ConvOK

-----------------------------------------------------------------------------
(* The states shown.                                                       *)

LEMMA ShownNow ==
    KInv => \A t \in Threads : Shown(t) = ShownAs(at[t], held[t], Call(t).lock)
<1> SUFFICES ASSUME KInv, NEW t \in Threads PROVE Shown(t) = ShownAs(at[t], held[t], Call(t).lock)
    OBVIOUS
<1>1. held[t] \in Seq(Exclusive) BY DEF KInv
<1>2. at[t] \in InCall => Call(t).lock \in Locks BY CallLock DEF InCall
<1> QED BY <1>1, <1>2, ShownIs DEF Shown

LEMMA ShownNext ==
    (KInv => \A t \in Threads : Shown(t) = ShownAs(at[t], held[t], Call(t).lock))'
BY ShownNow, PTL

HInv == nested \subseteq Threads /\ StatesShown

LEMMA NextShown == KInv /\ ConvOK(conv) /\ HInv /\ [Next]_vars => HInv'
<1> SUFFICES ASSUME KInv, ConvOK(conv), HInv, [Next]_vars PROVE HInv' OBVIOUS
<1>b. StatesShown /\ nested \subseteq Threads BY DEF HInv
<1>c. nested' \subseteq nested
      BY DEF Next, Step, vars, Start, NotLocked, Lock, ReadLock, SemWait, CondWait, Wakes, LockAgain,
             Stop, Trylock, StopTry, StartUnlock, NotUnlocked, SkipsUnlock, Unlock, Post,
             BarrierOpens, Conclude, Terminated
<1> SUFFICES ASSUME initialized', NEW u \in Threads, u \in nested'
             PROVE  conv'.stack[u] = Shown(u)'
    BY <1>b, <1>c DEF HInv, StatesShown
<1>1. KInv' BY NextKinds
<1>2. Shown(u)' = ShownAs(at'[u], held'[u], Call(u)'.lock) BY <1>1, ShownNext
<1>3. Shown(u) = ShownAs(at[u], held[u], Call(u).lock) BY ShownNow
<1>0. initialized
      BY DEF Next, Step, vars, Start, NotLocked, Lock, ReadLock, SemWait, CondWait, Wakes, LockAgain,
             Stop, Trylock, StopTry, StartUnlock, NotUnlocked, SkipsUnlock, Unlock, Post,
             BarrierOpens, Conclude, Terminated
<1>4. conv.stack[u] = ShownAs(at[u], held[u], Call(u).lock) BY <1>0, <1>3, <1>b, <1>c DEF StatesShown
<1> SUFFICES conv'.stack[u] = ShownAs(at'[u], held'[u], Call(u)'.lock) BY <1>2
<1>a. held[u] \in Seq(Exclusive) /\ Sections(held[u]) \in Seq(States) BY SectionsSeq DEF KInv

(* Steps that neither record nor move the thread in or out of a call. *)
<1>5. ASSUME conv'.stack[u] = conv.stack[u], held'[u] = held[u], at[u] \in InCall <=> at'[u] \in InCall,
             at[u] \in InCall => Call(u)' = Call(u)
      PROVE  conv'.stack[u] = ShownAs(at'[u], held'[u], Call(u)'.lock)
      BY <1>4, <1>5 DEF ShownAs
<1>6. ASSUME conv' = conv, work' = work, next' = next, held' = held, at' = at
      PROVE  conv'.stack[u] = ShownAs(at'[u], held'[u], Call(u)'.lock)
      BY <1>5, <1>6 DEF Call
<1>7. CASE Conclude \/ Terminated \/ UNCHANGED vars
      BY <1>6, <1>7 DEF Conclude, Terminated, vars
<1>8. ASSUME NEW b \in Barriers, BarrierOpens(b)
      PROVE  conv'.stack[u] = ShownAs(at'[u], held'[u], Call(u)'.lock)
  <2>1. conv' = conv /\ held' = held /\ Call(u)' = Call(u) BY <1>8 DEF BarrierOpens, Call
  <2>2. at[u] \in InCall <=> at'[u] \in InCall BY <1>8 DEF BarrierOpens, InCall
  <2> QED BY <1>5, <2>1, <2>2

(* A step of a thread. *)
<1>9. ASSUME NEW t \in Threads, Step(t), t # u
      PROVE  conv'.stack[u] = ShownAs(at'[u], held'[u], Call(u)'.lock)
  <2>1. at'[u] = at[u] /\ held'[u] = held[u] /\ Call(u)' = Call(u)
        BY <1>9, StepOwn DEF Own, Alone, Call
  <2>2. conv'.stack[u] = conv.stack[u]
    <3>1. CASE Quiet(t) BY <3>1, StepKinds
    <3>2. CASE Start(t) BY <1>0, <1>9, <3>2, StartConv DEF StackIs
    <3>3. CASE Stop(t) BY <1>0, <1>9, <3>3, StopConv, StopOtherConv DEF StackIs
    <3>4. CASE StopTry(t) BY <1>0, <1>9, <3>4, StopTryConv DEF StackIs
    <3>5. CASE StartUnlock(t)
      <4>1. StackIs(conv, conv', t, Popped(conv.stack[t])) BY <1>0, <3>5, StartUnlockConv
      <4> QED BY <1>9, <4>1 DEF StackIs
    <3> QED BY <1>9, <3>1, <3>2, <3>3, <3>4, <3>5, StepKinds DEF Recording
  <2> QED BY <1>5, <2>1, <2>2
<1>10. CASE Quiet(u)
  <2>1. conv' = conv /\ held' = held BY <1>0, <1>10, StepKinds
  <2>2. at[u] \in InCall <=> at'[u] \in InCall
        BY <1>0, <1>10 DEF Quiet, NotLocked, Lock, ReadLock, SemWait, CondWait, Wakes, LockAgain, Trylock,
               NotUnlocked, SkipsUnlock, Unlock, Post, Passes, Goto, Return, MakesCall, KInv, InCall
  <2>3. at[u] \in InCall => next'[u] = next[u]
        BY <1>0, <1>10 DEF Quiet, NotLocked, Lock, ReadLock, SemWait, CondWait, Wakes, LockAgain, Trylock,
               NotUnlocked, SkipsUnlock, Unlock, Post, Passes, Goto, MakesCall, InCall
  <2>4. at[u] \in InCall => Call(u)' = Call(u)
        BY <1>10, <2>3, StepOwn DEF Own, Quiet, Step
  <2> QED BY <1>5, <2>1, <2>2, <2>4
<1>11. CASE Start(u)
  <2>1. at[u] = "app" /\ Goto(u, "waiting") /\ held' = held BY <1>11 DEF Start, MakesCall
  <2>2. at'[u] = "waiting" /\ Call(u)' = Call(u)
        BY <1>11, <2>1, StepOwn DEF Goto, KInv, Own, Step
  <2>3. conv'.stack[u] = Append(conv.stack[u], BlockedOn(Call(u).lock))
        BY <1>0, <1>11, StartConv DEF StackIs
  <2>4. conv.stack[u] = Sections(held[u]) BY <1>4, <2>1 DEF ShownAs, InCall
  <2>5. ShownAs("waiting", held[u], Call(u).lock) = Append(Sections(held[u]), BlockedOn(Call(u).lock))
        BY DEF ShownAs, InCall
  <2> QED BY <2>1, <2>2, <2>3, <2>4, <2>5
<1>12. CASE Stop(u)
  <2>1. at[u] = "got" /\ Return(u) BY <1>12 DEF Stop
  <2>2. at'[u] = "app" BY <2>1 DEF Return, KInv
  <2>3. BlockedOn(Call(u).lock) \in States BY <2>1, CallLock DEF States
  <2>4. conv.stack[u] = Append(Sections(held[u]), BlockedOn(Call(u).lock))
        BY <1>4, <2>1 DEF ShownAs, InCall
  <2>5. Popped(conv.stack[u]) = Sections(held[u]) BY <1>a, <2>3, <2>4, PoppedAppend
  <2>6. CASE Call(u).op \in Taking
    <3>1. Given(u) BY <1>12, <2>6 DEF Stop, Taking
    <3>2. /\ Call(u).lock \in Exclusive
          /\ conv'.stack[u] = Append(Popped(conv.stack[u]), CriticalIn(Call(u).lock))
          BY <1>0, <1>12, <2>6, StopConv DEF StackIs
    <3>3. held'[u] = Append(held[u], Call(u).lock) BY <3>1, <3>2, GivenHeld
    <3>4. Sections(Append(held[u], Call(u).lock)) = Append(Sections(held[u]), CriticalIn(Call(u).lock))
          BY <1>a, <3>2, SectionsAppend
    <3>5. ShownAs("app", held'[u], Call(u)'.lock) = Sections(held'[u]) BY DEF ShownAs, InCall
    <3> QED BY <2>2, <2>5, <3>2, <3>3, <3>4, <3>5
  <2>7. CASE Call(u).op \notin Taking
    <3>1. held' = held BY <1>12, <2>7 DEF Stop, Taking
    <3>2. conv'.stack[u] = Popped(conv.stack[u])
          BY <1>0, <1>12, <2>7, StopOtherConv DEF StackIs
    <3>3. ShownAs("app", held'[u], Call(u)'.lock) = Sections(held'[u]) BY DEF ShownAs, InCall
    <3> QED BY <2>2, <2>5, <3>1, <3>2, <3>3
  <2> QED BY <2>6, <2>7
<1>13. CASE StopTry(u)
  <2>1. at[u] \in {"tried", "failed"} /\ Return(u) /\ Call(u).op = "trylock"
        BY <1>13 DEF StopTry, KInv
  <2>2. at'[u] = "app" BY <2>1 DEF Return, KInv
  <2>3. conv.stack[u] = Sections(held[u]) BY <1>4, <2>1 DEF ShownAs, InCall
  <2>4. ShownAs("app", held'[u], Call(u)'.lock) = Sections(held'[u]) BY DEF ShownAs, InCall
  <2>5. Call(u).lock \notin Spins BY <1>13 DEF StopTry
  <2>6. CASE at[u] = "tried"
    <3>1. Given(u) BY <1>13, <2>6 DEF StopTry
    <3>2. /\ Call(u).lock \in Exclusive
          /\ conv'.stack[u] = Append(conv.stack[u], CriticalIn(Call(u).lock))
          BY <1>0, <1>13, <2>5, <2>6, StopTryConv DEF StackIs, Exclusive
    <3>3. held'[u] = Append(held[u], Call(u).lock) BY <3>1, <3>2, GivenHeld
    <3>4. Sections(Append(held[u], Call(u).lock)) = Append(Sections(held[u]), CriticalIn(Call(u).lock))
          BY <1>a, <3>2, SectionsAppend
    <3> QED BY <2>2, <2>3, <2>4, <3>2, <3>3, <3>4
  <2>7. CASE at[u] = "failed"
    <3>1. conv' = conv /\ held' = held BY <1>0, <1>13, <2>5, <2>7, StopTryConv
    <3> QED BY <2>2, <2>3, <2>4, <3>1
  <2> QED BY <2>1, <2>6, <2>7
<1>14. CASE StartUnlock(u)
  <2>1. at[u] = "app" /\ HasLock(u) /\ GivenBack(u) /\ Goto(u, "releasing")
        /\ nested' = (IF Last(held[u]) = Call(u).lock THEN nested ELSE nested \ {u})
        BY <1>14 DEF StartUnlock, MakesCall
  <2>2. at'[u] = "releasing" BY <2>1 DEF Goto, KInv
  <2>3. conv.stack[u] = Sections(held[u]) BY <1>4, <2>1 DEF ShownAs, InCall
  <2>4. ShownAs("releasing", held'[u], Call(u)'.lock) = Sections(held'[u]) BY DEF ShownAs, InCall
  <2>5. conv'.stack[u] = Popped(conv.stack[u])
    <3>1. StackIs(conv, conv', u, Popped(conv.stack[u])) BY <1>0, <1>14, StartUnlockConv
    <3> QED BY <3>1 DEF StackIs
  <2>6. Last(held[u]) = Call(u).lock BY <2>1
  <2>7. \E i \in DOMAIN held[u] : held[u][i] = Call(u).lock BY <2>1 DEF HasLock
  <2>8. held'[u] = RemoveAt(held[u], PositionOf(held[u], Call(u).lock))
        BY <2>1 DEF GivenBack, KInv
  <2>9. Sections(held'[u]) = Popped(Sections(held[u])) BY <1>a, <2>6, <2>7, <2>8, SectionsPopped
  <2> QED BY <2>2, <2>3, <2>4, <2>5, <2>9
<1>15. ASSUME Step(u) PROVE conv'.stack[u] = ShownAs(at'[u], held'[u], Call(u)'.lock)
       BY <1>10, <1>11, <1>12, <1>13, <1>14, <1>15, StepKinds DEF Recording
<1> QED BY <1>7, <1>8, <1>9, <1>15 DEF Next

LEMMA InitShown == Init => HInv
<1> SUFFICES ASSUME Init, NEW t \in Threads PROVE conv.stack[t] = Shown(t)
    BY DEF Init, HInv, StatesShown
<1>1. at[t] = "app" /\ held[t] = << >> /\ conv.stack[t] = << >> BY DEF Init, NothingKnown
<1>2. Shown(t) = ShownAs(at[t], held[t], Call(t).lock) BY InitKinds, ShownNow
<1>3. Shown(t) = Sections(<< >>) BY <1>1, <1>2 DEF ShownAs, InCall
<1>4. << >> \in Seq(Exclusive) /\ Len(<< >>) = 0 OBVIOUS
<1>5. Sections(<< >>) \in Seq(States) /\ Len(Sections(<< >>)) = 0 BY <1>4, SectionsSeq
<1>6. Sections(<< >>) = << >> BY <1>5, EmptySeq
<1> QED BY <1>1, <1>3, <1>6

-----------------------------------------------------------------------------
(* Who the events say has a lock, and for how long.                        *)

\* What the application takes for its own.
Believed(t, l) == Has(t, l) /\ ~(at[t] \in {"blocked", "woken"} /\ Call(t).mutex = l)

\* The converter knows the owner, and the section has begun after the others.
Attributed(t, l) ==
    conv.info[l].last_owner = t /\ conv.info[l].duration <= conv.info[l].time_acquire

SectionOK(l) ==
    /\ conv.info[l].duration <= conv.info[l].time_release
    /\ conv.info[l].time_release <= conv.clock

(* Of a lock that is not blurred, the sections that are over lasted no     *)
(* longer than until the last of them ended; while the events are recorded *)
(* the converter knows who has it, and when the section began all others   *)
(* were over.  So no unlock is taken for that of another thread.           *)
EInv ==
    /\ \A l \in Exclusive \ blurred : SectionOK(l)
    /\ initialized => \A t \in Threads, l \in Exclusive \ blurred : Believed(t, l) => Attributed(t, l)
    /\ WarningsBlurred

LEMMA LocksOf == Exclusive \subseteq Locks BY DEF Exclusive, Locks

\* The numbers of a lock are natural.
LEMMA InfoNat ==
    ASSUME NEW c, ConvOK(c), NEW l \in Locks
    PROVE  /\ c.clock \in Nat /\ c.info[l].duration \in Nat /\ c.info[l].time_acquire \in Nat
           /\ c.info[l].time_release \in Nat /\ c.info[l].time_acquire <= c.clock
<1>1. c \in Known /\ c.info[l].time_acquire <= c.clock BY DEF ConvOK
<1>2. c.info[l] \in LockInfo /\ c.clock \in Nat BY <1>1 DEF Known
<1> QED BY <1>1, <1>2 DEF LockInfo

(* Each lock is either what it was before a step, or what it should be.    *)
LEMMA KnownStays ==
    ASSUME EInv, ConvOK(conv), ConvOK(conv'), conv.clock <= conv'.clock, blurred \subseteq blurred',
           initialized' => initialized,
           \A l \in Exclusive \ blurred' :
               \/ conv'.info[l] = conv.info[l] /\ \A u \in Threads : Believed(u, l)' => Believed(u, l)
               \/ SectionOK(l)' /\ \A u \in Threads : Believed(u, l)' => Attributed(u, l)',
           \A w \in conv'.warned : w \in conv.warned \/ w.lock \in blurred'
    PROVE  EInv'
<1>1. ASSUME NEW l \in Exclusive \ blurred' PROVE SectionOK(l)'
  <2>1. SectionOK(l) /\ l \in Locks BY LocksOf DEF EInv
  <2>2. CASE conv'.info[l] = conv.info[l]
    <3>1. conv.info[l].time_release \in Nat /\ conv.clock \in Nat /\ conv'.clock \in Nat
          BY <2>1, InfoNat
    <3>2. conv.info[l].time_release <= conv'.clock BY <2>1, <3>1 DEF SectionOK
    <3> QED BY <2>1, <2>2, <3>2 DEF SectionOK
  <2> QED BY <2>2
<1>2. ASSUME initialized', NEW t \in Threads, NEW l \in Exclusive \ blurred', Believed(t, l)'
      PROVE  Attributed(t, l)'
  <2>1. CASE conv'.info[l] = conv.info[l] /\ \A u \in Threads : Believed(u, l)' => Believed(u, l)
    <3>1. Attributed(t, l) BY <1>2, <2>1 DEF EInv
    <3> QED BY <2>1, <3>1 DEF Attributed
  <2> QED BY <1>2, <2>1
<1>3. WarningsBlurred' BY DEF EInv, WarningsBlurred
<1> QED BY <1>1, <1>2, <1>3 DEF EInv

(* A step of t that is not about l: what the others believe stays.         *)
LEMMA OthersBelieve ==
    ASSUME NEW t \in Threads, Own(t), NEW u \in Threads, u # t, NEW l
    PROVE  Believed(u, l)' <=> Believed(u, l)
BY DEF Own, Alone, Believed, Has, Call

\* A thread has got the lock of its call, and the application not yet.
Gets(t) == at[t] = "tried" \/ (at[t] = "got" /\ Call(t).op \in Taking)

(* While events are recorded, a lock that is not blurred is believed to be *)
(* one thread's, and nobody's while a thread gets it.                      *)
LEMMA OneBelieves ==
    ASSUME KInv, OInv, RInv, initialized, NEW l \in Exclusive \ blurred,
           NEW t \in Threads, Believed(t, l)
    PROVE  /\ \A u \in Threads : Believed(u, l) => u = t
           /\ \A u \in Threads : ~(Gets(u) /\ Call(u).lock = l)
<1>1. CASE l \in M
  <2>1. \A u \in Threads : Believed(u, l) => owner[l] = u
        BY <1>1 DEF OInv, Owns, Believed, Has
  <2>2. \A u \in Threads : at[u] # "app" => Fits(Call(u)) BY CallLock
  <2>3. ASSUME NEW u \in Threads, Call(u).lock = l, Gets(u)
        PROVE  FALSE
    <3>1. at[u] = "tried" \/ (at[u] = "got" /\ Call(u).op = "lock")
          BY <1>1, <2>2, <2>3, KindsAssumption DEF Fits, Taking, M, Gets
    <3>2. owner[l] = u /\ ~Has(u, l) BY <2>3, <3>1 DEF OInv, Owns
    <3>3. u = t BY <2>1, <3>2
    <3> QED BY <3>2, <3>3 DEF Believed
  <2> QED BY <2>1, <2>3
<1>2. CASE l \in RWLocks
  <2>1. \A u \in Threads : Uses(u, l) => u = t
        BY <1>2, KindsAssumption DEF RInv, Sole, Believed, Uses
  <2>2. ASSUME NEW u \in Threads, Call(u).lock = l, Gets(u)
        PROVE  FALSE
    <3>1. CASE at[u] = "tried"
      <4>1. Call(u).op = "trylock" /\ Fits(Call(u)) BY <3>1, CallLock DEF KInv
      <4> QED BY <1>2, <2>2, <4>1, KindsAssumption DEF Fits
    <3>2. CASE at[u] = "got"
      <4>1. Uses(u, l) BY <2>2, <3>2 DEF Uses
      <4>2. ~Has(u, l) BY <1>2, <2>2, <3>2 DEF RInv, Sole
      <4> QED BY <2>1, <4>1, <4>2 DEF Believed
    <3> QED BY <2>2, <3>1, <3>2 DEF Gets
  <2> QED BY <2>1, <2>2 DEF Believed, Uses
<1> QED BY <1>1, <1>2 DEF Exclusive, M

\* A thread is given the lock k.
LEMMA TakenStays ==
    ASSUME KInv, OInv, RInv, EInv, ConvOK(conv), initialized, initialized',
           NEW t \in Threads, Own(t), NEW k \in Exclusive, k = Call(t).lock,
           Gets(t),
           Later(conv, conv'), conv'.warned = conv.warned, TakenNow(conv, conv', t, k),
           OnlyLock(conv, conv', k), \A l : l # k => (Believed(t, l)' => Believed(t, l))
    PROVE  EInv'
<1>1. k \in Locks /\ ConvOK(conv') /\ conv'.clock = conv.clock + 1 BY LocksOf DEF Later
<1>2. conv.clock \in Nat /\ conv.info[k].duration \in Nat /\ conv.info[k].time_release \in Nat
      BY <1>1, InfoNat
<1>3. k \notin blurred' => SectionOK(k)' /\ \A u \in Threads : Believed(u, k)' => Attributed(u, k)'
  <2> SUFFICES ASSUME k \notin blurred'
               PROVE  \A l : l = k => /\ SectionOK(l)'
                                      /\ \A u \in Threads : Believed(u, l)' => Attributed(u, l)'
      OBVIOUS
  <2>0. k \notin blurred BY DEF Own
  <2>1. SectionOK(k) BY <2>0 DEF EInv
  <2>2. conv'.info[k].duration <= conv'.info[k].time_release /\ conv'.info[k].time_release <= conv'.clock
        BY <1>1, <1>2, <2>1 DEF SectionOK, TakenNow
  <2>3. conv'.info[k].last_owner = t /\ conv'.info[k].duration <= conv'.info[k].time_acquire
        BY <1>1, <1>2, <2>1 DEF SectionOK, TakenNow
  <2>4. \A u \in Threads : ~Believed(u, k) BY <2>0, OneBelieves
  <2>5. ASSUME NEW l, l = k PROVE SectionOK(l)' BY <2>2, <2>5 DEF SectionOK
  <2>6. ASSUME NEW l, l = k, NEW u \in Threads, Believed(u, l)' PROVE Attributed(u, l)'
    <3>1. u = t BY <2>4, <2>6, OthersBelieve
    <3> QED BY <2>3, <2>6, <3>1 DEF Attributed
  <2> QED BY <2>5, <2>6
<1>4. ASSUME NEW l \in Exclusive \ blurred', l # k
      PROVE  conv'.info[l] = conv.info[l] /\ \A u \in Threads : Believed(u, l)' => Believed(u, l)
  <2>1. l \in Locks BY LocksOf
  <2> QED BY <1>4, <2>1, OthersBelieve DEF OnlyLock
<1>5. conv.clock <= conv'.clock /\ blurred \subseteq blurred' BY <1>1, <1>2 DEF Own
<1>6. \A l \in Exclusive \ blurred' :
          \/ conv'.info[l] = conv.info[l] /\ \A u \in Threads : Believed(u, l)' => Believed(u, l)
          \/ SectionOK(l)' /\ \A u \in Threads : Believed(u, l)' => Attributed(u, l)'
      BY <1>3, <1>4
<1> QED BY <1>1, <1>5, <1>6, KnownStays

\* Only a lock that is blurred, or has no owner, changes for the converter.
LEMMA OtherStays ==
    ASSUME EInv, ConvOK(conv), initialized, NEW t \in Threads, Own(t), Later(conv, conv') \/ conv' = conv,
           conv'.warned = conv.warned,
           \A l \in Exclusive \ blurred' : conv'.info[l] = conv.info[l],
           \A l \in Exclusive \ blurred' : Believed(t, l)' => Believed(t, l)
    PROVE  EInv'
<1>1. ConvOK(conv') /\ conv.clock <= conv'.clock
  <2>1. conv.clock \in Nat BY DEF ConvOK, Known
  <2> QED BY <2>1 DEF Later
<1>2. blurred \subseteq blurred' BY DEF Own
<1>3. \A l \in Exclusive \ blurred' : \A u \in Threads : Believed(u, l)' => Believed(u, l)
      BY OthersBelieve
<1> QED BY <1>1, <1>2, <1>3, KnownStays

LEMMA InitKnown == Init => EInv
<1> SUFFICES ASSUME Init PROVE EInv OBVIOUS
<1>1. conv.clock = 0 /\ conv.warned = {} /\ \A l \in Locks : conv.info[l] = NewLockInfo
      BY DEF Init, NothingKnown
<1>2. \A l \in Exclusive : SectionOK(l) BY <1>1, LocksOf DEF SectionOK, NewLockInfo
<1>3. ASSUME NEW t \in Threads, NEW l PROVE ~Believed(t, l)
  <2>1. DOMAIN held[t] = {} BY DEF Init
  <2> QED BY <2>1 DEF Believed, Has
<1> QED BY <1>1, <1>2, <1>3 DEF EInv, WarningsBlurred

LEMMA NextKnown == KInv /\ OInv /\ RInv /\ ConvOK(conv) /\ EInv /\ [Next]_vars => EInv'
<1> SUFFICES ASSUME KInv, OInv, RInv, ConvOK(conv), EInv, [Next]_vars PROVE EInv' OBVIOUS
<1>0. ConvOK(conv') BY ConvKinds
<1>z. conv.clock \in Nat BY DEF ConvOK, Known
<1>b. blurred \subseteq blurred'
  <2>1. CASE \E t \in Threads : Step(t) BY <2>1, StepOwn DEF Own
  <2>2. CASE \A t \in Threads : ~Step(t) BY <2>2 DEF Next, vars, BarrierOpens, Conclude, Terminated
  <2> QED BY <2>1, <2>2
<1>i. initialized' => initialized
      BY DEF Next, Step, vars, Start, NotLocked, Lock, ReadLock, SemWait, CondWait, Wakes, LockAgain,
             Stop, Trylock, StopTry, StartUnlock, NotUnlocked, SkipsUnlock, Unlock, Post,
             BarrierOpens, Conclude, Terminated

(* After the destructor the converter gets no events. *)
<1>1. CASE ~initialized'
  <2>1. conv' = conv
    <3>1. CASE \E t \in Threads : Step(t)
      <4>1. PICK t \in Threads : Step(t) BY <3>1
      <4>2. ~initialized BY <1>1, <4>1, StepOwn DEF Own
      <4> QED BY <4>1, <4>2, StepKinds
    <3>2. CASE \A t \in Threads : ~Step(t) BY <3>2 DEF Next, vars, BarrierOpens, Conclude, Terminated
    <3> QED BY <3>1, <3>2
  <2>2. \A l \in Exclusive \ blurred' : SectionOK(l)' BY <1>b, <2>1 DEF EInv, SectionOK
  <2>3. WarningsBlurred' BY <1>b, <2>1 DEF EInv, WarningsBlurred
  <2> QED BY <1>1, <2>2, <2>3 DEF EInv
<1> SUFFICES ASSUME initialized' PROVE EInv' BY <1>1
<1>2. initialized BY <1>i

<1>3. ASSUME work' = work, next' = next, held' = held, conv' = conv,
             \A u \in Threads : at[u] \in {"blocked", "woken"} <=> at'[u] \in {"blocked", "woken"}
      PROVE  EInv'
  <2>1. \A u \in Threads : \A l : Believed(u, l)' <=> Believed(u, l)
        BY <1>3 DEF Believed, Has, Call
  <2>2. conv.clock <= conv'.clock BY <1>3, <1>z
  <2>3. \A w \in conv'.warned : w \in conv.warned BY <1>3
  <2>4. \A l \in Exclusive \ blurred' :
           conv'.info[l] = conv.info[l] /\ \A u \in Threads : Believed(u, l)' => Believed(u, l)
        BY <1>3, <2>1
  <2> QED BY <1>0, <1>b, <1>i, <2>2, <2>3, <2>4, KnownStays
<1>4. CASE Terminated \/ UNCHANGED vars BY <1>3, <1>4 DEF Terminated, vars
<1>5. ~Conclude BY DEF Conclude
<1>6. ASSUME NEW b \in Barriers, BarrierOpens(b) PROVE EInv'
      BY <1>3, <1>6 DEF BarrierOpens

(* Steps of a thread that record nothing. *)
<1>7. ASSUME NEW t \in Threads, Quiet(t) PROVE EInv'
  <2>1. conv' = conv /\ held' = held /\ Own(t)
        BY <1>2, <1>7, StepKinds, StepOwn DEF Quiet, Step
  <2>2. CASE LockAgain(t)
    <3>1. at[t] = "woken" /\ blurred' = blurred \cup {Call(t).mutex} /\ next' = next
          BY <2>2 DEF LockAgain, Goto
    <3>2. \A l : l \notin blurred' => (Believed(t, l)' => Believed(t, l))
          BY <2>1, <3>1 DEF Believed, Has
    <3> QED BY <1>2, <2>1, <3>2, OtherStays
  <2>3. CASE Wakes(t)
    <3>1. at[t] = "blocked" /\ at'[t] = "woken" /\ Call(t)' = Call(t)
          BY <2>1, <2>3 DEF Wakes, Goto, KInv, Own
    <3>2. \A l : Believed(t, l)' => Believed(t, l) BY <2>1, <3>1 DEF Believed, Has
    <3> QED BY <1>2, <2>1, <3>2, OtherStays
  <2>4. CASE ~LockAgain(t) /\ ~Wakes(t)
    <3>1. at[t] \notin {"blocked", "woken"}
          BY <1>2, <1>7, <2>4 DEF Quiet, NotLocked, Lock, ReadLock, SemWait, CondWait, Trylock, NotUnlocked,
                 SkipsUnlock, Unlock, Post, MakesCall
    <3>2. \A l : Believed(t, l)' => Believed(t, l) BY <2>1, <3>1 DEF Believed, Has
    <3> QED BY <1>2, <2>1, <3>2, OtherStays
  <2> QED BY <2>2, <2>3, <2>4

(* Steps that record an event. *)
<1>8. ASSUME NEW t \in Threads, Start(t) PROVE EInv'
  <2>1. Own(t) /\ held' = held /\ at[t] = "app" BY <1>8, StepOwn DEF Step, Start, MakesCall
  <2>2. Later(conv, conv') /\ conv'.info = conv.info /\ conv'.warned = conv.warned
        BY <1>2, <1>8, StartConv
  <2>3. \A l : Believed(t, l)' => Believed(t, l) BY <2>1 DEF Believed, Has
  <2> QED BY <1>2, <2>1, <2>2, <2>3, OtherStays
<1>9. ASSUME NEW t \in Threads, Stop(t) PROVE EInv'
  <2>1. Own(t) /\ at[t] = "got" BY <1>9, StepOwn DEF Step, Stop
  <2>2. CASE Call(t).op \in Taking
    <3>1. /\ Call(t).lock \in Exclusive /\ Later(conv, conv') /\ conv'.warned = conv.warned
          /\ TakenNow(conv, conv', t, Call(t).lock) /\ OnlyLock(conv, conv', Call(t).lock)
          BY <1>2, <1>9, <2>2, StopConv
    <3>2. Given(t) BY <1>9, <2>2 DEF Stop, Taking
    <3>3. \A l : l # Call(t).lock => (Believed(t, l)' => Believed(t, l))
      <4>1. \A l : Has(t, l)' <=> l = Call(t).lock \/ Has(t, l) BY <3>1, <3>2, HasGiven
      <4> QED BY <2>1, <4>1 DEF Believed
    <3>4. Gets(t) BY <2>1, <2>2 DEF Gets
    <3> QED BY <1>2, <2>1, <3>1, <3>3, <3>4, TakenStays
  <2>3. CASE Call(t).op \notin Taking
    <3>1. /\ Call(t).lock \notin Exclusive /\ Later(conv, conv') /\ conv'.warned = conv.warned
          /\ OnlyLock(conv, conv', Call(t).lock)
          BY <1>2, <1>9, <2>3, StopOtherConv
    <3>2. held' = held BY <1>9, <2>3 DEF Stop, Taking
    <3>3. \A l : Believed(t, l)' => Believed(t, l) BY <2>1, <3>2 DEF Believed, Has
    <3>4. \A l \in Exclusive : conv'.info[l] = conv.info[l] BY <3>1, LocksOf DEF OnlyLock
    <3> QED BY <1>2, <2>1, <3>1, <3>3, <3>4, OtherStays
  <2> QED BY <2>2, <2>3
<1>10. ASSUME NEW t \in Threads, StopTry(t) PROVE EInv'
  <2>1. Own(t) /\ at[t] \in {"tried", "failed"} BY <1>10, StepOwn DEF Step, StopTry
  <2>2. Call(t).op = "trylock" BY <2>1 DEF KInv
  <2>3. Call(t).lock \in Exclusive BY <2>1, <2>2, CallLock DEF Fits, Exclusive
  <2>4. \A l : l # Call(t).lock => (Believed(t, l)' => Believed(t, l))
    <3>1. CASE held' = held BY <2>1, <3>1 DEF Believed, Has
    <3>2. CASE Given(t)
      <4>1. \A l : Has(t, l)' <=> l = Call(t).lock \/ Has(t, l) BY <2>3, <3>2, HasGiven
      <4> QED BY <2>1, <4>1 DEF Believed
    <3> QED BY <1>10, <3>1, <3>2 DEF StopTry
  <2>5. CASE /\ Call(t).lock \in Spins
             /\ Later(conv, conv') /\ conv'.warned = conv.warned
             /\ OnlyLock(conv, conv', Call(t).lock)
    <3>1. Call(t).lock \in blurred' BY <1>10, <2>5 DEF StopTry
    <3>2. \A l \in Exclusive \ blurred' : l # Call(t).lock /\ conv'.info[l] = conv.info[l]
          BY <2>5, <3>1, LocksOf DEF OnlyLock
    <3> QED BY <1>2, <2>1, <2>4, <2>5, <3>2, OtherStays
  <2>6. CASE /\ Call(t).lock \in Mutexes /\ at[t] = "tried"
             /\ Later(conv, conv') /\ conv'.warned = conv.warned
             /\ TakenNow(conv, conv', t, Call(t).lock) /\ OnlyLock(conv, conv', Call(t).lock)
    <3> DEFINE k == Call(t).lock
    <3>1. /\ at[t] = "tried" /\ Later(conv, conv') /\ conv'.warned = conv.warned
          /\ TakenNow(conv, conv', t, k) /\ OnlyLock(conv, conv', k)
          /\ k \in Exclusive /\ k = Call(t).lock
          BY <2>3, <2>6
    <3>2. \A l : l # k => (Believed(t, l)' => Believed(t, l)) BY <2>4
    <3>3. Own(t) /\ initialized BY <1>2, <2>1
    <3>4. Gets(t) BY <3>1 DEF Gets
    <3> HIDE DEF k
    <3> QED BY <3>1, <3>2, <3>3, <3>4, TakenStays
  <2>7. CASE conv' = conv /\ held' = held
    <3>1. \A l : Believed(t, l)' => Believed(t, l) BY <2>1, <2>7 DEF Believed, Has
    <3> QED BY <1>2, <2>1, <2>7, <3>1, OtherStays
  <2> QED BY <1>2, <1>10, <2>5, <2>6, <2>7, StopTryConv
<1>11. ASSUME NEW t \in Threads, StartUnlock(t) PROVE EInv'
  <2> DEFINE k == Call(t).lock
  <2>1. Own(t) /\ at[t] = "app" /\ at'[t] = "releasing" /\ HasLock(t) /\ GivenBack(t) /\ blurred' = blurred
        BY <1>11, StepOwn DEF Step, StartUnlock, MakesCall, Goto, KInv
  <2>2. /\ k \in Exclusive
        /\ Later(conv, conv') /\ OnlyLock(conv, conv', k)
        /\ conv'.info[k].time_release = conv'.clock
        /\ conv'.info[k].duration = conv.info[k].duration + conv'.clock - conv.info[k].time_acquire
        /\ \A w \in conv'.warned \ conv.warned : w.lock = k /\ conv.info[k].last_owner # t
        BY <1>2, <1>11, StartUnlockConv
  <2>3. Believed(t, k) BY <2>1 DEF Believed, Has, HasLock
  <2>4. k \notin blurred => Attributed(t, k) BY <1>2, <2>2, <2>3 DEF EInv
  <2>5. \A w \in conv'.warned : w \in conv.warned \/ w.lock \in blurred'
        BY <2>1, <2>2, <2>4 DEF Attributed
  <2>6. \A l : Has(t, l)' => Has(t, l)
    <3> SUFFICES ASSUME NEW l, NEW i \in DOMAIN held'[t], held'[t][i] = l PROVE Has(t, l)
        BY DEF Has
    <3>1. PICK j \in DOMAIN held[t] : held'[t][i] = held[t][j] BY <2>1, GivenBackHeld
    <3> QED BY <3>1 DEF Has
  <2>7. \A l : Believed(t, l)' => Believed(t, l) BY <2>1, <2>6 DEF Believed
  <2>8. ASSUME NEW l \in Exclusive \ blurred', l = k PROVE ~Has(t, l)'
    <3>1. OnceFor(held[t], k) \/ (Once(held[t]) /\ k \in M)
      <4>1. CASE k \in M BY <1>2, <4>1 DEF OInv, Owns
      <4>2. CASE k \in RWLocks BY <2>1, <2>8, <4>2 DEF RInv, Sole
      <4> QED BY <2>2, <4>1, <4>2 DEF Exclusive, M
    <3>2. \A i \in DOMAIN held'[t] : held'[t][i] # k BY <2>1, <3>1, GivenBackHeld
    <3> QED BY <2>8, <3>2 DEF Has
  <2>9. ASSUME NEW l \in Exclusive \ blurred', l = k
        PROVE  SectionOK(l)' /\ \A u \in Threads : Believed(u, l)' => Attributed(u, l)'
    <3>1. k \in Locks /\ k \notin blurred /\ ConvOK(conv') /\ conv'.clock = conv.clock + 1
          BY <2>1, <2>2, <2>9, LocksOf DEF Later
    <3>2. /\ conv.clock \in Nat /\ conv.info[k].duration \in Nat /\ conv.info[k].time_acquire \in Nat
          /\ conv.info[k].time_acquire <= conv.clock
          BY <3>1, InfoNat
    <3>3. conv.info[k].duration <= conv.info[k].time_acquire BY <2>4, <3>1 DEF Attributed
    <3>4. conv.info[k].duration + conv'.clock - conv.info[k].time_acquire <= conv'.clock
          BY <3>1, <3>2, <3>3
    <3>5. conv'.info[k].duration <= conv'.info[k].time_release
          /\ conv'.info[k].time_release <= conv'.clock
          BY <2>2, <3>1, <3>2, <3>4
    <3>6. SectionOK(l)' BY <2>9, <3>5 DEF SectionOK
    <3>7. ASSUME NEW u \in Threads, Believed(u, l)' PROVE FALSE
      <4>1. Believed(u, k) BY <2>1, <2>7, <2>9, <3>7, OthersBelieve
      <4>2. u = t BY <1>2, <2>2, <2>3, <3>1, <4>1, OneBelieves
      <4> QED BY <2>8, <2>9, <3>7, <4>2 DEF Believed
    <3> QED BY <3>6, <3>7
  <2>10. ASSUME NEW l \in Exclusive \ blurred', l # k
         PROVE  conv'.info[l] = conv.info[l] /\ \A u \in Threads : Believed(u, l)' => Believed(u, l)
    <3>1. l \in Locks BY LocksOf
    <3> QED BY <2>1, <2>2, <2>7, <2>10, <3>1, OthersBelieve DEF OnlyLock
  <2>11. \A l \in Exclusive \ blurred' :
           \/ conv'.info[l] = conv.info[l] /\ \A u \in Threads : Believed(u, l)' => Believed(u, l)
           \/ SectionOK(l)' /\ \A u \in Threads : Believed(u, l)' => Attributed(u, l)'
         BY <2>9, <2>10
  <2>12. conv.clock <= conv'.clock BY <1>z, <2>2 DEF Later
  <2> QED BY <1>0, <1>b, <1>i, <2>5, <2>11, <2>12, KnownStays
<1> QED BY <1>4, <1>5, <1>6, <1>7, <1>8, <1>9, <1>10, <1>11, StepKinds DEF Next, Recording

-----------------------------------------------------------------------------
(* The whole invariant.                                                    *)
Inv == KInv /\ PInv /\ OInv /\ RInv /\ ConvOK(conv) /\ HInv /\ EInv

LEMMA Invariance == Spec => []Inv
<1>1. Init => Inv
      BY InitKinds, InitProgrammed, InitOwns, InitSole, InitConv, InitShown, InitKnown DEF Inv
<1>2. Inv /\ [Next]_vars => Inv'
  <2> SUFFICES ASSUME Inv, [Next]_vars PROVE Inv' OBVIOUS
  <2>1. KInv' /\ PInv' /\ OInv' BY NextKinds, NextProgrammed, NextOwns DEF Inv
  <2>2. RInv' BY NextSole DEF Inv
  <2>3. ConvOK(conv)' BY ConvKinds DEF Inv
  <2>4. HInv' BY NextShown DEF Inv
  <2>5. EInv' BY NextKnown DEF Inv
  <2> QED BY <2>1, <2>2, <2>3, <2>4, <2>5 DEF Inv
<1> QED BY <1>1, <1>2, PTL DEF Spec

(* The converter warns of a lock that another thread unlocks only when the *)
(* events do not tell the owner, however the threads interleave between    *)
(* the calls and their events: a program that unlocks its own locks is     *)
(* never blamed for a mutex, a spin lock or a read-write lock it has.      *)
THEOREM WarningsBlurredHolds == Spec => []WarningsBlurred
<1>1. Inv => WarningsBlurred BY DEF Inv, EInv
<1> QED BY <1>1, Invariance, PTL

(* The durations that the converter adds up for a lock, with unsigned      *)
(* numbers and from the last acquire alone, are those of sections that do  *)
(* not overlap.                                                            *)
THEOREM SectionsDisjointHolds == Spec => []SectionsDisjoint
<1>1. Inv => SectionsDisjoint BY DEF Inv, EInv, SectionOK, SectionsDisjoint
<1> QED BY <1>1, Invariance, PTL

(* Until the destructor runs, a thread that releases its locks in the      *)
(* reverse order is shown in the sections it is in and, during a call,     *)
(* blocked: the pushes and pops of the handlers match, whatever the kinds  *)
(* of its locks and whatever the other threads do.                         *)
THEOREM StatesShownHolds == Spec => []StatesShown
<1>1. Inv => StatesShown BY DEF Inv, HInv
<1> QED BY <1>1, Invariance, PTL
=============================================================================
