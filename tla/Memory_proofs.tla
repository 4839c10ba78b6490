---------------------------- MODULE Memory_proofs ----------------------------
(***************************************************************************)
(* For any number of threads, blocks and calls, of any sizes: what the     *)
(* memory module gives to the C library was given by it, the program finds *)
(* its contents where it is told, but for the cases named, and the memory  *)
(* that the converter shows is what the events have told of.  All three    *)
(* rest on who has a block: the program, one thread in the middle of a     *)
(* call, or nobody any more.                                               *)
(***************************************************************************)
EXTENDS Memory, FiniteSetTheorems, WellFoundedInduction, NaturalsInduction, TLAPS

InCall(t) == op[t].does \in {"malloc", "free", "realloc"}

(* A block has one owner, which for a thread in a call is that thread; the *)
(* C library has the blocks that are unused.  Only blocks with a header    *)
(* have an offset.                                                         *)
OInv ==
    /\ DOMAIN heap = Blocks /\ DOMAIN op = Threads
    /\ live \subseteq Blocks
    /\ \A b \in live : heap[b].type # "unused"
    /\ \A t \in Threads : InCall(t) =>
          op[t].block \in Blocks \ live /\ heap[op[t].block].type = "malloc"
    /\ \A t, u \in Threads : InCall(t) /\ InCall(u) /\ op[t].block = op[u].block => t = u
    /\ \A b \in Blocks : heap[b].type = "plain" => heap[b].offset = 0
    /\ wild => astray

-----------------------------------------------------------------------------
LEMMA FreshType == \A type, n, e : Fresh(type, n, e).type = type
BY DEF Fresh, InitMemInfo

LEMMA ResizedType == \A block, n : Resized(block, n).type = "malloc"
BY DEF Resized, InitMemInfo

LEMMA InitOwners == Init => OInv
<1> SUFFICES ASSUME Init PROVE OInv OBVIOUS
<1>1. \A t \in Threads : ~InCall(t) BY DEF Init, Idle, InCall
<1> QED BY <1>1 DEF Init, OInv, Unused

(* The steps of a thread: what it does to its own call and its blocks. *)
LEMMA NextOwners == OInv /\ [Next]_vars => OInv'
<1> SUFFICES ASSUME OInv, [Next]_vars PROVE OInv' OBVIOUS
<1> USE DEF OInv, InCall
<1>1. CASE UNCHANGED vars BY <1>1 DEF vars, startup, history
<1>2. ASSUME NEW t \in Threads, MallocSeeks(t) PROVE OInv'
      BY <1>2 DEF MallocSeeks, Calls, Idle, history
<1>3. ASSUME NEW t \in Threads, MallocFinds(t) PROVE OInv'
      BY <1>3 DEF MallocFinds, Idle, history
<1>4. ASSUME NEW t \in Threads, NEW n \in Counts, HandMadeMalloc(t, n) PROVE OInv'
  <2>1. PICK b \in UnusedBlocks : /\ heap' = [heap EXCEPT ![b] = Fresh("custom", n, 1)]
                                  /\ live' = live \cup {b}
        BY <1>4 DEF HandMadeMalloc
  <2>2. b \in Blocks /\ heap[b].type = "unused" BY DEF UnusedBlocks, Unused
  <2>3. op' = op /\ wild' = wild /\ astray' = astray BY <1>4 DEF HandMadeMalloc, history
  <2>4. heap'[b].type = "custom" BY <2>1, <2>2, FreshType
  <2>5. \A c \in Blocks : c # b => heap'[c] = heap[c] BY <2>1
  <2>6. DOMAIN heap' = Blocks BY <2>1
  <2> QED BY <2>1, <2>2, <2>3, <2>4, <2>5, <2>6
<1>5. ASSUME NEW t \in Threads, NEW n \in Counts, NEW e \in Elements, Malloc(t, n, e) PROVE OInv'
  <2>1. PICK b \in UnusedBlocks :
          IF shield[t]
          THEN /\ heap' = [heap EXCEPT ![b] = Plain(n * e)]
               /\ live' = live \cup {b}
               /\ UNCHANGED op
          ELSE /\ heap' = [heap EXCEPT ![b] = Fresh("malloc", n, e)]
               /\ op' = [op EXCEPT ![t] = [does |-> "malloc", block |-> b]]
               /\ UNCHANGED live
        BY <1>5 DEF Malloc
  <2>2. b \in Blocks /\ heap[b].type = "unused" BY DEF UnusedBlocks, Unused
  <2>3. wild' = wild /\ astray' = astray BY <1>5 DEF Malloc, history
  <2>4. DOMAIN heap' = Blocks /\ \A c \in Blocks : c # b => heap'[c] = heap[c] BY <2>1
  <2>5. CASE shield[t]
    <3>1. heap'[b].type = "plain" /\ heap'[b].offset = 0 BY <2>1, <2>2, <2>5 DEF Plain
    <3> QED BY <2>1, <2>2, <2>3, <2>4, <2>5, <3>1
  <2>6. CASE ~shield[t]
    <3>1. heap'[b].type = "malloc" BY <2>1, <2>2, <2>6, FreshType
    <3>2. op'[t].does = "malloc" /\ op'[t].block = b /\ DOMAIN op' = Threads BY <2>1, <2>6
    <3>3. \A u \in Threads : u # t => op'[u] = op[u] BY <2>1, <2>6
    <3>4. live' = live /\ b \notin live BY <2>1, <2>2, <2>6
    <3> QED BY <2>2, <2>3, <2>4, <3>1, <3>2, <3>3, <3>4
  <2> QED BY <2>5, <2>6
<1>6. ASSUME NEW t \in Threads, MallocRecords(t) PROVE OInv'
  <2>1. live' = live \cup {op[t].block} /\ heap' = heap /\ op' = [op EXCEPT ![t] = Idle]
        /\ wild' = wild /\ astray' = astray /\ InCall(t)
        BY <1>6 DEF MallocRecords
  <2> QED BY <2>1 DEF Idle
<1>7. ASSUME NEW t \in Threads, FreeEnds(t) PROVE OInv'
  <2> DEFINE b == op[t].block
  <2>1. InCall(t) /\ live' = live /\ op' = [op EXCEPT ![t] = Idle] /\ astray' = astray
        BY <1>7 DEF FreeEnds
  <2>2. b \in Blocks \ live /\ heap[b].type = "malloc" BY <2>1
  <2>3. heap' = [heap EXCEPT ![b] = Unused] /\ wild' = wild
        BY <1>7, <2>2 DEF FreeEnds, LibFree
  <2>4. \A c \in Blocks : c # b => heap'[c] = heap[c] BY <2>3
  <2>5. heap'[b].type = "unused" /\ DOMAIN heap' = Blocks BY <2>2, <2>3 DEF Unused
  <2>6. op'[t].does = "app" /\ DOMAIN op' = Threads BY <2>1 DEF Idle
  <2>7. \A u \in Threads : u # t => op'[u] = op[u] BY <2>1
  <2> QED BY <2>1, <2>2, <2>3, <2>4, <2>5, <2>6, <2>7
<1>8. ASSUME NEW t \in Threads, ReallocRecords(t) PROVE OInv'
  <2>1. live' = live \cup {op[t].block} /\ heap' = heap /\ op' = [op EXCEPT ![t] = Idle]
        /\ wild' = wild /\ astray' = astray /\ InCall(t)
        BY <1>8 DEF ReallocRecords
  <2> QED BY <2>1 DEF Idle
<1>9. ASSUME NEW t \in Threads, Shield(t) PROVE OInv'
      BY <1>9 DEF Shield, history
<1>10. ASSUME NEW t \in Threads, NEW b \in live, FreePlain(t, b) PROVE OInv'
  <2>1. heap[b].type = "plain" /\ heap[b].offset = 0 /\ b \in Blocks BY <1>10 DEF FreePlain
  <2>2. heap' = [heap EXCEPT ![b] = Unused] /\ wild' = wild BY <1>10, <2>1 DEF FreePlain, LibFree
  <2>3. live' = live \ {b} /\ op' = op /\ astray' = astray BY <1>10 DEF FreePlain
  <2>4. heap'[b].type = "unused" /\ DOMAIN heap' = Blocks BY <2>1, <2>2 DEF Unused
  <2>5. \A c \in Blocks : c # b => heap'[c] = heap[c] BY <2>2
  <2> QED BY <2>1, <2>2, <2>3, <2>4, <2>5
<1>11. ASSUME NEW t \in Threads, NEW b \in live, FreeKeeps(t, b) PROVE OInv'
      BY <1>11 DEF FreeKeeps, history
<1>12. ASSUME NEW t \in Threads, NEW b \in live, FreeRecords(t, b) PROVE OInv'
  <2>1. /\ op' = [op EXCEPT ![t] = [does |-> "free", block |-> b]]
        /\ live' = live \ {b} /\ heap' = heap /\ heap[b].type = "malloc"
        /\ wild' = wild /\ astray' = astray
        BY <1>12 DEF FreeRecords
  <2>2. op'[t].does = "free" /\ op'[t].block = b /\ DOMAIN op' = Threads BY <2>1
  <2>3. \A u \in Threads : u # t => op'[u] = op[u] BY <2>1
  <2> QED BY <2>1, <2>2, <2>3
<1>13. ASSUME NEW t \in Threads, NEW b \in live, ReallocStrays(t, b) PROVE OInv'
      BY <1>13 DEF ReallocStrays
<1>14. ASSUME NEW t \in Threads, NEW b \in live, NEW n \in Counts, ReallocPlain(t, b, n) PROVE OInv'
  <2>1. PICK m \in UnusedBlocks \cup {b} : LibRealloc(b, m, Plain(n)) /\ live' = (live \ {b}) \cup {m}
        BY <1>14 DEF ReallocPlain
  <2>2. heap[b].type = "plain" /\ op' = op /\ wild' = wild /\ astray' = astray
        BY <1>14 DEF ReallocPlain, history
  <2>3. heap' = [[heap EXCEPT ![b] = Unused] EXCEPT ![m] = Plain(n)] BY <2>1 DEF LibRealloc
  <2>4. m \in Blocks /\ b \in Blocks /\ heap[m].type # "malloc" /\ (m # b => m \notin live)
        BY <2>2 DEF UnusedBlocks, Unused
  <2>5. heap'[m].type = "plain" /\ heap'[m].offset = 0 /\ DOMAIN heap' = Blocks
        BY <2>3, <2>4 DEF Plain
  <2>6. m # b => heap'[b].type = "unused" BY <2>3, <2>4 DEF Unused
  <2>7. \A c \in Blocks : c # b /\ c # m => heap'[c] = heap[c] BY <2>3
  <2> QED BY <2>1, <2>2, <2>4, <2>5, <2>6, <2>7
<1>15. ASSUME NEW t \in Threads, NEW b \in live, NEW n \in Counts, Realloc(t, b, n) PROVE OInv'
  <2>1. PICK m \in UnusedBlocks \cup {b} :
          /\ LibRealloc(b, m, Resized(heap[b], n))
          /\ op' = [op EXCEPT ![t] = [does |-> "realloc", block |-> m, old |-> heap[b].size,
                                      known |-> b \in counted]]
        BY <1>15 DEF Realloc
  <2>2. heap[b].type = "malloc" /\ live' = live \ {b} /\ wild' = wild /\ astray' = astray
        BY <1>15 DEF Realloc
  <2>3. heap' = [[heap EXCEPT ![b] = Unused] EXCEPT ![m] = Resized(heap[b], n)]
        BY <2>1 DEF LibRealloc
  <2>4. m \in Blocks /\ b \in Blocks /\ m \notin live' BY <2>2 DEF UnusedBlocks, Unused
  <2>5. heap'[m].type = "malloc" /\ DOMAIN heap' = Blocks BY <2>3, <2>4, ResizedType
  <2>6. m # b => heap'[b].type = "unused" BY <2>3, <2>4 DEF Unused
  <2>7. \A c \in Blocks : c # b /\ c # m => heap'[c] = heap[c] BY <2>3
  <2>8. op'[t].does = "realloc" /\ op'[t].block = m /\ DOMAIN op' = Threads BY <2>1
  <2>9. \A u \in Threads : u # t => op'[u] = op[u] BY <2>1
  <2>10. \A u \in Threads : u # t /\ InCall(u) => op[u].block # m /\ op[u].block # b
        BY <2>2 DEF UnusedBlocks, Unused
  <2> QED BY <2>2, <2>4, <2>5, <2>6, <2>7, <2>8, <2>9, <2>10
<1>16. CASE MemoryInit BY <1>16 DEF MemoryInit, history
<1>17. CASE Start BY <1>17 DEF Start, history
<1>18. CASE Terminated BY <1>18 DEF Terminated, vars, startup, history
<1> QED BY <1>1, <1>2, <1>3, <1>4, <1>5, <1>6, <1>7, <1>8, <1>9, <1>10, <1>11, <1>12, <1>13, <1>14,
           <1>15, <1>16, <1>17, <1>18 DEF Next

-----------------------------------------------------------------------------
(* Where the contents are: behind the room that some calloc has made for   *)
(* the header, and the program is told so or, after a realloc, that they   *)
(* are behind the header alone.                                            *)
Placed(block) ==
    \/ block.data = block.offset /\ block.type \in {"unused", "plain"}
    \/ \E e \in Elements : /\ block.data = HeaderRoom(e)
                           /\ block.offset \in {HeaderRoom(e), HeaderRoom(1)}

PInv == \A b \in Blocks : Placed(heap[b])

(* A size that divides the header leaves no padding. *)
LEMMA NoPadding ==
    ASSUME NEW e \in Elements, HeaderSize % e = 0
    PROVE  HeaderRoom(e) = HeaderSize
<1> DEFINE whole == HeaderSize \div e
<1>1. e \in Nat /\ e > 0 /\ HeaderSize \in Nat BY MemoryAssumption
<1>2. whole \in Nat /\ HeaderSize = (e * whole) + (HeaderSize % e) BY <1>1
<1>3. e * whole = HeaderSize BY <1>1, <1>2
<1>4. ~(e * whole < HeaderSize) BY <1>1, <1>3
<1>5. HeaderRoom(e) = e * whole BY <1>4 DEF HeaderRoom
<1> QED BY <1>3, <1>5

LEMMA FreshPlaced ==
    ASSUME NEW e \in Elements, NEW n, NEW type PROVE Placed(Fresh(type, n, e))
BY DEF Placed, Fresh, InitMemInfo

LEMMA PlainPlaced == Placed(Unused) /\ \A n : Placed(Plain(n))
BY DEF Placed, Unused, Plain

LEMMA ResizedPlaced ==
    ASSUME NEW block, block.type = "malloc", Placed(block), NEW n
    PROVE  Placed(Resized(block, n))
BY DEF Placed, Resized, InitMemInfo

LEMMA InitPlaced == Init => PInv
BY PlainPlaced DEF Init, PInv

LEMMA NextPlaced == OInv /\ PInv /\ [Next]_vars => PInv'
<1> SUFFICES ASSUME OInv, PInv, [Next]_vars PROVE PInv' OBVIOUS
<1>0. DOMAIN heap = Blocks /\ live \subseteq Blocks BY DEF OInv
<1>1. CASE heap' = heap BY <1>1 DEF PInv, Placed
<1>2. ASSUME NEW b \in Blocks, NEW x, Placed(x), heap' = [heap EXCEPT ![b] = x] PROVE PInv'
  <2> SUFFICES ASSUME NEW c \in Blocks PROVE Placed(heap'[c]) BY DEF PInv, Placed
  <2>1. CASE c = b BY <1>0, <1>2, <2>1 DEF Placed
  <2>2. CASE c # b BY <1>0, <1>2, <2>2 DEF PInv, Placed
  <2> QED BY <2>1, <2>2
<1>3. ASSUME NEW b \in Blocks, NEW m \in Blocks, NEW x, Placed(x), LibRealloc(b, m, x) PROVE PInv'
  <2> SUFFICES ASSUME NEW c \in Blocks PROVE Placed(heap'[c]) BY DEF PInv, Placed
  <2>1. heap' = [[heap EXCEPT ![b] = Unused] EXCEPT ![m] = x] BY <1>3 DEF LibRealloc
  <2>2. CASE c = m BY <1>0, <1>3, <2>1, <2>2 DEF Placed
  <2>3. CASE c # m /\ c = b BY <1>0, <2>1, <2>3, PlainPlaced DEF Placed
  <2>4. CASE c # m /\ c # b BY <1>0, <2>1, <2>4 DEF PInv, Placed
  <2> QED BY <2>2, <2>3, <2>4
<1>4. UnusedBlocks \subseteq Blocks BY DEF UnusedBlocks
<1>5. ASSUME NEW t \in Threads, NEW n \in Counts, HandMadeMalloc(t, n) PROVE PInv'
  <2>1. PICK b \in UnusedBlocks : heap' = [heap EXCEPT ![b] = Fresh("custom", n, 1)]
        BY <1>5 DEF HandMadeMalloc
  <2>2. Placed(Fresh("custom", n, 1)) BY FreshPlaced, MemoryAssumption
  <2> QED BY <2>1, <2>2, <1>2, <1>4
<1>6. ASSUME NEW t \in Threads, NEW n \in Counts, NEW e \in Elements, Malloc(t, n, e) PROVE PInv'
  <2>1. PICK b \in UnusedBlocks : \/ heap' = [heap EXCEPT ![b] = Plain(n * e)]
                                  \/ heap' = [heap EXCEPT ![b] = Fresh("malloc", n, e)]
        BY <1>6 DEF Malloc
  <2>2. Placed(Plain(n * e)) /\ Placed(Fresh("malloc", n, e)) BY FreshPlaced, PlainPlaced
  <2> QED BY <2>1, <2>2, <1>2, <1>4
<1>7. ASSUME NEW b \in Blocks, NEW k, LibFree(b, k) PROVE PInv'
      BY <1>7, <1>1, <1>2, PlainPlaced DEF LibFree
<1>8. ASSUME NEW t \in Threads, FreeEnds(t) PROVE PInv'
  <2>1. op[t].block \in Blocks BY <1>8 DEF FreeEnds, OInv, InCall
  <2> QED BY <2>1, <1>7, <1>8 DEF FreeEnds
<1>9. ASSUME NEW t \in Threads, NEW b \in live, FreePlain(t, b) PROVE PInv'
      BY <1>0, <1>7, <1>9 DEF FreePlain
<1>10. ASSUME NEW t \in Threads, NEW b \in live, NEW n \in Counts, ReallocPlain(t, b, n) PROVE PInv'
      BY <1>0, <1>3, <1>4, <1>10, PlainPlaced DEF ReallocPlain
<1>11. ASSUME NEW t \in Threads, NEW b \in live, NEW n \in Counts, Realloc(t, b, n) PROVE PInv'
  <2>1. PICK m \in UnusedBlocks \cup {b} : LibRealloc(b, m, Resized(heap[b], n))
        BY <1>11 DEF Realloc
  <2>2. heap[b].type = "malloc" /\ Placed(heap[b]) BY <1>0, <1>11 DEF Realloc, PInv
  <2>3. Placed(Resized(heap[b], n)) BY <2>2, ResizedPlaced
  <2> QED BY <1>0, <1>3, <1>4, <2>1, <2>3
<1>12. ASSUME NEW t \in Threads,
              \/ MallocSeeks(t) \/ MallocFinds(t) \/ MallocRecords(t) \/ ReallocRecords(t) \/ Shield(t)
              \/ \E b \in live : FreeKeeps(t, b) \/ FreeRecords(t, b) \/ ReallocStrays(t, b)
       PROVE  heap' = heap
      BY <1>12 DEF MallocSeeks, MallocFinds, MallocRecords, ReallocRecords, Shield,
                   FreeKeeps, FreeRecords, ReallocStrays
<1>13. MemoryInit \/ Start \/ Terminated \/ UNCHANGED vars => heap' = heap
      BY DEF MemoryInit, Start, Terminated, vars
<1> QED BY <1>1, <1>5, <1>6, <1>8, <1>9, <1>10, <1>11, <1>12, <1>13 DEF Next

-----------------------------------------------------------------------------
(* No address that the C library has not given, or that it has taken back, *)
(* is given to it, but by a realloc under the shield or of a block made by *)
(* hand: for any threads, blocks and sizes.                                *)
THEOREM AllocatorKnowsHolds == Spec => []AllocatorKnows
<1>1. OInv => AllocatorKnows BY DEF OInv, AllocatorKnows
<1> QED BY InitOwners, NextOwners, <1>1, PTL DEF Spec

(* The program finds the contents of its blocks where malloc, calloc and   *)
(* realloc have told it, unless the block came from a calloc of elements   *)
(* whose size does not divide that of the header and was then resized: for *)
(* any sizes.                                                              *)
THEOREM ContentsKeptHolds == Spec => []ContentsKept
<1>1. OInv /\ PInv => ContentsKept
  <2> SUFFICES ASSUME OInv, PInv, NEW b \in live, heap[b].data # heap[b].offset
               PROVE  \E e \in Elements : HeaderSize % e # 0 /\ heap[b].data = HeaderRoom(e)
      BY DEF ContentsKept
  <2>1. PICK e \in Elements : /\ heap[b].data = HeaderRoom(e)
                              /\ heap[b].offset \in {HeaderRoom(e), HeaderRoom(1)}
        BY DEF OInv, PInv, Placed
  <2>2. 1 \in Elements /\ HeaderSize % 1 = 0 BY MemoryAssumption
  <2>3. HeaderRoom(1) = HeaderSize BY <2>2, NoPadding
  <2>4. HeaderSize % e # 0 BY <2>1, <2>3, NoPadding
  <2> QED BY <2>1, <2>4
<1> QED BY InitOwners, NextOwners, InitPlaced, NextPlaced, <1>1, PTL DEF Spec

-----------------------------------------------------------------------------
(* Induction over finite sets, as the least counterexample.                *)

(* A set of numbers that is not empty has a smallest one.                  *)
LEMMA SmallestNumber ==
    ASSUME NEW T \in SUBSET Nat, T # {}
    PROVE  \E m \in T : \A n \in T : ~(n < m)
<1> DEFINE R == OpToRel(<, Nat)
<1>1. PICK m \in T : \A n \in T : ~(<<n, m>> \in R)
  BY NatLessThanWellFounded, WFMin
<1> QED
  BY <1>1 DEF OpToRel

(* Of some subsets of a finite set, one is such that it is no longer one   *)
(* of them when an element is taken away: the induction over finite sets.  *)
LEMMA SmallestSet ==
    ASSUME NEW S, IsFiniteSet(S), NEW Bad \in SUBSET SUBSET S, Bad # {}
    PROVE  \E s \in Bad : \A x \in s : ~(s \ {x} \in Bad)
<1> DEFINE T == {n \in Nat : \E s \in Bad : Cardinality(s) = n}
<1>1. \A s \in Bad : IsFiniteSet(s) /\ Cardinality(s) \in Nat
  BY FS_Subset, FS_CardinalityType
<1>2. T \in SUBSET Nat /\ T # {}
  BY <1>1
<1>3. PICK m \in T : \A n \in T : ~(n < m)
  <2> HIDE DEF T
  <2> QED
    BY <1>2, SmallestNumber
<1>4. PICK s \in Bad : Cardinality(s) = m
  BY <1>3
<1>5. ASSUME NEW x \in s, s \ {x} \in Bad PROVE FALSE
  <2>1. Cardinality(s \ {x}) = m - 1
    BY <1>1, <1>4, FS_RemoveElement
  <2>2. m - 1 \in T
    BY <1>1, <1>5, <2>1
  <2> QED
    BY <1>2, <1>3, <2>2
<1> QED
  BY <1>5

\* The element that SumFunction takes first, and what it makes of a set.
One(s) == CHOOSE x \in s : TRUE
Body(f, g, s) == IF s = {} THEN 0 ELSE f[One(s)] + g[s \ {One(s)}]
Sums(f, g) == g = [s \in SUBSET DOMAIN f |-> Body(f, g, s)]

(* SumFunction of the community modules chooses a function that follows    *)
(* its recursion: that there is one, and what all such functions share.    *)
LEMMA SumFunctionIs ==
    ASSUME NEW f
    PROVE  SumFunction(f) = (CHOOSE g : Sums(f, g))[DOMAIN f]
  BY DEF SumFunction, SumFunctionOnSet, FoldFunctionOnSet, MapThenFoldSet, Sums, Body, One

LEMMA OneIn == ASSUME NEW s, s # {} PROVE One(s) \in s
  BY DEF One

\* The subsets of S with n elements or less.
Upto(S, n) == {s \in SUBSET S : Cardinality(s) <= n}

LEMMA SmallerIn ==
    ASSUME NEW S, IsFiniteSet(S), NEW n \in Nat, NEW s \in Upto(S, n), NEW x \in s
    PROVE  s \ {x} \in Upto(S, n - 1) /\ n # 0
<1>1. IsFiniteSet(s) /\ Cardinality(s) \in Nat
  BY FS_Subset, FS_CardinalityType DEF Upto
<1>2. Cardinality(s \ {x}) = Cardinality(s) - 1
  BY <1>1, FS_RemoveElement
<1>3. IsFiniteSet(s \ {x}) /\ Cardinality(s \ {x}) \in Nat
  BY <1>1, FS_RemoveElement, FS_CardinalityType
<1> QED
  BY <1>1, <1>2, <1>3 DEF Upto

(* Such a function: on the sets of n elements from the one on smaller ones. *)
LEMMA SumsExist ==
    ASSUME NEW f, IsFiniteSet(DOMAIN f)
    PROVE  \E g : Sums(f, g)
<1> DEFINE S == DOMAIN f
           P(n) == \E g : g = [s \in Upto(S, n) |-> Body(f, g, s)]
           T == {n \in Nat : ~P(n)}
<1>1. ASSUME T # {} PROVE FALSE
  <2>1. PICK n \in T : \A k \in T : ~(k < n)
    <3>1. T \in SUBSET Nat
      OBVIOUS
    <3> HIDE DEF T
    <3> QED
      BY <1>1, <3>1, SmallestNumber
  <2>2. n \in Nat /\ ~P(n)
    OBVIOUS
  <2>3. CASE n = 0
    <3> DEFINE g == [s \in Upto(S, n) |-> 0]
    <3>1. \A s \in Upto(S, n) : s = {}
      BY <2>2, <2>3, SmallerIn
    <3>2. \A s \in Upto(S, n) : Body(f, g, s) = 0
      BY <3>1 DEF Body
    <3>3. g = [s \in Upto(S, n) |-> Body(f, g, s)]
      <4> HIDE DEF g
      <4>1. g = [s \in Upto(S, n) |-> 0]
        BY DEF g
      <4> QED
        BY <3>2, <4>1
    <3> HIDE DEF g
    <3> QED
      BY <2>2, <3>3
  <2>4. CASE n # 0
    <3>1. n - 1 \in Nat /\ n - 1 < n
      BY <2>2, <2>4
    <3>2. P(n - 1)
      BY <2>1, <3>1
    <3>3. PICK h : h = [s \in Upto(S, n - 1) |-> Body(f, h, s)]
      BY <3>2
    <3> DEFINE g == [s \in Upto(S, n) |-> Body(f, h, s)]
    <3>4. Upto(S, n - 1) \subseteq Upto(S, n)
      <4>1. \A s \in SUBSET S : Cardinality(s) \in Nat
        BY FS_Subset, FS_CardinalityType
      <4> QED
        BY <2>2, <4>1 DEF Upto
    <3>5. \A r \in Upto(S, n - 1) : g[r] = h[r]
      <4> TAKE r \in Upto(S, n - 1)
      <4>1. g[r] = Body(f, h, r)
        BY <3>4
      <4>2. h[r] = Body(f, h, r)
        BY <3>3
      <4> QED
        BY <4>1, <4>2
    <3>6. \A s \in Upto(S, n) : Body(f, g, s) = Body(f, h, s)
      <4> TAKE s \in Upto(S, n)
      <4>1. CASE s = {}
        BY <4>1 DEF Body
      <4>2. CASE s # {}
        <5>1. s \ {One(s)} \in Upto(S, n - 1)
          BY <2>2, <4>2, OneIn, SmallerIn
        <5>2. g[s \ {One(s)}] = h[s \ {One(s)}]
          BY <3>5, <5>1
        <5> HIDE DEF g
        <5> QED
          BY <5>2 DEF Body
      <4> QED
        BY <4>1, <4>2
    <3>7. g = [s \in Upto(S, n) |-> Body(f, g, s)]
      <4> HIDE DEF g
      <4>1. g = [s \in Upto(S, n) |-> Body(f, h, s)]
        BY DEF g
      <4> QED
        BY <3>6, <4>1
    <3> HIDE DEF g
    <3> QED
      BY <2>2, <3>7
  <2> QED
    BY <2>3, <2>4
<1>2. Cardinality(S) \in Nat
  BY FS_CardinalityType
<1>3. P(Cardinality(S))
  BY <1>1, <1>2
<1>4. Upto(S, Cardinality(S)) = SUBSET S
  BY FS_Subset DEF Upto
<1> QED
  BY <1>3, <1>4 DEF Sums

LEMMA SumsSums ==
    ASSUME NEW f, IsFiniteSet(DOMAIN f)
    PROVE  \E g : Sums(f, g) /\ SumFunction(f) = g[DOMAIN f]
  BY SumsExist, SumFunctionIs

LEMMA SumsBody ==
    ASSUME NEW f, NEW g, Sums(f, g), NEW s \in SUBSET DOMAIN f
    PROVE  /\ s = {} => g[s] = 0
           /\ s # {} => One(s) \in s /\ g[s] = f[One(s)] + g[s \ {One(s)}]
<1> DEFINE h == [r \in SUBSET DOMAIN f |-> Body(f, g, r)]
<1>1. h[s] = Body(f, g, s)
  OBVIOUS
<1>2. g = h
  BY DEF Sums
<1> QED
  BY <1>1, <1>2, OneIn DEF Body

(* Sums of numbers are numbers.                                            *)
LEMMA SumsType ==
    ASSUME NEW f, NEW g, Sums(f, g), IsFiniteSet(DOMAIN f),
           \A x \in DOMAIN f : f[x] \in Nat
    PROVE  \A s \in SUBSET DOMAIN f : g[s] \in Nat
<1> DEFINE Bad == {s \in SUBSET DOMAIN f : g[s] \notin Nat}
<1>0. \A s \in SUBSET DOMAIN f :
        /\ s = {} => g[s] = 0
        /\ s # {} => One(s) \in s /\ g[s] = f[One(s)] + g[s \ {One(s)}]
  BY SumsBody
<1>1. ASSUME Bad # {} PROVE FALSE
  <2>1. PICK s \in Bad : \A x \in s : ~(s \ {x} \in Bad)
    <3>1. Bad \in SUBSET SUBSET DOMAIN f
      OBVIOUS
    <3> HIDE DEF Bad
    <3> QED
      BY <1>1, <3>1, SmallestSet
  <2>2. s \in SUBSET DOMAIN f /\ g[s] \notin Nat
    BY <2>1
  <2>3. /\ s = {} => g[s] = 0
        /\ s # {} => One(s) \in s /\ g[s] = f[One(s)] + g[s \ {One(s)}]
    BY <1>0, <2>2
  <2>4. 0 \in Nat
    OBVIOUS
  <2>5. s # {}
    BY <2>2, <2>3, <2>4
  <2>6. f[One(s)] \in Nat /\ g[s \ {One(s)}] \in Nat
    BY <2>2, <2>1, <2>5, <2>3
  <2>7. g[s] \in Nat
    BY <2>5, <2>6, <2>3
  <2> QED
    BY <2>2, <2>7
<1> QED
  BY <1>1

(* The order in which the elements are taken does not matter.              *)
LEMMA AnyOrder ==
    ASSUME NEW f, NEW g, Sums(f, g), IsFiniteSet(DOMAIN f), \A x \in DOMAIN f : f[x] \in Nat
    PROVE  \A s \in SUBSET DOMAIN f : \A x \in s : g[s] = f[x] + g[s \ {x}]
<1> DEFINE Bad == {s \in SUBSET DOMAIN f : \E x \in s : g[s] # f[x] + g[s \ {x}]}
<1>0. \A s \in SUBSET DOMAIN f : g[s] \in Nat
  BY SumsType
<1>1. ASSUME Bad # {} PROVE FALSE
  <2>1. PICK s \in Bad : \A x \in s : ~(s \ {x} \in Bad)
    <3>1. Bad \in SUBSET SUBSET DOMAIN f
      OBVIOUS
    <3> HIDE DEF Bad
    <3> QED
      BY <1>1, <3>1, SmallestSet
  <2>2. PICK x \in s : g[s] # f[x] + g[s \ {x}]
    BY <2>1
  <2>3. s \in SUBSET DOMAIN f
    BY <2>1
  <2> DEFINE c == One(s)
  <2>4. c \in s /\ g[s] = f[c] + g[s \ {c}]
    BY <2>3, <2>2, SumsBody
  <2> HIDE DEF c
  <2>5. c # x
    BY <2>2, <2>4
  <2>6. g[s \ {c}] = f[x] + g[(s \ {c}) \ {x}]
    BY <2>3, <2>1, <2>4, <2>5
  <2>7. g[s \ {x}] = f[c] + g[(s \ {x}) \ {c}]
    BY <2>3, <2>1, <2>4, <2>5
  <2>8. (s \ {x}) \ {c} = (s \ {c}) \ {x}
    OBVIOUS
  <2>9. f[c] \in Nat /\ f[x] \in Nat /\ g[(s \ {c}) \ {x}] \in Nat
    BY <1>0, <2>3, <2>4
  <2>10. g[s] = f[c] + (f[x] + g[(s \ {c}) \ {x}]) /\ g[s \ {x}] = f[c] + g[(s \ {c}) \ {x}]
    BY <2>4, <2>6, <2>7, <2>8
  <2>11. f[c] + (f[x] + g[(s \ {c}) \ {x}]) = f[x] + (f[c] + g[(s \ {c}) \ {x}])
    BY <2>9
  <2> QED
    BY <2>2, <2>10, <2>11
<1> QED
  BY <1>1

(* Two functions that differ at x only have the same sums without x.       *)
LEMMA SumsAgree ==
    ASSUME NEW f, NEW g, Sums(f, g), NEW h, NEW k, Sums(h, k),
           IsFiniteSet(DOMAIN f), DOMAIN h = DOMAIN f, NEW x,
           \A y \in DOMAIN f \ {x} : f[y] = h[y]
    PROVE  \A s \in SUBSET DOMAIN f : x \notin s => g[s] = k[s]
<1> DEFINE Bad == {s \in SUBSET DOMAIN f : x \notin s /\ g[s] # k[s]}
<1>1. ASSUME Bad # {} PROVE FALSE
  <2>1. PICK s \in Bad : \A y \in s : ~(s \ {y} \in Bad)
    <3>1. Bad \in SUBSET SUBSET DOMAIN f
      OBVIOUS
    <3> HIDE DEF Bad
    <3> QED
      BY <1>1, <3>1, SmallestSet
  <2>2. s \in SUBSET DOMAIN f /\ s \in SUBSET DOMAIN h /\ x \notin s /\ g[s] # k[s]
    BY <2>1
  <2>3. /\ s = {} => g[s] = 0
        /\ s # {} => One(s) \in s /\ g[s] = f[One(s)] + g[s \ {One(s)}]
    BY <2>2, SumsBody
  <2>4. /\ s = {} => k[s] = 0
        /\ s # {} => k[s] = h[One(s)] + k[s \ {One(s)}]
    BY <2>2, SumsBody
  <2>5. s # {} /\ One(s) \in s
    BY <2>2, <2>3, <2>4
  <2>6. g[s \ {One(s)}] = k[s \ {One(s)}] /\ f[One(s)] = h[One(s)]
    BY <2>2, <2>1, <2>5
  <2> QED
    BY <2>2, <2>3, <2>4, <2>5, <2>6
<1> QED
  BY <1>1

(* What the sum becomes when one of the values changes.                    *)
LEMMA SumChanges ==
    ASSUME NEW S, IsFiniteSet(S), NEW f \in [S -> Nat], NEW h \in [S -> Nat], NEW x \in S,
           \A y \in S \ {x} : f[y] = h[y]
    PROVE  /\ SumFunction(f) \in Nat /\ SumFunction(h) \in Nat
           /\ f[x] <= SumFunction(f)
           /\ SumFunction(h) = SumFunction(f) - f[x] + h[x]
<1>1. PICK g : Sums(f, g) /\ SumFunction(f) = g[S]
  BY SumsSums
<1>2. PICK k : Sums(h, k) /\ SumFunction(h) = k[S]
  BY SumsSums
<1>3. g[S] = f[x] + g[S \ {x}]
  BY <1>1, AnyOrder
<1>4. k[S] = h[x] + k[S \ {x}]
  BY <1>2, AnyOrder
<1>5. g[S \ {x}] = k[S \ {x}]
  BY <1>1, <1>2, SumsAgree
<1>6. g[S \ {x}] \in Nat /\ k[S \ {x}] \in Nat
  BY <1>1, <1>2, SumsType
<1>7. f[x] \in Nat /\ h[x] \in Nat
  OBVIOUS
<1> QED
  BY <1>1, <1>2, <1>3, <1>4, <1>5, <1>6, <1>7

(* Nothing sums up to nothing.                                             *)
LEMMA SumZero ==
    ASSUME NEW S, IsFiniteSet(S), NEW f, DOMAIN f = S, \A x \in S : f[x] = 0
    PROVE  SumFunction(f) = 0
<1>1. PICK g : Sums(f, g) /\ SumFunction(f) = g[S]
  BY SumsSums
<1> DEFINE Bad == {s \in SUBSET S : g[s] # 0}
<1>2. ASSUME Bad # {} PROVE FALSE
  <2>1. PICK s \in Bad : \A y \in s : ~(s \ {y} \in Bad)
    <3>1. Bad \in SUBSET SUBSET S
      OBVIOUS
    <3> HIDE DEF Bad
    <3> QED
      BY <1>2, <3>1, SmallestSet
  <2>2. s \in SUBSET DOMAIN f /\ g[s] # 0
    BY <2>1
  <2>3. /\ s = {} => g[s] = 0
        /\ s # {} => One(s) \in s /\ g[s] = f[One(s)] + g[s \ {One(s)}]
    BY <1>1, <2>2, SumsBody
  <2>4. s # {} /\ One(s) \in s
    BY <2>2, <2>3
  <2>5. g[s \ {One(s)}] = 0 /\ f[One(s)] = 0
    BY <2>2, <2>1, <2>4
  <2> QED
    BY <2>2, <2>3, <2>4, <2>5
<1> QED
  BY <1>1, <1>2

-----------------------------------------------------------------------------
(* What the handlers of the converter make of the memory shown.            *)

\* struct memory_process_info_t.
ShownType == [memory_use : Nat, nb_malloc : Nat, nb_free : Nat, total_malloced : Nat,
              total_freed : Nat, max_mem_used : Nat]

LEMMA Remainder ==
    ASSUME NEW x \in Int, NEW w \in Nat \ {0}
    PROVE  x % w \in Nat /\ (x \in Nat /\ x < w => x % w = x)
OBVIOUS

LEMMA MaxKept ==
    ASSUME NEW p \in ShownType
    PROVE  WithMax(p) \in ShownType /\ WithMax(p).memory_use = p.memory_use
<1>1. Narrow \in Nat \ {0} BY MemoryAssumption
<1>2. p.memory_use \in Nat BY DEF ShownType
<1>3. p.memory_use % Narrow \in Nat BY <1>1, <1>2, Remainder
<1> QED BY <1>3 DEF WithMax, ShownType

(* The conversion to int: a number, the number itself if it is of that     *)
(* type, as a difference of two such sizes is.                             *)
LEMMA ToIntType == \A n \in Int : ToInt(n) \in Int
<1> TAKE n \in Int
<1>1. n % Narrow \in Nat BY MemoryAssumption, Remainder
<1>2. Narrow \in Nat BY MemoryAssumption
<1> QED BY <1>1, <1>2 DEF ToInt

LEMMA ToIntKeeps ==
    ASSUME NEW n \in Int, n < Narrow \div 2, -(Narrow \div 2) <= n
    PROVE  ToInt(n) = n
<1> DEFINE half == Narrow \div 2
<1>1. /\ Narrow \in Nat \ {0} /\ half \in Nat
      /\ half <= Narrow /\ Narrow - half >= half
      BY MemoryAssumption
<1>2. CASE n >= 0
  <2>1. n \in Nat /\ n < Narrow BY <1>1, <1>2
  <2>2. n % Narrow = n BY <1>1, <2>1, Remainder
  <2> QED BY <2>2 DEF ToInt
<1>3. CASE n < 0
  <2>1. n % Narrow = n + Narrow BY <1>1, <1>3
  <2>2. ~(n + Narrow < half) BY <1>1
  <2>3. (n + Narrow) - Narrow = n BY <1>1
  <2> QED BY <2>1, <2>2, <2>3 DEF ToInt
<1> QED BY <1>2, <1>3

LEMMA NotCut ==
    ASSUME NEW n \in Nat, ~IsCut(n)
    PROVE  ToInt(n) = n /\ n < Narrow \div 2
<1>1. ToInt(n) = n BY DEF IsCut
<1>2. Narrow \in Nat \ {0} /\ n % Narrow \in Nat /\ n % Narrow < Narrow BY MemoryAssumption
<1>3. n % Narrow < Narrow \div 2 /\ n = n % Narrow BY <1>1, <1>2 DEF ToInt
<1> QED BY <1>1, <1>3

LEMMA DifferenceType ==
    ASSUME NEW new \in Nat, NEW old \in Nat, NEW d \in IntDifferences(new, old)
    PROVE  /\ d \in Int
           /\ ~IsCut(new) /\ ~IsCut(old) => d = new - old
<1> DEFINE whole == ToInt(new) - ToInt(old)
<1>1. whole \in Int BY ToIntType
<1>2. d = whole \/ d = ToInt(whole) BY DEF IntDifferences
<1>3. ToInt(whole) \in Int BY <1>1, ToIntType
<1>4. ASSUME ~IsCut(new), ~IsCut(old) PROVE d = new - old
  <2>1. whole = new - old /\ new < Narrow \div 2 /\ old < Narrow \div 2 BY <1>4, NotCut
  <2>2. whole < Narrow \div 2 /\ -(Narrow \div 2) <= whole BY <2>1, MemoryAssumption
  <2>3. ToInt(whole) = whole BY <1>1, <2>2, ToIntKeeps
  <2> QED BY <1>2, <2>1, <2>3
<1> QED BY <1>1, <1>2, <1>3, <1>4

LEMMA MallocHandled ==
    ASSUME NEW p \in ShownType, NEW size \in Nat
    PROVE  /\ HandleMalloc(p, size) \in ShownType
           /\ HandleMalloc(p, size).memory_use = (p.memory_use + ToInt(size)) % Wide
<1>0. /\ p.memory_use + ToInt(size) \in Int /\ p.total_malloced + ToInt(size) \in Int
      /\ p.nb_malloc + 1 \in Nat /\ Wide \in Nat \ {0}
      BY MemoryAssumption, ToIntType DEF ShownType
<1>1. /\ (p.memory_use + ToInt(size)) % Wide \in Nat
      /\ (p.total_malloced + ToInt(size)) % Wide \in Nat
      BY <1>0, Remainder
<1> DEFINE q == [p EXCEPT !.nb_malloc = @ + 1, !.memory_use = (@ + ToInt(size)) % Wide,
                          !.total_malloced = (@ + ToInt(size)) % Wide]
<1>2. q \in ShownType /\ q.memory_use = (p.memory_use + ToInt(size)) % Wide
      BY <1>0, <1>1 DEF ShownType
<1>3. HandleMalloc(p, size) = WithMax(q) BY DEF HandleMalloc
<1> HIDE DEF q
<1> QED BY <1>2, <1>3, MaxKept

LEMMA ReallocHandled ==
    ASSUME NEW p \in ShownType, NEW d \in Int
    PROVE  /\ HandleRealloc(p, d) \in ShownType
           /\ HandleRealloc(p, d).memory_use = (p.memory_use + d) % Wide
<1>0. /\ p.memory_use + d \in Int /\ p.total_malloced + d \in Int
      /\ p.nb_malloc + 1 \in Nat /\ p.nb_free + 1 \in Nat /\ Wide \in Nat \ {0}
      BY MemoryAssumption DEF ShownType
<1>1. (p.memory_use + d) % Wide \in Nat /\ (p.total_malloced + d) % Wide \in Nat
      BY <1>0, Remainder
<1> DEFINE q == [p EXCEPT !.nb_malloc = @ + 1, !.nb_free = @ + 1,
                          !.memory_use = (@ + d) % Wide,
                          !.total_malloced = (@ + d) % Wide]
<1>2. q \in ShownType /\ q.memory_use = (p.memory_use + d) % Wide
      BY <1>0, <1>1 DEF ShownType
<1>3. HandleRealloc(p, d) = WithMax(q) BY DEF HandleRealloc
<1> HIDE DEF q
<1> QED BY <1>2, <1>3, MaxKept

LEMMA FreeHandled ==
    ASSUME NEW p \in ShownType, NEW size \in Nat
    PROVE  /\ HandleFree(p, size) \in ShownType
           /\ HandleFree(p, size).memory_use
                = IF p.memory_use >= size THEN p.memory_use - size ELSE 0
<1>1. (p.total_freed + size) % Wide \in Nat /\ p.nb_free + 1 \in Nat
      BY MemoryAssumption, Remainder DEF ShownType
<1>2. (IF p.memory_use >= size THEN p.memory_use - size ELSE 0) \in Nat BY DEF ShownType
<1> QED BY <1>1, <1>2 DEF ShownType, HandleFree

LEMMA RoomIsNat == \A e \in Elements : HeaderRoom(e) \in Nat
<1> TAKE e \in Elements
<1>1. e \in Nat \ {0} /\ HeaderSize \in Nat BY MemoryAssumption
<1>2. HeaderSize \div e \in Nat BY <1>1
<1> DEFINE whole == HeaderSize \div e
<1> HIDE DEF whole
<1>3. e * whole \in Nat /\ e * (whole + 1) \in Nat BY <1>1, <1>2 DEF whole
<1>4. HeaderRoom(e) = e * whole \/ HeaderRoom(e) = e * (whole + 1) BY DEF HeaderRoom, whole
<1> QED BY <1>3, <1>4

\* The sizes that a header gives.
Sized(block) == block.size \in Nat /\ block.offset \in Nat

LEMMA FreshSized ==
    ASSUME NEW type, NEW n \in Counts, NEW e \in Elements PROVE Sized(Fresh(type, n, e))
<1>1. n \in Nat /\ e \in Nat BY MemoryAssumption
<1>2. n * e \in Nat BY <1>1
<1> QED BY <1>2, RoomIsNat DEF Sized, Fresh, InitMemInfo

LEMMA PlainSized == Sized(Unused) /\ \A n : Sized(Plain(n))
BY DEF Sized, Unused, Plain

LEMMA ResizedSized ==
    ASSUME NEW block, Sized(block), NEW n \in Counts PROVE Sized(Resized(block, n))
<1>1. n + block.offset \in Nat BY MemoryAssumption DEF Sized
<1>2. (n + block.offset) * 1 \in Nat BY <1>1
<1>3. HeaderRoom(1) \in Nat BY RoomIsNat, MemoryAssumption
<1> QED BY <1>2, <1>3 DEF Sized, Resized, InitMemInfo

-----------------------------------------------------------------------------
(* The sizes are numbers; the blocks that the events have told of have a   *)
(* header that says so, and are in no call; before the start there is      *)
(* none.                                                                   *)
TInv ==
    /\ \A b \in Blocks : Sized(heap[b])
    /\ \A t \in Threads : op[t].does = "realloc" => op[t].old \in Nat
    /\ counted \subseteq {b \in Blocks : heap[b].type = "malloc"}
    /\ \A t \in Threads : InCall(t) => op[t].block \notin counted
    /\ ~active => counted = {} /\ Reallocating = {} /\ shown.memory_use = 0
    /\ shown \in ShownType

LEMMA InitSized == Init => TInv
<1> SUFFICES ASSUME Init PROVE TInv OBVIOUS
<1>1. \A t \in Threads : op[t].does = "app" BY DEF Init, Idle
<1>2. shown \in ShownType /\ shown.memory_use = 0 BY DEF Init, ShownType
<1>3. \A b \in Blocks : Sized(heap[b]) BY PlainSized DEF Init
<1> QED BY <1>1, <1>2, <1>3 DEF Init, TInv, InCall, Reallocating

LEMMA NextSized == OInv /\ TInv /\ [Next]_vars => TInv'
<1> SUFFICES ASSUME OInv, TInv, [Next]_vars PROVE TInv' OBVIOUS
<1> USE DEF TInv, InCall, Reallocating
<1>0. DOMAIN heap = Blocks /\ DOMAIN op = Threads /\ live \subseteq Blocks BY DEF OInv
<1>1. CASE UNCHANGED vars BY <1>1 DEF vars, startup, history, Sized
<1>2. ASSUME NEW t \in Threads, MallocSeeks(t) PROVE TInv'
      BY <1>0, <1>2 DEF MallocSeeks, Calls, Idle, history, Sized
<1>3. ASSUME NEW t \in Threads, MallocFinds(t) PROVE TInv'
      BY <1>0, <1>3 DEF MallocFinds, Idle, history, Sized
<1>4. ASSUME NEW t \in Threads, NEW n \in Counts, HandMadeMalloc(t, n) PROVE TInv'
  <2>1. PICK b \in UnusedBlocks : heap' = [heap EXCEPT ![b] = Fresh("custom", n, 1)]
        BY <1>4 DEF HandMadeMalloc
  <2>2. b \in Blocks /\ heap[b].type = "unused" BY DEF UnusedBlocks, Unused
  <2>3. op' = op /\ active' = active /\ counted' = counted /\ shown' = shown
        BY <1>4 DEF HandMadeMalloc, history
  <2>4. Sized(Fresh("custom", n, 1)) BY FreshSized, MemoryAssumption
  <2>5. heap'[b] = Fresh("custom", n, 1) /\ \A c \in Blocks : c # b => heap'[c] = heap[c]
        BY <1>0, <2>1, <2>2
  <2>6. \A c \in Blocks : Sized(heap[c])' BY <2>4, <2>5 DEF Sized
  <2> QED BY <2>2, <2>3, <2>5, <2>6
<1>5. ASSUME NEW t \in Threads, NEW n \in Counts, NEW e \in Elements, Malloc(t, n, e) PROVE TInv'
  <2>1. PICK b \in UnusedBlocks :
          \/ heap' = [heap EXCEPT ![b] = Plain(n * e)] /\ op' = op
          \/ /\ heap' = [heap EXCEPT ![b] = Fresh("malloc", n, e)]
             /\ op' = [op EXCEPT ![t] = [does |-> "malloc", block |-> b]]
        BY <1>5 DEF Malloc
  <2>2. b \in Blocks /\ heap[b].type = "unused" BY DEF UnusedBlocks, Unused
  <2>3. active' = active /\ counted' = counted /\ shown' = shown BY <1>5 DEF Malloc, history
  <2>4. Sized(Fresh("malloc", n, e)) /\ Sized(Plain(n * e)) BY FreshSized, PlainSized
  <2>5. heap'[b] \in {Fresh("malloc", n, e), Plain(n * e)}
        /\ \A c \in Blocks : c # b => heap'[c] = heap[c]
        BY <1>0, <2>1, <2>2
  <2>6. \A c \in Blocks : Sized(heap[c])' BY <2>4, <2>5 DEF Sized
  <2>7. b \notin counted BY <2>2
  <2>8. \A u \in Threads : \/ op'[u] = op[u]
                           \/ u = t /\ op'[u].does = "malloc" /\ op'[u].block = b
        BY <1>0, <2>1
  <2> QED BY <2>2, <2>3, <2>5, <2>6, <2>7, <2>8
<1>6. ASSUME NEW t \in Threads, MallocRecords(t) PROVE TInv'
  <2> DEFINE b == op[t].block
  <2>1. heap' = heap /\ active' = active /\ op' = [op EXCEPT ![t] = Idle] /\ InCall(t)
        /\ shown' = (IF active THEN HandleMalloc(shown, heap[b].size) ELSE shown)
        /\ counted' = (IF active THEN counted \cup {b} ELSE counted)
        BY <1>6 DEF MallocRecords
  <2>2. b \in Blocks /\ heap[b].type = "malloc" /\ heap[b].size \in Nat
        BY <2>1 DEF OInv, Sized
  <2>3. shown' \in ShownType BY <2>1, <2>2, MallocHandled
  <2>4. \A u \in Threads : IF u = t THEN op'[u].does = "app" ELSE op'[u] = op[u]
        BY <1>0, <2>1 DEF Idle
  <2>5. \A u \in Threads : InCall(u) /\ u # t => op[u].block # b BY <2>1 DEF OInv
  <2>6. \A c \in Blocks : Sized(heap[c])' BY <2>1 DEF Sized
  <2> QED BY <2>1, <2>2, <2>3, <2>4, <2>5, <2>6
<1>7. ASSUME NEW t \in Threads, FreeEnds(t) PROVE TInv'
  <2> DEFINE b == op[t].block
  <2>1. InCall(t) /\ op' = [op EXCEPT ![t] = Idle] /\ active' = active /\ counted' = counted
        /\ shown' = shown
        BY <1>7 DEF FreeEnds
  <2>2. b \in Blocks /\ heap[b].type = "malloc" /\ b \notin counted BY <2>1 DEF OInv
  <2>3. heap' = [heap EXCEPT ![b] = Unused] BY <1>7, <2>2 DEF FreeEnds, LibFree
  <2>4. heap'[b] = Unused /\ \A c \in Blocks : c # b => heap'[c] = heap[c]
        BY <1>0, <2>2, <2>3
  <2>5. \A c \in Blocks : Sized(heap[c])' BY <2>4, PlainSized DEF Sized
  <2>6. \A u \in Threads : op'[u] = op[u] \/ op'[u].does = "app" BY <1>0, <2>1 DEF Idle
  <2> QED BY <2>1, <2>2, <2>4, <2>5, <2>6
<1>8. ASSUME NEW t \in Threads, ReallocRecords(t) PROVE TInv'
  <2> DEFINE b == op[t].block
  <2>1. heap' = heap /\ active' = active /\ op' = [op EXCEPT ![t] = Idle] /\ InCall(t)
        /\ op[t].does = "realloc"
        BY <1>8 DEF ReallocRecords
  <2>2. \/ /\ active
           /\ \E d \in IntDifferences(heap[b].size, op[t].old) : shown' = HandleRealloc(shown, d)
           /\ counted' = counted \cup {b}
        \/ ~active /\ shown' = shown /\ counted' = counted
        BY <1>8 DEF ReallocRecords
  <2>3. b \in Blocks /\ heap[b].type = "malloc" /\ heap[b].size \in Nat /\ op[t].old \in Nat
        BY <2>1 DEF OInv, Sized
  <2>4. shown' \in ShownType
    <3>1. \A d \in IntDifferences(heap[b].size, op[t].old) : HandleRealloc(shown, d) \in ShownType
          BY <2>3, DifferenceType, ReallocHandled
    <3> QED BY <2>2, <3>1
  <2>5. \A u \in Threads : IF u = t THEN op'[u].does = "app" ELSE op'[u] = op[u]
        BY <1>0, <2>1 DEF Idle
  <2>6. \A u \in Threads : InCall(u) /\ u # t => op[u].block # b BY <2>1 DEF OInv
  <2>7. \A c \in Blocks : Sized(heap[c])' BY <2>1 DEF Sized
  <2> QED BY <2>1, <2>2, <2>3, <2>4, <2>5, <2>6, <2>7
<1>9. ASSUME NEW t \in Threads, Shield(t) PROVE TInv'
      BY <1>9 DEF Shield, history, Sized
<1>10. ASSUME NEW t \in Threads, NEW b \in live, FreePlain(t, b) PROVE TInv'
  <2>1. heap[b].type = "plain" /\ b \in Blocks BY <1>0, <1>10 DEF FreePlain
  <2>2. heap' = [heap EXCEPT ![b] = Unused] BY <1>10, <2>1 DEF FreePlain, LibFree, OInv
  <2>3. op' = op /\ active' = active /\ counted' = counted /\ shown' = shown
        BY <1>10 DEF FreePlain
  <2>4. heap'[b] = Unused /\ \A c \in Blocks : c # b => heap'[c] = heap[c]
        BY <1>0, <2>1, <2>2
  <2>5. \A c \in Blocks : Sized(heap[c])' BY <2>4, PlainSized DEF Sized
  <2> QED BY <2>1, <2>3, <2>4, <2>5
<1>11. ASSUME NEW t \in Threads, NEW b \in live, FreeKeeps(t, b) PROVE TInv'
      BY <1>11 DEF FreeKeeps, history, Sized
<1>12. ASSUME NEW t \in Threads, NEW b \in live, FreeRecords(t, b) PROVE TInv'
  <2>1. /\ op' = [op EXCEPT ![t] = [does |-> "free", block |-> b]]
        /\ heap' = heap /\ active' = active /\ b \in Blocks
        /\ shown' = (IF active THEN HandleFree(shown, heap[b].size) ELSE shown)
        /\ counted' = (IF active THEN counted \ {b} ELSE counted)
        BY <1>0, <1>12 DEF FreeRecords
  <2>2. shown' \in ShownType BY <2>1, FreeHandled DEF Sized
  <2>3. \A u \in Threads : \/ op'[u] = op[u]
                           \/ u = t /\ op'[u].does = "free" /\ op'[u].block = b
        BY <1>0, <2>1
  <2>4. \A c \in Blocks : Sized(heap[c])' BY <2>1 DEF Sized
  <2>5. b \notin counted' BY <2>1
  <2> QED BY <2>1, <2>2, <2>3, <2>4, <2>5
<1>13. ASSUME NEW t \in Threads, NEW b \in live, ReallocStrays(t, b) PROVE TInv'
      BY <1>13 DEF ReallocStrays, Sized
<1>14. ASSUME NEW t \in Threads, NEW b \in live, NEW n \in Counts, ReallocPlain(t, b, n) PROVE TInv'
  <2>1. PICK m \in UnusedBlocks \cup {b} : LibRealloc(b, m, Plain(n))
        BY <1>14 DEF ReallocPlain
  <2>2. heap[b].type = "plain" /\ op' = op /\ active' = active /\ counted' = counted
        /\ shown' = shown
        BY <1>14 DEF ReallocPlain, history
  <2>3. heap' = [[heap EXCEPT ![b] = Unused] EXCEPT ![m] = Plain(n)] BY <2>1 DEF LibRealloc
  <2>4. m \in Blocks /\ b \in Blocks /\ heap[m].type # "malloc"
        BY <1>0, <2>2 DEF UnusedBlocks, Unused
  <2>5. \A c \in Blocks : (heap'[c] \in {Unused, Plain(n)} /\ c \in {b, m}) \/ heap'[c] = heap[c]
        BY <1>0, <2>3, <2>4
  <2>6. \A c \in Blocks : Sized(heap[c])' BY <2>5, PlainSized DEF Sized
  <2> QED BY <2>2, <2>4, <2>5, <2>6
<1>15. ASSUME NEW t \in Threads, NEW b \in live, NEW n \in Counts, Realloc(t, b, n) PROVE TInv'
  <2>1. PICK m \in UnusedBlocks \cup {b} :
          /\ LibRealloc(b, m, Resized(heap[b], n))
          /\ op' = [op EXCEPT ![t] = [does |-> "realloc", block |-> m, old |-> heap[b].size,
                                      known |-> b \in counted]]
        BY <1>15 DEF Realloc
  <2>2. heap[b].type = "malloc" /\ active' = active /\ counted' = counted \ {b} /\ shown' = shown
        BY <1>15 DEF Realloc
  <2>3. heap' = [[heap EXCEPT ![b] = Unused] EXCEPT ![m] = Resized(heap[b], n)]
        BY <2>1 DEF LibRealloc
  <2>4. m \in Blocks /\ b \in Blocks /\ m \notin counted'
        BY <1>0, <2>2 DEF UnusedBlocks, Unused
  <2>5. Sized(Resized(heap[b], n)) /\ heap[b].size \in Nat BY <2>4, ResizedSized DEF Sized
  <2>6. \A c \in Blocks : \/ heap'[c] \in {Unused, Resized(heap[b], n)} /\ c \in {b, m}
                          \/ heap'[c] = heap[c]
        BY <1>0, <2>3, <2>4
  <2>7. \A c \in Blocks : Sized(heap[c])' BY <2>5, <2>6, PlainSized DEF Sized
  <2>8. op'[t].does = "realloc" /\ op'[t].block = m /\ op'[t].old = heap[b].size
        /\ op'[t].known = (b \in counted)
        BY <1>0, <2>1
  <2>9. \A u \in Threads : u # t => op'[u] = op[u] BY <2>1
  <2>10. counted' \subseteq {c \in Blocks : heap'[c].type = "malloc"}
        BY <2>2, <2>4, <2>6
  <2>11. \A u \in Threads : InCall(u)' => op'[u].block \notin counted'
        BY <2>2, <2>4, <2>8, <2>9
  <2>12. ~active' => counted' = {} /\ Reallocating' = {} /\ shown'.memory_use = 0
        BY <2>2, <2>8, <2>9
  <2>13. \A u \in Threads : op'[u].does = "realloc" => op'[u].old \in Nat
        BY <2>5, <2>8, <2>9
  <2> QED BY <2>2, <2>7, <2>10, <2>11, <2>12, <2>13
<1>16. CASE MemoryInit BY <1>16 DEF MemoryInit, history, Sized
<1>17. CASE Start BY <1>17 DEF Start, history, Sized
<1>18. CASE Terminated BY <1>1, <1>18 DEF Terminated
<1> QED BY <1>1, <1>2, <1>3, <1>4, <1>5, <1>6, <1>7, <1>8, <1>9, <1>10, <1>11, <1>12, <1>13, <1>14,
           <1>15, <1>16, <1>17, <1>18 DEF Next

-----------------------------------------------------------------------------
(* The sums: at each step the sizes of one block and of one thread change. *)

LEMMA TwoSums ==
    ASSUME NEW f \in [Blocks -> Nat], NEW h \in [Blocks -> Nat],
           NEW k \in [Threads -> Nat], NEW l \in [Threads -> Nat],
           NEW b \in Blocks, \A c \in Blocks \ {b} : f[c] = h[c],
           NEW t \in Threads, \A u \in Threads \ {t} : k[u] = l[u]
    PROVE  /\ SumFunction(f) + SumFunction(k) \in Nat
           /\ f[b] + k[t] <= SumFunction(f) + SumFunction(k)
           /\ SumFunction(h) + SumFunction(l)
                = (SumFunction(f) + SumFunction(k)) - f[b] - k[t] + h[b] + l[t]
<1>1. /\ SumFunction(f) \in Nat /\ SumFunction(h) \in Nat
      /\ f[b] <= SumFunction(f) /\ SumFunction(h) = SumFunction(f) - f[b] + h[b]
      BY SumChanges, MemoryAssumption
<1>2. /\ SumFunction(k) \in Nat /\ SumFunction(l) \in Nat
      /\ k[t] <= SumFunction(k) /\ SumFunction(l) = SumFunction(k) - k[t] + l[t]
      BY SumChanges, MemoryAssumption
<1>3. f[b] \in Nat /\ h[b] \in Nat /\ k[t] \in Nat /\ l[t] \in Nat OBVIOUS
<1> QED BY <1>1, <1>2, <1>3

LEMMA SizesTyped ==
    TInv => CountedSize \in [Blocks -> Nat] /\ ResizedSize \in [Threads -> Nat]
BY DEF TInv, CountedSize, ResizedSize, Reallocating, Sized

LEMMA SizesTypedNext ==
    TInv' => CountedSize' \in [Blocks -> Nat] /\ ResizedSize' \in [Threads -> Nat]
BY DEF TInv, CountedSize, ResizedSize, Reallocating, Sized

LEMMA ToldTyped == TInv => Told \in Nat
<1> SUFFICES ASSUME TInv PROVE Told \in Nat OBVIOUS
<1>1. CountedSize \in [Blocks -> Nat] /\ ResizedSize \in [Threads -> Nat] BY SizesTyped
<1>2. SumFunction(ResizedSize) \in Nat BY <1>1, SumChanges, MemoryAssumption
<1>3. SumFunction(CountedSize) \in Nat
  <2>1. CASE Blocks = {}
    <3>1. SumFunction(CountedSize) = 0 BY <1>1, <2>1, SumZero, MemoryAssumption
    <3> QED BY <3>1
  <2>2. CASE Blocks # {} BY <1>1, <2>2, SumChanges, MemoryAssumption
  <2> QED BY <2>1, <2>2
<1> QED BY <1>2, <1>3 DEF Told

LEMMA ToldChanges ==
    ASSUME TInv, TInv', NEW b \in Blocks, NEW t \in Threads,
           \A c \in Blocks \ {b} : CountedSize[c] = CountedSize'[c],
           \A u \in Threads \ {t} : ResizedSize[u] = ResizedSize'[u]
    PROVE  /\ Told \in Nat
           /\ CountedSize[b] + ResizedSize[t] <= Told
           /\ Told' = Told - CountedSize[b] - ResizedSize[t] + CountedSize'[b] + ResizedSize'[t]
<1>1. /\ CountedSize \in [Blocks -> Nat] /\ ResizedSize \in [Threads -> Nat]
      /\ CountedSize' \in [Blocks -> Nat] /\ ResizedSize' \in [Threads -> Nat]
      BY SizesTyped, SizesTypedNext
<1>2. Told = SumFunction(CountedSize) + SumFunction(ResizedSize) BY DEF Told
<1>3. Told' = SumFunction(CountedSize') + SumFunction(ResizedSize') BY DEF Told
<1> QED BY <1>1, <1>2, <1>3, TwoSums

LEMMA ToldSame ==
    ASSUME \A c \in Blocks : CountedSize[c] = CountedSize'[c],
           \A u \in Threads : ResizedSize[u] = ResizedSize'[u]
    PROVE  Told' = Told
<1>1. CountedSize' = CountedSize BY DEF CountedSize
<1>2. ResizedSize' = ResizedSize BY DEF ResizedSize
<1> QED BY <1>1, <1>2 DEF Told

LEMMA InitFollows == Init => UseFollows
<1> SUFFICES ASSUME Init PROVE UseFollows OBVIOUS
<1>1. \A t \in Threads : ResizedSize[t] = 0
      BY DEF Init, Idle, ResizedSize, Reallocating
<1>2. \A b \in Blocks : CountedSize[b] = 0 BY DEF Init, CountedSize
<1>3. DOMAIN ResizedSize = Threads /\ DOMAIN CountedSize = Blocks
      BY DEF ResizedSize, CountedSize
<1>4. SumFunction(ResizedSize) = 0 /\ SumFunction(CountedSize) = 0
      BY <1>1, <1>2, <1>3, SumZero, MemoryAssumption
<1>5. Told = 0 BY <1>4 DEF Told
<1>6. shown.memory_use = 0 /\ wrapped = FALSE BY DEF Init
<1> QED BY <1>5, <1>6 DEF UseFollows

(* What handle_memory_free takes away it takes from what was told.         *)
LEMMA Lowered ==
    ASSUME NEW use \in Nat, NEW told \in Nat, NEW size \in Nat, size <= told,
           NEW less, less = IF use >= size THEN use - size ELSE 0
    PROVE  /\ use <= told => less <= told - size
           /\ use = told => less = told - size
OBVIOUS

(* The steps, of which four change what the events have told of.           *)
LEMMA NextFollows ==
    OInv /\ TInv /\ TInv' /\ MemoryFits' /\ UseFollows /\ [Next]_vars => UseFollows'
<1> SUFFICES ASSUME OInv, TInv, TInv', MemoryFits', UseFollows, [Next]_vars
             PROVE  UseFollows'
    OBVIOUS
<1>0. /\ DOMAIN heap = Blocks /\ DOMAIN op = Threads /\ live \subseteq Blocks
      /\ shown.memory_use \in Nat /\ Told \in Nat /\ counted \subseteq Blocks
      BY ToldTyped DEF OInv, TInv, ShownType
<1>1. ASSUME Told' = Told, shown' = shown, foreign' = foreign, cut' = cut, wrapped' = wrapped
      PROVE  UseFollows'
      BY <1>1 DEF UseFollows
<1>2. ASSUME shown' = shown, foreign' = foreign, cut' = cut, wrapped' = wrapped,
             counted' = counted, op' = op, \A b \in counted : heap'[b] = heap[b]
      PROVE  UseFollows'
  <2>1. \A c \in Blocks : CountedSize[c] = CountedSize'[c] BY <1>2 DEF CountedSize
  <2>2. \A u \in Threads : ResizedSize[u] = ResizedSize'[u]
        BY <1>2 DEF ResizedSize, Reallocating
  <2> QED BY <1>1, <1>2, <2>1, <2>2, ToldSame
<1>3. ASSUME shown' = shown, foreign' = foreign, cut' = cut, wrapped' = wrapped,
             counted' = counted, \A b \in counted : heap'[b] = heap[b],
             NEW t \in Threads, ~(t \in Reallocating), ~(t \in Reallocating'),
             \A u \in Threads \ {t} : op'[u] = op[u]
      PROVE  UseFollows'
  <2>1. \A c \in Blocks : CountedSize[c] = CountedSize'[c] BY <1>3 DEF CountedSize
  <2>2. \A u \in Threads : ResizedSize[u] = ResizedSize'[u]
        BY <1>3 DEF ResizedSize, Reallocating
  <2> QED BY <1>1, <1>3, <2>1, <2>2, ToldSame
<1>4. ASSUME UNCHANGED vars PROVE UseFollows' BY <1>2, <1>4 DEF vars, history
<1>5. ASSUME NEW t \in Threads, MallocSeeks(t) \/ MallocFinds(t) PROVE UseFollows'
  <2>1. /\ shown' = shown /\ foreign' = foreign /\ cut' = cut /\ wrapped' = wrapped
        /\ counted' = counted /\ heap' = heap
        /\ \A u \in Threads \ {t} : op'[u] = op[u]
        /\ op[t].does # "realloc" /\ op'[t].does # "realloc"
        BY <1>0, <1>5 DEF MallocSeeks, MallocFinds, Calls, Idle, history
  <2> QED BY <1>3, <2>1 DEF Reallocating
<1>6. ASSUME NEW t \in Threads, NEW n \in Counts,
             HandMadeMalloc(t, n) \/ \E e \in Elements : Malloc(t, n, e)
      PROVE  UseFollows'
  <2>1. PICK b \in UnusedBlocks :
          /\ \E x : heap' = [heap EXCEPT ![b] = x]
          /\ op' = op \/ op' = [op EXCEPT ![t] = [does |-> "malloc", block |-> b]]
        BY <1>6 DEF HandMadeMalloc, Malloc
  <2>2. b \notin counted BY DEF TInv, UnusedBlocks, Unused
  <2>3. /\ shown' = shown /\ foreign' = foreign /\ cut' = cut /\ wrapped' = wrapped
        /\ counted' = counted
        /\ op[t].does # "realloc"
        BY <1>6 DEF HandMadeMalloc, Malloc, Calls, Idle, history
  <2>4. op'[t].does # "realloc" /\ \A u \in Threads \ {t} : op'[u] = op[u]
        BY <1>0, <2>1, <2>3
  <2>5. \A c \in counted : heap'[c] = heap[c] BY <1>0, <2>1, <2>2
  <2> QED BY <1>3, <2>3, <2>4, <2>5 DEF Reallocating
<1>7. ASSUME NEW t \in Threads, FreeEnds(t) PROVE UseFollows'
  <2>1. op[t].block \notin counted BY <1>7 DEF FreeEnds, TInv, InCall
  <2>2. \A c \in counted : heap'[c] = heap[c] BY <1>0, <1>7, <2>1 DEF FreeEnds, LibFree
  <2>3. /\ shown' = shown /\ foreign' = foreign /\ cut' = cut /\ wrapped' = wrapped
        /\ counted' = counted
        /\ op[t].does # "realloc" /\ op'[t].does # "realloc"
        /\ \A u \in Threads \ {t} : op'[u] = op[u]
        BY <1>0, <1>7 DEF FreeEnds, Idle
  <2> QED BY <1>3, <2>2, <2>3 DEF Reallocating
<1>8. ASSUME NEW t \in Threads, NEW b \in live,
             FreePlain(t, b) \/ FreeKeeps(t, b) \/ ReallocStrays(t, b)
      PROVE  UseFollows'
  <2>1. /\ shown' = shown /\ foreign' = foreign /\ cut' = cut /\ wrapped' = wrapped
        /\ counted' = counted
        /\ op' = op
        BY <1>8 DEF FreePlain, FreeKeeps, ReallocStrays, history
  <2>2. \A c \in counted : heap'[c] = heap[c]
    <3>1. CASE heap' = heap BY <3>1
    <3>2. CASE FreePlain(t, b)
      <4>1. b \notin counted BY <3>2 DEF FreePlain, TInv
      <4> QED BY <1>0, <3>2, <4>1 DEF FreePlain, LibFree
    <3> QED BY <1>8, <3>1, <3>2 DEF FreeKeeps, ReallocStrays
  <2> QED BY <1>2, <2>1, <2>2
<1>9. ASSUME NEW t \in Threads, NEW b \in live, NEW n \in Counts, ReallocPlain(t, b, n)
      PROVE  UseFollows'
  <2>1. PICK m \in UnusedBlocks \cup {b} : LibRealloc(b, m, Plain(n)) BY <1>9 DEF ReallocPlain
  <2>2. b \notin counted /\ m \notin counted
        BY <1>9 DEF ReallocPlain, TInv, UnusedBlocks, Unused
  <2>3. \A c \in counted : heap'[c] = heap[c] BY <1>0, <2>1, <2>2 DEF LibRealloc
  <2> QED BY <1>2, <1>9, <2>3 DEF ReallocPlain, history
<1>10. CASE MemoryInit \/ Start BY <1>2, <1>10 DEF MemoryInit, Start, history
<1>11. ASSUME NEW t \in Threads, Shield(t) PROVE UseFollows'
      BY <1>2, <1>11 DEF Shield, history
<1>12. ASSUME NEW t \in Threads, MallocRecords(t) PROVE UseFollows'
  <2> DEFINE b == op[t].block
             size == heap[b].size
  <2>1. InCall(t) /\ op[t].does = "malloc" /\ heap' = heap /\ op' = [op EXCEPT ![t] = Idle]
        /\ foreign' = foreign /\ wrapped' = wrapped
        BY <1>12 DEF MallocRecords, InCall
  <2>2. /\ shown' = (IF active THEN HandleMalloc(shown, size) ELSE shown)
        /\ counted' = (IF active THEN counted \cup {b} ELSE counted)
        /\ cut' = (cut \/ (active /\ IsCut(size)))
        BY <1>12 DEF MallocRecords
  <2>3. b \in Blocks /\ b \notin counted /\ size \in Nat
        BY <2>1 DEF OInv, TInv, Sized, InCall
  <2>4. op'[t].does = "app" /\ \A u \in Threads \ {t} : op'[u] = op[u]
        BY <1>0, <2>1 DEF Idle
  <2> HIDE DEF b, size
  <2>5. CASE ~active
    <3>1. CountedSize' = CountedSize BY <2>1, <2>2, <2>5 DEF CountedSize
    <3>2. \A u \in Threads : ResizedSize[u] = ResizedSize'[u]
          BY <2>1, <2>4 DEF ResizedSize, Reallocating
    <3>3. Told' = Told BY <3>1, <3>2, ToldSame
    <3>4. shown' = shown /\ (cut => cut') BY <2>2, <2>5
    <3> QED BY <2>1, <3>3, <3>4 DEF UseFollows
  <2>6. CASE active
    <3>1. \A c \in Blocks \ {b} : CountedSize[c] = CountedSize'[c]
          BY <2>1, <2>2, <2>6 DEF CountedSize
    <3>2. CountedSize[b] = 0 /\ CountedSize'[b] = size
          BY <2>1, <2>2, <2>3, <2>6 DEF CountedSize, size
    <3>3. \A u \in Threads : ResizedSize[u] = ResizedSize'[u]
          BY <2>1, <2>4 DEF ResizedSize, Reallocating
    <3>4. ResizedSize[t] = 0 BY <2>1 DEF ResizedSize, Reallocating
    <3>5. Told' = Told + size
      <4>1. Told' = Told - CountedSize[b] - ResizedSize[t] + CountedSize'[b] + ResizedSize'[t]
            BY <2>3, <3>1, <3>3, ToldChanges
      <4> QED BY <1>0, <2>3, <3>2, <3>3, <3>4, <4>1
    <3>6. ASSUME ~cut' PROVE ~cut /\ shown'.memory_use = (shown.memory_use + size) % Wide
      <4>1. ~cut /\ ~IsCut(size) BY <2>2, <2>6, <3>6
      <4>2. shown'.memory_use = (shown.memory_use + ToInt(size)) % Wide
            BY <2>2, <2>3, <2>6, MallocHandled DEF TInv
      <4> QED BY <2>3, <4>1, <4>2, NotCut
    <3>7. ASSUME ~cut', shown.memory_use <= Told
          PROVE  shown'.memory_use = shown.memory_use + size
      <4>1. Told + size < Wide BY <3>5 DEF MemoryFits
      <4>2. shown.memory_use + size \in Nat /\ shown.memory_use + size < Wide /\ Wide \in Nat \ {0}
            BY <1>0, <2>3, <3>7, <4>1, MemoryAssumption
      <4> QED BY <3>6, <3>7, <4>2, Remainder
    <3> QED BY <1>0, <2>1, <2>3, <3>5, <3>6, <3>7 DEF UseFollows
  <2> QED BY <2>5, <2>6
<1>13. ASSUME NEW t \in Threads, NEW b \in live, FreeRecords(t, b) PROVE UseFollows'
  <2> DEFINE size == heap[b].size
  <2>1. heap' = heap /\ op' = [op EXCEPT ![t] = [does |-> "free", block |-> b]]
        /\ cut' = cut /\ wrapped' = wrapped /\ op[t] = Idle
        BY <1>13 DEF FreeRecords, Calls
  <2>2. /\ shown' = (IF active THEN HandleFree(shown, size) ELSE shown)
        /\ counted' = (IF active THEN counted \ {b} ELSE counted)
        /\ foreign' = (foreign \/ (active /\ b \notin counted))
        BY <1>13 DEF FreeRecords
  <2>3. b \in Blocks /\ size \in Nat BY <1>0 DEF TInv, Sized
  <2>4. op'[t].does = "free" /\ op[t].does = "app" /\ \A u \in Threads \ {t} : op'[u] = op[u]
        BY <1>0, <2>1 DEF Idle
  <2> HIDE DEF size
  <2>5. CASE ~active
    <3>1. foreign' = foreign \/ foreign' = (foreign \/ FALSE) BY <2>2, <2>5
    <3>2. CountedSize' = CountedSize BY <2>1, <2>2, <2>5 DEF CountedSize
    <3>3. \A u \in Threads : ResizedSize[u] = ResizedSize'[u]
          BY <2>4 DEF ResizedSize, Reallocating
    <3>4. Told' = Told BY <3>2, <3>3, ToldSame
    <3> QED BY <2>1, <2>2, <2>5, <3>1, <3>4 DEF UseFollows
  <2>6. CASE active
    <3>1. \A c \in Blocks \ {b} : CountedSize[c] = CountedSize'[c]
          BY <2>1, <2>2, <2>6 DEF CountedSize
    <3>2. CountedSize[b] = (IF b \in counted THEN size ELSE 0) /\ CountedSize'[b] = 0
          BY <2>1, <2>2, <2>3, <2>6 DEF CountedSize, size
    <3>3. \A u \in Threads : ResizedSize[u] = ResizedSize'[u]
          BY <2>1, <2>4 DEF ResizedSize, Reallocating
    <3>4. ResizedSize[t] = 0 BY <2>4 DEF ResizedSize, Reallocating
    <3>5. CountedSize[b] <= Told /\ Told' = Told - CountedSize[b]
      <4>1. CountedSize[b] + ResizedSize[t] <= Told
            /\ Told' = Told - CountedSize[b] - ResizedSize[t] + CountedSize'[b] + ResizedSize'[t]
            BY <2>3, <3>1, <3>3, ToldChanges
      <4>2. CountedSize[b] \in Nat BY <2>3, <3>2
      <4> QED BY <1>0, <3>2, <3>3, <3>4, <4>1, <4>2
    <3>6. shown'.memory_use
            = IF shown.memory_use >= size THEN shown.memory_use - size ELSE 0
          BY <2>2, <2>3, <2>6, FreeHandled DEF TInv
    <3>7. CASE b \in counted
      <4>1. foreign' = foreign \/ foreign' = (foreign \/ FALSE) BY <2>2, <3>7
      <4>2. size <= Told /\ Told' = Told - size BY <3>2, <3>5, <3>7
      <4>3. /\ shown.memory_use <= Told => shown'.memory_use <= Told'
            /\ shown.memory_use = Told => shown'.memory_use = Told'
            BY <1>0, <2>3, <3>6, <4>2, Lowered
      <4> QED BY <2>1, <4>1, <4>3 DEF UseFollows
    <3>8. CASE b \notin counted
      <4>1. foreign' BY <2>2, <2>6, <3>8
      <4>2. Told' = Told BY <1>0, <3>2, <3>5, <3>8
      <4>3. shown'.memory_use <= shown.memory_use BY <1>0, <2>3, <3>6
      <4>4. shown'.memory_use \in Nat BY <1>0, <2>3, <3>6
      <4> QED BY <1>0, <2>1, <4>1, <4>2, <4>3, <4>4 DEF UseFollows
    <3> QED BY <3>7, <3>8
  <2> QED BY <2>5, <2>6
<1>14. ASSUME NEW t \in Threads, NEW b \in live, NEW n \in Counts, Realloc(t, b, n)
      PROVE  UseFollows'
  <2>1. PICK m \in UnusedBlocks \cup {b} :
          /\ LibRealloc(b, m, Resized(heap[b], n))
          /\ op' = [op EXCEPT ![t] = [does |-> "realloc", block |-> m, old |-> heap[b].size,
                                      known |-> b \in counted]]
        BY <1>14 DEF Realloc
  <2>2. counted' = counted \ {b} /\ shown' = shown /\ foreign' = foreign /\ cut' = cut
        /\ wrapped' = wrapped /\ op[t] = Idle
        BY <1>14 DEF Realloc, Calls
  <2>3. \A c \in counted \ {b} : c # m /\ heap'[c] = heap[c]
    <3>1. m \notin counted \ {b} BY DEF TInv, UnusedBlocks, Unused
    <3> QED BY <1>0, <2>1, <3>1 DEF LibRealloc
  <2>4. /\ op'[t].does = "realloc" /\ op'[t].old = heap[b].size /\ op'[t].known = (b \in counted)
        /\ op[t].does = "app" /\ \A u \in Threads \ {t} : op'[u] = op[u]
        BY <1>0, <2>1, <2>2 DEF Idle
  <2>5. b \in Blocks /\ heap[b].size \in Nat BY <1>0 DEF TInv, Sized
  <2>6. \A c \in Blocks \ {b} : CountedSize[c] = CountedSize'[c]
        BY <2>2, <2>3 DEF CountedSize
  <2>7. \A u \in Threads \ {t} : ResizedSize[u] = ResizedSize'[u]
        BY <2>4 DEF ResizedSize, Reallocating
  <2>8. Told' = Told - CountedSize[b] - ResizedSize[t] + CountedSize'[b] + ResizedSize'[t]
        BY <2>5, <2>6, <2>7, ToldChanges
  <2>9. CountedSize'[b] = 0 /\ ResizedSize[t] = 0
        BY <2>2, <2>4, <2>5 DEF CountedSize, ResizedSize, Reallocating
  <2>10. CountedSize[b] = ResizedSize'[t] /\ CountedSize[b] \in Nat
        BY <2>4, <2>5 DEF CountedSize, ResizedSize, Reallocating
  <2>11. Told' = Told BY <1>0, <2>8, <2>9, <2>10
  <2> QED BY <1>1, <2>2, <2>11
<1>15. ASSUME NEW t \in Threads, ReallocRecords(t) PROVE UseFollows'
  <2> DEFINE b == op[t].block
             new == heap[b].size
             old == op[t].old
             known == op[t].known
  <2>1. InCall(t) /\ op[t].does = "realloc" /\ heap' = heap /\ op' = [op EXCEPT ![t] = Idle]
        BY <1>15 DEF ReallocRecords, InCall
  <2>2. \/ /\ active
           /\ \E d \in IntDifferences(new, old) : shown' = HandleRealloc(shown, d)
           /\ counted' = counted \cup {b}
           /\ foreign' = (foreign \/ ~known)
           /\ cut' = (cut \/ IsCut(old) \/ IsCut(new))
           /\ wrapped' = (wrapped \/ shown.memory_use + new < old)
        \/ /\ ~active
           /\ shown' = shown /\ counted' = counted /\ foreign' = foreign
           /\ cut' = cut /\ wrapped' = wrapped
        BY <1>15 DEF ReallocRecords
  <2>3. b \in Blocks /\ b \notin counted /\ new \in Nat /\ old \in Nat
        BY <2>1 DEF OInv, TInv, Sized, InCall
  <2>4. op'[t].does = "app" /\ \A u \in Threads \ {t} : op'[u] = op[u]
        BY <1>0, <2>1 DEF Idle
  <2>5. ResizedSize[t] = (IF known THEN old ELSE 0) /\ ResizedSize'[t] = 0
        BY <2>1, <2>4 DEF ResizedSize, Reallocating
  <2>6. \A u \in Threads \ {t} : ResizedSize[u] = ResizedSize'[u]
        BY <2>4 DEF ResizedSize, Reallocating
  <2>7. ~active => t \notin Reallocating BY DEF TInv
  <2>8. t \notin Reallocating' BY <2>4 DEF Reallocating
  <2> HIDE DEF b, new, old, known
  <2>9. CASE ~active BY <1>3, <2>1, <2>2, <2>4, <2>7, <2>8, <2>9
  <2>10. CASE active
    <3>1. /\ \E d \in IntDifferences(new, old) : shown' = HandleRealloc(shown, d)
          /\ counted' = counted \cup {b}
          /\ foreign' = (foreign \/ ~known)
          /\ cut' = (cut \/ IsCut(old) \/ IsCut(new))
          /\ wrapped' = (wrapped \/ shown.memory_use + new < old)
          BY <2>2, <2>10
    <3>2. \A c \in Blocks \ {b} : CountedSize[c] = CountedSize'[c]
          BY <2>1, <3>1 DEF CountedSize
    <3>3. CountedSize[b] = 0 /\ CountedSize'[b] = new
          BY <2>1, <2>3, <3>1 DEF CountedSize, new
    <3>4. CountedSize[b] + ResizedSize[t] <= Told
          /\ Told' = Told - CountedSize[b] - ResizedSize[t] + CountedSize'[b] + ResizedSize'[t]
          BY <2>3, <2>6, <3>2, ToldChanges
    <3>5. /\ known => old <= Told /\ Told' = Told - old + new
          /\ ~known => Told' = Told + new
          BY <1>0, <2>3, <2>5, <3>3, <3>4
    <3>6. ASSUME ~cut' PROVE shown'.memory_use = (shown.memory_use + new - old) % Wide
      <4>1. ~IsCut(old) /\ ~IsCut(new) BY <3>1, <3>6
      <4>2. PICK d \in IntDifferences(new, old) : shown' = HandleRealloc(shown, d) BY <3>1
      <4>3. d = new - old /\ d \in Int BY <2>3, <4>1, DifferenceType
      <4>4. shown'.memory_use = (shown.memory_use + d) % Wide
            BY <4>2, <4>3, ReallocHandled DEF TInv
      <4>5. shown.memory_use + d = shown.memory_use + new - old BY <1>0, <2>3, <4>3
      <4> QED BY <4>4, <4>5
    <3>7. Told' < Wide /\ Wide \in Nat \ {0} BY MemoryAssumption DEF MemoryFits
    <3>8. ASSUME ~cut', ~(shown.memory_use + new < old), shown.memory_use <= Told
          PROVE  shown'.memory_use = shown.memory_use + new - old
                 /\ shown'.memory_use <= Told'
      <4>1. shown.memory_use + new - old \in Nat BY <1>0, <2>3, <3>8
      <4>2. shown.memory_use + new - old <= Told'
        <5>1. CASE known BY <1>0, <2>3, <3>5, <3>8, <5>1
        <5>2. CASE ~known BY <1>0, <2>3, <3>5, <3>8, <5>2
        <5> QED BY <5>1, <5>2
      <4>3. Told' \in Nat
        <5>1. CASE known BY <1>0, <2>3, <3>5, <5>1
        <5>2. CASE ~known BY <1>0, <2>3, <3>5, <5>2
        <5> QED BY <5>1, <5>2
      <4>4. shown.memory_use + new - old < Wide BY <3>7, <4>1, <4>2, <4>3
      <4>5. shown'.memory_use = shown.memory_use + new - old
            BY <3>6, <3>7, <3>8, <4>1, <4>4, Remainder
      <4> QED BY <4>2, <4>5
    <3>9. ASSUME ~foreign', ~cut' PROVE shown'.memory_use = Told' /\ ~wrapped'
      <4>1. ~foreign /\ ~cut /\ known BY <3>1, <3>9
      <4>2. shown.memory_use = Told /\ ~wrapped BY <4>1 DEF UseFollows
      <4>3. old <= Told /\ Told' = Told - old + new BY <3>5, <4>1
      <4>4. ~(shown.memory_use + new < old) /\ shown.memory_use <= Told
            BY <1>0, <2>3, <4>2, <4>3
      <4>5. shown'.memory_use = shown.memory_use + new - old BY <3>8, <3>9, <4>4
      <4>6. shown'.memory_use = Told' BY <1>0, <2>3, <4>2, <4>3, <4>5
      <4> QED BY <3>1, <4>2, <4>4, <4>6
    <3>10. ASSUME ~wrapped', ~cut' PROVE shown'.memory_use <= Told'
      <4>1. ~wrapped /\ ~cut /\ ~(shown.memory_use + new < old) BY <3>1, <3>10
      <4>2. shown.memory_use <= Told BY <4>1 DEF UseFollows
      <4> QED BY <3>8, <3>10, <4>1, <4>2
    <3> QED BY <3>9, <3>10 DEF UseFollows
  <2> QED BY <2>9, <2>10
<1>16. CASE Terminated BY <1>4, <1>16 DEF Terminated
<1> QED BY <1>4, <1>5, <1>6, <1>7, <1>8, <1>9, <1>10, <1>11, <1>12, <1>13, <1>14, <1>15, <1>16 DEF Next

(* The memory that the converter shows is what the headers say of the      *)
(* blocks that the events have told of, as long as none from before the    *)
(* start is freed or resized, and afterwards no more than that, unless a   *)
(* resized one makes it wrap around 0: for any threads, blocks and sizes,  *)
(* provided that the blocks fit in the address space.                      *)
THEOREM UseFollowsHolds == Spec /\ []MemoryFits => []UseFollows
BY InitOwners, NextOwners, InitSized, NextSized, InitFollows, NextFollows, PTL DEF Spec
=============================================================================
