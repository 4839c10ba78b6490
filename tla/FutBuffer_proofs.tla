-------------------------- MODULE FutBuffer_proofs --------------------------
(* Proofs about the event buffer, for any number of threads, any workload   *)
(* and any capacity.                                                        *)
EXTENDS FutBuffer, SequenceTheorems, TLAPS

Span == [ev : Threads \X Nat, round : Nat, from : Nat, to : Nat, seen : SUBSET (Threads \X Nat)]

(* What the variables of the buffer are. *)
BufferType ==
    /\ work \in Workloads
    /\ nextSlot \in Nat /\ round \in Nat
    /\ phase \in Phases
    /\ pc \in [Threads -> Labels] /\ ev \in [Threads -> Nat \ {0}] /\ slot \in [Threads -> Nat]
    /\ recorded \in SUBSET (Threads \X Nat)
    /\ seen \in [Threads -> SUBSET (Threads \X Nat)]
    /\ spans \in SUBSET Span

(* A thread in a probe records an event of its workload. *)
ProbesEvents == \A t \in Threads : pc[t] # "idle" => ev[t] \in DOMAIN work[t]

(* The threads that will move fut_next_slot back. *)
Flushing(t) == pc[t] \in {"lock", "flush", "open", "dump", "seek", "reset"}
Pending(t) == pc[t] \in {"deactivate", "restore"} \/ Flushing(t)

(* The parts of the buffer that were given lie within it and below          *)
(* fut_next_slot, and no later than the current round.                      *)
SpansBelow ==
    \A s \in spans : /\ s.round <= round
                     /\ s.to <= Capacity
                     /\ s.from <= s.to
                     /\ Open /\ s.round = round => s.to <= nextSlot

(* A thread whose slot crosses the end of the buffer will move              *)
(* fut_next_slot back to it; until then it stays behind the end.            *)
CrossingHeld ==
    Open => \A t \in Threads : Pending(t) /\ slot[t] <= Capacity =>
               /\ nextSlot > Capacity
               /\ \A s \in Current : s.to <= slot[t]

(* One thread at a time has such a slot. *)
OneCrosses ==
    Open => \A t, u \in Threads :
              Pending(t) /\ slot[t] <= Capacity /\ Pending(u) /\ slot[u] <= Capacity => t = u

(* Only a thread with such a slot flushes. *)
FlushingCrosses ==
    \A t \in Threads : /\ Flushing(t) => slot[t] <= Capacity /\ allowFlush
                       /\ pc[t] \in {"deactivate", "restore"} => ~allowFlush

(* What a probe has seen recorded is recorded; its own event is not.        *)
SeenRecorded ==
    /\ \A t \in Threads : seen[t] \subseteq recorded
    /\ \A s \in spans : s.seen \subseteq recorded
    /\ \A e \in recorded : e[2] < ev[e[1]]

(* The inductive invariant. *)
IInv == /\ BufferType /\ ProbesEvents /\ SpansBelow /\ CrossingHeld /\ OneCrosses /\ FlushingCrosses
        /\ SeenRecorded /\ SlotsDisjoint /\ RealTimeOrder

-----------------------------------------------------------------------------
(* The size of the event that a thread records. *)
LEMMA SizeType ==
    ASSUME BufferType, ProbesEvents, NEW t \in Threads, pc[t] # "idle"
    PROVE  Size(t) \in 1 .. MaxSize
<1>1. work[t] \in Seq(1 .. MaxSize) /\ ev[t] \in DOMAIN work[t]
  BY WorkloadsAssumption DEF BufferType, ProbesEvents
<1> QED
  BY <1>1, ElementOfSeq, LenProperties DEF Size

LEMMA InitIInv == Init => IInv
<1> SUFFICES ASSUME Init PROVE IInv
  OBVIOUS
<1> USE DEF Init
<1>1. BufferType
  BY DEF BufferType, Phases, Labels
<1>2. ProbesEvents /\ CrossingHeld /\ OneCrosses /\ FlushingCrosses
  BY DEF ProbesEvents, CrossingHeld, OneCrosses, FlushingCrosses, Pending, Flushing
<1>3. SpansBelow /\ SeenRecorded /\ SlotsDisjoint /\ RealTimeOrder
  BY DEF SpansBelow, SeenRecorded, SlotsDisjoint, RealTimeOrder
<1> QED
  BY <1>1, <1>2, <1>3 DEF IInv

-----------------------------------------------------------------------------
(* The steps. *)

(* A step of a thread that leaves the buffer alone and begins no overflow.  *)
LEMMA LocalStep ==
    ASSUME IInv, BufferType', ProbesEvents', SeenRecorded',
           UNCHANGED <<nextSlot, round, spans, phase, allowFlush>>,
           NEW t \in Threads,
           \A u \in Threads \ {t} : pc'[u] = pc[u] /\ slot'[u] = slot[u],
           Pending(t)' => Pending(t) /\ slot'[t] = slot[t],
           Flushing(t)' => Flushing(t),
           pc'[t] \in {"deactivate", "restore"} => pc[t] \in {"deactivate", "restore"}
    PROVE  IInv'
<1>1. SpansBelow'
  BY DEF IInv, SpansBelow, Open
<1>2. \A u \in Threads : Pending(u)' => Pending(u) /\ slot'[u] = slot[u]
  BY DEF Pending, Flushing
<1>3. CrossingHeld'
  BY <1>2 DEF IInv, CrossingHeld, Open, Current
<1>4. OneCrosses'
  BY <1>2 DEF IInv, OneCrosses, Open
<1>5. FlushingCrosses'
  BY <1>2 DEF IInv, FlushingCrosses, Flushing, Pending
<1>6. SlotsDisjoint' /\ RealTimeOrder'
  BY DEF IInv, SlotsDisjoint, RealTimeOrder, Open
<1> QED
  BY <1>1, <1>3, <1>4, <1>5, <1>6 DEF IInv

(* A thread goes to another label: nothing else that the invariant knows. *)
LEMMA Moves ==
    ASSUME IInv, NEW t \in Threads, NEW label \in Labels, Goto(t, label), pc[t] # "idle",
           UNCHANGED <<work, ev, slot, nextSlot, round, spans, recorded, seen, phase, allowFlush>>,
           label = "restore" => pc[t] = "deactivate",
           label \in {"flush", "open", "dump", "seek", "reset"} => Flushing(t),
           label \notin {"deactivate", "lock"}
    PROVE  IInv'
<1>1. BufferType' /\ ProbesEvents'
  BY DEF IInv, BufferType, ProbesEvents, Goto
<1>2. SeenRecorded'
  BY DEF IInv, SeenRecorded
<1>3. /\ \A u \in Threads \ {t} : pc'[u] = pc[u] /\ slot'[u] = slot[u]
      /\ pc'[t] = label /\ slot'[t] = slot[t]
  BY DEF IInv, BufferType, Goto
<1>4. /\ Pending(t)' => Pending(t)
      /\ Flushing(t)' => Flushing(t)
      /\ pc'[t] \in {"deactivate", "restore"} => pc[t] \in {"deactivate", "restore"}
  BY <1>3 DEF Pending, Flushing
<1> QED
  BY <1>1, <1>2, <1>3, <1>4, LocalStep

(* A thread that is given a slot. *)
LEMMA ReserveIInv ==
    ASSUME IInv, NEW t \in Threads, Reserve(t)
    PROVE  IInv'
<1> DEFINE n == Size(t)
<1>n. n \in 1 .. MaxSize
  BY SizeType DEF IInv, Reserve
<1>c. Capacity \in Nat /\ MaxSize \in Nat
  BY SizesAssumption
<1>t. /\ nextSlot \in Nat /\ round \in Nat /\ Event(t) \in Threads \X Nat
      /\ pc \in [Threads -> Labels] /\ slot \in [Threads -> Nat] /\ spans \in SUBSET Span
      /\ seen[t] \in SUBSET (Threads \X Nat)
  BY DEF IInv, BufferType, Event
<1> HIDE DEF n
<1>1. /\ nextSlot' = Advance(n) /\ nextSlot' \in Nat
      /\ nextSlot' >= nextSlot \/ nextSlot' > Capacity
      /\ nextSlot + n <= Capacity => nextSlot' = nextSlot + n
      /\ nextSlot + n > Capacity => nextSlot' > Capacity
  <2>1. nextSlot' = Advance(n)
    BY DEF Reserve, n
  <2> QED
    BY <2>1, <1>n, <1>c, <1>t DEF Advance
<1>2. /\ pc' = [pc EXCEPT ![t] = AfterReserve(nextSlot, n)]
      /\ slot' = [slot EXCEPT ![t] = nextSlot]
      /\ AfterReserve(nextSlot, n) \in {"write", "deactivate", "reserve", "lock"}
      /\ pc[t] = "reserve"
  BY DEF Reserve, Goto, AfterReserve, n
<1>3. /\ UNCHANGED <<work, allowFlush, phase, ev, round, seen, recorded>>
      /\ nextSlot + n <= Capacity => spans' = spans \cup {SpanOf(t)}
      /\ nextSlot + n > Capacity => spans' = spans
  BY <1>n, <1>c, <1>t DEF Reserve, n
<1>4. /\ SpanOf(t) \in Span /\ SpanOf(t).ev = Event(t) /\ SpanOf(t).round = round
      /\ SpanOf(t).from = nextSlot /\ SpanOf(t).to = nextSlot + n /\ SpanOf(t).seen = seen[t]
  BY <1>t, <1>n, <1>c DEF SpanOf, Span, n
<1>5. BufferType'
  <2>1. spans' \in SUBSET Span
    BY <1>3, <1>4, <1>t, <1>n, <1>c
  <2>2. pc' \in [Threads -> Labels] /\ slot' \in [Threads -> Nat]
    BY <1>2, <1>t DEF Labels
  <2> QED
    BY <2>1, <2>2, <1>1, <1>3 DEF IInv, BufferType
<1>60. ProbesEvents'
  BY <1>2, <1>3, <1>t DEF IInv, ProbesEvents
<1>61. SeenRecorded'
  <2>1. \A s \in spans' : s.seen \subseteq recorded
    BY <1>3, <1>4, <1>t, <1>n, <1>c DEF IInv, SeenRecorded
  <2> QED
    BY <2>1, <1>3 DEF IInv, SeenRecorded
<1>7. SpansBelow'
  BY <1>1, <1>3, <1>4, <1>c, <1>n, <1>t DEF IInv, SpansBelow, Open, Span
<1>8. \A u \in Threads \ {t} : pc'[u] = pc[u] /\ slot'[u] = slot[u]
  BY <1>2, <1>t
<1>9. pc'[t] = AfterReserve(nextSlot, n) /\ slot'[t] = nextSlot
  BY <1>2, <1>t
<1>10. Pending(t)' => /\ nextSlot + n > Capacity
                      /\ spans' = spans
                      /\ nextSlot' > Capacity
  BY <1>9, <1>1, <1>3, <1>n, <1>c, <1>t DEF Pending, Flushing, AfterReserve
<1>11. CrossingHeld'
  <2> SUFFICES ASSUME Open', NEW u \in Threads, Pending(u)', slot'[u] <= Capacity
               PROVE  nextSlot' > Capacity /\ \A s \in Current' : s.to <= slot'[u]
    BY DEF CrossingHeld
  <2>0. Open
    BY <1>3 DEF Open
  <2>1. CASE u = t
    BY <2>0, <2>1, <1>3, <1>9, <1>10 DEF IInv, SpansBelow, Current
  <2>2. CASE u # t
    <3>1. Pending(u) /\ slot[u] <= Capacity /\ nextSlot > Capacity
      BY <2>0, <2>2, <1>8 DEF IInv, CrossingHeld, Pending, Flushing
    <3>2. spans' = spans /\ nextSlot' > Capacity
      BY <3>1, <1>1, <1>3, <1>n, <1>c, <1>t
    <3> QED
      BY <3>1, <3>2, <2>0, <2>2, <1>8, <1>3 DEF IInv, CrossingHeld, Current
  <2> QED
    BY <2>1, <2>2
<1>12. OneCrosses'
  <2> SUFFICES ASSUME Open, NEW u \in Threads, NEW v \in Threads, u # v,
                      Pending(u)', slot'[u] <= Capacity, Pending(v)', slot'[v] <= Capacity
               PROVE  FALSE
    BY <1>3 DEF OneCrosses, Open
  <2>1. \A w \in Threads \ {t} : Pending(w)' /\ slot'[w] <= Capacity => Pending(w) /\ slot[w] <= Capacity
    BY <1>8 DEF Pending, Flushing
  <2>2. \A w \in Threads : Pending(w) /\ slot[w] <= Capacity => nextSlot > Capacity
    BY DEF IInv, CrossingHeld
  <2>3. CASE u # t /\ v # t
    BY <2>1, <2>3 DEF IInv, OneCrosses
  <2>4. CASE u = t \/ v = t
    BY <2>1, <2>2, <2>4, <1>9, <1>c, <1>t
  <2> QED
    BY <2>3, <2>4
<1>13. FlushingCrosses'
  BY <1>2, <1>3, <1>8, <1>9, <1>c, <1>t, <1>n DEF IInv, FlushingCrosses, Flushing, AfterReserve
<1>14. SlotsDisjoint'
  <2>1. ASSUME Open, NEW s \in spans, s.round = round PROVE s.to <= nextSlot
    BY <2>1 DEF IInv, SpansBelow
  <2>2. CASE nextSlot + n <= Capacity
    BY <2>1, <2>2, <1>3, <1>4 DEF IInv, SlotsDisjoint, Open
  <2>3. CASE nextSlot + n > Capacity
    BY <2>3, <1>3 DEF IInv, SlotsDisjoint, Open
  <2> QED
    BY <2>2, <2>3, <1>n, <1>c, <1>t
<1>15. RealTimeOrder'
  <2>1. Event(t) \notin recorded
    BY <1>t DEF IInv, SeenRecorded, Event, BufferType
  <2>2. \A r \in spans' : Event(t) \notin r.seen
    BY <2>1, <1>61, <1>3 DEF SeenRecorded
  <2>3. Open /\ nextSlot + n <= Capacity => \A s \in spans : s.round < round \/ (s.round = round /\ s.to <= nextSlot)
    BY <1>t DEF IInv, SpansBelow, Span
  <2>4. SUFFICES ASSUME Open, NEW s \in spans', NEW r \in spans', s.ev \in r.seen
                 PROVE  s.round < r.round \/ (s.round = r.round /\ s.to <= r.from)
    BY <1>3 DEF RealTimeOrder, Open
  <2>5. s \in spans
    <3>1. s.ev # Event(t)
      BY <2>2, <2>4
    <3> QED
      BY <3>1, <1>3, <1>4, <1>n, <1>c, <1>t
  <2>6. CASE r \in spans
    BY <2>5, <2>6, <2>4 DEF IInv, RealTimeOrder
  <2>7. CASE r \notin spans
    BY <2>3, <2>5, <2>7, <1>3, <1>4, <2>4, <1>n, <1>c, <1>t
  <2> QED
    BY <2>6, <2>7
<1> QED
  BY <1>5, <1>60, <1>61, <1>7, <1>11, <1>12, <1>13, <1>14, <1>15 DEF IInv

(* A probe that ends without recording. *)
LEMMA ProbeIInv ==
    ASSUME IInv, NEW t \in Threads, Probe(t)
    PROVE  IInv'
<1>0. work[t] \in Seq(1 .. MaxSize) /\ ev[t] \in Nat
  BY WorkloadsAssumption DEF IInv, BufferType
<1>1. BufferType'
  <2>1. pc' \in [Threads -> Labels] /\ ev' \in [Threads -> Nat \ {0}] /\ slot' \in [Threads -> Nat]
        /\ seen' \in [Threads -> SUBSET (Threads \X Nat)]
    <3>1. CASE active
      BY <3>1 DEF IInv, BufferType, Probe, Goto, Labels
    <3>2. CASE ~active
      <4>1. /\ pc' = [pc EXCEPT ![t] = "idle"] /\ ev' = [ev EXCEPT ![t] = @ + 1]
            /\ slot' = [slot EXCEPT ![t] = 0] /\ seen' = [seen EXCEPT ![t] = {}]
        BY <3>2 DEF Probe, NextEvent, Goto
      <4>2. ev[t] + 1 \in Nat \ {0} /\ "idle" \in Labels
        BY <1>0 DEF Labels
      <4> QED
        BY <4>1, <4>2 DEF IInv, BufferType
    <3> QED
      BY <3>1, <3>2
  <2> QED
    BY <2>1 DEF IInv, BufferType, Probe
<1>2. /\ \A u \in Threads \ {t} : /\ pc'[u] = pc[u] /\ slot'[u] = slot[u] /\ ev'[u] = ev[u]
                                  /\ seen'[u] = seen[u]
      /\ pc'[t] \in {"idle", "reserve"} /\ seen'[t] \subseteq recorded
      /\ ev'[t] = ev[t] \/ (ev'[t] = ev[t] + 1 /\ pc'[t] = "idle")
      /\ UNCHANGED <<work, recorded, spans, nextSlot, round, phase, allowFlush>>
      /\ ev[t] <= Len(work[t])
  BY DEF IInv, BufferType, Probe, NextEvent, Goto
<1>3. ProbesEvents'
  <2>1. pc'[t] # "idle" => ev'[t] \in DOMAIN work[t]
    <3>1. ev[t] \in Nat \ {0}
      BY DEF IInv, BufferType
    <3>2. ev[t] \in 1 .. Len(work[t])
      BY <1>0, <1>2, <3>1, LenProperties
    <3> QED
      BY <1>0, <1>2, <3>2, LenProperties
  <2> QED
    BY <1>2, <2>1 DEF IInv, ProbesEvents
<1>4. SeenRecorded'
  <2>1. \A u \in Threads : seen'[u] \subseteq recorded /\ ev[u] \in Nat /\ ev'[u] \in Nat /\ ev'[u] >= ev[u]
    <3>1. \A u \in Threads : seen[u] \subseteq recorded /\ ev[u] \in Nat
      BY DEF IInv, SeenRecorded, BufferType
    <3> QED
      BY <3>1, <1>0, <1>2
  <2>2. \A e \in recorded : e[1] \in Threads /\ e[2] \in Nat
    BY DEF IInv, BufferType
  <2> QED
    BY <2>1, <2>2, <1>2 DEF IInv, SeenRecorded
<1>5. ~Pending(t)' /\ ~Flushing(t)'
  BY <1>2 DEF Pending, Flushing
<1> QED
  BY <1>1, <1>2, <1>3, <1>4, <1>5, LocalStep

(* An event is written. *)
LEMMA WriteIInv ==
    ASSUME IInv, NEW t \in Threads, Write(t)
    PROVE  IInv'
<1>0. ev[t] \in Nat \ {0} /\ Event(t) = <<t, ev[t]>> /\ Event(t) \in Threads \X Nat
  BY DEF IInv, BufferType, Event
<1>1. BufferType'
  BY <1>0 DEF IInv, BufferType, Write, NextEvent, Goto, Labels
<1>2. /\ \A u \in Threads \ {t} : /\ pc'[u] = pc[u] /\ slot'[u] = slot[u] /\ ev'[u] = ev[u]
                                  /\ seen'[u] = seen[u]
      /\ pc'[t] = "idle" /\ seen'[t] = {} /\ ev'[t] = ev[t] + 1
      /\ UNCHANGED <<work, spans, nextSlot, round, phase, allowFlush>>
      /\ recorded' = recorded \cup {<<t, ev[t]>>}
  BY <1>0 DEF IInv, BufferType, Write, NextEvent, Goto
<1>3. ProbesEvents'
  BY <1>2 DEF IInv, ProbesEvents
<1>4. SeenRecorded'
  <2>1. \A u \in Threads : seen'[u] \subseteq recorded' /\ ev[u] \in Nat /\ ev'[u] >= ev[u]
    BY <1>0, <1>2 DEF IInv, SeenRecorded, BufferType
  <2>2. \A s \in spans : s.seen \subseteq recorded'
    BY <1>2 DEF IInv, SeenRecorded
  <2>3. \A e \in recorded : e[1] \in Threads /\ e[2] \in Nat /\ e[2] < ev[e[1]]
    BY DEF IInv, BufferType, SeenRecorded
  <2>4. \A e \in recorded' : e[2] < ev'[e[1]]
    <3> TAKE e \in recorded'
    <3>1. CASE e \in recorded
      BY <2>3, <1>2, <1>0, <3>1
    <3>2. CASE e = <<t, ev[t]>>
      BY <1>2, <1>0, <3>2
    <3> QED
      BY <3>1, <3>2, <1>2
  <2> QED
    BY <2>1, <2>2, <2>4, <1>2 DEF SeenRecorded
<1>5. ~Pending(t)' /\ ~Flushing(t)'
  BY <1>2 DEF Pending, Flushing
<1> QED
  BY <1>1, <1>2, <1>3, <1>4, <1>5, LocalStep

(* The thread that could not record gives its slot back: the slot is behind *)
(* the end of the buffer, or all that was given ends before it.             *)
LEMMA RestoreIInv ==
    ASSUME IInv, NEW t \in Threads, Restore(t)
    PROVE  IInv'
<1>c. Capacity \in Nat
  BY SizesAssumption
<1>t. /\ nextSlot \in Nat /\ slot[t] \in Nat /\ ev[t] \in Nat \ {0} /\ pc[t] = "restore"
      /\ spans \in SUBSET Span
  BY DEF IInv, BufferType, Restore
<1>1. BufferType'
  BY <1>t DEF IInv, BufferType, Restore, NextEvent, Goto, Labels, GivenBack
<1>2. /\ \A u \in Threads \ {t} : /\ pc'[u] = pc[u] /\ slot'[u] = slot[u] /\ ev'[u] = ev[u]
                                  /\ seen'[u] = seen[u]
      /\ pc'[t] = "idle" /\ seen'[t] = {} /\ ev'[t] = ev[t] + 1
      /\ UNCHANGED <<work, spans, round, phase, allowFlush, recorded>>
      /\ nextSlot' = slot[t]
  BY <1>t DEF IInv, BufferType, Restore, NextEvent, Goto, GivenBack
<1>3. ProbesEvents'
  BY <1>2 DEF IInv, ProbesEvents
<1>4. SeenRecorded'
  <2>1. \A u \in Threads : seen'[u] \subseteq recorded /\ ev[u] \in Nat /\ ev'[u] \in Nat /\ ev'[u] >= ev[u]
    BY <1>t, <1>2 DEF IInv, SeenRecorded, BufferType
  <2>2. \A e \in recorded : e[1] \in Threads /\ e[2] \in Nat
    BY DEF IInv, BufferType
  <2> QED
    BY <2>1, <2>2, <1>2 DEF IInv, SeenRecorded
<1>5. Pending(t) /\ ~Pending(t)' /\ ~Flushing(t)'
  BY <1>t, <1>2 DEF Pending, Flushing
<1>6. SpansBelow'
  <2>1. ASSUME Open, NEW s \in spans, s.round = round PROVE s.to <= slot[t]
    BY <2>1, <1>5, <1>c, <1>t DEF IInv, SpansBelow, CrossingHeld, Current, Span
  <2> QED
    BY <2>1, <1>2 DEF IInv, SpansBelow, Open
<1>7. ASSUME NEW u \in Threads, Pending(u)' PROVE u # t /\ Pending(u) /\ slot'[u] = slot[u]
  BY <1>7, <1>2, <1>5 DEF Pending, Flushing
<1>8. CrossingHeld'
  <2> SUFFICES ASSUME Open, NEW u \in Threads, Pending(u)', slot'[u] <= Capacity
               PROVE  slot[t] > Capacity /\ \A s \in Current : s.to <= slot[u]
    BY <1>2, <1>7 DEF CrossingHeld, Open, Current
  <2>1. u # t /\ Pending(u) /\ slot[u] <= Capacity
    BY <1>7
  <2> QED
    BY <2>1, <1>5, <1>c, <1>t DEF IInv, CrossingHeld, OneCrosses
<1>9. OneCrosses'
  BY <1>2, <1>7 DEF IInv, OneCrosses, Open
<1>10. FlushingCrosses'
  BY <1>2 DEF IInv, FlushingCrosses, Flushing
<1>11. SlotsDisjoint' /\ RealTimeOrder'
  BY <1>2 DEF IInv, SlotsDisjoint, RealTimeOrder, Open
<1> QED
  BY <1>1, <1>3, <1>4, <1>6, <1>8, <1>9, <1>10, <1>11 DEF IInv

(* The thread that flushes opens a new round. *)
LEMMA ResetIInv ==
    ASSUME IInv, NEW t \in Threads, Reset(t)
    PROVE  IInv'
<1>t. round \in Nat /\ pc[t] = "reset" /\ pc \in [Threads -> Labels] /\ spans \in SUBSET Span
  BY DEF IInv, BufferType, Reset
<1>1. /\ pc' = [pc EXCEPT ![t] = "unlock"] /\ nextSlot' = 0 /\ round' = round + 1
      /\ UNCHANGED <<work, allowFlush, phase, ev, slot, seen, spans, recorded>>
  BY DEF Reset, ResetPointers, Goto
<1>2. BufferType' /\ ProbesEvents' /\ SeenRecorded'
  BY <1>1, <1>t DEF IInv, BufferType, ProbesEvents, SeenRecorded, Labels
<1>3. \A s \in spans : s.round < round'
  BY <1>1, <1>t DEF IInv, SpansBelow, Span
<1>4. SpansBelow'
  BY <1>1, <1>3, <1>t DEF IInv, SpansBelow, Span
<1>5. Pending(t) /\ slot[t] <= Capacity /\ ~Pending(t)' /\ ~Flushing(t)'
  BY <1>1, <1>t DEF IInv, FlushingCrosses, Flushing, Pending
<1>6. ASSUME Open, NEW u \in Threads, Pending(u)' PROVE ~(slot'[u] <= Capacity)
  <2>1. u # t /\ Pending(u) /\ slot'[u] = slot[u]
    BY <1>6, <1>5, <1>1, <1>t DEF Pending, Flushing
  <2> QED
    BY <2>1, <1>5, <1>6 DEF IInv, OneCrosses
<1>7. CrossingHeld' /\ OneCrosses'
  BY <1>6, <1>1 DEF CrossingHeld, OneCrosses, Open
<1>8. FlushingCrosses'
  BY <1>1, <1>t DEF IInv, FlushingCrosses, Flushing
<1>9. SlotsDisjoint' /\ RealTimeOrder'
  BY <1>1 DEF IInv, SlotsDisjoint, RealTimeOrder, Open
<1> QED
  BY <1>2, <1>4, <1>7, <1>8, <1>9 DEF IInv

(* eztrace_stop. *)
LEMMA StopIInv ==
    ASSUME IInv, Stop
    PROVE  IInv'
<1>1. CASE EndupReactivates
  <2>t. round \in Nat /\ spans \in SUBSET Span
    BY DEF IInv, BufferType
  <2>1. /\ nextSlot' = 0 /\ round' = round + 1 /\ phase' = "reactivated"
        /\ UNCHANGED <<work, allowFlush, pc, ev, slot, seen, spans, recorded>>
    BY <1>1 DEF EndupReactivates, ResetPointers
  <2>2. ~Open'
    BY <2>1 DEF Open
  <2>3. BufferType' /\ ProbesEvents' /\ SeenRecorded'
    BY <2>1, <2>t DEF IInv, BufferType, ProbesEvents, SeenRecorded, Phases
  <2>4. SpansBelow'
    BY <2>1, <2>2, <2>t DEF IInv, SpansBelow, Span
  <2>5. CrossingHeld' /\ OneCrosses' /\ SlotsDisjoint' /\ RealTimeOrder'
    BY <2>2 DEF CrossingHeld, OneCrosses, SlotsDisjoint, RealTimeOrder
  <2>6. FlushingCrosses'
    BY <2>1 DEF IInv, FlushingCrosses, Flushing
  <2> QED
    BY <2>3, <2>4, <2>5, <2>6 DEF IInv
<1>2. CASE EndupHalts \/ EndupTests \/ EndupOpens \/ EndupDumps \/ EndupCloses \/ DoneHalts \/ DoneReleases
  <2>1. /\ phase' \in Phases
        /\ Open' => Open
        /\ UNCHANGED <<work, allowFlush, nextSlot, round, pc, ev, slot, seen, spans, recorded>>
    BY <1>2 DEF EndupHalts, EndupTests, EndupOpens, EndupDumps, EndupCloses, DoneHalts, DoneReleases,
                history, Open, Phases
  <2>2. BufferType' /\ ProbesEvents' /\ SeenRecorded'
    BY <2>1 DEF IInv, BufferType, ProbesEvents, SeenRecorded
  <2>3. SpansBelow' /\ FlushingCrosses'
    BY <2>1 DEF IInv, SpansBelow, FlushingCrosses, Flushing
  <2>4. CrossingHeld' /\ OneCrosses' /\ SlotsDisjoint' /\ RealTimeOrder'
    BY <2>1 DEF IInv, CrossingHeld, OneCrosses, SlotsDisjoint, RealTimeOrder, Pending, Flushing, Current
  <2> QED
    BY <2>2, <2>3, <2>4 DEF IInv
<1> QED
  BY <1>1, <1>2 DEF Stop

(* Nothing that the invariant knows changes. *)
LEMMA StutterIInv ==
    ASSUME IInv,
           UNCHANGED <<work, allowFlush, nextSlot, round, phase, pc, ev, slot, seen, spans, recorded>>
    PROVE  IInv'
<1>1. BufferType' /\ ProbesEvents' /\ SeenRecorded'
  BY DEF IInv, BufferType, ProbesEvents, SeenRecorded
<1>2. SpansBelow' /\ FlushingCrosses'
  BY DEF IInv, SpansBelow, FlushingCrosses, Flushing, Open
<1>3. CrossingHeld' /\ OneCrosses' /\ SlotsDisjoint' /\ RealTimeOrder'
  BY DEF IInv, CrossingHeld, OneCrosses, SlotsDisjoint, RealTimeOrder, Pending, Flushing, Current, Open
<1> QED
  BY <1>1, <1>2, <1>3 DEF IInv

LEMMA NextIInv == IInv /\ [Next]_vars => IInv'
<1> SUFFICES ASSUME IInv, [Next]_vars PROVE IInv'
  OBVIOUS
<1>1. ASSUME NEW t \in Threads, Step(t) PROVE IInv'
  <2>1. CASE Probe(t)
    BY <2>1, ProbeIInv
  <2>2. CASE Reserve(t)
    BY <2>2, ReserveIInv
  <2>3. CASE Write(t)
    BY <2>3, WriteIInv
  <2>4. CASE Deactivate(t)
    BY <2>4, Moves DEF Deactivate, history, Labels
  <2>5. CASE Restore(t)
    BY <2>5, RestoreIInv
  <2>6. CASE LockFlush(t)
    BY <2>6, Moves DEF LockFlush, history, Labels, Flushing
  <2>7. CASE FlushTests(t)
    BY <2>7, Moves DEF FlushTests, history, Labels, Flushing
  <2>8. CASE FlushOpens(t)
    BY <2>8, Moves DEF FlushOpens, history, Labels, Flushing
  <2>9. CASE FlushDumps(t)
    BY <2>9, Moves DEF FlushDumps, Labels, Flushing
  <2>10. CASE FlushSeeks(t)
    <3>1. CASE Goto(t, "reset")
      BY <2>10, <3>1, Moves DEF FlushSeeks, history, Labels, Flushing
    <3>2. CASE UNCHANGED pc
      BY <2>10, <3>2, StutterIInv DEF FlushSeeks, history
    <3> QED
      BY <2>10, <3>1, <3>2 DEF FlushSeeks
  <2>11. CASE Reset(t)
    BY <2>11, ResetIInv
  <2>12. CASE UnlockFlush(t)
    BY <2>12, Moves DEF UnlockFlush, history, Labels
  <2>13. CASE ReservesAtNull(t)
    BY <2>13, StutterIInv DEF ReservesAtNull, history
  <2> QED
    BY <1>1, <2>1, <2>2, <2>3, <2>4, <2>5, <2>6, <2>7, <2>8, <2>9, <2>10, <2>11, <2>12, <2>13 DEF Step
<1>2. CASE UNCHANGED vars
  BY <1>2, StutterIInv DEF vars, history
<1> QED
  BY <1>1, <1>2, StopIInv DEF Next, Terminated

(* The inductive invariant holds, for any threads, sizes of events and      *)
(* capacity: it says who has crossed the end of the buffer, so that at most *)
(* one thread of a round flushes or gives its slot back.                    *)
THEOREM Invariance == Spec => []IInv
  BY InitIInv, NextIInv, PTL DEF Spec

(* Between two resets no part of the buffer is given to two events, for any *)
(* number of threads that overflow it together, with and without flush.     *)
THEOREM SlotSafety == Spec => []SlotsDisjoint
<1>1. IInv => SlotsDisjoint
  BY DEF IInv
<1> QED
  BY <1>1, Invariance, PTL

(* A thread flushes exactly what was given in the round, and nothing is     *)
(* given until it has reset the buffer.                                     *)
THEOREM FlushSafety == Spec => []FlushCoversRound
<1>1. IInv => FlushCoversRound
  BY DEF IInv, FlushCoversRound, FlushingCrosses, CrossingHeld, Flushing, Pending
<1> QED
  BY <1>1, Invariance, PTL

(* The file keeps the order of events that do not overlap in time.          *)
THEOREM OrderSafety == Spec => []RealTimeOrder
<1>1. IInv => RealTimeOrder
  BY DEF IInv
<1> QED
  BY <1>1, Invariance, PTL

-----------------------------------------------------------------------------
(* What was recorded is saved.                                              *)

(* The labels of a thread that holds fut_flush_lock, and of one whose part  *)
(* of the buffer has been written out.                                      *)
Locked(t) == pc[t] \in {"flush", "open", "dump", "seek", "reset", "unlock"}
Dumped(t) == pc[t] \in {"seek", "reset"}

\* Before fut_endup has written out the buffer, and after it has closed the file.
Early == phase \in {"on", "halted", "opening", "dumping"}
Closed == phase \in {"closed", "reactivated", "done", "released"}

OnDisk(s) == \E b \in 1 .. Len(disk) : disk[b].round = s.round /\ Holds(disk[b].cells, s)
InBuffer(s) == s.round = round /\ allocated /\ Holds(mem, s)
Completed == {s \in spans : s.ev \in recorded \ late}

(* One thread at a time flushes the buffer.                                 *)
LockHeld == \A t \in Threads : Locked(t) => flushLock = t

(* A file that is open is written to; the buffer is released at the end.    *)
FileUsed ==
    /\ fd \in {"unset", "open", "closed"}
    /\ fd = "unset" => disk = << >> /\ phase # "dumping" /\ \A t \in Threads : pc[t] # "dump"
    /\ fd = "closed" => Closed
    /\ ~allocated => phase = "released"
    /\ ~based => ~allocated

(* When fut_endup has not met the flush of a thread, the file is opened     *)
(* once and not written to after it was closed.                             *)
OpenedOnce ==
    ~overlapped =>
      /\ Closed => fd = "closed"
      /\ phase = "opening" => fd = "unset"
      /\ \A t \in Threads : /\ InFlush(t) => ~EndupInFlush
                            /\ pc[t] = "open" => fd = "unset"

(* What the threads do with the file and its lock.                          *)
FileInv == LockHeld /\ FileUsed /\ OpenedOnce

(* The cells, in memory and in the file.                                    *)
Cell == {Empty, Outside} \cup Threads \X Nat \X Nat
Blocks == [round : Nat, cells : Seq(Cell)]

MemoryType ==
    /\ mem \in [1 .. Capacity -> Cell]
    /\ disk \in Seq(Blocks)
    /\ late \in SUBSET (Threads \X Nat)
    /\ stopSlot \in Nat /\ gone \in BOOLEAN

(* A thread that writes has the part of the buffer that its event was       *)
(* given; no other event has one that its thread has not written yet.       *)
WritersHold ==
    /\ \A t \in Threads : pc[t] = "write" => \E s \in spans : s.ev = Event(t)
    /\ \A s \in spans : \A t \in Threads :
         s.ev[1] = t => \/ s.ev[2] < ev[t]
                        \/ /\ s.ev[2] = ev[t] /\ pc[t] = "write"
                           /\ s.from = slot[t] /\ s.to = slot[t] + Size(t)

(* An event is late unless its thread writes before its round is written    *)
(* out.                                                                     *)
WritersInTime ==
    \A s \in spans : s.ev \notin recorded \cup late =>
        Early /\ s.round = round /\ \A u \in Threads : ~Dumped(u)

(* What fut_endup writes out has all that was given before.                 *)
StopCovers ==
    phase \in {"opening", "dumping"} => \A s \in Current : s.ev \notin late => s.to <= stopSlot

(* After the block was written, and before the reset, all is on the disk.   *)
FlushedOnDisk ==
    ~overlapped /\ (~Early \/ \E u \in Threads : Dumped(u)) =>
        \A s \in Completed : s.round = round \/ ~Early => OnDisk(s)

SInv == MemoryType /\ WritersHold /\ WritersInTime /\ StopCovers /\ FlushedOnDisk /\ CompletedSaved

(* A step of the threads, or of eztrace_stop, that the file does not see.   *)
LEMMA FileKept ==
    ASSUME FileInv, UNCHANGED <<fd, overlapped, phase, allocated>>, disk' = disk,
           based' = based \/ based' = allocated,
           \A t \in Threads : /\ Locked(t)' => flushLock' = t
                              /\ pc'[t] \in {"open", "dump"} => pc'[t] = pc[t]
                              /\ InFlush(t)' => InFlush(t)
    PROVE  FileInv'
<1>1. LockHeld'
  BY DEF LockHeld
<1>2. FileUsed'
  BY DEF FileInv, FileUsed, Closed
<1>3. OpenedOnce'
  BY DEF FileInv, OpenedOnce, Closed, EndupInFlush
<1> QED
  BY <1>1, <1>2, <1>3 DEF FileInv

LEMMA InitFileInv == Init => FileInv
  BY DEF Init, FileInv, LockHeld, FileUsed, OpenedOnce, Locked, Closed, InFlush, EndupInFlush

(* Where a step of a thread with the file leaves the others.                *)
LEMMA OneFlushes ==
    ASSUME FileInv, NEW t \in Threads, Locked(t)
    PROVE  \A u \in Threads \ {t} : ~Locked(u) /\ ~InFlush(u) /\ pc[u] # "dump" /\ pc[u] # "open"
  BY DEF FileInv, LockHeld, Locked, InFlush

(* A thread that flushes.                                                   *)
LEMMA FlushFileInv ==
    ASSUME IInv, FileInv, NEW t \in Threads,
           FlushTests(t) \/ FlushOpens(t) \/ FlushDumps(t) \/ FlushSeeks(t)
    PROVE  FileInv'
<1>0. pc \in [Threads -> Labels]
  BY DEF IInv, BufferType
<1>1. Locked(t) /\ flushLock = t /\ flushLock' = flushLock
  BY DEF FlushTests, FlushOpens, FlushDumps, FlushSeeks, Locked, FileInv, LockHeld, history
<1>2. \A u \in Threads \ {t} : ~Locked(u) /\ ~InFlush(u) /\ pc[u] # "dump" /\ pc[u] # "open"
  BY <1>1, OneFlushes
<1>3. UNCHANGED <<phase, allocated, based>>
  BY DEF FlushTests, FlushOpens, FlushDumps, FlushSeeks
<1>4. ASSUME NEW label, pc' = [pc EXCEPT ![t] = label]
      PROVE  /\ pc'[t] = label
             /\ \A u \in Threads \ {t} : pc'[u] = pc[u]
             /\ LockHeld'
  <2>1. pc'[t] = label /\ \A u \in Threads \ {t} : pc'[u] = pc[u]
    BY <1>0, <1>4
  <2>2. \A u \in Threads \ {t} : ~Locked(u)'
    BY <1>2, <2>1 DEF Locked
  <2> QED
    BY <1>1, <2>1, <2>2 DEF LockHeld
<1>5. CASE FlushTests(t)
  <2>1. CASE allocated
    <3>1. PICK label : label = IF fd = "unset" THEN "open" ELSE "dump"
      OBVIOUS
    <3>2. /\ pc[t] = "flush" /\ pc' = [pc EXCEPT ![t] = label]
          /\ overlapped' = (overlapped \/ EndupInFlush) /\ fd' = fd /\ disk' = disk
      BY <1>5, <2>1, <3>1 DEF FlushTests, Goto
    <3>3. pc'[t] = label /\ (\A u \in Threads \ {t} : pc'[u] = pc[u]) /\ LockHeld'
      BY <1>4, <3>2
    <3>4. FileUsed'
      BY <1>2, <1>3, <3>1, <3>2, <3>3 DEF FileInv, FileUsed, Closed
    <3>5. ASSUME ~overlapped'
          PROVE  /\ Closed => fd = "closed"
                 /\ phase = "opening" => fd = "unset"
                 /\ ~EndupInFlush
      BY <3>2, <3>5 DEF FileInv, OpenedOnce
    <3>6. \A u \in Threads : InFlush(u)' => u = t
      BY <1>2, <3>3 DEF InFlush
    <3>7. pc'[t] = "open" => fd = "unset"
      BY <3>1, <3>3
    <3>8. OpenedOnce'
      BY <1>3, <3>2, <3>5, <3>6, <3>7 DEF OpenedOnce, Closed, EndupInFlush, InFlush
    <3> QED
      BY <3>3, <3>4, <3>8 DEF FileInv
  <2>2. CASE ~allocated
    <3>1. pc' = [pc EXCEPT ![t] = "reset"] /\ UNCHANGED <<fd, disk, overlapped>>
      BY <1>5, <2>2 DEF FlushTests, Goto
    <3>2. pc'[t] = "reset" /\ (\A u \in Threads \ {t} : pc'[u] = pc[u]) /\ LockHeld'
      BY <1>4, <3>1
    <3> QED
      BY <1>2, <1>3, <3>1, <3>2, FileKept DEF LockHeld, InFlush
  <2> QED
    BY <2>1, <2>2
<1>6. CASE FlushOpens(t)
  <2>1. /\ pc[t] = "open" /\ pc' = [pc EXCEPT ![t] = "dump"]
        /\ fd' = "open" /\ disk' = << >> /\ overlapped' = overlapped
    BY <1>6 DEF FlushOpens, Opens, Goto
  <2>2. pc'[t] = "dump" /\ (\A u \in Threads \ {t} : pc'[u] = pc[u]) /\ LockHeld'
    BY <1>4, <2>1
  <2>3. FileUsed'
    BY <1>3, <2>1 DEF FileInv, FileUsed, Closed
  <2>4. OpenedOnce'
    <3> SUFFICES ASSUME ~overlapped
                 PROVE  /\ ~Closed /\ phase # "opening" /\ ~EndupInFlush
                        /\ \A u \in Threads \ {t} : ~InFlush(u)' /\ pc'[u] # "open"
      BY <1>3, <2>1, <2>2 DEF OpenedOnce, Closed, EndupInFlush
    <3>1. fd = "unset" /\ ~EndupInFlush /\ ~Closed
      BY <2>1 DEF FileInv, OpenedOnce, InFlush
    <3>2. \A u \in Threads \ {t} : ~InFlush(u)' /\ pc'[u] # "open"
      BY <1>2, <2>2 DEF InFlush
    <3> QED
      BY <3>1, <3>2 DEF EndupInFlush
  <2> QED
    BY <2>2, <2>3, <2>4 DEF FileInv
<1>7. CASE FlushDumps(t)
  <2>1. /\ pc[t] = "dump" /\ pc' = [pc EXCEPT ![t] = "seek"]
        /\ UNCHANGED <<fd, overlapped>>
    BY <1>7 DEF FlushDumps, Goto
  <2>2. pc'[t] = "seek" /\ (\A u \in Threads \ {t} : pc'[u] = pc[u]) /\ LockHeld'
    BY <1>4, <2>1
  <2>3. fd # "unset"
    BY <2>1 DEF FileInv, FileUsed
  <2>4. FileUsed'
    BY <1>3, <2>1, <2>3 DEF FileInv, FileUsed, Closed
  <2>5. OpenedOnce'
    BY <1>2, <1>3, <2>1, <2>2 DEF FileInv, OpenedOnce, Closed, InFlush, EndupInFlush
  <2> QED
    BY <2>2, <2>4, <2>5 DEF FileInv
<1>8. CASE FlushSeeks(t)
  <2>1. UNCHANGED <<fd, disk, overlapped>> /\ pc[t] = "seek" /\ (pc' = [pc EXCEPT ![t] = "reset"] \/ pc' = pc)
    BY <1>8 DEF FlushSeeks, Goto, file
  <2>2. CASE pc' = [pc EXCEPT ![t] = "reset"]
    <3>1. pc'[t] = "reset" /\ (\A u \in Threads \ {t} : pc'[u] = pc[u]) /\ LockHeld'
      BY <1>4, <2>2
    <3> QED
      BY <1>2, <1>3, <2>1, <3>1, FileKept DEF LockHeld, InFlush
  <2>3. CASE pc' = pc
    <3>1. \A u \in Threads : Locked(u)' => flushLock' = u
      BY <1>1, <2>3 DEF Locked, FileInv, LockHeld
    <3> QED
      BY <1>3, <2>1, <2>3, <3>1, FileKept DEF InFlush
  <2> QED
    BY <2>1, <2>2, <2>3
<1> QED
  BY <1>5, <1>6, <1>7, <1>8

(* The other steps of a thread.                                             *)
LEMMA StepFileInv ==
    ASSUME IInv, FileInv, NEW t \in Threads,
           Probe(t) \/ Reserve(t) \/ ReservesAtNull(t) \/ Write(t) \/ Deactivate(t) \/ Restore(t)
             \/ LockFlush(t) \/ Reset(t) \/ UnlockFlush(t)
    PROVE  FileInv'
<1>0. pc \in [Threads -> Labels]
  BY DEF IInv, BufferType
<1>1. UNCHANGED <<fd, disk, overlapped, phase, allocated>> /\ (based' = based \/ based' = allocated)
  BY DEF Probe, Reserve, ReservesAtNull, Write, Deactivate, Restore, LockFlush, Reset, ResetPointers,
         UnlockFlush, file
<1>2. /\ \A u \in Threads \ {t} : pc'[u] = pc[u]
      /\ ~InFlush(t)' /\ pc'[t] \notin {"open", "dump"}
      /\ \/ ~Locked(t)' /\ flushLock' = flushLock
         \/ pc[t] = "lock" /\ flushLock = NoThread /\ flushLock' = t
         \/ Locked(t) /\ pc'[t] = "unlock" /\ flushLock' = flushLock
         \/ Locked(t) /\ ~Locked(t)'
  <2>1. CASE Probe(t) \/ Write(t) \/ Restore(t)
    BY <1>0, <2>1 DEF Probe, Write, Restore, NextEvent, Goto, Locked, InFlush
  <2>2. CASE Reserve(t)
    <3>1. AfterReserve(nextSlot, Size(t)) \in {"write", "deactivate", "reserve", "lock"}
      BY DEF AfterReserve
    <3> QED
      BY <1>0, <2>2, <3>1 DEF Reserve, Goto, Locked, InFlush
  <2>3. CASE ReservesAtNull(t) \/ Deactivate(t)
    BY <1>0, <2>3 DEF ReservesAtNull, Deactivate, Goto, Locked, InFlush
  <2>4. CASE LockFlush(t) \/ Reset(t) \/ UnlockFlush(t)
    BY <1>0, <2>4 DEF LockFlush, Reset, UnlockFlush, Goto, Locked, InFlush
  <2> QED
    BY <2>1, <2>2, <2>3, <2>4
<1>3. \A u \in Threads : Locked(u)' => flushLock' = u
  <2> SUFFICES ASSUME NEW u \in Threads, Locked(u)' PROVE flushLock' = u
    OBVIOUS
  <2>1. CASE u = t
    BY <1>2, <2>1 DEF FileInv, LockHeld
  <2>2. CASE u # t
    <3>1. Locked(u) /\ flushLock = u /\ flushLock # NoThread
      BY <1>2, <2>2, ThreadsAssumption DEF Locked, FileInv, LockHeld
    <3>2. ~Locked(t)
      BY <2>2, <3>1 DEF FileInv, LockHeld
    <3> QED
      BY <1>2, <3>1, <3>2
  <2> QED
    BY <2>1, <2>2
<1>4. \A u \in Threads : /\ pc'[u] \in {"open", "dump"} => pc'[u] = pc[u]
                         /\ InFlush(u)' => InFlush(u)
  BY <1>2 DEF InFlush
<1> QED
  BY <1>1, <1>3, <1>4, FileKept

(* eztrace_stop.                                                            *)
LEMMA StopFileInv ==
    ASSUME FileInv, Stop
    PROVE  FileInv'
<1>0. UNCHANGED <<pc, flushLock>> /\ LockHeld'
  <2>1. UNCHANGED <<pc, flushLock>>
    BY DEF Stop, EndupHalts, EndupTests, EndupOpens, EndupDumps, EndupCloses, EndupReactivates, DoneHalts,
           DoneReleases
  <2> QED
    BY <2>1 DEF FileInv, LockHeld, Locked
<1>1. CASE EndupHalts \/ EndupReactivates \/ DoneHalts \/ DoneReleases
  <2>1. /\ UNCHANGED <<fd, disk, overlapped>>
        /\ phase' \notin {"opening", "dumping", "flushed"}
        /\ Closed' <=> Closed
        /\ ~allocated' => phase' = "released"
        /\ ~based' => ~allocated'
    BY <1>1 DEF EndupHalts, EndupReactivates, DoneHalts, DoneReleases, ResetPointers, file, Closed, FileInv,
                FileUsed
  <2>2. FileUsed'
    BY <1>0, <2>1 DEF FileInv, FileUsed
  <2>3. OpenedOnce'
    BY <1>0, <2>1 DEF FileInv, OpenedOnce, EndupInFlush, InFlush
  <2> QED
    BY <1>0, <2>2, <2>3 DEF FileInv
<1>2. CASE EndupTests
  <2>1. /\ phase = "halted" /\ phase' = IF fd = "unset" THEN "opening" ELSE "dumping"
        /\ overlapped' = (overlapped \/ \E t \in Threads : InFlush(t))
        /\ UNCHANGED <<fd, disk, allocated, based>>
    BY <1>2 DEF EndupTests
  <2>2. FileUsed'
    BY <1>0, <2>1 DEF FileInv, FileUsed, Closed
  <2>3. OpenedOnce'
    BY <1>0, <2>1 DEF FileInv, OpenedOnce, EndupInFlush, InFlush, Closed
  <2> QED
    BY <1>0, <2>2, <2>3 DEF FileInv
<1>3. CASE EndupOpens
  <2>1. /\ phase = "opening" /\ phase' = "dumping" /\ fd' = "open" /\ disk' = << >>
        /\ UNCHANGED <<overlapped, allocated, based>>
    BY <1>3 DEF EndupOpens, Opens
  <2>2. FileUsed'
    BY <1>0, <2>1 DEF FileInv, FileUsed
  <2>3. OpenedOnce'
    BY <1>0, <2>1 DEF FileInv, OpenedOnce, EndupInFlush, InFlush, Closed
  <2> QED
    BY <1>0, <2>2, <2>3 DEF FileInv
<1>4. CASE EndupDumps
  <2>1. /\ phase = "dumping" /\ phase' = "flushed"
        /\ UNCHANGED <<fd, overlapped, allocated, based>>
    BY <1>4 DEF EndupDumps
  <2>2. FileUsed'
    BY <1>0, <2>1 DEF FileInv, FileUsed, Closed
  <2>3. OpenedOnce'
    BY <1>0, <2>1 DEF FileInv, OpenedOnce, EndupInFlush, InFlush, Closed
  <2> QED
    BY <1>0, <2>2, <2>3 DEF FileInv
<1>5. CASE EndupCloses
  <2>1. /\ phase = "flushed" /\ phase' = "closed" /\ fd' = "closed"
        /\ UNCHANGED <<disk, overlapped, allocated, based>>
    BY <1>5 DEF EndupCloses
  <2>2. FileUsed'
    BY <1>0, <2>1 DEF FileInv, FileUsed, Closed
  <2>3. OpenedOnce'
    BY <1>0, <2>1 DEF FileInv, OpenedOnce, EndupInFlush, InFlush, Closed
  <2> QED
    BY <1>0, <2>2, <2>3 DEF FileInv
<1> QED
  BY <1>1, <1>2, <1>3, <1>4, <1>5 DEF Stop

LEMMA NextFileInv == IInv /\ FileInv /\ [Next]_vars => FileInv'
<1> SUFFICES ASSUME IInv, FileInv, [Next]_vars PROVE FileInv'
  OBVIOUS
<1>1. ASSUME NEW t \in Threads, Step(t) PROVE FileInv'
  BY <1>1, FlushFileInv, StepFileInv DEF Step
<1>2. CASE UNCHANGED vars
  <2>1. UNCHANGED <<fd, disk, overlapped, phase, allocated, based, pc, flushLock>>
    BY <1>2 DEF vars, file
  <2> QED
    BY <2>1 DEF FileInv, LockHeld, FileUsed, OpenedOnce, Locked, Closed, InFlush, EndupInFlush
<1> QED
  BY <1>1, <1>2, StopFileInv DEF Next, Terminated

-----------------------------------------------------------------------------
LEMMA CellsAreSequence ==
    ASSUME NEW n \in Nat, NEW S, NEW f \in [1 .. n -> S]
    PROVE  f \in Seq(S) /\ Len(f) = n
  OBVIOUS

LEMMA InitSInv == Init => SInv
<1> SUFFICES ASSUME Init PROVE SInv
  OBVIOUS
<1> USE DEF Init
<1>1. MemoryType
  <2>1. mem \in [1 .. Capacity -> Cell] /\ disk \in Seq(Blocks)
    BY SizesAssumption DEF Cell
  <2> QED
    BY <2>1 DEF MemoryType
<1>2. WritersHold /\ WritersInTime /\ StopCovers
  BY DEF WritersHold, WritersInTime, StopCovers
<1>3. FlushedOnDisk /\ CompletedSaved
  BY DEF FlushedOnDisk, CompletedSaved, Completed
<1> QED
  BY <1>1, <1>2, <1>3 DEF SInv

(* What CompletedSaved says, in the terms of this module.                   *)
LEMMA Saved ==
    ASSUME CompletedSaved, ~overlapped, NEW s \in Completed
    PROVE  OnDisk(s) \/ (~gone /\ InBuffer(s))
  BY DEF CompletedSaved, Completed, OnDisk, InBuffer

(* What is on the disk stays there.                                         *)
LEMMA StaysOnDisk ==
    ASSUME NEW s, OnDisk(s), late \subseteq late', Len(disk) \in Nat, Len(disk') \in Nat,
           Len(disk) <= Len(disk'), \A b \in 1 .. Len(disk) : disk'[b] = disk[b]
    PROVE  OnDisk(s)'
<1>1. PICK b \in 1 .. Len(disk) : disk[b].round = s.round /\ Holds(disk[b].cells, s)
  BY DEF OnDisk
<1>2. b \in 1 .. Len(disk') /\ disk'[b] = disk[b]
  BY <1>1
<1>3. Holds(disk[b].cells, s)'
  BY <1>1, <1>2 DEF Holds
<1> QED
  BY <1>1, <1>2, <1>3 DEF OnDisk

(* A block written to the open file keeps what was written before, and has  *)
(* the events of the buffer that end before p.                              *)
LEMMA BlockKeeps ==
    ASSUME IInv, SInv, NEW p \in Nat, disk' = Append(disk, Block(p)), late \subseteq late',
           UNCHANGED <<mem, round>>
    PROVE  /\ \A s : OnDisk(s) => OnDisk(s)'
           /\ \A s \in spans : InBuffer(s) /\ s.to <= p => OnDisk(s)'
<1>0. /\ disk \in Seq(Blocks) /\ mem \in [1 .. Capacity -> Cell]
      /\ round \in Nat /\ spans \subseteq Span /\ Capacity \in Nat
  BY SizesAssumption DEF IInv, BufferType, SInv, MemoryType
<1> DEFINE cells == [a \in 1 .. p |-> IF a <= Capacity THEN mem[a] ELSE Outside]
<1>1. cells \in Seq(Cell) /\ Len(cells) = p
  <2>1. cells \in [1 .. p -> Cell]
    BY <1>0 DEF Cell
  <2> QED
    BY <2>1, CellsAreSequence
<1>2. Block(p) \in Blocks /\ Block(p).round = round /\ Block(p).cells = cells
  BY <1>0, <1>1 DEF Block, Blocks
<1>3. \A a \in 1 .. p : a <= Capacity => cells[a] = mem[a]
  OBVIOUS
<1> HIDE DEF cells
<1>4. /\ Len(disk') = Len(disk) + 1 /\ Len(disk) \in Nat
      /\ \A b \in 1 .. Len(disk) : disk'[b] = disk[b]
      /\ disk'[Len(disk) + 1] = Block(p)
  BY <1>0, <1>2, AppendProperties, LenProperties
<1>5. ASSUME NEW s, OnDisk(s) PROVE OnDisk(s)'
  BY <1>4, <1>5, StaysOnDisk
<1>6. ASSUME NEW s \in spans, InBuffer(s), s.to <= p PROVE OnDisk(s)'
  <2>1. /\ s.round = round /\ s.from \in Nat /\ s.to \in Nat /\ s.to <= Capacity
        /\ \A a \in s.from + 1 .. s.to :
             mem[a] = <<s.ev[1], s.ev[2], a - s.from>> \/ <<mem[a][1], mem[a][2]>> \in late
    BY <1>0, <1>6 DEF InBuffer, Holds, Span, IInv, SpansBelow
  <2>2. ASSUME NEW a \in s.from + 1 .. s.to PROVE cells[a] = mem[a]
    <3>1. a \in 1 .. p /\ a <= Capacity
      BY <1>0, <1>6, <2>1
    <3> QED
      BY <1>3, <3>1
  <2>3. /\ disk'[Len(disk) + 1].round = s.round
        /\ disk'[Len(disk) + 1].cells = cells
        /\ Len(disk) + 1 \in 1 .. Len(disk')
    BY <1>2, <1>4, <2>1
  <2>4. /\ s.to <= Len(cells)
        /\ \A a \in s.from + 1 .. s.to :
             cells[a] = <<s.ev[1], s.ev[2], a - s.from>> \/ <<cells[a][1], cells[a][2]>> \in late'
    BY <1>1, <1>6, <2>1, <2>2
  <2>5. PICK b \in 1 .. Len(disk') : disk'[b].round = s.round /\ disk'[b].cells = cells
    BY <2>3
  <2>6. Holds(disk[b].cells, s)'
    BY <2>4, <2>5 DEF Holds
  <2> QED
    BY <2>5, <2>6 DEF OnDisk
<1> QED
  BY <1>5, <1>6

(* The file has blocks whatever two flushes at once make of it.             *)
LEMMA DiskType ==
    ASSUME IInv, SInv, NEW p \in Nat, Dumps(p)
    PROVE  disk' \in Seq(Blocks) /\ late' \in SUBSET (Threads \X Nat) /\ late \subseteq late'
<1>0. /\ disk \in Seq(Blocks) /\ late \subseteq Threads \X Nat /\ mem \in [1 .. Capacity -> Cell]
      /\ round \in Nat /\ spans \subseteq Span /\ Capacity \in Nat
  BY SizesAssumption DEF IInv, BufferType, SInv, MemoryType
<1>1. Block(p) \in Blocks
  <2> DEFINE cells == [a \in 1 .. p |-> IF a <= Capacity THEN mem[a] ELSE Outside]
  <2>1. cells \in [1 .. p -> Cell]
    BY <1>0 DEF Cell
  <2>2. cells \in Seq(Cell)
    BY <2>1, CellsAreSequence
  <2>3. Block(p) = [round |-> round, cells |-> cells]
    BY DEF Block
  <2> HIDE DEF cells
  <2> QED
    BY <1>0, <2>2, <2>3 DEF Blocks
<1>2. Append(disk, Block(p)) \in Seq(Blocks) /\ <<Block(p)>> \in Seq(Blocks)
  BY <1>0, <1>1, AppendProperties
<1>3. disk' \in {disk, Append(disk, Block(p)), <<Block(p)>>}
  BY DEF Dumps
<1>4. late' = late \/ late' = late \cup ({s.ev : s \in Current} \ recorded)
  BY DEF Dumps
<1>5. {s.ev : s \in Current} \subseteq Threads \X Nat
  BY <1>0 DEF Current, Span
<1> QED
  BY <1>0, <1>2, <1>3, <1>4, <1>5

(* What the invariant says of the buffer does not change, nor do the        *)
(* threads that write.  The process ends only when all is on the disk.      *)
LEMMA QuietStep ==
    ASSUME IInv, SInv, UNCHANGED <<work, mem, spans, recorded, late, round, allocated>>,
           disk' \in Seq(Blocks), stopSlot' \in Nat, gone' \in BOOLEAN,
           ~overlapped' => ~overlapped /\ disk' = disk,
           gone' => gone \/ ~Early,
           Early' <=> Early, StopCovers',
           \A t \in Threads : /\ ev'[t] \in Nat /\ ev[t] <= ev'[t]
                              /\ pc'[t] = "write" <=> pc[t] = "write"
                              /\ pc[t] = "write" => ev'[t] = ev[t] /\ slot'[t] = slot[t]
                              /\ Dumped(t)' => Dumped(t) \/ ~Early
    PROVE  SInv'
<1>1. MemoryType'
  BY DEF SInv, MemoryType
<1>2. WritersHold'
  <2>1. \A t \in Threads : pc'[t] = "write" => \E s \in spans : s.ev = Event(t)'
    BY DEF SInv, WritersHold, Event
  <2>2. ASSUME NEW s \in spans, NEW t \in Threads, s.ev[1] = t
        PROVE  \/ s.ev[2] < ev'[t]
               \/ /\ s.ev[2] = ev'[t] /\ pc'[t] = "write"
                  /\ s.from = slot'[t] /\ s.to = slot'[t] + Size(t)'
    <3>0. s.ev[2] \in Nat /\ ev[t] \in Nat
      BY DEF IInv, BufferType, Span
    <3>1. CASE s.ev[2] < ev[t]
      BY <3>0, <3>1
    <3>2. CASE ~(s.ev[2] < ev[t])
      BY <2>2, <3>2 DEF SInv, WritersHold, Size
    <3> QED
      BY <3>1, <3>2
  <2> QED
    BY <2>1, <2>2 DEF WritersHold
<1>3. WritersInTime'
  BY DEF SInv, WritersInTime
<1>4. ~overlapped' => \A s \in spans : (OnDisk(s) => OnDisk(s)') /\ (InBuffer(s) => InBuffer(s)')
  BY DEF OnDisk, InBuffer, Holds
<1>5. Completed' = Completed /\ Completed \subseteq spans
  BY DEF Completed
<1>6. FlushedOnDisk'
  <2> SUFFICES ASSUME ~overlapped', ~Early \/ \E u \in Threads : Dumped(u)',
                      NEW s \in Completed, s.round = round \/ ~Early
               PROVE  OnDisk(s)'
    BY <1>5 DEF FlushedOnDisk
  <2>1. ~Early \/ \E u \in Threads : Dumped(u)
    OBVIOUS
  <2> QED
    BY <1>4, <1>5, <2>1 DEF SInv, FlushedOnDisk
<1>7. CompletedSaved'
  <2>1. ASSUME ~overlapped', NEW s \in Completed'
        PROVE  OnDisk(s)' \/ (~gone' /\ InBuffer(s)')
    <3>1. s \in Completed /\ s \in spans /\ ~overlapped
      BY <1>5, <2>1
    <3>2. OnDisk(s) \/ (~gone /\ InBuffer(s))
      BY <3>1, Saved DEF SInv
    <3>3. ~Early => OnDisk(s)
      BY <3>1 DEF SInv, FlushedOnDisk
    <3> QED
      BY <1>4, <2>1, <3>1, <3>2, <3>3
  <2> QED
    BY <2>1 DEF CompletedSaved, Completed, OnDisk, InBuffer
<1> QED
  BY <1>1, <1>2, <1>3, <1>6, <1>7 DEF SInv

(* A thread is given a part of the buffer: its event is not yet recorded.   *)
LEMMA ReserveSInv ==
    ASSUME IInv, SInv, ~gone, NEW t \in Threads, Reserve(t)
    PROVE  SInv'
<1>0. /\ pc[t] = "reserve" /\ pc \in [Threads -> Labels] /\ slot \in [Threads -> Nat] /\ ev[t] \in Nat
      /\ spans \subseteq Span /\ nextSlot \in Nat /\ round \in Nat /\ Event(t) \in Threads \X Nat
      /\ Event(t) = <<t, ev[t]>> /\ Capacity \in Nat /\ Size(t) \in Nat
  BY SizeType, SizesAssumption DEF Reserve, IInv, BufferType, Event
<1>1. /\ slot' = [slot EXCEPT ![t] = nextSlot]
      /\ pc' = [pc EXCEPT ![t] = AfterReserve(nextSlot, Size(t))]
      /\ UNCHANGED <<work, mem, disk, allocated, phase, stopSlot, overlapped, gone, ev, round, recorded>>
      /\ late' = late \/ (late' = late \cup {Event(t)} /\ ~Recording)
  BY DEF Reserve, Goto, file
<1>2. CASE ~(nextSlot + Size(t) <= Capacity)
  <2>1. UNCHANGED <<spans, late>> /\ AfterReserve(nextSlot, Size(t)) \notin {"write", "seek", "reset"}
    BY <1>2 DEF Reserve, AfterReserve
  <2>2. (Early' <=> Early) /\ StopCovers'
    BY <1>1, <2>1 DEF Early, SInv, StopCovers, Current
  <2>3. \A u \in Threads : /\ ev'[u] \in Nat /\ ev[u] <= ev'[u]
                           /\ pc'[u] = "write" <=> pc[u] = "write"
                           /\ pc[u] = "write" => ev'[u] = ev[u] /\ slot'[u] = slot[u]
                           /\ Dumped(u)' => Dumped(u) \/ ~Early
    BY <1>0, <1>1, <2>1 DEF IInv, BufferType, Dumped
  <2>4. disk' \in Seq(Blocks) /\ stopSlot' \in Nat /\ gone' \in BOOLEAN
    BY <1>1 DEF SInv, MemoryType
  <2> QED
    BY <1>1, <2>1, <2>2, <2>3, <2>4, QuietStep
<1>3. CASE nextSlot + Size(t) <= Capacity
  <2>1. /\ spans' = spans \cup {SpanOf(t)} /\ AfterReserve(nextSlot, Size(t)) = "write"
        /\ late' = IF Recording THEN late ELSE late \cup {Event(t)}
    BY <1>3 DEF Reserve, AfterReserve
  <2>2. /\ SpanOf(t).ev = Event(t) /\ SpanOf(t).round = round
        /\ SpanOf(t).from = nextSlot /\ SpanOf(t).to = nextSlot + Size(t)
    BY DEF SpanOf
  <2>3. Event(t) \notin recorded
    BY <1>0 DEF IInv, SeenRecorded
  <2>4. \A u \in Threads \ {t} : pc'[u] = pc[u] /\ slot'[u] = slot[u]
    BY <1>0, <1>1
  <2>5. pc'[t] = "write" /\ slot'[t] = nextSlot
    BY <1>0, <1>1, <2>1
  <2>6. late \subseteq late' /\ late' \in SUBSET (Threads \X Nat)
    BY <1>0, <2>1 DEF SInv, MemoryType
  <2>7. MemoryType'
    BY <1>1, <2>6 DEF SInv, MemoryType
  <2>8. WritersHold'
    <3>1. ASSUME NEW u \in Threads, pc'[u] = "write" PROVE \E s \in spans' : s.ev = Event(u)'
      <4>1. Event(u)' = Event(u)
        BY <1>1 DEF Event
      <4> QED
        BY <2>1, <2>2, <2>4, <3>1, <4>1 DEF SInv, WritersHold
    <3>2. ASSUME NEW s \in spans', NEW u \in Threads, s.ev[1] = u
          PROVE  \/ s.ev[2] < ev'[u]
                 \/ /\ s.ev[2] = ev'[u] /\ pc'[u] = "write"
                    /\ s.from = slot'[u] /\ s.to = slot'[u] + Size(u)'
      <4>0. Size(u)' = Size(u) /\ ev'[u] = ev[u]
        BY <1>1 DEF Size
      <4>1. CASE s = SpanOf(t)
        BY <1>0, <2>2, <2>5, <3>2, <4>0, <4>1
      <4>2. CASE s \in spans /\ u = t
        BY <1>0, <3>2, <4>0, <4>2 DEF SInv, WritersHold
      <4>3. CASE s \in spans /\ u # t
        BY <2>4, <3>2, <4>0, <4>3 DEF SInv, WritersHold
      <4> QED
        BY <2>1, <4>1, <4>2, <4>3
    <3> QED
      BY <3>1, <3>2 DEF WritersHold
  <2>9. WritersInTime'
    <3> SUFFICES ASSUME NEW s \in spans', s.ev \notin recorded \cup late'
                 PROVE  Early /\ s.round = round /\ \A u \in Threads : ~Dumped(u)'
      BY <1>1 DEF WritersInTime, Early
    <3>1. CASE s = SpanOf(t)
      <4>1. Early /\ s.round = round
        BY <2>1, <2>2, <3>1 DEF Recording, Early
      <4>2. Open
        BY <4>1 DEF Early, Open
      <4>3. ASSUME NEW u \in Threads, Dumped(u)' PROVE FALSE
        <5>1. pc[u] \in {"seek", "reset"}
          BY <2>4, <2>5, <4>3 DEF Dumped
        <5>2. Pending(u) /\ slot[u] <= Capacity
          BY <5>1 DEF Pending, Flushing, IInv, FlushingCrosses
        <5>3. nextSlot > Capacity
          BY <4>2, <5>2 DEF IInv, CrossingHeld
        <5> QED
          BY <1>0, <1>3, <5>3
      <4> QED
        BY <4>1, <4>3
    <3>2. CASE s \in spans
      BY <2>4, <2>5, <2>6, <3>2 DEF SInv, WritersInTime, Dumped
    <3> QED
      BY <2>1, <3>1, <3>2
  <2>10. Completed' \subseteq Completed
    BY <1>1, <2>1, <2>2, <2>3, <2>6 DEF Completed
  <2>11. /\ \A s : OnDisk(s) => OnDisk(s)'
         /\ \A s : InBuffer(s) => InBuffer(s)'
    BY <1>1, <2>6 DEF OnDisk, InBuffer, Holds
  <2>12. FlushedOnDisk'
    BY <1>1, <2>4, <2>5, <2>10, <2>11 DEF SInv, FlushedOnDisk, Early, Dumped
  <2>13. CompletedSaved'
    <3>1. ~overlapped => \A s \in Completed : OnDisk(s) \/ InBuffer(s)
      BY Saved DEF SInv
    <3>2. ~overlapped => \A s \in Completed' : OnDisk(s)' \/ InBuffer(s)'
      BY <2>10, <2>11, <3>1
    <3> QED
      BY <1>1, <3>2 DEF CompletedSaved, Completed, OnDisk, InBuffer
  <2>14. StopCovers'
    <3> SUFFICES ASSUME phase \in {"opening", "dumping"}, NEW s \in Current', s.ev \notin late'
                 PROVE  s.to <= stopSlot
      BY <1>1 DEF StopCovers
    <3>1. late' = late \cup {Event(t)}
      BY <2>1 DEF Recording
    <3>2. s \in Current /\ s.ev \notin late
      BY <1>1, <2>1, <2>2, <3>1 DEF Current
    <3> QED
      BY <3>2 DEF SInv, StopCovers
  <2> QED
    BY <2>7, <2>8, <2>9, <2>12, <2>13, <2>14 DEF SInv
<1> QED
  BY <1>2, <1>3

(* An event is written where it was given a part of the buffer, which no    *)
(* other event of the round has; a late event makes those it covers late.   *)
LEMMA WriteSInv ==
    ASSUME IInv, FileInv, SInv, ~gone, NEW t \in Threads, Write(t)
    PROVE  SInv'
<1>0. /\ pc[t] = "write" /\ ev[t] \in Nat \ {0} /\ slot[t] \in Nat /\ Size(t) \in Nat
      /\ spans \subseteq Span /\ Capacity \in Nat /\ round \in Nat
      /\ Event(t) = <<t, ev[t]>> /\ Event(t) \in Threads \X Nat
      /\ mem \in [1 .. Capacity -> Cell] /\ Len(mem) = Capacity
  BY SizeType, SizesAssumption, CellsAreSequence DEF Write, IInv, BufferType, Event, SInv, MemoryType
<1>1. /\ recorded' = recorded \cup {Event(t)}
      /\ UNCHANGED <<work, disk, allocated, phase, stopSlot, overlapped, round, spans, late>>
      /\ pc'[t] = "idle" /\ ev'[t] = ev[t] + 1
      /\ \A u \in Threads \ {t} : pc'[u] = pc[u] /\ slot'[u] = slot[u] /\ ev'[u] = ev[u]
      /\ gone' \in BOOLEAN /\ (gone' => ~allocated)
  BY <1>0 DEF Write, NextEvent, Goto, IInv, BufferType, file
<1>2. /\ mem' \in [1 .. Capacity -> Cell] /\ Len(mem') = Capacity
      /\ allocated => \A c \in 1 .. Capacity :
            mem'[c] = IF c \in slot[t] + 1 .. slot[t] + Size(t) THEN <<t, ev[t], c - slot[t]>> ELSE mem[c]
      /\ ~allocated => mem' = mem
  <2>1. CASE allocated
    <3>1. mem' = [c \in 1 .. Capacity |->
                    IF c \in slot[t] + 1 .. slot[t] + Size(t) THEN <<t, ev[t], c - slot[t]>> ELSE mem[c]]
      BY <2>1 DEF Write
    <3>2. \A c \in slot[t] + 1 .. slot[t] + Size(t) : <<t, ev[t], c - slot[t]>> \in Cell
      BY <1>0 DEF Cell
    <3>3. mem' \in [1 .. Capacity -> Cell]
      BY <1>0, <3>1, <3>2
    <3> QED
      BY <1>0, <2>1, <3>1, <3>3, CellsAreSequence
  <2>2. CASE ~allocated
    BY <1>0, <2>2 DEF Write
  <2> QED
    BY <2>1, <2>2
<1>3. MemoryType'
  BY <1>1, <1>2 DEF SInv, MemoryType
<1>4. WritersHold'
  <2>1. ASSUME NEW u \in Threads, pc'[u] = "write" PROVE \E s \in spans' : s.ev = Event(u)'
    <3>1. u # t /\ pc[u] = "write" /\ Event(u)' = Event(u)
      BY <1>1, <2>1 DEF Event
    <3> QED
      BY <1>1, <3>1 DEF SInv, WritersHold
  <2>2. ASSUME NEW s \in spans', NEW u \in Threads, s.ev[1] = u
        PROVE  \/ s.ev[2] < ev'[u]
               \/ /\ s.ev[2] = ev'[u] /\ pc'[u] = "write"
                  /\ s.from = slot'[u] /\ s.to = slot'[u] + Size(u)'
    <3>0. s.ev[2] \in Nat /\ s \in spans
      BY <1>0, <1>1 DEF Span
    <3>1. CASE u = t
      BY <1>0, <1>1, <2>2, <3>0, <3>1 DEF SInv, WritersHold
    <3>2. CASE u # t
      BY <1>1, <2>2, <3>0, <3>2 DEF SInv, WritersHold, Size
    <3> QED
      BY <3>1, <3>2
  <2> QED
    BY <2>1, <2>2 DEF WritersHold
<1>5. WritersInTime' /\ StopCovers'
  BY <1>1 DEF SInv, WritersInTime, StopCovers, Early, Dumped, Current
<1>50. ~allocated => ~Early
  BY DEF FileInv, FileUsed, Early
<1>6. ASSUME NEW s \in Completed', s.ev = Event(t)
      PROVE  Early /\ InBuffer(s)' /\ \A u \in Threads : ~Dumped(u)
  <2>0. Event(t) \notin recorded
    BY <1>0 DEF IInv, SeenRecorded
  <2>1. s \in spans /\ s.ev \notin late /\ s.ev \notin recorded
    BY <1>1, <1>6, <2>0 DEF Completed
  <2>2. Early /\ s.round = round /\ \A u \in Threads : ~Dumped(u)
    BY <2>1 DEF SInv, WritersInTime
  <2>3. s.from = slot[t] /\ s.to = slot[t] + Size(t) /\ s.to <= Capacity
    BY <1>0, <1>6, <2>1 DEF SInv, WritersHold, IInv, SpansBelow
  <2>4. allocated
    BY <2>2, <1>50
  <2>5. \A a \in s.from + 1 .. s.to : mem'[a] = <<s.ev[1], s.ev[2], a - s.from>>
    <3>1. ASSUME NEW a \in s.from + 1 .. s.to PROVE mem'[a] = <<t, ev[t], a - slot[t]>>
      <4>1. a \in 1 .. Capacity /\ a \in slot[t] + 1 .. slot[t] + Size(t)
        BY <1>0, <2>3
      <4> QED
        BY <1>2, <2>4, <4>1
    <3> QED
      BY <1>0, <1>6, <2>3, <3>1
  <2>6. Holds(mem, s)'
    BY <1>2, <2>3, <2>5 DEF Holds
  <2> QED
    BY <1>1, <2>2, <2>4, <2>6 DEF InBuffer
<1>7. ASSUME NEW s \in Completed', s.ev # Event(t)
      PROVE  s \in Completed
  BY <1>1, <1>7 DEF Completed
<1>8. ASSUME NEW s \in Completed, InBuffer(s)
      PROVE  OnDisk(s) \/ InBuffer(s)'
  <2>1. /\ s \in spans /\ s.round = round /\ allocated
        /\ s.from \in Nat /\ s.to \in Nat /\ s.to <= Capacity
        /\ \A a \in s.from + 1 .. s.to :
             mem[a] = <<s.ev[1], s.ev[2], a - s.from>> \/ <<mem[a][1], mem[a][2]>> \in late
    BY <1>0, <1>8 DEF Completed, InBuffer, Holds, Span, IInv, SpansBelow
  <2>2. CASE Event(t) \in late
    <3>1. \A a \in s.from + 1 .. s.to : a \in 1 .. Capacity
      BY <2>1, <1>0
    <3>2. \A a \in s.from + 1 .. s.to :
             mem'[a] = <<s.ev[1], s.ev[2], a - s.from>> \/ <<mem'[a][1], mem'[a][2]>> \in late
      <4> TAKE a \in s.from + 1 .. s.to
      <4>1. CASE mem'[a] = mem[a]
        BY <2>1, <4>1
      <4>2. CASE mem'[a] = <<t, ev[t], a - slot[t]>>
        BY <1>0, <2>2, <4>2
      <4> QED
        BY <1>2, <2>1, <3>1, <4>1, <4>2
    <3>3. Holds(mem, s)'
      BY <1>1, <1>2, <2>1, <3>2 DEF Holds
    <3> QED
      BY <1>1, <2>1, <3>3 DEF InBuffer
  <2>3. CASE Event(t) \notin late
    <3>1. PICK r \in spans : r.ev = Event(t)
      BY <1>0 DEF SInv, WritersHold
    <3>2. r.from = slot[t] /\ r.to = slot[t] + Size(t)
      BY <1>0, <3>1 DEF SInv, WritersHold
    <3>3. Early /\ r.round = round
      <4>1. r.ev \notin recorded
        BY <1>0, <3>1 DEF IInv, SeenRecorded
      <4> QED
        BY <2>3, <3>1, <4>1 DEF SInv, WritersInTime
    <3>4. r # s
      BY <1>0, <1>8, <3>1 DEF Completed, IInv, SeenRecorded
    <3>5. s.to <= r.from \/ r.to <= s.from
      BY <2>1, <3>3, <3>4 DEF Early, Open, IInv, SlotsDisjoint
    <3>6. \A a \in s.from + 1 .. s.to : a \in 1 .. Capacity /\ a \notin slot[t] + 1 .. slot[t] + Size(t)
      BY <1>0, <2>1, <3>2, <3>5
    <3>7. \A a \in s.from + 1 .. s.to : mem'[a] = mem[a]
      BY <1>2, <2>1, <3>6
    <3>8. Holds(mem, s)'
      BY <1>1, <1>2, <2>1, <3>7 DEF Holds
    <3> QED
      BY <1>1, <2>1, <3>8 DEF InBuffer
  <2> QED
    BY <2>2, <2>3
<1>9. \A s : OnDisk(s) => OnDisk(s)'
  BY <1>1 DEF OnDisk, Holds
<1>10. FlushedOnDisk'
  <2> SUFFICES ASSUME ~overlapped, ~Early \/ \E u \in Threads : Dumped(u)',
                      NEW s \in Completed', s.round = round \/ ~Early
               PROVE  OnDisk(s)'
    BY <1>1 DEF FlushedOnDisk, Early
  <2>1. ~Early \/ \E u \in Threads : Dumped(u)
    BY <1>1 DEF Dumped
  <2>2. s \in Completed
    BY <1>6, <1>7, <2>1
  <2> QED
    BY <1>9, <2>1, <2>2 DEF SInv, FlushedOnDisk
<1>11. CompletedSaved'
  <2> SUFFICES ASSUME ~overlapped, NEW s \in Completed'
               PROVE  OnDisk(s)' \/ (~gone' /\ InBuffer(s)')
    BY <1>1 DEF CompletedSaved, Completed, OnDisk, InBuffer
  <2>1. CASE s.ev = Event(t)
    BY <1>1, <1>6, <1>50, <2>1
  <2>2. CASE s.ev # Event(t)
    <3>1. s \in Completed /\ (OnDisk(s) \/ InBuffer(s))
      BY <1>7, <2>2, Saved DEF SInv
    <3>2. gone' => OnDisk(s)
      BY <1>1, <1>50, <3>1 DEF SInv, FlushedOnDisk
    <3> QED
      BY <1>8, <1>9, <3>1, <3>2
  <2> QED
    BY <2>1, <2>2
<1> QED
  BY <1>3, <1>4, <1>5, <1>10, <1>11 DEF SInv

(* The buffer is written out up to p, which no part that was given crosses  *)
(* while the file is open.                                                  *)
LEMMA DumpsSInv ==
    ASSUME IInv, FileInv, SInv, ~gone, NEW p \in Nat, Dumps(p),
           fd = "closed" => ~Early,
           ~overlapped /\ fd # "closed" => Early /\ \A s \in Current : s.ev \notin late => s.to <= p,
           UNCHANGED <<work, mem, allocated, ev, slot, round, spans, recorded, overlapped, stopSlot, gone>>,
           phase' \in {"opening", "dumping"} => phase' = phase,
           ~Early => ~Early',
           \A t \in Threads : pc'[t] = "write" <=> pc[t] = "write"
    PROVE  SInv'
<1>1. disk' \in Seq(Blocks) /\ late' \in SUBSET (Threads \X Nat) /\ late \subseteq late'
  BY DiskType
<1>2. MemoryType'
  BY <1>1 DEF SInv, MemoryType
<1>3. WritersHold'
  BY DEF SInv, WritersHold, Event, Size
<1>4. \A s \in spans : s.ev \in recorded \cup late'
  <2> SUFFICES ASSUME NEW s \in spans, s.ev \notin recorded \cup late' PROVE FALSE
    OBVIOUS
  <2>1. Early /\ s.round = round
    BY <1>1 DEF SInv, WritersInTime
  <2>2. late' = late \cup ({r.ev : r \in Current} \ recorded)
    BY <2>1 DEF Dumps
  <2> QED
    BY <2>1, <2>2 DEF Current
<1>5. WritersInTime'
  BY <1>4 DEF WritersInTime
<1>6. StopCovers'
  BY <1>1 DEF SInv, StopCovers, Current
<1>7. Completed' \subseteq Completed /\ Completed' \subseteq spans
  BY <1>1 DEF Completed
<1>8. ASSUME ~overlapped, NEW s \in Completed'
      PROVE  /\ OnDisk(s)' \/ InBuffer(s)'
             /\ (s.round = round \/ ~Early \/ ~Early') => OnDisk(s)'
  <2>0. s \in Completed /\ s \in spans
    BY <1>7, <1>8
  <2>1. OnDisk(s) \/ InBuffer(s)
    BY <1>8, <2>0, Saved DEF SInv
  <2>2. InBuffer(s) => InBuffer(s)' /\ s.round = round
    BY <1>1 DEF InBuffer, Holds
  <2>3. CASE fd = "closed"
    <3>1. disk' = disk
      BY <2>3 DEF Dumps
    <3>2. OnDisk(s)
      BY <1>8, <2>0, <2>3 DEF SInv, FlushedOnDisk
    <3>3. OnDisk(s)'
      BY <1>1, <3>1, <3>2 DEF OnDisk, Holds
    <3> QED
      BY <3>3
  <2>4. CASE fd # "closed"
    <3>1. disk' = Append(disk, Block(p))
      BY <1>8, <2>4 DEF Dumps
    <3>2. OnDisk(s) => OnDisk(s)'
      BY <1>1, <3>1, BlockKeeps
    <3>3. InBuffer(s) => OnDisk(s)'
      <4>1. s.ev \notin late
        BY <2>0 DEF Completed
      <4>2. InBuffer(s) => s.to <= p
        BY <1>8, <2>0, <2>4, <4>1 DEF InBuffer, Current
      <4> QED
        BY <1>1, <2>0, <3>1, <4>2, BlockKeeps
    <3> QED
      BY <2>1, <3>2, <3>3
  <2> QED
    BY <2>3, <2>4
<1>9. FlushedOnDisk'
  BY <1>8 DEF FlushedOnDisk
<1>10. CompletedSaved'
  BY <1>8 DEF CompletedSaved, Completed, OnDisk, InBuffer
<1> QED
  BY <1>2, <1>3, <1>5, <1>6, <1>9, <1>10 DEF SInv

(* A new round, or the end of the buffer, when all that was recorded is on  *)
(* the disk.                                                                *)
LEMMA AllOnDiskSInv ==
    ASSUME IInv, SInv, ~overlapped => \A s \in Completed : OnDisk(s),
           \A s \in spans : s.ev \in recorded \cup late,
           UNCHANGED <<work, mem, disk, late, ev, slot, spans, recorded, overlapped, stopSlot, gone>>,
           StopCovers',
           \A t \in Threads : pc'[t] = "write" <=> pc[t] = "write"
    PROVE  SInv'
<1>1. MemoryType'
  BY DEF SInv, MemoryType
<1>2. WritersHold'
  BY DEF SInv, WritersHold, Event, Size
<1>3. WritersInTime'
  BY DEF WritersInTime
<1>4. ~overlapped => \A s \in Completed' : OnDisk(s)'
  <2>1. \A s \in Completed' : s \in Completed
    BY DEF Completed
  <2>2. \A s : OnDisk(s) => OnDisk(s)'
    BY DEF OnDisk, Holds
  <2> QED
    BY <2>1, <2>2
<1>5. FlushedOnDisk'
  BY <1>4 DEF FlushedOnDisk
<1>6. CompletedSaved'
  BY <1>4 DEF CompletedSaved, Completed, OnDisk
<1> QED
  BY <1>1, <1>2, <1>3, <1>5, <1>6 DEF SInv

(* The thread that has flushed opens a new round.                           *)
LEMMA ResetSInv ==
    ASSUME IInv, SInv, NEW t \in Threads, Reset(t)
    PROVE  SInv'
<1>0. round \in Nat /\ spans \subseteq Span
  BY DEF IInv, BufferType
<1>1. /\ Dumped(t) /\ pc[t] = "reset" /\ pc' = [pc EXCEPT ![t] = "unlock"] /\ round' = round + 1
      /\ UNCHANGED <<work, mem, disk, late, ev, slot, spans, recorded, overlapped, stopSlot, gone, phase>>
  BY DEF Reset, ResetPointers, Goto, Dumped, file
<1>2. ~overlapped => \A s \in Completed : OnDisk(s)
  <2> SUFFICES ASSUME ~overlapped, NEW s \in Completed PROVE OnDisk(s)
    OBVIOUS
  <2>1. CASE s.round = round
    BY <1>1, <2>1 DEF SInv, FlushedOnDisk
  <2>2. CASE s.round # round
    BY <2>2, Saved DEF SInv, InBuffer
  <2> QED
    BY <2>1, <2>2
<1>3. \A s \in spans : s.ev \in recorded \cup late
  BY <1>1 DEF SInv, WritersInTime
<1>4. StopCovers'
  <2>1. \A s \in spans : s.round # round'
    BY <1>0, <1>1 DEF IInv, SpansBelow, Span
  <2> QED
    BY <1>1, <2>1 DEF StopCovers, Current
<1>5. \A u \in Threads : pc'[u] = "write" <=> pc[u] = "write"
  BY <1>1 DEF IInv, BufferType
<1> QED
  BY <1>1, <1>2, <1>3, <1>4, <1>5, AllOnDiskSInv

(* eztrace_stop.                                                            *)
LEMMA StopSInv ==
    ASSUME IInv, FileInv, SInv, Stop
    PROVE  SInv'
<1>0. /\ \A t \in Threads : ev[t] \in Nat
      /\ nextSlot \in Nat /\ ~gone
      /\ disk \in Seq(Blocks) /\ stopSlot \in Nat /\ gone \in BOOLEAN
  BY DEF IInv, BufferType, SInv, MemoryType, Stop
<1>1. CASE EndupHalts \/ EndupTests \/ EndupOpens \/ EndupCloses \/ DoneHalts
  <2>1. /\ UNCHANGED <<work, mem, spans, recorded, late, round, allocated, pc, ev, slot, gone>>
        /\ Early' <=> Early
    BY <1>1 DEF EndupHalts, EndupTests, EndupOpens, EndupCloses, DoneHalts, history, file, Early
  <2>2. disk' \in Seq(Blocks) /\ (~overlapped' => ~overlapped /\ disk' = disk)
    <3>1. CASE EndupOpens
      <4>1. phase = "opening" /\ disk' = << >> /\ overlapped' = overlapped
        BY <3>1 DEF EndupOpens, Opens
      <4>2. ~overlapped => disk = << >>
        BY <4>1 DEF FileInv, FileUsed, OpenedOnce
      <4> QED
        BY <4>1, <4>2
    <3>2. CASE ~EndupOpens
      <4>1. CASE EndupTests
        <5>1. disk' = disk /\ overlapped' = (overlapped \/ \E t \in Threads : InFlush(t))
          BY <4>1 DEF EndupTests
        <5> QED
          BY <1>0, <5>1
      <4>2. CASE ~EndupTests
        <5>1. disk' = disk /\ overlapped' = overlapped
          BY <1>1, <3>2, <4>2 DEF EndupHalts, EndupCloses, DoneHalts, file
        <5> QED
          BY <1>0, <5>1
      <4> QED
        BY <4>1, <4>2
    <3> QED
      BY <3>1, <3>2
  <2>3. stopSlot' \in Nat /\ StopCovers'
    <3>1. CASE EndupTests
      <4>1. stopSlot' = nextSlot /\ Open
        BY <3>1 DEF EndupTests, Open
      <4>2. \A s \in Current : s.to <= nextSlot
        BY <4>1 DEF IInv, SpansBelow, Current
      <4> QED
        BY <1>0, <2>1, <4>1, <4>2 DEF StopCovers, Current
    <3>2. CASE ~EndupTests
      <4>1. stopSlot' = stopSlot
        BY <1>1, <3>2 DEF EndupHalts, EndupOpens, EndupCloses, DoneHalts
      <4>2. phase' \in {"opening", "dumping"} => phase \in {"opening", "dumping"}
        BY <1>1, <3>2 DEF EndupHalts, EndupOpens, EndupCloses, DoneHalts
      <4> QED
        BY <1>0, <2>1, <4>1, <4>2 DEF SInv, StopCovers, Current
    <3> QED
      BY <3>1, <3>2
  <2>4. \A u \in Threads : /\ ev'[u] \in Nat /\ ev[u] <= ev'[u]
                           /\ pc'[u] = "write" <=> pc[u] = "write"
                           /\ pc[u] = "write" => ev'[u] = ev[u] /\ slot'[u] = slot[u]
                           /\ Dumped(u)' => Dumped(u) \/ ~Early
    BY <1>0, <2>1 DEF Dumped
  <2>5. gone' \in BOOLEAN /\ (gone' => gone \/ ~Early)
    BY <1>0, <2>1
  <2> QED
    BY <2>1, <2>2, <2>3, <2>4, <2>5, QuietStep
<1>2. CASE EndupDumps
  <2>1. /\ Dumps(stopSlot) /\ phase = "dumping" /\ phase' = "flushed"
        /\ UNCHANGED <<work, mem, allocated, pc, ev, slot, round, spans, recorded, overlapped, stopSlot,
                       gone>>
    BY <1>2 DEF EndupDumps
  <2>2. Early /\ fd # "closed" /\ \A s \in Current : s.ev \notin late => s.to <= stopSlot
    BY <2>1 DEF Early, FileInv, FileUsed, Closed, SInv, StopCovers
  <2>3. phase' \notin {"opening", "dumping"}
    BY <2>1
  <2> QED
    BY <1>0, <2>1, <2>2, <2>3, DumpsSInv
<1>3. CASE EndupReactivates \/ DoneReleases
  <2>1. /\ ~Early /\ StopCovers'
        /\ UNCHANGED <<work, mem, disk, late, ev, slot, spans, recorded, overlapped, stopSlot, gone, pc>>
    BY <1>3 DEF EndupReactivates, DoneReleases, history, file, Early, StopCovers
  <2>2. /\ ~overlapped => \A s \in Completed : OnDisk(s)
        /\ \A s \in spans : s.ev \in recorded \cup late
    BY <2>1 DEF SInv, FlushedOnDisk, WritersInTime
  <2> QED
    BY <2>1, <2>2, AllOnDiskSInv
<1> QED
  BY <1>1, <1>2, <1>3 DEF Stop

(* The steps of a thread that neither record nor write out.                 *)
LEMMA QuietThread ==
    ASSUME IInv, FileInv, SInv, ~gone, NEW t \in Threads,
           Probe(t) \/ Deactivate(t) \/ Restore(t) \/ LockFlush(t) \/ UnlockFlush(t) \/ FlushTests(t)
             \/ FlushOpens(t) \/ FlushSeeks(t) \/ ReservesAtNull(t)
    PROVE  SInv'
<1>0. /\ \A u \in Threads : ev[u] \in Nat
      /\ disk \in Seq(Blocks) /\ stopSlot \in Nat /\ gone \in BOOLEAN
      /\ pc \in [Threads -> Labels]
  BY DEF IInv, BufferType, SInv, MemoryType
<1>a. (~allocated => ~Early) /\ (~based => ~Early) /\ (fd = "closed" => ~Early)
  BY DEF FileInv, FileUsed, Early, Closed
<1>1. /\ UNCHANGED <<work, mem, spans, recorded, late, round, allocated, phase, stopSlot>>
      /\ pc[t] # "write" /\ pc'[t] # "write"
      /\ Dumped(t)' => Dumped(t) \/ ~Early
      /\ ev'[t] \in {ev[t], ev[t] + 1}
      /\ \A u \in Threads \ {t} : pc'[u] = pc[u] /\ slot'[u] = slot[u] /\ ev'[u] = ev[u]
  <2>1. CASE Probe(t)
    BY <2>1 DEF Probe, NextEvent, Goto, IInv, BufferType, Dumped
  <2>2. CASE Deactivate(t)
    BY <2>2 DEF Deactivate, history, Goto, IInv, BufferType, Dumped
  <2>3. CASE Restore(t)
    BY <2>3 DEF Restore, NextEvent, Goto, IInv, BufferType, Dumped
  <2>4. CASE LockFlush(t) \/ UnlockFlush(t)
    BY <2>4 DEF LockFlush, UnlockFlush, history, Goto, IInv, BufferType, Dumped
  <2>5. CASE FlushTests(t)
    BY <1>0, <1>a, <2>5 DEF FlushTests, history, Goto, Dumped
  <2>6. CASE FlushOpens(t)
    BY <2>6 DEF FlushOpens, history, Goto, IInv, BufferType, Dumped
  <2>7. CASE FlushSeeks(t)
    BY <1>0, <2>7 DEF FlushSeeks, history, Goto, Dumped
  <2>8. CASE ReservesAtNull(t)
    BY <2>8 DEF ReservesAtNull, history, IInv, BufferType, Dumped
  <2> QED
    BY <2>1, <2>2, <2>3, <2>4, <2>5, <2>6, <2>7, <2>8
<1>2. disk' \in Seq(Blocks) /\ (~overlapped' => ~overlapped /\ disk' = disk)
  <2>1. CASE FlushOpens(t)
    <3>1. pc[t] = "open" /\ disk' = << >> /\ overlapped' = overlapped
      BY <2>1 DEF FlushOpens, Opens
    <3>2. ~overlapped => disk = << >>
      BY <3>1 DEF FileInv, FileUsed, OpenedOnce
    <3> QED
      BY <3>1, <3>2
  <2>2. CASE ~FlushOpens(t)
    <3>1. CASE FlushTests(t)
      <4>1. CASE allocated
        <5>1. disk' = disk /\ overlapped' = (overlapped \/ EndupInFlush)
          BY <3>1, <4>1 DEF FlushTests
        <5> QED
          BY <1>0, <5>1
      <4>2. CASE ~allocated
        <5>1. disk' = disk /\ overlapped' = overlapped
          BY <3>1, <4>2 DEF FlushTests
        <5> QED
          BY <1>0, <5>1
      <4> QED
        BY <4>1, <4>2
    <3>2. CASE ~FlushTests(t)
      <4>1. disk' = disk /\ overlapped' = overlapped
        BY <2>2, <3>2 DEF Probe, Deactivate, Restore, LockFlush, UnlockFlush, FlushSeeks, ReservesAtNull,
                          file
      <4> QED
        BY <1>0, <4>1
    <3> QED
      BY <3>1, <3>2
  <2> QED
    BY <2>1, <2>2
<1>3. gone' \in BOOLEAN /\ (gone' => gone \/ ~Early)
  <2>1. CASE FlushSeeks(t)
    <3>1. CASE gone' = gone
      BY <1>0, <3>1
    <3>2. CASE fd = "closed" /\ gone' = TRUE
      BY <1>a, <3>2
    <3> QED
      BY <2>1, <3>1, <3>2 DEF FlushSeeks
  <2>2. CASE ReservesAtNull(t)
    BY <1>a, <2>2 DEF ReservesAtNull
  <2>3. CASE ~FlushSeeks(t) /\ ~ReservesAtNull(t)
    <3>1. gone' = gone
      BY <2>3 DEF Probe, Deactivate, Restore, LockFlush, UnlockFlush, FlushTests, FlushOpens
    <3> QED
      BY <1>0, <3>1
  <2> QED
    BY <2>1, <2>2, <2>3
<1>4. (Early' <=> Early) /\ StopCovers' /\ stopSlot' \in Nat
  BY <1>0, <1>1 DEF Early, SInv, StopCovers, Current
<1>5. \A u \in Threads : /\ ev'[u] \in Nat /\ ev[u] <= ev'[u]
                         /\ pc'[u] = "write" <=> pc[u] = "write"
                         /\ pc[u] = "write" => ev'[u] = ev[u] /\ slot'[u] = slot[u]
                         /\ Dumped(u)' => Dumped(u) \/ ~Early
  BY <1>0, <1>1 DEF Dumped
<1> QED
  BY <1>1, <1>2, <1>3, <1>4, <1>5, QuietStep

(* A thread writes the buffer out.  It meets an open file only before       *)
(* fut_endup begins its own flush, and then writes all of the round.        *)
LEMMA FlushDumpsSInv ==
    ASSUME IInv, FileInv, SInv, ~gone, NEW t \in Threads, FlushDumps(t)
    PROVE  SInv'
<1>1. /\ Dumps(slot[t]) /\ pc[t] = "dump" /\ pc' = [pc EXCEPT ![t] = "seek"]
      /\ UNCHANGED <<work, mem, allocated, phase, ev, slot, round, spans, recorded, overlapped, stopSlot,
                     gone>>
  BY DEF FlushDumps, Goto
<1>2. slot[t] \in Nat /\ phase \in Phases
  BY DEF IInv, BufferType
<1>3. fd = "closed" => ~Early
  BY DEF FileInv, FileUsed, Early, Closed
<1>4. ~overlapped /\ fd # "closed" => phase \in {"on", "halted"}
  BY <1>1, <1>2 DEF FileInv, OpenedOnce, InFlush, EndupInFlush, Closed, Phases
<1>5. ~overlapped /\ fd # "closed" => Early /\ \A s \in Current : s.to <= slot[t]
  BY <1>1, <1>4 DEF IInv, CrossingHeld, FlushingCrosses, Flushing, Pending, Open, Early
<1>6. /\ phase' \in {"opening", "dumping"} => phase' = phase
      /\ ~Early => ~Early'
  BY <1>1 DEF Early
<1>7. \A u \in Threads : pc'[u] = "write" <=> pc[u] = "write"
  BY <1>1 DEF IInv, BufferType
<1> QED
  BY <1>1, <1>2, <1>3, <1>5, <1>6, <1>7, DumpsSInv

LEMMA NextSInv == IInv /\ FileInv /\ SInv /\ [Next]_vars => SInv'
<1> SUFFICES ASSUME IInv, FileInv, SInv, [Next]_vars PROVE SInv'
  OBVIOUS
<1>1. ASSUME NEW t \in Threads, Step(t) PROVE SInv'
  <2>1. ~gone
    BY <1>1 DEF Step
  <2>2. CASE FlushDumps(t)
    BY <2>1, <2>2, FlushDumpsSInv
  <2>3. CASE Reserve(t)
    BY <2>1, <2>3, ReserveSInv
  <2>4. CASE Write(t)
    BY <2>1, <2>4, WriteSInv
  <2>5. CASE Reset(t)
    BY <2>5, ResetSInv
  <2>6. CASE \/ Probe(t) \/ Deactivate(t) \/ Restore(t) \/ LockFlush(t) \/ UnlockFlush(t)
             \/ FlushTests(t) \/ FlushOpens(t) \/ FlushSeeks(t) \/ ReservesAtNull(t)
    BY <2>1, <2>6, QuietThread
  <2> QED
    BY <1>1, <2>2, <2>3, <2>4, <2>5, <2>6 DEF Step
<1>2. CASE UNCHANGED vars
  <2>1. UNCHANGED <<work, mem, disk, spans, recorded, late, round, allocated, phase, pc, ev, slot,
                    overlapped, stopSlot, gone>>
    BY <1>2 DEF vars, history, file
  <2>2. (Early' <=> Early) /\ StopCovers'
    BY <2>1 DEF Early, SInv, StopCovers, Current
  <2>3. disk' \in Seq(Blocks) /\ stopSlot' \in Nat /\ gone' \in BOOLEAN /\ \A t \in Threads : ev[t] \in Nat
    BY <2>1 DEF IInv, BufferType, SInv, MemoryType
  <2>4. \A u \in Threads : Dumped(u)' => Dumped(u)
    BY <2>1 DEF Dumped
  <2> QED
    BY <2>1, <2>2, <2>3, <2>4, QuietStep
<1> QED
  BY <1>1, <1>2, StopSInv DEF Next, Terminated

(* No event that was recorded in time is lost: whatever threads overflow    *)
(* the buffer, flush it or stop the recorder, and in whatever order, it is  *)
(* in the file, or in the buffer while there is one, no other event that    *)
(* was in time is written over it, and the process does not exit before it  *)
(* is in the file -- unless the flush of fut_endup, which takes no lock,    *)
(* has met the flush of a thread.                                           *)
THEOREM NothingRecordedLost == Spec => []CompletedSaved
<1>1. Init => IInv /\ FileInv /\ SInv
  BY InitIInv, InitFileInv, InitSInv
<1>2. IInv /\ FileInv /\ SInv /\ [Next]_vars => (IInv /\ FileInv /\ SInv)'
  BY NextIInv, NextFileInv, NextSInv
<1>3. SInv => CompletedSaved
  BY DEF SInv
<1> QED
  BY <1>1, <1>2, <1>3, PTL DEF Spec
=============================================================================
