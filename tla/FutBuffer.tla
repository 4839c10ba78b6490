------------------------------ MODULE FutBuffer ------------------------------
(***************************************************************************)
(* The buffer in which the threads of the application record their events: *)
(* FUT_RAW_PROBE (src/extlib/fxt/tools/fut.h) and fut_getstampedbuffer     *)
(* (fut_record.c), against fut_flush, fut_endup and fut_done               *)
(* (fut_setup.c), which eztrace_stop calls while other threads may still   *)
(* be recording.                                                           *)
(*                                                                         *)
(* Addresses are offsets from bufptr, in cells: an event of size n has n   *)
(* cells, its header (tick, tid, code) and its arguments.  A loop around a *)
(* compare-and-swap is the addition that its last turn makes.              *)
(***************************************************************************)
EXTENDS Naturals, Integers, Sequences

CONSTANTS Threads,    \* the threads of the application
          NoThread,   \* the owner of a free lock
          Capacity,   \* cells between bufptr and fut_last_slot
          MaxSize,    \* the size of the largest event
          Workloads   \* the sizes of the events that each thread records

ASSUME ThreadsAssumption == NoThread \notin Threads
ASSUME SizesAssumption ==
    Capacity \in Nat /\ MaxSize \in Nat /\ 0 < MaxSize /\ MaxSize <= Capacity
ASSUME WorkloadsAssumption == \A w \in Workloads : w \in [Threads -> Seq(1 .. MaxSize)]

VARIABLES
    work,        \* the sizes of the events that each thread records
    allowFlush,  \* allow_fut_flush
    active,      \* fut_active # 0
    nextSlot,    \* fut_next_slot - bufptr
    mem,         \* the cells of the buffer: mem[a + 1] is at address a
    allocated,   \* bufptr # NULL
    based,       \* whether fut_next_slot points into a buffer, that of bufptr or a released one
    flushLock,   \* the owner of fut_flush_lock
    fd,          \* fut_fd: "unset" (0), "open", or "closed" and still not 0
    disk,        \* the blocks written to the trace file
    phase,       \* what the thread in eztrace_stop has done last
    stopSlot,    \* the fut_next_slot that fut_endup gives to fut_flush
    pc, ev, slot,  \* of each thread: where it is, the index of its event, its prev_slot
    gone,        \* whether the process has ended
    (* history *)
    round,       \* how often fut_next_slot was reset
    seen,        \* of each thread: the events recorded when its probe began
    spans,       \* the part of the buffer that each event was given
    recorded,    \* the events that were written entirely
    late,        \* the events given a slot but not recorded when their round was written out
    overlapped   \* whether fut_flush was called while another call of it was under way

file == <<fd, disk, overlapped>>
history == <<round, seen, spans, recorded, late>>
vars == <<work, allowFlush, active, nextSlot, mem, allocated, based, flushLock, file, phase, stopSlot,
          pc, ev, slot, gone, history>>

Empty == <<0, 0, 0>>             \* a cell never written
Outside == <<-1, 0, 0>>          \* what lies behind the buffer

Event(t) == <<t, ev[t]>>
Size(t) == work[t][ev[t]]
Current == {s \in spans : s.round = round}
SpanOf(t) == [ev |-> Event(t), round |-> round, from |-> nextSlot, to |-> nextSlot + Size(t),
              seen |-> seen[t]]

Init ==
    /\ work \in Workloads
    /\ allowFlush \in BOOLEAN
    /\ active = TRUE
    /\ nextSlot = 0
    /\ mem = [a \in 1 .. Capacity |-> Empty]
    /\ allocated = TRUE
    /\ based = TRUE
    /\ flushLock = NoThread
    /\ fd = "unset" /\ disk = << >> /\ overlapped = FALSE
    /\ phase = "on" /\ stopSlot = 0
    /\ gone = FALSE
    /\ pc = [t \in Threads |-> "idle"]
    /\ ev = [t \in Threads |-> 1]
    /\ slot = [t \in Threads |-> 0]
    /\ round = 0
    /\ seen = [t \in Threads |-> {}]
    /\ spans = {}
    /\ recorded = {}
    /\ late = {}

Goto(t, label) == pc' = [pc EXCEPT ![t] = label]

\* The probe returns; its local variables are gone.
NextEvent(t) ==
    /\ ev' = [ev EXCEPT ![t] = @ + 1]
    /\ Goto(t, "idle")
    /\ slot' = [slot EXCEPT ![t] = 0]
    /\ seen' = [seen EXCEPT ![t] = {}]

-----------------------------------------------------------------------------
(* A thread that records an event. *)

(* FUT_RAW_PROBE: the test of fut_active. *)
Probe(t) ==
    /\ pc[t] = "idle" /\ ev[t] <= Len(work[t])
    /\ IF active
       THEN Goto(t, "reserve") /\ seen' = [seen EXCEPT ![t] = recorded] /\ UNCHANGED <<ev, slot>>
       ELSE NextEvent(t)
    /\ UNCHANGED <<work, allowFlush, active, nextSlot, mem, allocated, based, flushLock, file, phase,
                   stopSlot, gone, round, spans, recorded, late>>

(* Fault: the header is not counted. *)
ArgumentsOnly(n) == nextSlot + n - 1

(* Threads that find the buffer full go on adding the sizes of their       *)
(* events until it is flushed: all the values behind its end are the same. *)
Advance(n) ==
    IF allowFlush /\ nextSlot + n > Capacity + MaxSize THEN Capacity + MaxSize ELSE nextSlot + n

(* Fault: every thread that finds the buffer full writes it out. *)
AllFlush(p, n) ==
    IF p + n <= Capacity THEN "write" ELSE IF ~allowFlush THEN "deactivate" ELSE "lock"

(* Where a thread goes on that was given the slot p of n cells. *)
AfterReserve(p, n) ==
    IF p + n <= Capacity THEN "write"
    ELSE IF ~allowFlush THEN "deactivate"
    ELSE IF p > Capacity THEN "reserve"
    ELSE "lock"

\* What fut_endup writes out was not determined yet.
Recording == phase \in {"on", "halted"}

(* fut_getstampedbuffer: the addition to fut_next_slot, the stamp, and the *)
(* tests against fut_last_slot.                                            *)
Reserve(t) ==
    /\ pc[t] = "reserve" /\ based
    /\ slot' = [slot EXCEPT ![t] = nextSlot]
    /\ nextSlot' = Advance(Size(t))
    /\ Goto(t, AfterReserve(nextSlot, Size(t)))
    /\ IF nextSlot + Size(t) <= Capacity
       THEN /\ spans' = spans \cup {SpanOf(t)}
            /\ late' = IF Recording THEN late ELSE late \cup {Event(t)}
       ELSE UNCHANGED <<spans, late>>
    /\ UNCHANGED <<work, allowFlush, active, mem, allocated, based, flushLock, file, phase, stopSlot, ev,
                   gone, round, seen, recorded>>

(* After __fut_reset_pointers without buffer, the event is written at NULL. *)
ReservesAtNull(t) ==
    /\ pc[t] = "reserve" /\ ~based
    /\ gone' = TRUE
    /\ UNCHANGED <<work, allowFlush, active, nextSlot, mem, allocated, based, flushLock, file, phase,
                   stopSlot, pc, ev, slot, history>>

(* __fut_record_event and the rest of FUT_RAW_PROBE: the cells of the      *)
(* event are written; once the buffer is released they go to memory that   *)
(* belongs to somebody else, or to nobody.                                 *)
Write(t) ==
    /\ pc[t] = "write"
    /\ mem' = IF allocated
              THEN [c \in 1 .. Capacity |->
                      IF c \in slot[t] + 1 .. slot[t] + Size(t) THEN <<t, ev[t], c - slot[t]>> ELSE mem[c]]
              ELSE mem
    /\ gone' \in IF allocated THEN {FALSE} ELSE BOOLEAN
    /\ recorded' = recorded \cup {Event(t)}
    /\ NextEvent(t)
    /\ UNCHANGED <<work, allowFlush, active, nextSlot, allocated, based, flushLock, file, phase, stopSlot,
                   round, spans, late>>

(* Without flush, a thread whose event does not fit stops the recording ... *)
Deactivate(t) ==
    /\ pc[t] = "deactivate"
    /\ active' = FALSE
    /\ Goto(t, "restore")
    /\ UNCHANGED <<work, allowFlush, nextSlot, mem, allocated, based, flushLock, file, phase, stopSlot, ev,
                   slot, gone, history>>

(* Fault: the buffer is used again from its beginning. *)
GivesAllBack(t) == 0

(* What a thread that does not record sets fut_next_slot to. *)
GivenBack(t) == slot[t]

(* ... and gives its slot back; its event goes to trash_buffer. *)
Restore(t) ==
    /\ pc[t] = "restore"
    /\ nextSlot' = GivenBack(t)
    /\ NextEvent(t)
    /\ UNCHANGED <<work, allowFlush, active, mem, allocated, based, flushLock, file, phase, stopSlot, gone,
                   round, spans, recorded, late>>

-----------------------------------------------------------------------------
(* fut_flush.  A thread that records calls it with fut_flush_lock, but     *)
(* fut_endup without.                                                      *)

\* Where a thread is in fut_flush: its three steps with the file.
InFlush(t) == pc[t] \in {"open", "dump", "seek"}
EndupInFlush == phase \in {"opening", "dumping", "flushed"}

(* open, with O_TRUNC.  That it fails is not modelled. *)
Opens == fd' = "open" /\ disk' = << >>

\* Fault: the last cell is left out.
BlockShort(p) ==
    [round |-> round, cells |-> [a \in 1 .. p - 1 |-> IF a <= Capacity THEN mem[a] ELSE Outside]]

\* The part of the buffer before p.
Block(p) == [round |-> round, cells |-> [a \in 1 .. p |-> IF a <= Capacity THEN mem[a] ELSE Outside]]

(* write: the block, and the events whose threads have not finished with   *)
(* it.  Two flushes at once move each other's offset in the file: then the *)
(* block may be lost, or what was there.  A write to the closed fut_fd     *)
(* fails, which is only reported.                                          *)
Dumps(p) ==
    IF fd = "closed"
    THEN UNCHANGED <<disk, late>>
    ELSE /\ \/ disk' = Append(disk, Block(p))
            \/ overlapped /\ disk' \in {disk, <<Block(p)>>}
         /\ late' = late \cup ({s.ev : s \in Current} \ recorded)

\* Fault: the next slot stays at the end.
CountsOnly == nextSlot' = nextSlot /\ round' = round + 1 /\ based' = allocated

(* __fut_reset_pointers. *)
ResetPointers == nextSlot' = 0 /\ round' = round + 1 /\ based' = allocated

-----------------------------------------------------------------------------
(* With flush, the thread whose slot crosses the end writes the buffer out. *)

LockFlush(t) ==
    /\ pc[t] = "lock" /\ flushLock = NoThread
    /\ flushLock' = t
    /\ Goto(t, "flush")
    /\ UNCHANGED <<work, allowFlush, active, nextSlot, mem, allocated, based, file, phase, stopSlot, ev,
                   slot, gone, history>>

(* fut_getbuffer, and the test of fut_fd. *)
FlushTests(t) ==
    /\ pc[t] = "flush"
    /\ IF allocated
       THEN /\ Goto(t, IF fd = "unset" THEN "open" ELSE "dump")
            /\ overlapped' = (overlapped \/ EndupInFlush)
       ELSE Goto(t, "reset") /\ UNCHANGED overlapped
    /\ UNCHANGED <<work, allowFlush, active, nextSlot, mem, allocated, based, flushLock, fd, disk, phase,
                   stopSlot, ev, slot, gone, history>>

FlushOpens(t) ==
    /\ pc[t] = "open"
    /\ Opens
    /\ Goto(t, "dump")
    /\ UNCHANGED <<work, allowFlush, active, nextSlot, mem, allocated, based, flushLock, overlapped, phase,
                   stopSlot, ev, slot, gone, history>>

FlushDumps(t) ==
    /\ pc[t] = "dump"
    /\ Dumps(slot[t])
    /\ Goto(t, "seek")
    /\ UNCHANGED <<work, allowFlush, active, nextSlot, mem, allocated, based, flushLock, fd, overlapped,
                   phase, stopSlot, ev, slot, gone, round, seen, spans, recorded>>

(* lseek: on the closed fut_fd it fails and the process exits, unless the  *)
(* application has opened a file that has got its number.                  *)
FlushSeeks(t) ==
    /\ pc[t] = "seek"
    /\ \/ Goto(t, "reset") /\ UNCHANGED gone
       \/ fd = "closed" /\ gone' = TRUE /\ UNCHANGED pc
    /\ UNCHANGED <<work, allowFlush, active, nextSlot, mem, allocated, based, flushLock, file, phase,
                   stopSlot, ev, slot, history>>

Reset(t) ==
    /\ pc[t] = "reset"
    /\ ResetPointers
    /\ Goto(t, "unlock")
    /\ UNCHANGED <<work, allowFlush, active, mem, allocated, flushLock, file, phase, stopSlot, ev, slot,
                   gone, seen, spans, recorded, late>>

UnlockFlush(t) ==
    /\ pc[t] = "unlock"
    /\ flushLock' = NoThread
    /\ Goto(t, "reserve")
    /\ UNCHANGED <<work, allowFlush, active, nextSlot, mem, allocated, based, file, phase, stopSlot, ev,
                   slot, gone, history>>

-----------------------------------------------------------------------------
(* eztrace_stop, in a thread that does not record: fut_endup, fut_done. *)

EndupHalts ==
    /\ phase = "on" /\ phase' = "halted"
    /\ active' = FALSE
    /\ UNCHANGED <<work, allowFlush, nextSlot, mem, allocated, based, flushLock, file, stopSlot, pc, ev,
                   slot, gone, history>>

(* The call of fut_flush, and its test of fut_fd. *)
EndupTests ==
    /\ phase = "halted" /\ phase' = IF fd = "unset" THEN "opening" ELSE "dumping"
    /\ stopSlot' = nextSlot
    /\ overlapped' = (overlapped \/ \E t \in Threads : InFlush(t))
    /\ UNCHANGED <<work, allowFlush, active, nextSlot, mem, allocated, based, flushLock, fd, disk, pc, ev,
                   slot, gone, history>>

EndupOpens ==
    /\ phase = "opening" /\ phase' = "dumping"
    /\ Opens
    /\ UNCHANGED <<work, allowFlush, active, nextSlot, mem, allocated, based, flushLock, overlapped,
                   stopSlot, pc, ev, slot, gone, history>>

EndupDumps ==
    /\ phase = "dumping" /\ phase' = "flushed"
    /\ Dumps(stopSlot)
    /\ UNCHANGED <<work, allowFlush, active, nextSlot, mem, allocated, based, flushLock, fd, overlapped,
                   stopSlot, pc, ev, slot, gone, round, seen, spans, recorded>>

(* The end of the block, and close. *)
EndupCloses ==
    /\ phase = "flushed" /\ phase' = "closed"
    /\ fd' = "closed"
    /\ UNCHANGED <<work, allowFlush, active, nextSlot, mem, allocated, based, flushLock, disk, overlapped,
                   stopSlot, pc, ev, slot, gone, history>>

(* The last statements of fut_endup: nothing can tell between them. *)
EndupReactivates ==
    /\ phase = "closed" /\ phase' = "reactivated"
    /\ ResetPointers
    /\ active' = TRUE
    /\ UNCHANGED <<work, allowFlush, mem, allocated, flushLock, file, stopSlot, pc, ev, slot, gone,
                   seen, spans, recorded, late>>

DoneHalts ==
    /\ phase = "reactivated" /\ phase' = "done"
    /\ active' = FALSE
    /\ UNCHANGED <<work, allowFlush, nextSlot, mem, allocated, based, flushLock, file, stopSlot, pc, ev,
                   slot, gone, history>>

DoneReleases ==
    /\ phase = "done" /\ phase' = "released"
    /\ allocated' = FALSE
    /\ UNCHANGED <<work, allowFlush, active, nextSlot, mem, based, flushLock, file, stopSlot, pc, ev, slot,
                   gone, history>>

Stop ==
    /\ ~gone
    /\ \/ EndupHalts \/ EndupTests \/ EndupOpens \/ EndupDumps \/ EndupCloses \/ EndupReactivates
       \/ DoneHalts \/ DoneReleases

Step(t) ==
    /\ ~gone
    /\ \/ Probe(t) \/ Reserve(t) \/ ReservesAtNull(t) \/ Write(t)
       \/ Deactivate(t) \/ Restore(t)
       \/ LockFlush(t) \/ FlushTests(t) \/ FlushOpens(t) \/ FlushDumps(t) \/ FlushSeeks(t)
       \/ Reset(t) \/ UnlockFlush(t)

Finished(t) == pc[t] = "idle" /\ ev[t] > Len(work[t])

\* The application ends.
Terminated ==
    /\ gone \/ (phase = "released" /\ \A t \in Threads : Finished(t))
    /\ UNCHANGED vars

Next == (\E t \in Threads : Step(t)) \/ Stop \/ Terminated

Spec == Init /\ [][Next]_vars

(* The kernel schedules every thread; nothing makes eztrace_stop be called *)
(* early.                                                                  *)
FairSpec == Spec /\ (\A t \in Threads : WF_vars(Step(t))) /\ WF_vars(Stop)

-----------------------------------------------------------------------------
(* Properties. *)

Labels == {"idle", "reserve", "write", "deactivate", "restore", "lock", "flush", "open", "dump", "seek",
           "reset", "unlock"}
Phases == {"on", "halted", "opening", "dumping", "flushed", "closed", "reactivated", "done", "released"}

(* Every variable has its kind; an address that is written to lies in the  *)
(* buffer, and the lock is held by the thread that flushes.                *)
TypeOK ==
    /\ work \in Workloads /\ allowFlush \in BOOLEAN /\ active \in BOOLEAN /\ allocated \in BOOLEAN
    /\ based \in BOOLEAN /\ gone \in BOOLEAN /\ overlapped \in BOOLEAN
    /\ fd \in {"unset", "open", "closed"}
    /\ nextSlot \in Nat /\ stopSlot \in Nat /\ round \in Nat
    /\ DOMAIN mem = 1 .. Capacity
    /\ phase \in Phases /\ flushLock \in Threads \cup {NoThread}
    /\ pc \in [Threads -> Labels] /\ ev \in [Threads -> Nat] /\ slot \in [Threads -> Nat]
    /\ \A t \in Threads :
         /\ pc[t] # "idle" => ev[t] \in DOMAIN work[t]
         /\ pc[t] = "write" => slot[t] + Size(t) <= Capacity
         /\ pc[t] \in {"flush", "open", "dump", "seek", "reset", "unlock"} <=> flushLock = t

\* Before fut_endup has reset the buffer.
Open == phase \in {"on", "halted", "opening", "dumping", "flushed", "closed"}

(* Between two resets of fut_next_slot no cell is given to two events,     *)
(* whatever threads do at the end of the buffer: fut_getstampedbuffer      *)
(* gives a slot that did not fit back without looking whether              *)
(* fut_next_slot has moved since.                                          *)
SlotsDisjoint ==
    Open => \A s, r \in spans :
              s.round = r.round /\ s # r => s.to <= r.from \/ r.to <= s.from

(* What a thread writes out when it flushes is all that was given since    *)
(* the last reset, and nothing more is given until it has reset.           *)
FlushCoversRound ==
    \A t \in Threads :
      Open /\ pc[t] \in {"lock", "flush", "open", "dump", "seek", "reset"} =>
        /\ \A s \in Current : s.to <= slot[t]
        /\ nextSlot > Capacity

(* The cells of an event that was not late, but for what late events have  *)
(* overwritten.                                                            *)
Holds(cells, s) ==
    /\ s.to <= Len(cells)
    /\ \A a \in s.from + 1 .. s.to :
         \/ cells[a] = <<s.ev[1], s.ev[2], a - s.from>>
         \/ <<cells[a][1], cells[a][2]>> \in late

(* An event that was recorded before its round was written out is in the   *)
(* buffer or in the file, at its place, unless an event of an earlier      *)
(* round has been written over it: neither a flush, nor the end of the     *)
(* buffer, nor fut_endup lose another one, and the process does not exit   *)
(* before it is in the file.  But the flush of fut_endup has no lock:      *)
(* nothing is claimed when it and that of a probe were under way at once.  *)
CompletedSaved ==
    ~overlapped => \A s \in spans : s.ev \in recorded \ late =>
        \/ \E b \in 1 .. Len(disk) : disk[b].round = s.round /\ Holds(disk[b].cells, s)
        \/ ~gone /\ s.round = round /\ allocated /\ Holds(mem, s)

(* The file keeps the order of the events: one that was recorded before    *)
(* the probe of another began comes first, in the same block or in an      *)
(* earlier one.  The converter reads the events of a process in the order  *)
(* of the file.                                                            *)
RealTimeOrder ==
    Open => \A s, r \in spans :
              s.ev \in r.seen => s.round < r.round \/ (s.round = r.round /\ s.to <= r.from)

(* Every probe returns, also of a thread that finds the buffer full while  *)
(* another one flushes it, unless the process ends.  That happens when     *)
(* fut_endup has closed the file and a thread that began before flushes or *)
(* records then, and never before.                                         *)
Ended == gone /\ phase \in {"closed", "reactivated", "done", "released"}
ProbesReturn == \A t \in Threads : pc[t] # "idle" ~> pc[t] = "idle" \/ Ended
=============================================================================
