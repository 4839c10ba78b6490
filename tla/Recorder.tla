------------------------------- MODULE Recorder -------------------------------
(***************************************************************************)
(* The core of the recorder (src/src/core/eztrace_core.c): eztrace_start,  *)
(* eztrace_stop, the handler of the signals, the recursion shield of the   *)
(* threads and the end of the process, over the parts of FxT that they     *)
(* call (fut_setup, fut_endup, fut_done of fut_setup.c).  FutBuffer has    *)
(* the buffer in detail; here it is the set of the events in it.           *)
(*                                                                         *)
(* A signal comes between any two steps of any thread: each thread has a   *)
(* stack of the functions it is in, the last of them being executed, and   *)
(* each function is the label of what it does next.                        *)
(***************************************************************************)
EXTENDS Naturals, Sequences, FiniteSets, SequencesExt

CONSTANTS Threads,      \* the threads of the application
          Main,         \* the one that calls eztrace_start and eztrace_stop
          MaxEvents,    \* how many events a thread records
          MaxStarts,    \* how often eztrace_start is called
          Signals       \* the signals that come from outside, each once

ASSUME MainAssumption == Main \in Threads
ASSUME BoundsAssumption == MaxEvents \in Nat /\ MaxStarts \in Nat

VARIABLES
    prof,       \* prof_activated
    handlers,   \* whether the signal handlers are installed
    infos,      \* fut_infos # NULL
    active,     \* fut_active # 0
    allocated,  \* bufptr # NULL
    buffer,     \* the events in the buffer
    file,       \* the file of fut_fd: "none" before it is opened
    disk,       \* the events written to the file
    taken,      \* of each thread: the part of the buffer that its fut_flush writes
    shield,     \* of each thread: protect_on
    busy,       \* the shield of eztrace_signal_handler
    frames,     \* of each thread: the functions it is in
    count,      \* of each thread: the events it has asked for
    starts,     \* the calls of eztrace_start
    signals,    \* the signals that have come
    gone,       \* whether the process has ended
    (* history *)
    owed,       \* the events that the application asked for while the recorder was on
    cutShort,   \* whether the end or a start came before the thread in eztrace_stop had written
    overlapped  \* whether a fut_flush has begun while a thread was at work on the file

fxt == <<infos, active, allocated, buffer, file, disk, taken>>
history == <<owed, cutShort, overlapped>>
vars == <<prof, handlers, fxt, shield, busy, frames, count, starts, signals, gone, history>>

Segv == "SIGSEGV"

Init ==
    /\ prof = FALSE /\ handlers = FALSE
    /\ infos = FALSE /\ active = FALSE /\ allocated = FALSE
    /\ buffer = {} /\ file = "none" /\ disk = {} /\ taken = [t \in Threads |-> {}]
    /\ shield = [t \in Threads |-> FALSE]
    /\ busy = FALSE
    /\ frames = [t \in Threads |-> << [at |-> "app"] >>]
    /\ count = [t \in Threads |-> 0]
    /\ starts = 0 /\ signals = {} /\ gone = FALSE
    /\ owed = {} /\ cutShort = FALSE /\ overlapped = FALSE

-----------------------------------------------------------------------------
(* The stacks. *)

Top(t) == Last(frames[t])
Is(t, label) == ~gone /\ Top(t).at = label
InFrame(t, label) == \E i \in DOMAIN frames[t] : frames[t][i].at = label

\* The function goes on at label; calls f; returns.
Then(t, label) == Append(Front(frames[t]), [Top(t) EXCEPT !.at = label])
Goto(t, label) == frames' = [frames EXCEPT ![t] = Then(t, label)]
Call(t, f, label) == frames' = [frames EXCEPT ![t] = Append(Then(t, label), f)]
Return(t) == frames' = [frames EXCEPT ![t] = Front(@)]

Function(label) == [at |-> label]
Event(e) == [at |-> "event", event |-> e]
Handler(s) == [at |-> "handle", signal |-> s]

-----------------------------------------------------------------------------
(* EZTRACE_EVENT: the test of the shield and its setting, the probe, and   *)
(* the shield off.                                                         *)

EventProtects(t) ==
    /\ Is(t, "event")
    /\ IF shield[t]
       THEN Return(t) /\ UNCHANGED shield
       ELSE Goto(t, "probe") /\ shield' = [shield EXCEPT ![t] = TRUE]
    /\ UNCHANGED <<prof, handlers, fxt, busy, count, starts, signals, gone, history>>

EventProbes(t) ==
    /\ Is(t, "probe")
    /\ buffer' = IF active THEN buffer \cup {Top(t).event} ELSE buffer
    /\ Goto(t, "unprotect")
    /\ UNCHANGED <<prof, handlers, infos, active, allocated, file, disk, taken, shield, busy, count,
                   starts, signals, gone, history>>

EventUnprotects(t) ==
    /\ Is(t, "unprotect")
    /\ shield' = [shield EXCEPT ![t] = FALSE]
    /\ Return(t)
    /\ UNCHANGED <<prof, handlers, fxt, busy, count, starts, signals, gone, history>>

-----------------------------------------------------------------------------
(* The application. *)

\* No thread is on its way into eztrace_stop.
Recording == prof /\ active /\ \A t \in Threads : ~InFrame(t, "stop") /\ ~InFrame(t, "ended")

(* A wrapper asks for an event; it belongs to the trace of this start. *)
AppEvent(t) ==
    /\ Is(t, "app") /\ count[t] < MaxEvents
    /\ count' = [count EXCEPT ![t] = @ + 1]
    /\ LET e == [thread |-> t, number |-> count[t] + 1, trace |-> starts]
       IN /\ Call(t, Event(e), "app")
          /\ owed' = IF Recording THEN owed \cup {e} ELSE owed
    /\ UNCHANGED <<prof, handlers, fxt, shield, busy, starts, signals, gone, cutShort, overlapped>>

AppStarts ==
    /\ Is(Main, "app") /\ starts < MaxStarts /\ ~prof
    /\ starts' = starts + 1
    /\ Call(Main, Function("start"), "app")
    /\ UNCHANGED <<prof, handlers, fxt, shield, busy, count, signals, gone, history>>

AppStops ==
    /\ Is(Main, "app") /\ prof
    /\ Call(Main, Function("stop"), "app")
    /\ UNCHANGED <<prof, handlers, fxt, shield, busy, count, starts, signals, gone, history>>

AppExits ==
    /\ Is(Main, "app") /\ starts > 0
    /\ Goto(Main, "exit")
    /\ UNCHANGED <<prof, handlers, fxt, shield, busy, count, starts, signals, gone, history>>

-----------------------------------------------------------------------------
(* eztrace_start. *)

(* Up to fut_setup; the handlers of the signals are installed before it. *)
StartActivates(t) ==
    /\ Is(t, "start")
    /\ prof' = TRUE
    /\ handlers' = TRUE
    /\ Goto(t, "setup")
    /\ UNCHANGED <<fxt, shield, busy, count, starts, signals, gone, history>>

\* A thread that stops the recorder has not written the buffer yet.
Unwritten == \E u \in Threads : \E l \in {"endup", "flush", "open", "dump"} : InFrame(u, l)

(* fut_setup and, last, the event of the thread. *)
StartSetsUp(t) ==
    /\ Is(t, "setup")
    /\ infos' = TRUE /\ allocated' = TRUE /\ buffer' = {} /\ active' = TRUE
    /\ frames' = [frames EXCEPT ![t] = Append(Front(@), Event([thread |-> t, number |-> 0, trace |-> starts]))]
    /\ cutShort' = (cutShort \/ Unwritten)
    /\ UNCHANGED <<prof, handlers, file, disk, taken, shield, busy, count, starts, signals, gone, owed,
                   overlapped>>

-----------------------------------------------------------------------------
(* eztrace_stop. *)

\* The events that are being recorded when a thread comes to stop the recorder.
InProgress ==
    UNION {{frames[t][i].event : i \in {j \in DOMAIN frames[t] : frames[t][j].at \in {"event", "probe"}}} :
             t \in Threads}

StopTests(t) ==
    /\ Is(t, "stop")
    /\ IF prof
       THEN /\ Call(t, Event([thread |-> t, number |-> MaxEvents + 1, trace |-> starts]), "ended")
            /\ owed' = owed \ InProgress
       ELSE Return(t) /\ UNCHANGED owed
    /\ UNCHANGED <<prof, handlers, fxt, shield, busy, count, starts, signals, gone, cutShort,
                   overlapped>>

\* Fault: the buffer is released before it is written.
ReleasesFirst(t) ==
    /\ Is(t, "ended")
    /\ prof' = FALSE
    /\ allocated' = FALSE
    /\ Goto(t, "endup")
    /\ UNCHANGED <<handlers, infos, active, buffer, file, disk, taken, shield, busy, count, starts, signals,
                   gone, history>>

(* prof_activated = 0 *)
StopDeactivates(t) ==
    /\ Is(t, "ended")
    /\ prof' = FALSE
    /\ Goto(t, "endup")
    /\ UNCHANGED <<handlers, fxt, shield, busy, count, starts, signals, gone, history>>

(* The process ends: no thread goes on, and what is not on the disk is     *)
(* lost.                                                                   *)
ProcessEnds ==
    /\ gone' = TRUE
    /\ cutShort' = (cutShort \/ Unwritten)

(* fut_endup: fut_active = 0, and the first statement of fut_flush, which  *)
(* needs what fut_setup makes; a SIGSEGV that is blocked ends the process. *)
EndupHalts(t) ==
    /\ Is(t, "endup")
    /\ active' = FALSE
    /\ IF infos
       THEN Goto(t, "flush") /\ UNCHANGED <<gone, cutShort>>
       ELSE IF \E i \in DOMAIN frames[t] : "signal" \in DOMAIN frames[t][i] /\ frames[t][i].signal = Segv
       THEN ProcessEnds /\ UNCHANGED frames
       ELSE Call(t, Handler(Segv), "endup") /\ UNCHANGED <<gone, cutShort>>
    /\ UNCHANGED <<prof, handlers, infos, allocated, buffer, file, disk, taken, shield, busy, count, starts,
                   signals, owed, overlapped>>

\* A thread that opens, writes or closes the file; there is no lock for it.
InFile == \E u \in Threads : \E l \in {"open", "dump", "close"} : InFrame(u, l)

(* fut_flush: without buffer it returns, and fut_endup too.  It takes what *)
(* is in the buffer and tests fut_fd.                                      *)
FlushTests(t) ==
    /\ Is(t, "flush")
    /\ IF ~allocated
       THEN Goto(t, "done") /\ UNCHANGED <<taken, overlapped>>
       ELSE /\ Goto(t, IF file = "none" THEN "open" ELSE "dump")
            /\ taken' = [taken EXCEPT ![t] = buffer]
            /\ overlapped' = (overlapped \/ InFile)
    /\ UNCHANGED <<prof, handlers, infos, active, allocated, buffer, file, disk, shield, busy, count,
                   starts, signals, gone, owed, cutShort>>

(* The open of the first flush, with O_TRUNC. *)
FlushOpens(t) ==
    /\ Is(t, "open")
    /\ file' = "open" /\ disk' = {}
    /\ Goto(t, "dump")
    /\ UNCHANGED <<prof, handlers, infos, active, allocated, buffer, taken, shield, busy, count, starts,
                   signals, gone, history>>

(* The write.  Threads at work on the file at the same time move each      *)
(* other's offset in it, or one has opened it anew: then the block may be  *)
(* lost, or what was there.  On a descriptor that was closed, lseek fails  *)
(* and the process exits, or the application has opened a file that has    *)
(* got the same number.                                                    *)
FlushDumps(t) ==
    /\ Is(t, "dump")
    /\ IF file = "closed"
       THEN UNCHANGED disk /\ (Goto(t, "close") \/ Goto(t, "exit"))
       ELSE /\ Goto(t, "close")
            /\ \/ disk' = disk \cup taken[t]
               \/ overlapped /\ disk' \in {disk, taken[t]}
    /\ taken' = [taken EXCEPT ![t] = {}]
    /\ UNCHANGED <<prof, handlers, infos, active, allocated, buffer, file, shield, busy, count, starts,
                   signals, gone, history>>

(* The rest of fut_flush and of fut_endup: lseek and fxt_fdevents_stop     *)
(* exit if the file is closed.                                             *)
EndupCloses(t) ==
    /\ Is(t, "close")
    /\ file' = "closed"
    /\ \/ /\ Goto(t, "done")
          /\ buffer' = {} /\ active' = TRUE
       \/ /\ file = "closed" /\ Goto(t, "exit")
          /\ UNCHANGED <<buffer, active>>
    /\ UNCHANGED <<prof, handlers, infos, allocated, disk, taken, shield, busy, count, starts, signals, gone,
                   history>>

(* fut_done *)
StopReturns(t) ==
    /\ Is(t, "done")
    /\ active' = FALSE /\ allocated' = FALSE
    /\ Return(t)
    /\ UNCHANGED <<prof, handlers, infos, buffer, file, disk, taken, shield, busy, count, starts, signals,
                   gone, history>>

-----------------------------------------------------------------------------
(* exit: the function registered with atexit, then the end. *)

Exits(t) ==
    /\ Is(t, "exit")
    /\ Call(t, Function("stop"), "exited")
    /\ UNCHANGED <<prof, handlers, fxt, shield, busy, count, starts, signals, gone, history>>

Exited(t) ==
    /\ Is(t, "exited")
    /\ ProcessEnds
    /\ UNCHANGED <<prof, handlers, fxt, shield, busy, frames, count, starts, signals, owed, overlapped>>

-----------------------------------------------------------------------------
(* eztrace_signal_handler. *)

(* A signal comes to a thread; during its handler it is blocked there. *)
Signal(t, s) ==
    /\ ~gone /\ handlers /\ s \in Signals \ signals
    /\ s = Segv => Is(t, "app")
    /\ signals' = signals \cup {s}
    /\ frames' = [frames EXCEPT ![t] = Append(@, Handler(s))]
    /\ UNCHANGED <<prof, handlers, fxt, shield, busy, count, starts, gone, history>>

(* while(shield); *)
HandlerPasses(t) ==
    /\ Is(t, "handle") /\ ~busy
    /\ Goto(t, "shielded")
    /\ UNCHANGED <<prof, handlers, fxt, shield, busy, count, starts, signals, gone, history>>

\* Fault: the handler returns to the application.
HandlerReturns(t) ==
    /\ Is(t, "shielded")
    /\ busy' = TRUE
    /\ frames' = [frames EXCEPT ![t] = Append(Front(@), Function("stop"))]
    /\ UNCHANGED <<prof, handlers, fxt, shield, count, starts, signals, gone, history>>

(* shield = 1, and eztrace_error_handler, whose own event the recursion    *)
(* shield that it sets keeps from being recorded.                          *)
HandlerShields(t) ==
    /\ Is(t, "shielded")
    /\ busy' = TRUE
    /\ shield' = IF Top(t).signal = Segv THEN [shield EXCEPT ![t] = FALSE] ELSE shield
    /\ Call(t, Function("stop"), "exit")
    /\ UNCHANGED <<prof, handlers, fxt, count, starts, signals, gone, history>>

HandlerSpins(t) == Is(t, "handle") /\ busy /\ UNCHANGED vars

-----------------------------------------------------------------------------
Step(t) ==
    \/ EventProtects(t) \/ EventProbes(t) \/ EventUnprotects(t)
    \/ StartActivates(t) \/ StartSetsUp(t)
    \/ StopTests(t) \/ StopDeactivates(t) \/ EndupHalts(t)
    \/ FlushTests(t) \/ FlushOpens(t) \/ FlushDumps(t) \/ EndupCloses(t)
    \/ StopReturns(t) \/ Exits(t) \/ Exited(t) \/ HandlerPasses(t) \/ HandlerShields(t)

Terminated == gone /\ UNCHANGED vars

App == (\E t \in Threads : AppEvent(t)) \/ AppStarts \/ AppStops \/ AppExits

Next ==
    \/ \E t \in Threads : Step(t) \/ HandlerSpins(t) \/ \E s \in Signals : Signal(t, s)
    \/ App
    \/ Terminated

Spec == Init /\ [][Next]_vars

(* The kernel schedules every thread. *)
FairSpec == Spec /\ \A t \in Threads : WF_vars(Step(t))

-----------------------------------------------------------------------------
(* Properties. *)

Saved(events) == gone => events \subseteq disk

(* The first trace of a process is complete when it has ended, by exit, by *)
(* eztrace_stop or by a signal in any thread at any time, unless the       *)
(* process ends, or starts another trace, while a thread has cleared       *)
(* prof_activated and not written the buffer yet: the others then find     *)
(* nothing to stop.  Two threads that have both found prof_activated set   *)
(* may also both open the file, and the second loses what the first wrote: *)
(* nothing is claimed when one has begun to flush before the other has     *)
(* closed the file.                                                        *)
FirstTraceSaved == ~cutShort /\ ~overlapped => Saved({e \in owed : e.trace = 1})

(* A thread waits in its handler for a handler that it has interrupted. *)
SpinsOnItself(t) ==
    Top(t).at = "handle" /\ \E i \in 1 .. Len(frames[t]) - 1 : "signal" \in DOMAIN frames[t][i]

(* A signal ends the process ("only the first one handle it",              *)
(* eztrace_core.c:198), unless a second one interrupts the handler of the  *)
(* first in the same thread.  A signal during eztrace_start makes such a   *)
(* second one itself: it finds FxT not set up and crashes.                 *)
SignalEnds == signals # {} ~> gone \/ \E t \in Threads : SpinsOnItself(t)
=============================================================================
