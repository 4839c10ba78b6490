--------------------------- MODULE Recorder_proofs ---------------------------
(* Proofs about the core of the recorder, for any number of threads,       *)
(* events, starts and signals: the first trace of a process is written     *)
(* before the process ends, wherever the signals come.                     *)
EXTENDS Recorder, SequenceTheorems, TLAPS

Events == [thread : Threads, number : Nat, trace : Nat]

\* Where a thread is in EZTRACE_EVENT, and where its event is not in the buffer yet.
EventLabels == {"event", "probe", "unprotect"}
Unrecorded == {"event", "probe"}

\* All the labels.
Labels == EventLabels \cup {"app", "start", "setup", "stop", "ended", "endup", "flush", "open", "dump", "close",
                            "done", "exit", "exited", "handle", "shielded"}

EventFrame == [at : EventLabels, event : Events]
Frame == [at : Labels] \cup [at : Labels, signal : Signals \cup {Segv}] \cup EventFrame

TypeInv ==
    /\ frames \in [Threads -> Seq(Frame)]
    /\ shield \in [Threads -> BOOLEAN]
    /\ count \in [Threads -> Nat]
    /\ starts \in Nat

(* What is below and above a function: the application calls its wrappers  *)
(* and eztrace_start; an event is one of a wrapper, or the last of         *)
(* eztrace_start, or that of eztrace_stop.  A handler may be above any.    *)
Nested(s, i, t) ==
    /\ i = 1 => s[i].at \in {"app", "exit", "exited"}
    /\ s[i].at = "app" => i = 1
    /\ s[i].at \in EventLabels =>
          /\ i > 1 /\ s[i] \in EventFrame
          /\ s[i - 1].at \in {"app", "ended"}
          /\ s[i].event.number \in 1 .. MaxEvents => i = 2
    /\ s[i].at \in {"start", "setup"} => t = Main /\ i = 2 /\ s[1].at = "app"

Nesting ==
    \A t \in Threads :
        Len(frames[t]) > 0 /\ \A i \in 1 .. Len(frames[t]) : Nested(frames[t], i, t)

(* The recursion shield is on only in an event. *)
Shields == \A t \in Threads : shield[t] => InFrame(t, "probe") \/ InFrame(t, "unprotect")

\* The events of the first trace that are asked for.
First == {e \in owed : e.trace = 1}

Counted ==
    /\ \A t \in Threads : count[t] <= MaxEvents
    /\ \A e \in owed : e.thread \in Threads /\ e.number \in 1 .. count[e.thread]

(* Before the handlers are installed nothing was started. *)
Later == {"setup", "handle", "shielded", "stop", "ended", "endup", "flush", "open", "dump", "close",
          "done", "exit", "exited"}
NotStarted ==
    /\ handlers => starts > 0
    /\ ~handlers => /\ ~prof /\ ~active /\ ~infos /\ file = "none"
                    /\ starts = IF InFrame(Main, "start") THEN 1 ELSE 0
                    /\ \A t \in Threads : \A l \in Later : ~InFrame(t, l)
    /\ starts <= 1 /\ InFrame(Main, "start") => ~handlers

(* A thread has written the buffer, or is writing it. *)
Writing == {"flush", "open", "dump", "close", "done"}
Writes(t) == \E l \in Writing : InFrame(t, l)

(* In the first start, a stop finds that fut_setup was not called. *)
SettingUp ==
    starts <= 1 /\ InFrame(Main, "setup") =>
        ~active /\ ~infos /\ file = "none" /\ \A t \in Threads : ~Writes(t)

NothingOwed == starts <= 1 /\ (InFrame(Main, "setup") \/ ~handlers) => First = {}

(* While the first trace is recorded, what it owes is in the buffer or on  *)
(* its way there; who comes to stop it has not done anything yet, and      *)
(* nobody has finished a stop that found nothing to do.                    *)
On == starts <= 1 /\ prof
OnItsWay ==
    On => /\ InFrame(Main, "setup") \/ (active /\ infos /\ allocated /\ file = "none")
          /\ \A t \in Threads : ~InFrame(t, "endup") /\ ~Writes(t) /\ Top(t).at # "exited"
          /\ First \subseteq buffer \cup InProgress
          /\ \A t \in Threads : InFrame(t, "ended") => First \cap InProgress = {}

(* Then it is written, or someone will write it: nobody has begun, or one  *)
(* thread is at it.                                                        *)
Flushes(t) == InFrame(t, "open") \/ InFrame(t, "dump")

Unbegun ==
    /\ \E t \in Threads : InFrame(t, "endup") \/ InFrame(t, "flush")
    /\ \A t \in Threads : ~Flushes(t)
    /\ First \subseteq buffer /\ file = "none"
Begun ==
    \E t \in Threads :
        /\ First \subseteq taken[t]
        /\ \/ InFrame(t, "open") /\ file = "none"
           \/ InFrame(t, "dump") /\ file = "open"
Pending ==
    /\ allocated /\ infos
    /\ \A t \in Threads : ~InFrame(t, "close") /\ ~InFrame(t, "done")
    /\ Unbegun \/ Begun
OnceOff == ~On /\ ~cutShort /\ ~overlapped => First \subseteq disk \/ Pending

(* No two functions flush, unless it is known that they do; so the file is *)
(* opened once.                                                            *)
Single(t) ==
    \A i, j \in DOMAIN frames[t] :
        frames[t][i].at \in {"open", "dump"} /\ frames[t][j].at \in {"open", "dump"} => i = j
Singles == \A t \in Threads : Single(t)
Apart == \A t, u \in Threads : Flushes(t) /\ Flushes(u) => t = u
Opening == \A t \in Threads : InFrame(t, "open") => file = "none"
OpenedOnce ==
    /\ DOMAIN taken = Threads
    /\ file = "none" => disk = {} /\ \A t \in Threads : ~InFrame(t, "dump") /\ ~InFrame(t, "close")
    /\ ~overlapped => Singles /\ Apart /\ Opening

Books == NotStarted /\ SettingUp /\ NothingOwed /\ OnItsWay /\ OnceOff /\ OpenedOnce /\ FirstTraceSaved

IInv == TypeInv /\ Nesting /\ Shields /\ Counted /\ Books

-----------------------------------------------------------------------------
(* Stacks of functions *)

LEMMA FrontIs ==
    ASSUME NEW S, NEW s \in Seq(S), Len(s) > 0
    PROVE  /\ Front(s) \in Seq(S) /\ Len(Front(s)) = Len(s) - 1
           /\ \A i \in 1 .. Len(s) - 1 : Front(s)[i] = s[i]
<1> DEFINE n == Len(s) - 1
<1>1. n \in Nat /\ Len(s) = n + 1 /\ 1 \in Int /\ n \in Int OBVIOUS
<1>2. \A i \in 1 .. n : s[i] \in S BY <1>1
<1>3. Front(s) = SubSeq(s, 1, n) BY DEF Front
<1> HIDE DEF n
<1>4. /\ SubSeq(s, 1, n) \in Seq(S) /\ Len(SubSeq(s, 1, n)) = IF 1 <= n THEN n - 1 + 1 ELSE 0
      /\ \A i \in 1 .. n - 1 + 1 : SubSeq(s, 1, n)[i] = s[1 + i - 1]
      BY <1>1, <1>2, SubSeqProperties
<1>5. n - 1 + 1 = n /\ \A i \in 1 .. n : 1 + i - 1 = i BY <1>1
<1>6. Len(SubSeq(s, 1, n)) = n BY <1>1, <1>4, <1>5
<1>7. \A i \in 1 .. n : SubSeq(s, 1, n)[i] = s[i] BY <1>4, <1>5
<1> QED BY <1>1, <1>3, <1>4, <1>6, <1>7

LEMMA TopType ==
    ASSUME TypeInv, Nesting, NEW t \in Threads
    PROVE  /\ frames[t] \in Seq(Frame) /\ Len(frames[t]) \in Nat \ {0}
           /\ Top(t) = frames[t][Len(frames[t])] /\ Top(t) \in Frame
           /\ \A i \in 1 .. Len(frames[t]) : Nested(frames[t], i, t) /\ frames[t][i] \in Frame
           /\ DOMAIN frames[t] = 1 .. Len(frames[t])
  BY DEF TypeInv, Nesting, Top, Last

\* A frame whose label is changed.
LEMMA RelabelIs ==
    ASSUME NEW g \in Frame, NEW label \in Labels,
           g.at \in EventLabels <=> label \in EventLabels
    PROVE  LET h == [g EXCEPT !.at = label]
           IN /\ h \in Frame /\ h.at = label
              /\ g \in EventFrame => h \in EventFrame /\ h.event = g.event
<1>1. CASE g \in EventFrame BY <1>1 DEF EventFrame, Frame
<1>2. CASE g \in [at : Labels] /\ g \notin EventFrame BY <1>2 DEF EventFrame, Frame
<1>3. CASE g \in [at : Labels, signal : Signals \cup {Segv}] /\ g \notin EventFrame
      BY <1>3 DEF EventFrame, Frame
<1> QED BY <1>1, <1>2, <1>3 DEF Frame

(* The thread t keeps its first n frames; the others stay where they are.  *)
Kept(t, n) ==
    /\ frames' \in [Threads -> Seq(Frame)]
    /\ n \in {Len(frames[t]) - 1, Len(frames[t])}
    /\ n <= Len(frames'[t]) /\ Len(frames'[t]) > 0
    /\ \A i \in 1 .. n : frames'[t][i] = frames[t][i]
    /\ \A u \in Threads \ {t} : frames'[u] = frames[u]

LEMMA KeptNests ==
    ASSUME TypeInv, Nesting, NEW t \in Threads, NEW n, Kept(t, n),
           \A i \in n + 1 .. Len(frames'[t]) : Nested(frames'[t], i, t)
    PROVE  Nesting'
<1>1. SUFFICES ASSUME NEW u \in Threads
               PROVE  Len(frames'[u]) > 0 /\ \A i \in 1 .. Len(frames'[u]) : Nested(frames'[u], i, u)
      BY DEF Nesting, Nested
<1>2. CASE u # t BY <1>2 DEF Kept, Nesting
<1>3. CASE u = t
  <2>1. n \in Nat /\ Len(frames'[t]) \in Nat /\ frames[t] \in Seq(Frame) BY TopType DEF Kept
  <2>2. ASSUME NEW i \in 1 .. n PROVE Nested(frames'[t], i, t)
    <3>1. Nested(frames[t], i, t) BY <2>1, TopType DEF Kept
    <3>2. /\ frames'[t][i] = frames[t][i] /\ frames'[t][1] = frames[t][1]
          /\ i > 1 => frames'[t][i - 1] = frames[t][i - 1]
          BY <2>1 DEF Kept
    <3> QED BY <3>1, <3>2 DEF Nested
  <2> QED BY <1>3, <2>1, <2>2 DEF Kept
<1> QED BY <1>2, <1>3

(* An event that a thread is on the way to record. *)
Flying(e) ==
    \E t \in Threads : \E i \in DOMAIN frames[t] :
        frames[t][i].at \in Unrecorded /\ frames[t][i].event = e

LEMMA FlyingIs == \A e : e \in InProgress <=> Flying(e)
  BY DEF InProgress, Flying, Unrecorded

LEMMA FlyingIs2 == (\A e : e \in InProgress <=> Flying(e))'
  BY FlyingIs, PTL

(* The labels and the events that may come and go. *)
Labelled(t, in, out) ==
    /\ \A u \in Threads : \A l : InFrame(u, l)' => InFrame(u, l) \/ (u = t /\ l \in in)
    /\ \A u \in Threads : \A l : InFrame(u, l) => InFrame(u, l)' \/ (u = t /\ l = out)
    /\ \A l \in in : InFrame(t, l)'
    /\ \A u \in Threads \ {t} : Top(u)' = Top(u)
    /\ Singles /\ "open" \notin in /\ "dump" \notin in => Singles'

LEMMA KeptLabels ==
    ASSUME TypeInv, Nesting, NEW t \in Threads, NEW n, Kept(t, n), NEW in,
           \A i \in n + 1 .. Len(frames'[t]) : frames'[t][i].at \in in,
           \A l \in in : \E i \in n + 1 .. Len(frames'[t]) : frames'[t][i].at = l
    PROVE  Labelled(t, in, Top(t).at)
<1>0. n \in Nat /\ frames[t] \in Seq(Frame) /\ frames'[t] \in Seq(Frame)
      BY TopType DEF Kept
<1>1. ASSUME NEW u \in Threads, NEW l, InFrame(u, l)' PROVE InFrame(u, l) \/ (u = t /\ l \in in)
  <2>1. PICK i \in DOMAIN frames'[u] : frames'[u][i].at = l BY <1>1 DEF InFrame
  <2>2. CASE u # t BY <2>1, <2>2 DEF Kept, InFrame
  <2>3. CASE u = t /\ i <= n
    <3>1. i \in 1 .. n /\ i \in DOMAIN frames[t] BY <1>0, <2>1, <2>3 DEF Kept
    <3> QED BY <2>1, <2>3, <3>1 DEF Kept, InFrame
  <2>4. CASE u = t /\ ~(i <= n)
    <3>1. i \in n + 1 .. Len(frames'[t]) BY <1>0, <2>1, <2>4
    <3> QED BY <2>1, <2>4, <3>1
  <2> QED BY <2>2, <2>3, <2>4
<1>2. ASSUME NEW u \in Threads, NEW l, InFrame(u, l) PROVE InFrame(u, l)' \/ (u = t /\ l = Top(t).at)
  <2>1. PICK i \in DOMAIN frames[u] : frames[u][i].at = l BY <1>2 DEF InFrame
  <2>2. CASE u # t BY <2>1, <2>2 DEF Kept, InFrame
  <2>3. CASE u = t /\ i <= n
    <3>1. i \in 1 .. n /\ i \in DOMAIN frames'[t] BY <1>0, <2>1, <2>3 DEF Kept
    <3> QED BY <2>1, <2>3, <3>1 DEF Kept, InFrame
  <2>4. CASE u = t /\ ~(i <= n)
    <3>1. i = Len(frames[t]) BY <1>0, <2>1, <2>4 DEF Kept
    <3> QED BY <2>1, <2>4, <3>1 DEF Top, Last
  <2> QED BY <2>2, <2>3, <2>4
<1>3. ASSUME NEW l \in in PROVE InFrame(t, l)'
  <2>1. PICK i \in n + 1 .. Len(frames'[t]) : frames'[t][i].at = l OBVIOUS
  <2>2. i \in DOMAIN frames'[t] BY <1>0
  <2> QED BY <2>1, <2>2 DEF InFrame
<1>4. \A u \in Threads \ {t} : Top(u)' = Top(u) BY DEF Kept, Top
<1>5. ASSUME Singles, "open" \notin in, "dump" \notin in, NEW u \in Threads PROVE Single(u)'
  <2>1. CASE u # t BY <1>5, <2>1 DEF Kept, Singles, Single
  <2>2. CASE u = t
    <3>1. ASSUME NEW i \in DOMAIN frames'[t], frames'[t][i].at \in {"open", "dump"}
          PROVE  i \in DOMAIN frames[t] /\ frames'[t][i] = frames[t][i]
      <4>1. i \notin n + 1 .. Len(frames'[t]) BY <1>5, <3>1
      <4>2. i \in 1 .. n /\ i \in DOMAIN frames[t] BY <1>0, <3>1, <4>1 DEF Kept
      <4> QED BY <4>2 DEF Kept
    <3>2. Single(t) BY <1>5 DEF Singles
    <3> QED BY <2>2, <3>1, <3>2 DEF Single
  <2> QED BY <2>1, <2>2
<1>6. Singles /\ "open" \notin in /\ "dump" \notin in => Singles' BY <1>5 DEF Singles
<1> QED BY <1>1, <1>2, <1>3, <1>4, <1>6 DEF Labelled

LEMMA KeptEvents ==
    ASSUME TypeInv, Nesting, NEW t \in Threads, NEW n, Kept(t, n)
    PROVE  /\ \A e \in InProgress' :
                 \/ e \in InProgress
                 \/ \E i \in n + 1 .. Len(frames'[t]) :
                       frames'[t][i].at \in Unrecorded /\ frames'[t][i].event = e
           /\ \A e \in InProgress :
                 e \in InProgress' \/ (Top(t).at \in Unrecorded /\ Top(t).event = e)
<1>0. n \in Nat /\ frames[t] \in Seq(Frame) /\ frames'[t] \in Seq(Frame)
      BY TopType DEF Kept
<1>1. ASSUME NEW e, Flying(e)'
      PROVE  \/ Flying(e)
             \/ \E i \in n + 1 .. Len(frames'[t]) :
                   frames'[t][i].at \in Unrecorded /\ frames'[t][i].event = e
  <2>1. PICK u \in Threads : \E i \in DOMAIN frames'[u] :
            frames'[u][i].at \in Unrecorded /\ frames'[u][i].event = e
        BY <1>1 DEF Flying
  <2>2. PICK i \in DOMAIN frames'[u] : frames'[u][i].at \in Unrecorded /\ frames'[u][i].event = e
        BY <2>1
  <2>3. CASE u # t BY <2>2, <2>3 DEF Kept, Flying
  <2>4. CASE u = t /\ i <= n
    <3>1. i \in 1 .. n /\ i \in DOMAIN frames[t] BY <1>0, <2>2, <2>4 DEF Kept
    <3> QED BY <2>2, <2>4, <3>1 DEF Kept, Flying
  <2>5. CASE u = t /\ ~(i <= n)
    <3>1. i \in n + 1 .. Len(frames'[t]) BY <1>0, <2>2, <2>5
    <3> QED BY <2>2, <2>5, <3>1
  <2> QED BY <2>3, <2>4, <2>5
<1>2. ASSUME NEW e, Flying(e) PROVE Flying(e)' \/ (Top(t).at \in Unrecorded /\ Top(t).event = e)
  <2>1. PICK u \in Threads : \E i \in DOMAIN frames[u] :
            frames[u][i].at \in Unrecorded /\ frames[u][i].event = e
        BY <1>2 DEF Flying
  <2>2. PICK i \in DOMAIN frames[u] : frames[u][i].at \in Unrecorded /\ frames[u][i].event = e
        BY <2>1
  <2>3. CASE u # t BY <2>2, <2>3 DEF Kept, Flying
  <2>4. CASE u = t /\ i <= n
    <3>1. i \in 1 .. n /\ i \in DOMAIN frames'[t] BY <1>0, <2>2, <2>4 DEF Kept
    <3> QED BY <2>2, <2>4, <3>1 DEF Kept, Flying
  <2>5. CASE u = t /\ ~(i <= n)
    <3>1. i = Len(frames[t]) BY <1>0, <2>2, <2>5 DEF Kept
    <3> QED BY <2>2, <2>5, <3>1 DEF Top, Last
  <2> QED BY <2>3, <2>4, <2>5
<1> QED BY <1>1, <1>2, FlyingIs, FlyingIs2

-----------------------------------------------------------------------------
(* What the steps do to the stacks *)

LEMMA ThenIs ==
    ASSUME TypeInv, Nesting, NEW t \in Threads, NEW label \in Labels,
           Top(t).at \in EventLabels <=> label \in EventLabels
    PROVE  /\ Then(t, label) \in Seq(Frame) /\ Len(Then(t, label)) = Len(frames[t])
           /\ \A i \in 1 .. Len(frames[t]) - 1 : Then(t, label)[i] = frames[t][i]
           /\ LET g == Then(t, label)[Len(frames[t])]
              IN /\ g.at = label
                 /\ Top(t) \in EventFrame => g \in EventFrame /\ g.event = Top(t).event
<1> DEFINE g == [Top(t) EXCEPT !.at = label]
           f == Front(frames[t])
           n == Len(frames[t])
<1>1. frames[t] \in Seq(Frame) /\ n \in Nat \ {0} /\ Top(t) \in Frame BY TopType
<1>2. /\ g \in Frame /\ g.at = label
      /\ Top(t) \in EventFrame => g \in EventFrame /\ g.event = Top(t).event
      BY <1>1, RelabelIs
<1>3. f \in Seq(Frame) /\ Len(f) = n - 1 /\ \A i \in 1 .. n - 1 : f[i] = frames[t][i]
      BY <1>1, FrontIs
<1>4. Then(t, label) = Append(f, g) BY DEF Then
<1> HIDE DEF f, g
<1>5. /\ Append(f, g) \in Seq(Frame) /\ Len(Append(f, g)) = n
      /\ \A i \in 1 .. n - 1 : Append(f, g)[i] = f[i]
      /\ Append(f, g)[n] = g
      BY <1>1, <1>2, <1>3
<1> QED BY <1>2, <1>3, <1>4, <1>5

LEMMA FramesOf ==
    ASSUME TypeInv, NEW t \in Threads, NEW s \in Seq(Frame), frames' = [frames EXCEPT ![t] = s]
    PROVE  /\ frames'[t] = s /\ frames' \in [Threads -> Seq(Frame)]
           /\ \A u \in Threads \ {t} : frames'[u] = frames[u]
  BY DEF TypeInv

LEMMA GotoKept ==
    ASSUME TypeInv, Nesting, NEW t \in Threads, NEW label \in Labels, Goto(t, label),
           Top(t).at \in EventLabels <=> label \in EventLabels
    PROVE  /\ Kept(t, Len(frames[t]) - 1) /\ Len(frames'[t]) = Len(frames[t])
           /\ Top(t)' = frames'[t][Len(frames[t])] /\ Top(t)'.at = label
           /\ Top(t) \in EventFrame => Top(t)' \in EventFrame /\ Top(t)'.event = Top(t).event
<1>1. Len(frames[t]) \in Nat \ {0} BY TopType
<1>2. Then(t, label) \in Seq(Frame) BY ThenIs
<1>3. frames' = [frames EXCEPT ![t] = Then(t, label)] BY DEF Goto
<1>4. /\ frames'[t] = Then(t, label) /\ frames' \in [Threads -> Seq(Frame)]
      /\ \A u \in Threads \ {t} : frames'[u] = frames[u]
      BY <1>2, <1>3, FramesOf
<1>5. Len(frames'[t]) = Len(frames[t]) /\ \A i \in 1 .. Len(frames[t]) - 1 : frames'[t][i] = frames[t][i]
      BY <1>4, ThenIs
<1>6. Top(t)' = frames'[t][Len(frames[t])] BY <1>5 DEF Top, Last
<1>7. LET g == Then(t, label)[Len(frames[t])]
      IN g.at = label /\ (Top(t) \in EventFrame => g \in EventFrame /\ g.event = Top(t).event)
      BY ThenIs
<1> QED BY <1>1, <1>4, <1>5, <1>6, <1>7 DEF Kept

LEMMA CallKept ==
    ASSUME TypeInv, Nesting, NEW t \in Threads, NEW label \in Labels, NEW f \in Frame, Call(t, f, label),
           Top(t).at \in EventLabels <=> label \in EventLabels
    PROVE  /\ Kept(t, Len(frames[t]) - 1) /\ Len(frames'[t]) = Len(frames[t]) + 1
           /\ frames'[t][Len(frames[t])].at = label
           /\ Top(t)' = f /\ frames'[t][Len(frames[t]) + 1] = f
<1> DEFINE s == Then(t, label)
           n == Len(frames[t])
<1>1. n \in Nat \ {0} BY TopType
<1>2. s \in Seq(Frame) /\ Len(s) = n /\ s[n].at = label /\ \A i \in 1 .. n - 1 : s[i] = frames[t][i]
      BY ThenIs
<1>3. frames' = [frames EXCEPT ![t] = Append(s, f)] BY DEF Call
<1> HIDE DEF s
<1>4. /\ Append(s, f) \in Seq(Frame) /\ Len(Append(s, f)) = n + 1 /\ Append(s, f)[n + 1] = f
      /\ \A i \in 1 .. n : Append(s, f)[i] = s[i]
      BY <1>1, <1>2
<1>5. /\ frames'[t] = Append(s, f) /\ frames' \in [Threads -> Seq(Frame)]
      /\ \A u \in Threads \ {t} : frames'[u] = frames[u]
      BY <1>3, <1>4, FramesOf
<1>6. Len(frames'[t]) = n + 1 /\ \A i \in 1 .. n - 1 : frames'[t][i] = frames[t][i]
      BY <1>1, <1>2, <1>4, <1>5
<1>7. frames'[t][n].at = label /\ frames'[t][n + 1] = f BY <1>1, <1>2, <1>4, <1>5
<1>8. Top(t)' = f BY <1>6, <1>7 DEF Top, Last
<1>9. Kept(t, n - 1) BY <1>1, <1>5, <1>6 DEF Kept
<1> QED BY <1>6, <1>7, <1>8, <1>9

LEMMA ReturnKept ==
    ASSUME TypeInv, Nesting, NEW t \in Threads, Return(t), Top(t).at \notin {"app", "exit", "exited"}
    PROVE  /\ Kept(t, Len(frames[t]) - 1) /\ Len(frames'[t]) = Len(frames[t]) - 1
           /\ Len(frames[t]) > 1 /\ Top(t)' = frames[t][Len(frames[t]) - 1]
<1> DEFINE s == Front(frames[t])
           n == Len(frames[t])
<1>1. n \in Nat \ {0} /\ frames[t] \in Seq(Frame) BY TopType
<1>2. n > 1
  <2>1. n \in 1 .. n BY <1>1
  <2>2. Nested(frames[t], n, t) /\ Top(t) = frames[t][n] BY <2>1, TopType
  <2>3. n = 1 => frames[t][n].at \in {"app", "exit", "exited"} BY <2>2 DEF Nested
  <2>4. n # 1 BY <2>2, <2>3
  <2> HIDE DEF n
  <2> QED BY <1>1, <2>4
<1>3. s \in Seq(Frame) /\ Len(s) = n - 1 /\ \A i \in 1 .. n - 1 : s[i] = frames[t][i]
      BY <1>1, FrontIs
<1>4. frames' = [frames EXCEPT ![t] = s] BY DEF Return, TypeInv
<1> HIDE DEF s
<1>5. /\ frames'[t] = s /\ frames' \in [Threads -> Seq(Frame)]
      /\ \A u \in Threads \ {t} : frames'[u] = frames[u]
      BY <1>3, <1>4, FramesOf
<1>6. Top(t)' = frames[t][n - 1] BY <1>1, <1>2, <1>3, <1>5 DEF Top, Last
<1> QED BY <1>1, <1>2, <1>3, <1>5, <1>6 DEF Kept

LEMMA PushKept ==
    ASSUME TypeInv, Nesting, NEW t \in Threads, NEW f \in Frame,
           frames' = [frames EXCEPT ![t] = Append(@, f)]
    PROVE  /\ Kept(t, Len(frames[t])) /\ Len(frames'[t]) = Len(frames[t]) + 1
           /\ Top(t)' = f /\ frames'[t][Len(frames[t]) + 1] = f
<1> DEFINE s == Append(frames[t], f)
           n == Len(frames[t])
<1>1. n \in Nat \ {0} /\ frames[t] \in Seq(Frame) BY TopType
<1>2. s \in Seq(Frame) /\ Len(s) = n + 1 /\ s[n + 1] = f /\ \A i \in 1 .. n : s[i] = frames[t][i]
      BY <1>1
<1>3. frames' = [frames EXCEPT ![t] = s] OBVIOUS
<1> HIDE DEF s
<1>4. /\ frames'[t] = s /\ frames' \in [Threads -> Seq(Frame)]
      /\ \A u \in Threads \ {t} : frames'[u] = frames[u]
      BY <1>2, <1>3, FramesOf
<1>5. Top(t)' = f BY <1>2, <1>4 DEF Top, Last
<1> QED BY <1>1, <1>2, <1>4, <1>5 DEF Kept

LEMMA ReplaceKept ==
    ASSUME TypeInv, Nesting, NEW t \in Threads, NEW f \in Frame,
           frames' = [frames EXCEPT ![t] = Append(Front(@), f)]
    PROVE  /\ Kept(t, Len(frames[t]) - 1) /\ Len(frames'[t]) = Len(frames[t])
           /\ Top(t)' = f /\ frames'[t][Len(frames[t])] = f
<1> DEFINE s == Front(frames[t])
           n == Len(frames[t])
<1>1. n \in Nat \ {0} /\ frames[t] \in Seq(Frame) BY TopType
<1>2. s \in Seq(Frame) /\ Len(s) = n - 1 /\ \A i \in 1 .. n - 1 : s[i] = frames[t][i]
      BY <1>1, FrontIs
<1>3. frames' = [frames EXCEPT ![t] = Append(s, f)] OBVIOUS
<1> HIDE DEF s
<1>4. /\ Append(s, f) \in Seq(Frame) /\ Len(Append(s, f)) = n /\ Append(s, f)[n] = f
      /\ \A i \in 1 .. n - 1 : Append(s, f)[i] = s[i]
      BY <1>1, <1>2
<1>5. /\ frames'[t] = Append(s, f) /\ frames' \in [Threads -> Seq(Frame)]
      /\ \A u \in Threads \ {t} : frames'[u] = frames[u]
      BY <1>3, <1>4, FramesOf
<1>6. Top(t)' = f BY <1>4, <1>5 DEF Top, Last
<1>7. \A i \in 1 .. n - 1 : frames'[t][i] = frames[t][i] BY <1>2, <1>4, <1>5
<1>8. Kept(t, n - 1) BY <1>1, <1>4, <1>5, <1>7 DEF Kept
<1> QED BY <1>4, <1>5, <1>6, <1>8

(* A step to another label, not in EZTRACE_EVENT. *)
LEMMA GotoPlain ==
    ASSUME TypeInv, Nesting, NEW t \in Threads, NEW label \in Labels, Goto(t, label),
           Top(t).at \notin EventLabels, label \notin EventLabels \cup {"app", "start"},
           label \in {"exit", "exited"} \/ Top(t).at \notin {"app", "exit", "exited"},
           label = "setup" => Top(t).at = "start"
    PROVE  /\ frames' \in [Threads -> Seq(Frame)] /\ Nesting'
           /\ Labelled(t, {label}, Top(t).at)
           /\ InProgress' = InProgress /\ Top(t)'.at = label
<1> DEFINE n == Len(frames[t])
<1>1. n \in Nat \ {0} /\ Nested(frames[t], n, t) /\ Top(t) = frames[t][n] BY TopType
<1>2. /\ Kept(t, n - 1) /\ Len(frames'[t]) = n
      /\ Top(t)' = frames'[t][n] /\ Top(t)'.at = label
      BY GotoKept
<1> HIDE DEF n
<1>3. n - 1 + 1 .. Len(frames'[t]) = {n} BY <1>1, <1>2
<1>4. Nested(frames'[t], n, t)
  <2>1. n > 1 => 1 \in 1 .. n - 1 BY <1>1
  <2>2. n > 1 => frames'[t][1] = frames[t][1] BY <1>2, <2>1 DEF Kept
  <2> QED BY <1>1, <1>2, <2>2 DEF Nested
<1>5. Nesting' BY <1>2, <1>3, <1>4, KeptNests
<1>6. Labelled(t, {label}, Top(t).at) BY <1>2, <1>3, KeptLabels
<1>7. /\ \A e \in InProgress' : e \in InProgress
      /\ \A e \in InProgress : e \in InProgress'
      BY <1>2, <1>3, KeptEvents DEF EventLabels, Unrecorded
<1>8. InProgress' = InProgress BY <1>7
<1> QED BY <1>2, <1>5, <1>6, <1>8 DEF Kept

(* A call of another function than EZTRACE_EVENT. *)
LEMMA CallPlain ==
    ASSUME TypeInv, Nesting, NEW t \in Threads, NEW label \in Labels, NEW f \in Frame, Call(t, f, label),
           Top(t).at \notin EventLabels, label \notin EventLabels \cup {"start", "setup"},
           f.at \notin EventLabels \cup {"app", "setup"},
           \/ label \in {"exit", "exited"}
           \/ label = "app" /\ Top(t).at = "app"
           \/ label # "app" /\ Top(t).at \notin {"app", "exit", "exited"},
           f.at = "start" => t = Main /\ Top(t).at = "app" /\ label = "app"
    PROVE  /\ frames' \in [Threads -> Seq(Frame)] /\ Nesting'
           /\ Labelled(t, {label, f.at}, Top(t).at)
           /\ InProgress' = InProgress /\ Top(t)' = f
<1> DEFINE n == Len(frames[t])
<1>1. n \in Nat \ {0} /\ Nested(frames[t], n, t) /\ Top(t) = frames[t][n] BY TopType
<1>2. /\ Kept(t, n - 1) /\ Len(frames'[t]) = n + 1
      /\ frames'[t][n].at = label /\ Top(t)' = f /\ frames'[t][n + 1] = f
      BY CallKept
<1> HIDE DEF n
<1>3. n - 1 + 1 .. Len(frames'[t]) = {n, n + 1} BY <1>1, <1>2
<1>4. Nested(frames'[t], n, t) BY <1>1, <1>2 DEF Nested
<1>5. n + 1 # 1 BY <1>1
<1>6. f.at = "start" => n + 1 = 2 /\ frames'[t][1].at = "app"
  <2>1. f.at = "start" => n = 1 /\ label = "app" BY <1>1 DEF Nested
  <2> QED BY <1>2, <2>1
<1>7. Nested(frames'[t], n + 1, t) BY <1>2, <1>5, <1>6 DEF Nested
<1>8. Nesting' BY <1>2, <1>3, <1>4, <1>7, KeptNests
<1>9. Labelled(t, {label, f.at}, Top(t).at) BY <1>2, <1>3, KeptLabels
<1>10. /\ \A e \in InProgress' : e \in InProgress
       /\ \A e \in InProgress : e \in InProgress'
  <2>1. \A i \in n - 1 + 1 .. Len(frames'[t]) : frames'[t][i].at \notin Unrecorded
        BY <1>2, <1>3 DEF EventLabels, Unrecorded
  <2>2. Top(t).at \notin Unrecorded BY DEF EventLabels, Unrecorded
  <2> QED BY <1>2, <2>1, <2>2, KeptEvents
<1>11. InProgress' = InProgress BY <1>10
<1> QED BY <1>2, <1>8, <1>9, <1>11 DEF Kept

(* A call of EZTRACE_EVENT. *)
LEMMA CallEvent ==
    ASSUME TypeInv, Nesting, NEW t \in Threads, NEW label \in Labels, NEW e \in Events,
           Call(t, Event(e), label),
           \/ label = "app" /\ Top(t).at = "app"
           \/ label = "ended" /\ Top(t).at = "stop" /\ e.number \notin 1 .. MaxEvents
    PROVE  /\ frames' \in [Threads -> Seq(Frame)] /\ Nesting'
           /\ Labelled(t, {label, "event"}, Top(t).at)
           /\ InProgress' = InProgress \cup {e} /\ Top(t)'.at = "event"
<1> DEFINE n == Len(frames[t])
           f == Event(e)
<1>0. f \in EventFrame /\ f.at = "event" /\ f.event = e BY DEF Event, EventFrame, EventLabels
<1>1. n \in Nat \ {0} /\ Nested(frames[t], n, t) /\ Top(t) = frames[t][n] BY TopType
<1>2. /\ Kept(t, n - 1) /\ Len(frames'[t]) = n + 1
      /\ frames'[t][n].at = label /\ Top(t)' = f /\ frames'[t][n + 1] = f
  <2>1. f \in Frame /\ label \in Labels BY <1>0 DEF Frame
  <2>2. Top(t).at \in EventLabels <=> label \in EventLabels BY DEF EventLabels
  <2> QED BY <2>1, <2>2, CallKept
<1> HIDE DEF n, f
<1>3. n - 1 + 1 .. Len(frames'[t]) = {n, n + 1} BY <1>1, <1>2
<1>4. Nested(frames'[t], n, t) BY <1>1, <1>2 DEF Nested, EventLabels
<1>5. n + 1 # 1 /\ n + 1 > 1 /\ n + 1 - 1 = n BY <1>1
<1>6. e.number \in 1 .. MaxEvents => n + 1 = 2 BY <1>1 DEF Nested
<1>7. Nested(frames'[t], n + 1, t)
  <2> DEFINE m == n + 1
             s == frames'[t]
  <2>1. n \in Nat \ {0} BY <1>1
  <2>2. m > 1 /\ m # 1 /\ m - 1 = n BY <2>1
  <2>3. s[n].at \in {"app", "ended"} BY <1>2
  <2>4. s[m] \in EventFrame /\ s[m].event = e /\ s[m].at \notin {"app", "start", "setup"}
        BY <1>0, <1>2
  <2>5. e.number \in 1 .. MaxEvents => m = 2 BY <1>6
  <2> HIDE DEF m, s
  <2>6. Nested(s, m, t) BY <2>2, <2>3, <2>4, <2>5 DEF Nested
  <2> QED BY <2>6 DEF m, s
<1>8. Nesting' BY <1>2, <1>3, <1>4, <1>7, KeptNests
<1>9. Labelled(t, {label, "event"}, Top(t).at) BY <1>0, <1>2, <1>3, KeptLabels
<1>10. /\ \A d \in InProgress' : d \in InProgress \/ d = e
       /\ \A d \in InProgress : d \in InProgress'
  <2>1. \A i \in n - 1 + 1 .. Len(frames'[t]) :
           frames'[t][i].at \in Unrecorded => frames'[t][i].event = e
        BY <1>0, <1>2, <1>3 DEF Unrecorded
  <2>2. Top(t).at \notin Unrecorded BY DEF Unrecorded
  <2> QED BY <1>2, <2>1, <2>2, KeptEvents
<1>11. e \in InProgress'
  <2>1. n + 1 \in DOMAIN frames'[t] BY <1>1, <1>2 DEF Kept
  <2>2. \E i \in DOMAIN frames'[t] : frames'[t][i].at \in Unrecorded /\ frames'[t][i].event = e
        BY <1>0, <1>2, <2>1 DEF Unrecorded
  <2>3. Flying(e)' BY <2>2 DEF Flying
  <2> QED BY <2>3, FlyingIs2
<1>12. InProgress' = InProgress \cup {e} BY <1>10, <1>11
<1> QED BY <1>0, <1>2, <1>8, <1>9, <1>12 DEF Kept

(* The steps in EZTRACE_EVENT. *)
LEMMA GotoEvent ==
    ASSUME TypeInv, Nesting, NEW t \in Threads, NEW label \in Labels, Goto(t, label),
           label \in {"probe", "unprotect"}, Top(t).at \in Unrecorded
    PROVE  /\ frames' \in [Threads -> Seq(Frame)] /\ Nesting'
           /\ Labelled(t, {label}, Top(t).at)
           /\ InProgress' \subseteq InProgress
           /\ \A e \in InProgress : e \in InProgress' \/ (label = "unprotect" /\ e = Top(t).event)
           /\ Top(t)'.at = label
<1> DEFINE n == Len(frames[t])
<1>1. n \in Nat \ {0} /\ Nested(frames[t], n, t) /\ Top(t) = frames[t][n] BY TopType
<1>2. Top(t) \in EventFrame BY <1>1 DEF Nested, EventLabels, Unrecorded
<1>3. /\ Kept(t, n - 1) /\ Len(frames'[t]) = n
      /\ Top(t)' = frames'[t][n] /\ Top(t)'.at = label
      /\ Top(t)' \in EventFrame /\ Top(t)'.event = Top(t).event
  <2>1. label \in Labels /\ label \in EventLabels /\ Top(t).at \in EventLabels BY DEF EventLabels, Unrecorded
  <2> QED BY <1>2, <2>1, GotoKept
<1> HIDE DEF n
<1>4. n - 1 + 1 .. Len(frames'[t]) = {n} BY <1>1, <1>3
<1>5. Nested(frames'[t], n, t)
  <2>1. n > 1 /\ frames[t][n - 1].at \in {"app", "ended"}
        /\ (Top(t).event.number \in 1 .. MaxEvents => n = 2)
        BY <1>1 DEF Nested, EventLabels, Unrecorded
  <2>2. n - 1 \in 1 .. n - 1 BY <1>1, <2>1
  <2>3. frames'[t][n - 1] = frames[t][n - 1] BY <1>3, <2>2 DEF Kept
  <2> QED BY <1>3, <2>1, <2>3 DEF Nested
<1>6. Nesting' BY <1>3, <1>4, <1>5, KeptNests
<1>7. Labelled(t, {label}, Top(t).at) BY <1>3, <1>4, KeptLabels
<1>8. Top(t).event \in InProgress
  <2>1. n \in DOMAIN frames[t] BY <1>1, TopType DEF n
  <2>2. Flying(Top(t).event) BY <1>1, <2>1 DEF Flying
  <2> QED BY <2>2, FlyingIs
<1>9. \A e \in InProgress' : e \in InProgress BY <1>3, <1>4, <1>8, KeptEvents
<1>10. \A e \in InProgress : e \in InProgress' \/ (label = "unprotect" /\ e = Top(t).event)
  <2>1. CASE label = "unprotect" BY <1>3, <2>1, KeptEvents
  <2>2. CASE label = "probe"
    <3>1. n \in DOMAIN frames'[t] BY <1>1, <1>3 DEF Kept
    <3>2. \E i \in DOMAIN frames'[t] : frames'[t][i].at \in Unrecorded /\ frames'[t][i].event = Top(t).event
          BY <1>3, <2>2, <3>1 DEF Unrecorded
    <3>3. ASSUME NEW e, e = Top(t).event PROVE Flying(e)' BY <3>2, <3>3 DEF Flying
    <3> QED BY <1>3, <3>3, KeptEvents, FlyingIs2
  <2> QED BY <2>1, <2>2
<1> QED BY <1>3, <1>6, <1>7, <1>9, <1>10 DEF Kept

LEMMA ReturnIs ==
    ASSUME TypeInv, Nesting, NEW t \in Threads, Return(t), Top(t).at \notin {"app", "exit", "exited"}
    PROVE  /\ frames' \in [Threads -> Seq(Frame)] /\ Nesting'
           /\ Labelled(t, {}, Top(t).at)
           /\ InProgress' \subseteq InProgress
           /\ \A e \in InProgress : e \in InProgress' \/ (Top(t).at \in Unrecorded /\ e = Top(t).event)
           /\ Top(t).at \in EventLabels => Top(t)'.at \in {"app", "ended"}
<1> DEFINE n == Len(frames[t])
<1>1. n \in Nat \ {0} /\ Nested(frames[t], n, t) /\ Top(t) = frames[t][n] BY TopType
<1>2. Kept(t, n - 1) /\ Len(frames'[t]) = n - 1 /\ n > 1 /\ Top(t)' = frames[t][n - 1]
      BY ReturnKept
<1> HIDE DEF n
<1>3. n - 1 + 1 .. Len(frames'[t]) = {} BY <1>1, <1>2
<1>4. Nesting' BY <1>2, <1>3, KeptNests
<1>5. Labelled(t, {}, Top(t).at) BY <1>2, <1>3, KeptLabels
<1>6. \A e \in InProgress' : e \in InProgress BY <1>2, <1>3, KeptEvents
<1>7. \A e \in InProgress : e \in InProgress' \/ (Top(t).at \in Unrecorded /\ e = Top(t).event)
      BY <1>2, KeptEvents
<1>8. Top(t).at \in EventLabels => Top(t)'.at \in {"app", "ended"} BY <1>1, <1>2 DEF Nested
<1> QED BY <1>2, <1>4, <1>5, <1>6, <1>7, <1>8 DEF Kept

(* A signal. *)
LEMMA PushIs ==
    ASSUME TypeInv, Nesting, NEW t \in Threads, NEW f \in Frame,
           frames' = [frames EXCEPT ![t] = Append(@, f)],
           f.at \notin EventLabels \cup {"app", "start", "setup"}
    PROVE  /\ frames' \in [Threads -> Seq(Frame)] /\ Nesting'
           /\ Labelled(t, {f.at}, "none")
           /\ InProgress' = InProgress /\ Top(t)' = f
<1> DEFINE n == Len(frames[t])
<1>1. n \in Nat \ {0} /\ DOMAIN frames[t] = 1 .. n BY TopType
<1>2. Kept(t, n) /\ Len(frames'[t]) = n + 1 /\ Top(t)' = f /\ frames'[t][n + 1] = f
      BY PushKept
<1> HIDE DEF n
<1>3. n + 1 .. Len(frames'[t]) = {n + 1} BY <1>1, <1>2
<1>4. n + 1 # 1 BY <1>1
<1>5. Nested(frames'[t], n + 1, t) BY <1>2, <1>4 DEF Nested
<1>6. Nesting' BY <1>2, <1>3, <1>5, KeptNests
<1>7. Labelled(t, {f.at}, Top(t).at) BY <1>2, <1>3, KeptLabels
<1>8. DOMAIN frames'[t] = 1 .. n + 1 BY <1>1, <1>2 DEF Kept
<1>9. \A l : InFrame(t, l) => InFrame(t, l)' BY <1>1, <1>2, <1>8 DEF InFrame, Kept
<1>10. Labelled(t, {f.at}, "none") BY <1>7, <1>9 DEF Labelled
<1>11. \A e : Flying(e) => Flying(e)'
  <2>1. \A i \in DOMAIN frames[t] : i \in DOMAIN frames'[t] /\ frames'[t][i] = frames[t][i]
        BY <1>1, <1>2, <1>8 DEF Kept
  <2>2. \A u \in Threads : \A i \in DOMAIN frames[u] : i \in DOMAIN frames'[u] /\ frames'[u][i] = frames[u][i]
        BY <1>2, <2>1 DEF Kept
  <2> QED BY <2>2 DEF Flying
<1>12. \A e \in InProgress' : e \in InProgress
  <2>1. f.at \notin Unrecorded BY DEF EventLabels, Unrecorded
  <2> QED BY <1>2, <1>3, <2>1, KeptEvents
<1>13. InProgress' = InProgress BY <1>11, <1>12, FlyingIs, FlyingIs2
<1> QED BY <1>2, <1>6, <1>10, <1>13 DEF Kept

(* The event that ends eztrace_start. *)
LEMMA ReplaceIs ==
    ASSUME TypeInv, Nesting, NEW t \in Threads, NEW e \in Events,
           frames' = [frames EXCEPT ![t] = Append(Front(@), Event(e))],
           Top(t).at = "setup"
    PROVE  /\ frames' \in [Threads -> Seq(Frame)] /\ Nesting'
           /\ Labelled(t, {"event"}, "setup")
           /\ InProgress' = InProgress \cup {e} /\ Top(t)'.at = "event"
           /\ ~InFrame(Main, "setup")'
<1> DEFINE n == Len(frames[t])
           f == Event(e)
<1>0. f \in EventFrame /\ f.at = "event" /\ f.event = e /\ f \in Frame
      BY DEF Event, EventFrame, EventLabels, Frame
<1>1. /\ n \in Nat \ {0} /\ Nested(frames[t], n, t) /\ Top(t) = frames[t][n]
      /\ \A i \in 1 .. n : Nested(frames[t], i, t)
      BY TopType
<1>2. Kept(t, n - 1) /\ Len(frames'[t]) = n /\ Top(t)' = f /\ frames'[t][n] = f
      BY <1>0, ReplaceKept
<1> HIDE DEF n, f
<1>3. n - 1 + 1 .. Len(frames'[t]) = {n} BY <1>1, <1>2
<1>4. n = 2 /\ t = Main BY <1>1 DEF Nested
<1>5. frames'[t][1].at = "app"
  <2>1. frames[t][1].at = "app" BY <1>1 DEF Nested
  <2>2. 1 \in 1 .. n - 1 BY <1>4
  <2> QED BY <1>2, <2>1, <2>2 DEF Kept
<1>6. Nested(frames'[t], n, t) BY <1>0, <1>2, <1>4, <1>5 DEF Nested
<1>7. Nesting' BY <1>2, <1>3, <1>6, KeptNests
<1>8. Labelled(t, {"event"}, "setup") BY <1>0, <1>2, <1>3, KeptLabels
<1>9. /\ \A d \in InProgress' : d \in InProgress \/ d = e
      /\ \A d \in InProgress : d \in InProgress'
  <2>1. Top(t).at \notin Unrecorded BY DEF Unrecorded
  <2> QED BY <1>0, <1>2, <1>3, <2>1, KeptEvents
<1>10. DOMAIN frames'[t] = 1 .. n BY <1>1, <1>2 DEF Kept
<1>11. e \in InProgress'
  <2>1. \E i \in DOMAIN frames'[t] : frames'[t][i].at \in Unrecorded /\ frames'[t][i].event = e
        BY <1>0, <1>1, <1>2, <1>10 DEF Unrecorded
  <2>2. Flying(e)' BY <2>1 DEF Flying
  <2> QED BY <2>2, FlyingIs2
<1>12. InProgress' = InProgress \cup {e} BY <1>9, <1>11
<1>13. ~InFrame(Main, "setup")'
  <2>1. \A i \in DOMAIN frames'[t] : frames'[t][i].at # "setup"
        BY <1>0, <1>2, <1>4, <1>5, <1>10
  <2> QED BY <1>4, <2>1 DEF InFrame
<1> QED BY <1>0, <1>2, <1>7, <1>8, <1>12, <1>13 DEF Kept

-----------------------------------------------------------------------------
(* The steps *)

LEMMA TopIn ==
    ASSUME TypeInv, Nesting, NEW t \in Threads
    PROVE  InFrame(t, Top(t).at)
<1>1. Len(frames[t]) \in DOMAIN frames[t] /\ Top(t) = frames[t][Len(frames[t])] BY TopType
<1> QED BY <1>1 DEF InFrame

\* A thread that is in the application is in nothing else.
LEMMA AppTop ==
    ASSUME TypeInv, Nesting, NEW t \in Threads, Top(t).at = "app"
    PROVE  \A l : InFrame(t, l) => l = "app"
<1> DEFINE n == Len(frames[t])
<1>1. n \in Nat \ {0} /\ Nested(frames[t], n, t) /\ Top(t) = frames[t][n] /\ DOMAIN frames[t] = 1 .. n
      BY TopType
<1>2. n = 1 BY <1>1 DEF Nested
<1> QED BY <1>1, <1>2 DEF InFrame

LEMMA StartTop ==
    TypeInv /\ Nesting =>
        \A t \in Threads : Top(t).at = "setup" => t = Main /\ ~InFrame(t, "start")
<1> SUFFICES ASSUME TypeInv, Nesting, NEW t \in Threads, Top(t).at = "setup"
             PROVE  t = Main /\ ~InFrame(t, "start")
    OBVIOUS
<1> DEFINE n == Len(frames[t])
<1>1. n \in Nat \ {0} /\ Nested(frames[t], n, t) /\ Top(t) = frames[t][n] /\ DOMAIN frames[t] = 1 .. n
      BY TopType
<1>2. n = 2 /\ t = Main /\ frames[t][1].at = "app" BY <1>1 DEF Nested
<1> QED BY <1>1, <1>2 DEF InFrame

LEMMA StartTop2 == (TypeInv /\ Nesting =>
        \A t \in Threads : Top(t).at = "setup" => t = Main /\ ~InFrame(t, "start"))'
  BY StartTop, PTL

(* What an event of the application that is owed may not find: a shield.  *)
LEMMA OwnUnshielded ==
    ASSUME TypeInv, Nesting, Shields, Counted, NEW t \in Threads, Top(t).at = "event", shield[t]
    PROVE  Top(t).event \notin owed
<1> DEFINE n == Len(frames[t])
<1>1. n \in Nat \ {0} /\ Nested(frames[t], n, t) /\ Top(t) = frames[t][n] /\ DOMAIN frames[t] = 1 .. n
      BY TopType
<1>2. PICK i \in 1 .. n : frames[t][i].at \in {"probe", "unprotect"} BY <1>1 DEF Shields, InFrame
<1>3. Nested(frames[t], i, t) BY TopType
<1>4. i > 1 /\ i # n BY <1>1, <1>2, <1>3 DEF Nested, EventLabels
<1>5. n # 2 BY <1>1, <1>4
<1>6. Top(t).event.number \notin 1 .. MaxEvents BY <1>1, <1>5 DEF Nested, EventLabels
<1>7. ASSUME Top(t).event \in owed PROVE FALSE
  <2>1. /\ Top(t).event.thread \in Threads
        /\ Top(t).event.number \in 1 .. count[Top(t).event.thread]
        /\ count[Top(t).event.thread] <= MaxEvents
        BY <1>7 DEF Counted
  <2>2. count[Top(t).event.thread] \in Nat BY <2>1 DEF TypeInv
  <2> QED BY <1>6, <2>1, <2>2, BoundsAssumption
<1> QED BY <1>7

LEMMA StillRuns == ~gone' => FirstTraceSaved'
  BY DEF FirstTraceSaved, Saved

(* Steps that have nothing to do with the file. *)
LEMMA PendingStays ==
    ASSUME UNCHANGED <<infos, allocated, buffer, file, taken>>, First' \subseteq First,
           \A u \in Threads : \A l \in Writing \cup {"endup"} : InFrame(u, l)' <=> InFrame(u, l)
    PROVE  Pending => Pending'
  BY DEF Pending, Unbegun, Begun, Flushes, Writing

\* Who has not written the buffer can be seen from its functions.
LEMMA PendingUnwritten == Pending => Unwritten
  BY DEF Pending, Unbegun, Begun, Unwritten

LEMMA OpenedOnceStays ==
    ASSUME OpenedOnce, UNCHANGED <<file, disk, taken, overlapped>>,
           NEW t \in Threads, NEW in, NEW out, Labelled(t, in, out),
           "open" \notin in, "dump" \notin in, "close" \notin in
    PROVE  OpenedOnce'
  BY DEF OpenedOnce, Labelled, Apart, Opening, Flushes

(* A step that changes nothing but labels of other functions.              *)
Quiet == UNCHANGED <<prof, handlers, fxt, starts, gone, history>>

LEMMA QuietBooks ==
    ASSUME IInv, NEW t \in Threads, NEW in, NEW out, Labelled(t, in, out),
           Quiet, ~gone,
           \A l \in Writing \cup {"start", "setup", "endup", "ended"} : l \notin in,
           out \notin Writing \cup {"start", "setup", "endup"},
           handlers \/ \A l \in Later : l \notin in,
           Top(t)'.at = "exited" => ~On,
           \A e \in First : e \in InProgress' <=> e \in InProgress
    PROVE  Books'
<1> USE DEF Labelled
<1>0. /\ First' = First /\ On' = On /\ Main \in Threads
      /\ UNCHANGED <<prof, handlers, infos, active, allocated, buffer, file, disk, taken, starts>>
      /\ UNCHANGED <<gone, cutShort, overlapped>>
      BY MainAssumption DEF First, On, Quiet, fxt, history
<1>1. NotStarted'
  <2>1. InFrame(Main, "start")' <=> InFrame(Main, "start") BY <1>0
  <2>2. ASSUME ~handlers, NEW u \in Threads, NEW l \in Later PROVE ~InFrame(u, l)'
    <3>1. ~InFrame(u, l) /\ l \notin in BY <2>2 DEF IInv, Books, NotStarted
    <3> QED BY <3>1
  <2> QED BY <1>0, <2>1, <2>2 DEF IInv, Books, NotStarted
<1>2. \A u \in Threads : \A l \in Writing \cup {"setup", "endup", "ended"} :
          InFrame(u, l)' => InFrame(u, l)
      OBVIOUS
<1>3. \A u \in Threads : Writes(u)' => Writes(u) BY <1>2 DEF Writes
<1>4. SettingUp' BY <1>0, <1>2, <1>3 DEF IInv, Books, SettingUp
<1>5. NothingOwed' BY <1>0, <1>2 DEF IInv, Books, NothingOwed
<1>6. OnItsWay'
  <2>1. SUFFICES ASSUME On
                 PROVE  /\ InFrame(Main, "setup")' \/ (active /\ infos /\ allocated /\ file = "none")
                        /\ \A u \in Threads : ~InFrame(u, "endup")' /\ ~Writes(u)' /\ Top(u)'.at # "exited"
                        /\ First \subseteq buffer \cup InProgress'
                        /\ \A u \in Threads : InFrame(u, "ended")' => First \cap InProgress' = {}
        BY <1>0 DEF OnItsWay
  <2>2. OnItsWay BY DEF IInv, Books
  <2>3. InFrame(Main, "setup") => InFrame(Main, "setup")' BY <1>0
  <2>4. \A u \in Threads : Top(u)'.at # "exited" BY <2>1, <2>2 DEF OnItsWay
  <2> QED BY <1>2, <1>3, <2>1, <2>2, <2>3, <2>4 DEF OnItsWay
<1>7. OnceOff'
  <2>1. \A u \in Threads : \A l \in Writing \cup {"endup"} : InFrame(u, l)' <=> InFrame(u, l)
        BY <1>2
  <2>2. Pending => Pending' BY <1>0, <2>1, PendingStays
  <2> QED BY <1>0, <2>2 DEF IInv, Books, OnceOff
<1>8. OpenedOnce' BY <1>0, <1>2, OpenedOnceStays DEF IInv, Books, Writing
<1>9. FirstTraceSaved' BY <1>0, StillRuns
<1> QED BY <1>1, <1>4, <1>5, <1>6, <1>7, <1>8, <1>9 DEF Books

LEMMA CountedStays ==
    ASSUME Counted, UNCHANGED count, owed' \subseteq owed
    PROVE  Counted'
  BY DEF Counted

\* No step but those of EZTRACE_EVENT has to do with the shield.
LEMMA ShieldsStay ==
    ASSUME IInv, NEW t \in Threads, NEW in, NEW out, Labelled(t, in, out),
           \A u \in Threads : shield'[u] => shield[u], out \notin {"probe", "unprotect"}
    PROVE  Shields'
  BY DEF IInv, Shields, Labelled

LEMMA HandlersOn ==
    ASSUME IInv, NEW t \in Threads, Top(t).at \in Later
    PROVE  handlers
<1>1. InFrame(t, Top(t).at) BY TopIn DEF IInv
<1> QED BY <1>1 DEF IInv, Books, NotStarted

LEMMA EventProtectsInv ==
    ASSUME IInv, NEW t \in Threads, EventProtects(t)
    PROVE  IInv'
<1>0. TypeInv /\ Nesting /\ Shields /\ Counted BY DEF IInv
<1>1. Top(t).at = "event" /\ ~gone /\ Quiet /\ UNCHANGED count BY DEF EventProtects, Is, Quiet, history
<1>2. Counted' BY <1>0, <1>1, CountedStays DEF Quiet, history
<1>3. CASE shield[t]
  <2>1. Return(t) /\ UNCHANGED shield BY <1>3 DEF EventProtects
  <2>2. /\ frames' \in [Threads -> Seq(Frame)] /\ Nesting'
        /\ Labelled(t, {}, "event")
        /\ InProgress' \subseteq InProgress
        /\ \A e \in InProgress : e \in InProgress' \/ e = Top(t).event
        /\ Top(t)'.at \in {"app", "ended"}
        BY <1>0, <1>1, <2>1, ReturnIs DEF EventLabels
  <2>3. Top(t).event \notin owed BY <1>0, <1>1, <1>3, OwnUnshielded
  <2>4. \A e \in First : e \in InProgress' <=> e \in InProgress BY <2>2, <2>3 DEF First
  <2>5. Books' BY <1>1, <2>2, <2>4, QuietBooks DEF Writing
  <2>6. Shields' BY <2>1, <2>2, ShieldsStay
  <2>7. TypeInv' BY <1>0, <1>1, <2>1, <2>2 DEF TypeInv, Quiet
  <2> QED BY <1>2, <2>2, <2>5, <2>6, <2>7 DEF IInv
<1>4. CASE ~shield[t]
  <2>1. Goto(t, "probe") /\ shield' = [shield EXCEPT ![t] = TRUE] BY <1>4 DEF EventProtects
  <2>2. /\ frames' \in [Threads -> Seq(Frame)] /\ Nesting'
        /\ Labelled(t, {"probe"}, "event")
        /\ InProgress' \subseteq InProgress
        /\ \A e \in InProgress : e \in InProgress'
        /\ Top(t)'.at = "probe"
    <3>1. "probe" \in Labels /\ "probe" \in {"probe", "unprotect"} /\ "event" \in Unrecorded
          BY DEF Unrecorded, Labels, EventLabels
    <3> QED BY <1>0, <1>1, <2>1, <3>1, GotoEvent
  <2>3. \A l \in Later : l \notin {"probe"} BY DEF Later
  <2>4. Books' BY <1>1, <2>2, <2>3, QuietBooks DEF Writing
  <2>5. Shields'
    <3>1. InFrame(t, "probe")' BY <2>2 DEF Labelled
    <3>2. \A u \in Threads \ {t} : shield'[u] => InFrame(u, "probe")' \/ InFrame(u, "unprotect")'
          BY <1>0, <2>1, <2>2 DEF TypeInv, Shields, Labelled
    <3> QED BY <3>1, <3>2 DEF Shields
  <2>6. TypeInv' BY <1>0, <1>1, <2>1, <2>2 DEF TypeInv, Quiet
  <2> QED BY <1>2, <2>2, <2>4, <2>5, <2>6 DEF IInv
<1> QED BY <1>3, <1>4

LEMMA EventUnprotectsInv ==
    ASSUME IInv, NEW t \in Threads, EventUnprotects(t)
    PROVE  IInv'
<1>0. TypeInv /\ Nesting /\ Shields /\ Counted BY DEF IInv
<1>1. /\ Top(t).at = "unprotect" /\ ~gone /\ Quiet /\ UNCHANGED count
      /\ Return(t) /\ shield' = [shield EXCEPT ![t] = FALSE]
      BY DEF EventUnprotects, Is, Quiet, history
<1>2. /\ frames' \in [Threads -> Seq(Frame)] /\ Nesting'
      /\ Labelled(t, {}, "unprotect")
      /\ InProgress' \subseteq InProgress
      /\ \A e \in InProgress : e \in InProgress'
      /\ Top(t)'.at \in {"app", "ended"}
      BY <1>0, <1>1, ReturnIs DEF EventLabels, Unrecorded
<1>3. Books' BY <1>1, <1>2, QuietBooks DEF Writing
<1>4. Counted' BY <1>0, <1>1, CountedStays DEF Quiet, history
<1>5. Shields'
  <2>1. ~shield'[t] BY <1>0, <1>1 DEF TypeInv
  <2>2. \A u \in Threads \ {t} : shield'[u] => InFrame(u, "probe")' \/ InFrame(u, "unprotect")'
        BY <1>0, <1>1, <1>2 DEF TypeInv, Shields, Labelled
  <2> QED BY <2>1, <2>2 DEF Shields
<1>6. TypeInv' BY <1>0, <1>1, <1>2 DEF TypeInv, Quiet
<1> QED BY <1>2, <1>3, <1>4, <1>5, <1>6 DEF IInv

(* The steps that only go to another place. *)
LEMMA GotoQuiet ==
    ASSUME IInv, NEW t \in Threads, NEW label \in Labels, Goto(t, label),
           Quiet, ~gone, UNCHANGED <<count, shield>>, handlers,
           \/ label = "exit" /\ Top(t).at = "app"
           \/ label = "shielded" /\ Top(t).at = "handle"
    PROVE  IInv'
<1>0. TypeInv /\ Nesting /\ Shields /\ Counted BY DEF IInv
<1>1. label \notin EventLabels /\ Top(t).at \notin EventLabels BY DEF EventLabels
<1>2. /\ frames' \in [Threads -> Seq(Frame)] /\ Nesting'
      /\ Labelled(t, {label}, Top(t).at)
      /\ InProgress' = InProgress /\ Top(t)'.at = label
      BY <1>0, <1>1, GotoPlain
<1>3. Books' BY <1>2, QuietBooks DEF Writing
<1>4. Counted' BY <1>0, CountedStays DEF Quiet, history
<1>5. Shields' BY <1>2, ShieldsStay
<1>6. TypeInv' BY <1>0, <1>2 DEF TypeInv, Quiet
<1> QED BY <1>2, <1>3, <1>4, <1>5, <1>6 DEF IInv

(* The calls of eztrace_stop. *)
LEMMA CallsStop ==
    ASSUME IInv, NEW t \in Threads, NEW label \in Labels, Call(t, Function("stop"), label),
           Quiet, ~gone, UNCHANGED count, handlers,
           shield' \in [Threads -> BOOLEAN], \A u \in Threads : shield'[u] => shield[u],
           \/ label = "app" /\ Top(t).at = "app"
           \/ label = "exit" /\ Top(t).at = "shielded"
           \/ label = "exited" /\ Top(t).at = "exit"
    PROVE  IInv'
<1>0. TypeInv /\ Nesting /\ Shields /\ Counted BY DEF IInv
<1> DEFINE f == Function("stop")
<1>1. f \in Frame /\ f.at = "stop"
  <2>1. f \in [at : Labels] /\ f.at = "stop" BY DEF Function, Labels
  <2> QED BY <2>1 DEF Frame
<1> HIDE DEF f
<1>2. label \notin EventLabels /\ Top(t).at \notin EventLabels /\ "stop" \notin EventLabels BY DEF EventLabels
<1>3. /\ frames' \in [Threads -> Seq(Frame)] /\ Nesting'
      /\ Labelled(t, {label, "stop"}, Top(t).at)
      /\ InProgress' = InProgress /\ Top(t)' = f
  <2>1. Call(t, f, label) BY DEF f
  <2> QED BY <1>0, <1>1, <1>2, <2>1, CallPlain
<1>4. Books' BY <1>1, <1>3, QuietBooks DEF Writing
<1>5. Counted' BY <1>0, CountedStays DEF Quiet, history
<1>6. Shields' BY <1>3, ShieldsStay
<1>7. TypeInv' BY <1>0, <1>3 DEF TypeInv, Quiet
<1> QED BY <1>3, <1>4, <1>5, <1>6, <1>7 DEF IInv

LEMMA QuietSteps ==
    ASSUME IInv, NEW t \in Threads,
           AppStops \/ AppExits \/ Exits(t) \/ HandlerPasses(t) \/ HandlerShields(t)
    PROVE  IInv'
<1>0. TypeInv /\ Nesting /\ Main \in Threads BY MainAssumption DEF IInv
<1>1. CASE AppStops
  <2>1. handlers BY <1>1 DEF AppStops, IInv, Books, NotStarted
  <2> QED BY <1>0, <1>1, <2>1, CallsStop DEF AppStops, Is, Quiet, history, TypeInv, Labels
<1>2. CASE AppExits
  <2>1. handlers
    <3>1. ~InFrame(Main, "start") BY <1>0, <1>2, AppTop DEF AppExits, Is
    <3> QED BY <1>2, <3>1 DEF AppExits, IInv, Books, NotStarted
  <2> QED BY <1>0, <1>2, <2>1, GotoQuiet DEF AppExits, Is, Quiet, history, Labels
<1>3. CASE Exits(t)
  <2>1. handlers BY <1>3, HandlersOn DEF Exits, Is, Later
  <2> QED BY <1>0, <1>3, <2>1, CallsStop DEF Exits, Is, Quiet, history, TypeInv, Labels
<1>4. CASE HandlerPasses(t)
  <2>1. handlers BY <1>4, HandlersOn DEF HandlerPasses, Is, Later
  <2> QED BY <1>4, <2>1, GotoQuiet DEF HandlerPasses, Is, Quiet, history, Labels
<1>5. CASE HandlerShields(t)
  <2>1. handlers BY <1>5, HandlersOn DEF HandlerShields, Is, Later
  <2>2. shield' \in [Threads -> BOOLEAN] /\ \A u \in Threads : shield'[u] => shield[u]
        BY <1>0, <1>5 DEF HandlerShields, TypeInv
  <2> QED BY <1>5, <2>1, <2>2, CallsStop DEF HandlerShields, Is, Quiet, history, Labels
<1> QED BY <1>1, <1>2, <1>3, <1>4, <1>5

LEMMA SignalInv ==
    ASSUME IInv, NEW t \in Threads, NEW s \in Signals, Signal(t, s)
    PROVE  IInv'
<1>0. TypeInv /\ Nesting /\ Shields /\ Counted BY DEF IInv
<1> DEFINE f == Handler(s)
<1>1. f \in Frame /\ f.at = "handle"
  <2>1. f \in [at : Labels, signal : Signals \cup {Segv}] /\ f.at = "handle" BY DEF Handler, Labels
  <2> QED BY <2>1 DEF Frame
<1>2. /\ ~gone /\ handlers /\ Quiet /\ UNCHANGED <<count, shield>>
      /\ frames' = [frames EXCEPT ![t] = Append(@, f)]
      BY DEF Signal, Quiet, history
<1> HIDE DEF f
<1>3. "handle" \notin EventLabels \cup {"app", "start", "setup"} BY DEF EventLabels
<1>4. /\ frames' \in [Threads -> Seq(Frame)] /\ Nesting'
      /\ Labelled(t, {"handle"}, "none")
      /\ InProgress' = InProgress /\ Top(t)' = f
      BY <1>0, <1>1, <1>2, <1>3, PushIs
<1>5. Books' BY <1>1, <1>2, <1>4, QuietBooks DEF Writing
<1>6. Counted' BY <1>0, <1>2, CountedStays DEF Quiet, history
<1>7. Shields' BY <1>2, <1>4, ShieldsStay
<1>8. TypeInv' BY <1>0, <1>2, <1>4 DEF TypeInv, Quiet
<1> QED BY <1>4, <1>5, <1>6, <1>7, <1>8 DEF IInv

(* The event reaches the buffer. *)
LEMMA EventProbesInv ==
    ASSUME IInv, NEW t \in Threads, EventProbes(t)
    PROVE  IInv'
<1>0. TypeInv /\ Nesting /\ Shields /\ Counted /\ Books /\ Main \in Threads BY MainAssumption DEF IInv
<1>1. /\ Top(t).at = "probe" /\ ~gone /\ Goto(t, "unprotect")
      /\ buffer' = IF active THEN buffer \cup {Top(t).event} ELSE buffer
      /\ UNCHANGED <<prof, handlers, infos, active, allocated, file, disk, taken, shield>>
      /\ UNCHANGED <<count, starts, gone, owed, cutShort, overlapped>>
      BY DEF EventProbes, Is, history
<1>2. /\ frames' \in [Threads -> Seq(Frame)] /\ Nesting'
      /\ Labelled(t, {"unprotect"}, "probe")
      /\ InProgress' \subseteq InProgress
      /\ \A e \in InProgress : e \in InProgress' \/ e = Top(t).event
      /\ Top(t)'.at = "unprotect"
  <2>1. "unprotect" \in Labels /\ "unprotect" \in {"probe", "unprotect"} /\ "probe" \in Unrecorded
        BY DEF Unrecorded, Labels, EventLabels
  <2> QED BY <1>0, <1>1, <2>1, GotoEvent
<1>3. Counted' BY <1>0, <1>1, CountedStays
<1>4. Shields'
  <2>1. InFrame(t, "unprotect")' BY <1>2 DEF Labelled
  <2>2. \A u \in Threads \ {t} : shield'[u] => InFrame(u, "probe")' \/ InFrame(u, "unprotect")'
        BY <1>0, <1>1, <1>2 DEF Shields, Labelled
  <2> QED BY <2>1, <2>2 DEF Shields
<1>5. TypeInv' BY <1>0, <1>1, <1>2 DEF TypeInv
<1>6. \A u \in Threads : \A l : l \notin {"probe", "unprotect"} => (InFrame(u, l)' <=> InFrame(u, l))
      BY <1>2 DEF Labelled
<1>7. First' = First /\ (On' <=> On) BY <1>1 DEF First, On
<1>8. NotStarted' BY <1>0, <1>1, <1>6 DEF Books, NotStarted, Later
<1>9. SettingUp' BY <1>0, <1>1, <1>6 DEF Books, SettingUp, Writes, Writing
<1>10. NothingOwed' BY <1>0, <1>1, <1>6, <1>7 DEF Books, NothingOwed
<1>11. OnItsWay'
  <2>1. CASE On
    <3>1. OnItsWay BY <1>0 DEF Books
    <3>2. First \subseteq buffer' \cup InProgress'
      <4>1. CASE InFrame(Main, "setup")
        <5>1. First = {} BY <1>0, <2>1, <4>1 DEF Books, NothingOwed, On
        <5> QED BY <5>1
      <4>2. CASE ~InFrame(Main, "setup")
        <5>1. active BY <2>1, <3>1, <4>2 DEF OnItsWay
        <5> QED BY <1>1, <1>2, <2>1, <3>1, <5>1 DEF OnItsWay
      <4> QED BY <4>1, <4>2
    <3>3. \A u \in Threads : Top(u)'.at # "exited" BY <1>2, <2>1, <3>1 DEF OnItsWay, Labelled
    <3> QED BY <1>0, <1>1, <1>2, <1>6, <1>7, <2>1, <3>1, <3>2, <3>3 DEF OnItsWay, Writes, Writing
  <2>2. CASE ~On BY <1>7, <2>2 DEF OnItsWay
  <2> QED BY <2>1, <2>2
<1>12. OnceOff'
  <2>1. buffer \subseteq buffer' BY <1>1
  <2>2. \A u \in Threads : \A l \in Writing \cup {"endup"} : InFrame(u, l)' <=> InFrame(u, l)
        BY <1>6 DEF Writing
  <2>3. Pending => Pending' BY <1>1, <1>7, <2>1, <2>2 DEF Pending, Unbegun, Begun, Flushes, Writing
  <2> QED BY <1>0, <1>1, <1>7, <2>3 DEF Books, OnceOff
<1>13. FirstTraceSaved' BY <1>1, StillRuns
<1>14. OpenedOnce' BY <1>0, <1>1, <1>2, OpenedOnceStays DEF Books
<1>15. Books' BY <1>8, <1>9, <1>10, <1>11, <1>12, <1>13, <1>14 DEF Books
<1> QED BY <1>2, <1>3, <1>4, <1>5, <1>15 DEF IInv

(* A wrapper asks for an event. *)
LEMMA AppEventInv ==
    ASSUME IInv, NEW t \in Threads, AppEvent(t)
    PROVE  IInv'
<1>0. TypeInv /\ Nesting /\ Shields /\ Counted /\ Books /\ Main \in Threads BY MainAssumption DEF IInv
<1> DEFINE e == [thread |-> t, number |-> count[t] + 1, trace |-> starts]
<1>1. /\ Top(t).at = "app" /\ ~gone /\ count[t] < MaxEvents /\ Call(t, Event(e), "app")
      /\ count' = [count EXCEPT ![t] = @ + 1]
      /\ owed' = IF Recording THEN owed \cup {e} ELSE owed
      /\ UNCHANGED <<prof, handlers, infos, active, allocated, buffer, file, disk, taken, shield, starts, gone>>
      /\ UNCHANGED <<cutShort, overlapped>>
      BY DEF AppEvent, Is, fxt
<1>2. count[t] \in Nat /\ starts \in Nat BY <1>0 DEF TypeInv
<1>3. e \in Events /\ e.thread = t /\ e.number = count[t] + 1 /\ e.trace = starts BY <1>2 DEF Events
<1>4. e \notin owed BY <1>0, <1>2, <1>3 DEF Counted
<1> HIDE DEF e
<1>5. /\ frames' \in [Threads -> Seq(Frame)] /\ Nesting'
      /\ Labelled(t, {"app", "event"}, "app")
      /\ InProgress' = InProgress \cup {e} /\ Top(t)'.at = "event"
  <2>1. "app" \in Labels BY DEF Labels
  <2> QED BY <1>0, <1>1, <1>3, <2>1, CallEvent
<1>6. Counted'
  <2>1. count'[t] = count[t] + 1 /\ \A u \in Threads \ {t} : count'[u] = count[u]
        BY <1>0, <1>1 DEF TypeInv
  <2>2. count[t] + 1 <= MaxEvents BY <1>1, <1>2, BoundsAssumption
  <2>3. \A u \in Threads : count[u] \in Nat BY <1>0 DEF TypeInv
  <2>4. \A u \in Threads : count'[u] <= MaxEvents BY <1>0, <2>1, <2>2 DEF Counted
  <2>5. \A d \in owed : d.thread \in Threads /\ d.number \in 1 .. count'[d.thread]
        BY <1>0, <2>1, <2>3 DEF Counted
  <2>6. e.thread \in Threads /\ e.number \in 1 .. count'[e.thread] BY <1>2, <1>3, <2>1
  <2> QED BY <1>1, <2>4, <2>5, <2>6 DEF Counted
<1>7. Shields' BY <1>1, <1>5, ShieldsStay
<1>8. TypeInv'
  <2>1. count[t] + 1 \in Nat BY <1>2
  <2>2. count' \in [Threads -> Nat] BY <1>0, <1>1, <2>1 DEF TypeInv
  <2> QED BY <1>0, <1>1, <1>5, <2>2 DEF TypeInv
<1>9. \A u \in Threads : \A l : l \notin {"app", "event"} => (InFrame(u, l)' <=> InFrame(u, l))
      BY <1>5 DEF Labelled
<1>10. /\ (On' <=> On) /\ First \subseteq First' /\ First' \subseteq First \cup {e}
       /\ First' # First => Recording /\ starts = 1
  <2>1. owed \subseteq owed' /\ owed' \subseteq owed \cup {e} /\ (Recording \/ owed' = owed) BY <1>1
  <2>2. First' # First => e \in First' BY <2>1 DEF First
  <2> QED BY <1>1, <1>3, <2>1, <2>2 DEF First, On
<1>11. First' # First => /\ On /\ active /\ handlers /\ ~InFrame(Main, "setup")
                         /\ \A u \in Threads : ~InFrame(u, "ended")
  <2>1. SUFFICES ASSUME Recording, starts = 1
                 PROVE  /\ On /\ active /\ handlers /\ ~InFrame(Main, "setup")
                        /\ \A u \in Threads : ~InFrame(u, "ended")
        BY <1>10
  <2> QED BY <1>0, <2>1 DEF Recording, On, Books, NotStarted, SettingUp
<1>12. NotStarted' BY <1>0, <1>1, <1>9 DEF Books, NotStarted, Later
<1>13. SettingUp' BY <1>0, <1>1, <1>9 DEF Books, SettingUp, Writes, Writing
<1>14. NothingOwed' BY <1>0, <1>1, <1>9, <1>11 DEF Books, NothingOwed
<1>15. OnItsWay'
  <2>1. CASE On
    <3>1. OnItsWay BY <1>0 DEF Books
    <3>2. First' \subseteq buffer \cup InProgress' BY <1>5, <1>10, <2>1, <3>1 DEF OnItsWay
    <3>3. \A u \in Threads : InFrame(u, "ended") => First' \cap InProgress' = {}
          BY <1>4, <1>5, <1>11, <2>1, <3>1 DEF OnItsWay, First
    <3>4. \A u \in Threads : Top(u)'.at # "exited" BY <1>5, <2>1, <3>1 DEF OnItsWay, Labelled
    <3> QED BY <1>0, <1>1, <1>9, <2>1, <3>1, <3>2, <3>3, <3>4 DEF OnItsWay, Writes, Writing
  <2>2. CASE ~On BY <1>10, <2>2 DEF OnItsWay
  <2> QED BY <2>1, <2>2
<1>16. OnceOff'
  <2>1. SUFFICES ASSUME ~On PROVE OnceOff' BY <1>10 DEF OnceOff
  <2>2. First' = First BY <1>11, <2>1
  <2>3. \A u \in Threads : \A l \in Writing \cup {"endup"} : InFrame(u, l)' <=> InFrame(u, l)
        BY <1>9 DEF Writing
  <2>4. Pending => Pending' BY <1>1, <2>2, <2>3, PendingStays
  <2> QED BY <1>0, <1>1, <2>1, <2>2, <2>4 DEF Books, OnceOff
<1>17. FirstTraceSaved' BY <1>1, StillRuns
<1>18. OpenedOnce' BY <1>0, <1>1, <1>5, OpenedOnceStays DEF Books
<1>19. Books' BY <1>12, <1>13, <1>14, <1>15, <1>16, <1>17, <1>18 DEF Books
<1> QED BY <1>5, <1>6, <1>7, <1>8, <1>19 DEF IInv

LEMMA AppStartsInv ==
    ASSUME IInv, AppStarts
    PROVE  IInv'
<1>0. TypeInv /\ Nesting /\ Shields /\ Counted /\ Books /\ Main \in Threads BY MainAssumption DEF IInv
<1> DEFINE f == Function("start")
<1>1. /\ Top(Main).at = "app" /\ ~gone /\ ~prof /\ starts' = starts + 1 /\ Call(Main, f, "app")
      /\ UNCHANGED <<prof, handlers, infos, active, allocated, buffer, file, disk, taken, shield, count, gone>>
      /\ UNCHANGED <<owed, cutShort, overlapped>>
      BY DEF AppStarts, Is, fxt, history
<1>2. f \in Frame /\ f.at = "start"
  <2>1. f \in [at : Labels] /\ f.at = "start" BY DEF Function, Labels
  <2> QED BY <2>1 DEF Frame
<1> HIDE DEF f
<1>3. /\ frames' \in [Threads -> Seq(Frame)] /\ Nesting'
      /\ Labelled(Main, {"app", "start"}, "app")
      /\ InProgress' = InProgress /\ Top(Main)' = f
  <2>1. "app" \in Labels /\ "app" \notin EventLabels /\ "start" \notin EventLabels
        BY DEF Labels, EventLabels
  <2> QED BY <1>0, <1>1, <1>2, <2>1, CallPlain
<1>4. Counted' BY <1>0, <1>1, CountedStays
<1>5. Shields' BY <1>0, <1>1, <1>3, ShieldsStay
<1>6. starts \in Nat BY <1>0 DEF TypeInv
<1>7. TypeInv' BY <1>0, <1>1, <1>3, <1>6 DEF TypeInv
<1>8. \A u \in Threads : \A l : l \notin {"app", "start"} => (InFrame(u, l)' <=> InFrame(u, l))
      BY <1>3 DEF Labelled
<1>9. ~InFrame(Main, "start") /\ InFrame(Main, "start")' BY <1>0, <1>1, <1>3, AppTop DEF Labelled
<1>10. First' = First /\ ~On /\ ~On' BY <1>1 DEF First, On
<1>11. starts' <= 1 => starts = 0 /\ ~handlers
  <2>1. starts' <= 1 => starts = 0 BY <1>1, <1>6
  <2> QED BY <1>0, <2>1 DEF Books, NotStarted
<1>12. NotStarted'
  <2>1. ~handlers => starts = 0 BY <1>0, <1>9 DEF Books, NotStarted
  <2>2. starts' > 0 /\ (~handlers => starts' = 1) BY <1>1, <1>6, <2>1
  <2> QED BY <1>0, <1>1, <1>8, <1>9, <1>11, <2>2 DEF Books, NotStarted, Later
<1>13. SettingUp'
  <2>1. starts' <= 1 => ~InFrame(Main, "setup") BY <1>0, <1>11 DEF Books, NotStarted, Later
  <2>2. starts' <= 1 => ~InFrame(Main, "setup")' BY <1>0, <1>8, <2>1
  <2> QED BY <2>2 DEF SettingUp
<1>14. NothingOwed' BY <1>0, <1>6, <1>10, <1>11 DEF Books, NothingOwed
<1>15. OnItsWay' BY <1>10 DEF OnItsWay
<1>16. OnceOff'
  <2>1. \A u \in Threads : \A l \in Writing \cup {"endup"} : InFrame(u, l)' <=> InFrame(u, l)
        BY <1>8 DEF Writing
  <2>2. Pending => Pending' BY <1>1, <1>10, <2>1, PendingStays
  <2> QED BY <1>0, <1>1, <1>10, <2>2 DEF Books, OnceOff
<1>17. FirstTraceSaved' BY <1>1, StillRuns
<1>18. OpenedOnce' BY <1>0, <1>1, <1>3, OpenedOnceStays DEF Books
<1>19. Books' BY <1>12, <1>13, <1>14, <1>15, <1>16, <1>17, <1>18 DEF Books
<1> QED BY <1>3, <1>4, <1>5, <1>7, <1>19 DEF IInv

-----------------------------------------------------------------------------
(* eztrace_start *)

LEMMA StartActivatesInv ==
    ASSUME IInv, NEW t \in Threads, StartActivates(t)
    PROVE  IInv'
<1>0. TypeInv /\ Nesting /\ Shields /\ Counted /\ Books /\ Main \in Threads BY MainAssumption DEF IInv
<1>1. /\ Top(t).at = "start" /\ ~gone /\ prof' = TRUE /\ handlers' = TRUE /\ Goto(t, "setup")
      /\ UNCHANGED <<infos, active, allocated, buffer, file, disk, taken, shield, count, starts, gone>>
      /\ UNCHANGED <<owed, cutShort, overlapped>>
      BY DEF StartActivates, Is, fxt, history
<1>2. /\ frames' \in [Threads -> Seq(Frame)] /\ Nesting'
      /\ Labelled(t, {"setup"}, "start") /\ Top(t)'.at = "setup"
  <2>1. "setup" \in Labels /\ "setup" \notin EventLabels /\ "start" \notin EventLabels
        BY DEF Labels, EventLabels
  <2> QED BY <1>0, <1>1, <2>1, GotoPlain
<1>3. TypeInv' BY <1>0, <1>1, <1>2 DEF TypeInv
<1>4. Counted' BY <1>0, <1>1, CountedStays
<1>5. Shields' BY <1>1, <1>2, ShieldsStay
<1>6. t = Main /\ ~InFrame(Main, "start")' BY <1>2, <1>3, StartTop2
<1>7. InFrame(Main, "start") /\ InFrame(Main, "setup")' BY <1>0, <1>1, <1>2, <1>6, TopIn DEF Labelled
<1>8. \A u \in Threads : \A l : l \notin {"setup", "start"} => (InFrame(u, l)' <=> InFrame(u, l))
      BY <1>2 DEF Labelled
<1>9. First' = First /\ (On' => starts <= 1) BY <1>1 DEF First, On
<1>10. starts <= 1 => /\ ~handlers /\ ~active /\ ~infos /\ file = "none" /\ First = {}
                      /\ \A u \in Threads : \A l \in Later : ~InFrame(u, l)
       BY <1>0, <1>7 DEF Books, NotStarted, NothingOwed
<1>11. starts <= 1 => \A u \in Threads : /\ ~InFrame(u, "endup")' /\ ~Writes(u)' /\ ~InFrame(u, "ended")'
                                         /\ Top(u)'.at # "exited"
  <2>1. SUFFICES ASSUME starts <= 1, NEW u \in Threads
                 PROVE  ~InFrame(u, "endup")' /\ ~Writes(u)' /\ ~InFrame(u, "ended")' /\ Top(u)'.at # "exited"
        OBVIOUS
  <2>2. \A l \in {"endup", "flush", "open", "dump", "close", "done", "ended", "exited"} : ~InFrame(u, l)'
        BY <1>8, <1>10, <2>1 DEF Later
  <2>3. ~InFrame(u, "exited") BY <1>10, <2>1 DEF Later
  <2>4. Top(u)'.at # "exited"
    <3>1. CASE u = t BY <1>2, <3>1
    <3>2. CASE u # t
      <4>1. Top(u)' = Top(u) BY <1>2, <3>2 DEF Labelled
      <4> QED BY <1>0, <2>3, <4>1, TopIn
    <3> QED BY <3>1, <3>2
  <2> QED BY <2>2, <2>4 DEF Writes, Writing
<1>12. NotStarted'
  <2>1. starts > 0 BY <1>0, <1>7 DEF Books, NotStarted
  <2> QED BY <1>1, <1>6, <2>1 DEF NotStarted
<1>13. SettingUp' BY <1>1, <1>10, <1>11 DEF SettingUp
<1>14. NothingOwed' BY <1>1, <1>9, <1>10 DEF NothingOwed
<1>15. OnItsWay' BY <1>7, <1>9, <1>10, <1>11 DEF OnItsWay
<1>16. OnceOff'
  <2>1. \A u \in Threads : \A l \in Writing \cup {"endup"} : InFrame(u, l)' <=> InFrame(u, l)
        BY <1>8 DEF Writing
  <2>2. Pending => Pending' BY <1>1, <1>9, <2>1, PendingStays
  <2>3. ~On' => ~On BY <1>1 DEF On
  <2> QED BY <1>0, <1>1, <1>9, <2>2, <2>3 DEF Books, OnceOff
<1>17. FirstTraceSaved' BY <1>1, StillRuns
<1>18. OpenedOnce' BY <1>0, <1>1, <1>2, OpenedOnceStays DEF Books
<1>19. Books' BY <1>12, <1>13, <1>14, <1>15, <1>16, <1>17, <1>18 DEF Books
<1> QED BY <1>2, <1>3, <1>4, <1>5, <1>19 DEF IInv

LEMMA StartSetsUpInv ==
    ASSUME IInv, NEW t \in Threads, StartSetsUp(t)
    PROVE  IInv'
<1>0. TypeInv /\ Nesting /\ Shields /\ Counted /\ Books /\ Main \in Threads BY MainAssumption DEF IInv
<1> DEFINE e == [thread |-> t, number |-> 0, trace |-> starts]
<1>1. /\ Top(t).at = "setup" /\ ~gone
      /\ infos' = TRUE /\ allocated' = TRUE /\ active' = TRUE
      /\ frames' = [frames EXCEPT ![t] = Append(Front(@), Event(e))]
      /\ cutShort' = (cutShort \/ Unwritten)
      /\ UNCHANGED <<prof, handlers, file, disk, taken, shield, count, starts, gone, owed, overlapped>>
      BY DEF StartSetsUp, Is
<1>2. e \in Events BY <1>0 DEF Events, TypeInv
<1> HIDE DEF e
<1>3. /\ frames' \in [Threads -> Seq(Frame)] /\ Nesting'
      /\ Labelled(t, {"event"}, "setup") /\ Top(t)'.at = "event" /\ ~InFrame(Main, "setup")'
      BY <1>0, <1>1, <1>2, ReplaceIs
<1>4. TypeInv' BY <1>0, <1>1, <1>3 DEF TypeInv
<1>5. Counted' BY <1>0, <1>1, CountedStays
<1>6. Shields' BY <1>1, <1>3, ShieldsStay
<1>7. handlers BY <1>1, HandlersOn DEF Later
<1>8. InFrame(Main, "setup") BY <1>0, <1>1, TopIn, StartTop
<1>9. \A u \in Threads : \A l : l \notin {"event", "setup"} => (InFrame(u, l)' <=> InFrame(u, l))
      BY <1>3 DEF Labelled
<1>10. First' = First /\ (On' <=> On) BY <1>1 DEF First, On
<1>11. NotStarted' BY <1>0, <1>1, <1>7, <1>9 DEF Books, NotStarted
<1>12. SettingUp' BY <1>3 DEF SettingUp
<1>13. NothingOwed' BY <1>1, <1>3, <1>7 DEF NothingOwed
<1>14. OnItsWay'
  <2>1. CASE On
    <3>1. OnItsWay BY <1>0 DEF Books
    <3>2. file = "none" /\ First = {} BY <1>0, <1>8, <2>1 DEF Books, SettingUp, NothingOwed, On
    <3>3. \A u \in Threads : Top(u)'.at # "exited" BY <1>3, <2>1, <3>1 DEF OnItsWay, Labelled
    <3> QED BY <1>1, <1>9, <1>10, <2>1, <3>1, <3>2, <3>3 DEF OnItsWay, Writes, Writing
  <2>2. CASE ~On BY <1>10, <2>2 DEF OnItsWay
  <2> QED BY <2>1, <2>2
<1>15. OnceOff'
  <2> QED BY <1>0, <1>1, <1>10, PendingUnwritten DEF Books, OnceOff
<1>16. FirstTraceSaved' BY <1>1, StillRuns
<1>17. OpenedOnce' BY <1>0, <1>1, <1>3, OpenedOnceStays DEF Books
<1>18. Books' BY <1>11, <1>12, <1>13, <1>14, <1>15, <1>16, <1>17 DEF Books
<1> QED BY <1>3, <1>4, <1>5, <1>6, <1>18 DEF IInv

-----------------------------------------------------------------------------
(* eztrace_stop *)

(* The recorder is on: the events in progress are not owed any more. *)
LEMMA StopTestsInv ==
    ASSUME IInv, NEW t \in Threads, StopTests(t)
    PROVE  IInv'
<1>0. TypeInv /\ Nesting /\ Shields /\ Counted /\ Books /\ Main \in Threads BY MainAssumption DEF IInv
<1> DEFINE e == [thread |-> t, number |-> MaxEvents + 1, trace |-> starts]
<1>1. /\ Top(t).at = "stop" /\ ~gone
      /\ IF prof THEN Call(t, Event(e), "ended") /\ owed' = owed \ InProgress ELSE Return(t) /\ UNCHANGED owed
      /\ UNCHANGED <<prof, handlers, fxt, shield, count, starts, gone, cutShort, overlapped>>
      BY DEF StopTests, Is
<1>2. CASE prof
  <2>1. Call(t, Event(e), "ended") /\ owed' = owed \ InProgress BY <1>1, <1>2
  <2>2. MaxEvents + 1 \in Nat /\ MaxEvents + 1 \notin 1 .. MaxEvents BY BoundsAssumption
  <2>3. e \in Events /\ e.number = MaxEvents + 1 BY <1>0, <2>2 DEF Events, TypeInv
  <2>4. e \notin owed
    <3>1. SUFFICES ASSUME e \in owed PROVE FALSE OBVIOUS
    <3>2. e.thread = t /\ e.number \in 1 .. count[e.thread] BY <1>0, <3>1 DEF Counted
    <3>3. count[t] \in Nat /\ count[t] <= MaxEvents BY <1>0 DEF Counted, TypeInv
    <3> HIDE DEF e
    <3> QED BY <2>3, <3>2, <3>3, BoundsAssumption
  <2> HIDE DEF e
  <2>5. /\ frames' \in [Threads -> Seq(Frame)] /\ Nesting'
        /\ Labelled(t, {"ended", "event"}, "stop")
        /\ InProgress' = InProgress \cup {e} /\ Top(t)'.at = "event"
    <3>1. "ended" \in Labels BY DEF Labels
    <3> QED BY <1>0, <1>1, <2>1, <2>2, <2>3, <3>1, CallEvent
  <2>6. TypeInv' BY <1>0, <1>1, <2>5 DEF TypeInv
  <2>7. Counted' BY <1>0, <1>1, <2>1, CountedStays
  <2>8. Shields' BY <1>1, <2>5, ShieldsStay
  <2>9. handlers BY <1>0, <1>2 DEF Books, NotStarted
  <2>10. \A u \in Threads : \A l : l \notin {"ended", "event", "stop"} => (InFrame(u, l)' <=> InFrame(u, l))
         BY <2>5 DEF Labelled
  <2>11. /\ First' \subseteq First /\ First' \cap InProgress = {} /\ e \notin First' /\ (On' <=> On)
         /\ UNCHANGED <<prof, handlers, infos, active, allocated, buffer, file, disk, taken, starts>>
         /\ UNCHANGED <<gone, cutShort, overlapped>>
         BY <1>1, <2>1, <2>4 DEF First, On, fxt
  <2>12. NotStarted' BY <1>0, <2>9, <2>10, <2>11 DEF Books, NotStarted
  <2>13. SettingUp' BY <1>0, <2>10, <2>11 DEF Books, SettingUp, Writes, Writing
  <2>14. NothingOwed' BY <1>0, <2>9, <2>10, <2>11 DEF Books, NothingOwed
  <2>15. OnItsWay'
    <3>1. CASE On
      <4>1. OnItsWay BY <1>0 DEF Books
      <4>2. First' \subseteq buffer \cup InProgress' /\ First' \cap InProgress' = {}
            BY <2>5, <2>11, <3>1, <4>1 DEF OnItsWay
      <4>3. \A u \in Threads : Top(u)'.at # "exited" BY <2>5, <3>1, <4>1 DEF OnItsWay, Labelled
      <4> QED BY <1>0, <2>10, <2>11, <3>1, <4>1, <4>2, <4>3 DEF OnItsWay, Writes, Writing
    <3>2. CASE ~On BY <2>11, <3>2 DEF OnItsWay
    <3> QED BY <3>1, <3>2
  <2>16. OnceOff'
    <3>1. \A u \in Threads : \A l \in Writing \cup {"endup"} : InFrame(u, l)' <=> InFrame(u, l)
          BY <2>10 DEF Writing
    <3>2. Pending => Pending' BY <2>11, <3>1, PendingStays
    <3> QED BY <1>0, <2>11, <3>2 DEF Books, OnceOff
  <2>17. FirstTraceSaved' BY <1>1, StillRuns
  <2>18. OpenedOnce' BY <1>0, <2>5, <2>11, OpenedOnceStays DEF Books
  <2>19. Books' BY <2>12, <2>13, <2>14, <2>15, <2>16, <2>17, <2>18 DEF Books
  <2> QED BY <2>5, <2>6, <2>7, <2>8, <2>19 DEF IInv
<1>3. CASE ~prof
  <2>1. Return(t) /\ UNCHANGED owed /\ Quiet BY <1>1, <1>3 DEF Quiet, history
  <2>2. /\ frames' \in [Threads -> Seq(Frame)] /\ Nesting'
        /\ Labelled(t, {}, "stop")
        /\ InProgress' \subseteq InProgress /\ \A d \in InProgress : d \in InProgress'
        BY <1>0, <1>1, <2>1, ReturnIs DEF Unrecorded
  <2>3. ~On BY <1>3 DEF On
  <2>4. Books' BY <1>1, <2>1, <2>2, <2>3, QuietBooks DEF Writing
  <2>5. Counted' BY <1>0, <1>1, <2>1, CountedStays
  <2>6. Shields' BY <1>1, <2>2, ShieldsStay
  <2>7. TypeInv' BY <1>0, <1>1, <2>2 DEF TypeInv
  <2> QED BY <2>2, <2>4, <2>5, <2>6, <2>7 DEF IInv
<1> QED BY <1>2, <1>3

(* A step of a thread while the first trace is not recorded any more.      *)
LEMMA OffBooks ==
    ASSUME IInv, NEW t \in Threads, NEW in, NEW out, Labelled(t, in, out), handlers,
           UNCHANGED <<handlers, starts, owed, gone>>, ~gone, ~On',
           "start" \notin in, "setup" \notin in, out # "start", SettingUp', OnceOff', OpenedOnce'
    PROVE  Books'
<1>0. Main \in Threads /\ First' = First BY MainAssumption DEF First
<1>1. \A l \in {"start", "setup"} : InFrame(Main, l)' => InFrame(Main, l) BY <1>0 DEF Labelled
<1>2. NotStarted' BY <1>1 DEF IInv, Books, NotStarted
<1>3. NothingOwed' BY <1>0, <1>1 DEF IInv, Books, NothingOwed
<1>4. OnItsWay' BY DEF OnItsWay
<1>5. FirstTraceSaved' BY StillRuns
<1> QED BY <1>2, <1>3, <1>4, <1>5 DEF Books

(* prof_activated = 0: from here on this thread writes the buffer.         *)
LEMMA StopDeactivatesInv ==
    ASSUME IInv, NEW t \in Threads, StopDeactivates(t)
    PROVE  IInv'
<1>0. TypeInv /\ Nesting /\ Shields /\ Counted /\ Books /\ Main \in Threads BY MainAssumption DEF IInv
<1>1. /\ Top(t).at = "ended" /\ ~gone /\ prof' = FALSE /\ Goto(t, "endup")
      /\ UNCHANGED <<handlers, infos, active, allocated, buffer, file, disk, taken, shield, count, starts, gone>>
      /\ UNCHANGED <<owed, cutShort, overlapped>>
      BY DEF StopDeactivates, Is, fxt, history
<1>2. /\ frames' \in [Threads -> Seq(Frame)] /\ Nesting' /\ Labelled(t, {"endup"}, "ended")
  <2>1. "endup" \in Labels /\ "endup" \notin EventLabels /\ "ended" \notin EventLabels
        BY DEF Labels, EventLabels
  <2> QED BY <1>0, <1>1, <2>1, GotoPlain
<1>3. TypeInv' BY <1>0, <1>1, <1>2 DEF TypeInv
<1>4. Counted' BY <1>0, <1>1, CountedStays
<1>5. Shields' BY <1>1, <1>2, ShieldsStay
<1>6. handlers BY <1>1, HandlersOn DEF Later
<1>7. InFrame(t, "endup")' /\ InFrame(t, "ended") BY <1>0, <1>1, <1>2, TopIn DEF Labelled
<1>8. \A u \in Threads : \A l : l \notin {"endup", "ended"} => (InFrame(u, l)' <=> InFrame(u, l))
      BY <1>2 DEF Labelled
<1>9. First' = First /\ ~On' BY <1>1 DEF First, On
<1>10. SettingUp' BY <1>0, <1>1, <1>8 DEF Books, SettingUp, Writes, Writing
<1>11. \A u \in Threads : \A l \in Writing : InFrame(u, l)' <=> InFrame(u, l) BY <1>8 DEF Writing
<1>12. OnceOff'
  <2>1. CASE On
    <3>1. OnItsWay BY <1>0 DEF Books
    <3>2. First \subseteq buffer BY <1>7, <2>1, <3>1 DEF OnItsWay
    <3>3. CASE InFrame(Main, "setup")
      <4>1. First = {} BY <1>0, <2>1, <3>3 DEF Books, NothingOwed, On
      <4> QED BY <1>9, <4>1 DEF OnceOff
    <3>4. CASE ~InFrame(Main, "setup")
      <4>1. allocated /\ infos /\ file = "none" BY <2>1, <3>1, <3>4 DEF OnItsWay
      <4>2. \A u \in Threads : \A l \in Writing : ~InFrame(u, l)
            BY <2>1, <3>1 DEF OnItsWay, Writes
      <4>3. Pending' BY <1>1, <1>7, <1>9, <1>11, <3>2, <4>1, <4>2 DEF Pending, Unbegun, Flushes, Writing
      <4> QED BY <4>3 DEF OnceOff
    <3> QED BY <3>3, <3>4
  <2>2. CASE ~On
    <3>1. Pending => Pending' BY <1>1, <1>7, <1>9, <1>11 DEF Pending, Unbegun, Begun, Flushes, Writing
    <3> QED BY <1>0, <1>1, <1>9, <2>2, <3>1 DEF Books, OnceOff
  <2> QED BY <2>1, <2>2
<1>13. OpenedOnce' BY <1>0, <1>1, <1>2, OpenedOnceStays DEF Books
<1>14. Books' BY <1>1, <1>2, <1>6, <1>9, <1>10, <1>12, <1>13, OffBooks
<1> QED BY <1>2, <1>3, <1>4, <1>5, <1>14 DEF IInv

(* The steps that end the process leave the functions as they are.         *)
LEMMA EndBooks ==
    ASSUME IInv, ~On, handlers, ProcessEnds, UNCHANGED <<prof, handlers, infos, allocated, buffer, file, disk, taken>>,
           UNCHANGED <<shield, frames, count, starts, owed, overlapped>>, active' => active
    PROVE  IInv'
<1>0. TypeInv /\ Nesting /\ Shields /\ Counted /\ Books BY DEF IInv
<1>1. cutShort' = (cutShort \/ Unwritten) BY DEF ProcessEnds
<1>2. \A u : \A l : InFrame(u, l)' <=> InFrame(u, l) BY DEF InFrame
<1>3. TypeInv' BY <1>0 DEF TypeInv
<1>4. Nesting' BY <1>0 DEF Nesting, Nested
<1>5. Shields' BY <1>0, <1>2 DEF Shields
<1>6. Counted' BY <1>0 DEF Counted
<1>7. First' = First /\ ~On' BY DEF First, On
<1>8. NotStarted' BY <1>0, <1>2 DEF Books, NotStarted
<1>9. SettingUp' BY <1>0, <1>2 DEF Books, SettingUp, Writes, Writing
<1>10. NothingOwed' BY <1>0, <1>2, <1>7 DEF Books, NothingOwed
<1>11. OnItsWay' BY <1>7 DEF OnItsWay
<1>12. ~cutShort' /\ ~overlapped => First \subseteq disk
       BY <1>0, <1>1, PendingUnwritten DEF Books, OnceOff
<1>13. OnceOff' BY <1>7, <1>12 DEF OnceOff
<1>14. FirstTraceSaved' BY <1>7, <1>12 DEF FirstTraceSaved, Saved, First
<1>15. OpenedOnce'
  <2>1. UNCHANGED <<frames, file, disk, taken, overlapped>> OBVIOUS
  <2>2. Singles' <=> Singles BY <2>1 DEF Singles, Single
  <2>3. Apart' <=> Apart BY <1>2 DEF Apart, Flushes
  <2>4. Opening' <=> Opening BY <1>2, <2>1 DEF Opening
  <2> QED BY <1>0, <1>2, <2>1, <2>2, <2>3, <2>4 DEF Books, OpenedOnce
<1>16. Books' BY <1>8, <1>9, <1>10, <1>11, <1>13, <1>14, <1>15 DEF Books
<1> QED BY <1>3, <1>4, <1>5, <1>6, <1>16 DEF IInv

LEMMA EndupHaltsInv ==
    ASSUME IInv, NEW t \in Threads, EndupHalts(t)
    PROVE  IInv'
<1>0. TypeInv /\ Nesting /\ Shields /\ Counted /\ Books /\ Main \in Threads BY MainAssumption DEF IInv
<1>1. /\ Top(t).at = "endup" /\ ~gone /\ active' = FALSE
      /\ UNCHANGED <<prof, handlers, infos, allocated, buffer, file, disk, taken, shield, count, starts>>
      /\ UNCHANGED <<owed, overlapped>>
      BY DEF EndupHalts, Is
<1>2. handlers /\ InFrame(t, "endup") BY <1>0, <1>1, TopIn, HandlersOn DEF Later
<1>3. ~On BY <1>0, <1>2 DEF Books, OnItsWay
<1>4. First' = First /\ ~On' BY <1>1, <1>3 DEF First, On
<1>5. Counted' BY <1>0, <1>1, CountedStays
<1>6. "endup" \in Labels /\ "endup" \notin EventLabels /\ "flush" \in Labels /\ "flush" \notin EventLabels
      BY DEF Labels, EventLabels
<1>7. CASE infos
  <2>1. Goto(t, "flush") /\ UNCHANGED <<gone, cutShort>> BY <1>7 DEF EndupHalts
  <2>2. /\ frames' \in [Threads -> Seq(Frame)] /\ Nesting' /\ Labelled(t, {"flush"}, "endup")
        BY <1>0, <1>1, <1>6, <2>1, GotoPlain
  <2>3. TypeInv' BY <1>0, <1>1, <2>2 DEF TypeInv
  <2>4. Shields' BY <1>1, <2>2, ShieldsStay
  <2>5. \A u \in Threads : \A l : l \notin {"endup", "flush"} => (InFrame(u, l)' <=> InFrame(u, l))
        BY <2>2 DEF Labelled
  <2>6. SettingUp' BY <1>0, <1>1, <1>7, <2>5 DEF Books, SettingUp
  <2>7. OnceOff'
    <3>1. InFrame(t, "flush")' BY <2>2 DEF Labelled
    <3>2. Pending => Pending' BY <1>1, <1>4, <2>5, <3>1 DEF Pending, Unbegun, Begun, Flushes
    <3> QED BY <1>0, <1>1, <1>3, <1>4, <2>1, <3>2 DEF Books, OnceOff
  <2>8. OpenedOnce' BY <1>0, <1>1, <2>2, OpenedOnceStays DEF Books
  <2>9. Books' BY <1>1, <1>2, <1>4, <2>1, <2>2, <2>6, <2>7, <2>8, OffBooks
  <2> QED BY <1>5, <2>2, <2>3, <2>4, <2>9 DEF IInv
<1>8. CASE ~infos /\ ProcessEnds /\ UNCHANGED frames BY <1>1, <1>2, <1>3, <1>8, EndBooks
<1>9. CASE ~infos /\ Call(t, Handler(Segv), "endup") /\ UNCHANGED <<gone, cutShort>>
  <2> DEFINE f == Handler(Segv)
  <2>1. f \in Frame /\ f.at = "handle"
    <3>1. f \in [at : Labels, signal : Signals \cup {Segv}] /\ f.at = "handle" BY DEF Handler, Labels
    <3> QED BY <3>1 DEF Frame
  <2>2. Call(t, f, "endup") BY <1>9
  <2> HIDE DEF f
  <2>3. frames' \in [Threads -> Seq(Frame)] /\ Nesting' /\ Labelled(t, {"endup", "handle"}, "endup")
    <3>1. "handle" \notin EventLabels BY DEF EventLabels
    <3> QED BY <1>0, <1>1, <1>6, <2>1, <2>2, <3>1, CallPlain
  <2>4. TypeInv' BY <1>0, <1>1, <2>3 DEF TypeInv
  <2>5. Shields' BY <1>1, <2>3, ShieldsStay
  <2>6. \A u \in Threads : \A l : l \notin {"endup", "handle"} => (InFrame(u, l)' <=> InFrame(u, l))
        BY <2>3 DEF Labelled
  <2>7. SettingUp' BY <1>0, <1>1, <2>6 DEF Books, SettingUp, Writes, Writing
  <2>8. OnceOff' BY <1>0, <1>1, <1>3, <1>4, <1>9 DEF Books, OnceOff, Pending
  <2>9. OpenedOnce' BY <1>0, <1>1, <2>3, OpenedOnceStays DEF Books
  <2>10. Books' BY <1>1, <1>2, <1>4, <1>9, <2>3, <2>7, <2>8, <2>9, OffBooks
  <2> QED BY <1>5, <2>3, <2>4, <2>5, <2>10 DEF IInv
<1> QED BY <1>7, <1>8, <1>9 DEF EndupHalts

(* The rest of fut_endup and fut_done: in the first start nobody is in     *)
(* fut_setup then.                                                         *)
LEMMA WritesOff ==
    ASSUME IInv, NEW t \in Threads, Top(t).at \in Writing
    PROVE  /\ handlers /\ ~On /\ InFrame(t, Top(t).at)
           /\ ~(starts <= 1 /\ InFrame(Main, "setup"))
<1>1. InFrame(t, Top(t).at) /\ handlers BY TopIn, HandlersOn DEF IInv, Later, Writing
<1>2. Writes(t) BY <1>1 DEF Writes, Writing
<1> QED BY <1>1, <1>2 DEF IInv, Books, OnItsWay, SettingUp

\* The functions after such a step.
Arrives(t, in) ==
    /\ frames' \in [Threads -> Seq(Frame)] /\ Nesting' /\ Labelled(t, in, Top(t).at)
    /\ "start" \notin in /\ "setup" \notin in

LEMMA WritingLabels ==
    ASSUME IInv, NEW t \in Threads, Top(t).at \in Writing
    PROVE  /\ \A label \in Writing \cup {"exit"} : Goto(t, label) => Arrives(t, {label})
           /\ Return(t) => Arrives(t, {})
<1>0. TypeInv /\ Nesting BY DEF IInv
<1>1. ASSUME NEW label \in Writing \cup {"exit"}, Goto(t, label) PROVE Arrives(t, {label})
  <2>1. /\ label \in Labels /\ label \notin EventLabels \cup {"app", "start", "setup"}
        /\ Top(t).at \notin EventLabels \cup {"app", "exit", "exited"}
        BY DEF Labels, EventLabels, Writing
  <2> QED BY <1>0, <1>1, <2>1, GotoPlain DEF Arrives
<1>2. ASSUME Return(t) PROVE Arrives(t, {})
  <2>1. Top(t).at \notin {"app", "exit", "exited"} BY DEF Writing
  <2> QED BY <1>0, <1>2, <2>1, ReturnIs DEF Arrives
<1> QED BY <1>1, <1>2

\* The steps of that part, but for what they do to the file.
LEMMA WritingStep ==
    ASSUME IInv, NEW t \in Threads, Top(t).at \in Writing, ~gone, NEW in,
           UNCHANGED <<prof, handlers, shield, count, starts, owed, gone>>,
           Arrives(t, in), OnceOff', OpenedOnce'
    PROVE  IInv'
<1>0. TypeInv /\ Nesting /\ Shields /\ Counted /\ Books /\ Main \in Threads BY MainAssumption DEF IInv
<1>1. /\ Top(t).at \notin {"start", "probe", "unprotect"}
      /\ frames' \in [Threads -> Seq(Frame)] /\ Nesting' /\ Labelled(t, in, Top(t).at)
      /\ "start" \notin in /\ "setup" \notin in
      BY DEF Writing, Arrives
<1>2. TypeInv' BY <1>0, <1>1 DEF TypeInv
<1>3. Counted' BY <1>0, CountedStays
<1>4. Shields' BY <1>1, ShieldsStay
<1>5. handlers /\ ~On /\ ~(starts <= 1 /\ InFrame(Main, "setup")) BY WritesOff
<1>6. First' = First /\ ~On' BY <1>5 DEF First, On
<1>7. SettingUp' BY <1>0, <1>1, <1>5 DEF SettingUp, Labelled
<1>8. Books' BY <1>1, <1>5, <1>6, <1>7, OffBooks
<1> QED BY <1>1, <1>2, <1>3, <1>4, <1>8 DEF IInv

\* A flush goes on from its one function: none is there twice.
LEMMA GotoFlush ==
    ASSUME TypeInv, Nesting, NEW t \in Threads, NEW label \in {"open", "dump"}, Goto(t, label), Singles,
           Top(t).at \notin EventLabels,
           Top(t).at \in {"open", "dump"} \/ ~Flushes(t)
    PROVE  /\ Singles'
           /\ \A l \in {"open", "dump"} : InFrame(t, l)' => l = label
<1> DEFINE n == Len(frames[t])
<1>1. /\ n \in Nat \ {0} /\ DOMAIN frames[t] = 1 .. n /\ Top(t) = frames[t][n] BY TopType
<1>2. /\ Kept(t, n - 1) /\ Len(frames'[t]) = n /\ Top(t)' = frames'[t][n] /\ Top(t)'.at = label
  <2>1. label \in Labels /\ label \notin EventLabels BY DEF Labels, EventLabels
  <2> QED BY <2>1, GotoKept
<1> HIDE DEF n
<1>3. DOMAIN frames'[t] = 1 .. n BY <1>1, <1>2 DEF Kept
<1>4. ASSUME NEW i \in 1 .. n, frames'[t][i].at \in {"open", "dump"} PROVE i = n
  <2>1. SUFFICES ASSUME i # n PROVE FALSE OBVIOUS
  <2>2. i \in 1 .. n - 1 BY <1>1, <2>1
  <2>3. frames[t][i].at \in {"open", "dump"} /\ i \in DOMAIN frames[t] BY <1>1, <1>2, <1>4, <2>2 DEF Kept
  <2>4. Flushes(t) BY <2>3 DEF Flushes, InFrame
  <2>5. frames[t][n].at \in {"open", "dump"} /\ n \in DOMAIN frames[t] BY <1>1, <2>4
  <2>6. Single(t) BY DEF Singles
  <2> QED BY <2>1, <2>3, <2>5, <2>6 DEF Single
<1>5. Single(t)' BY <1>3, <1>4 DEF Single
<1>6. \A u \in Threads \ {t} : Single(u)' BY <1>2 DEF Kept, Singles, Single
<1>7. \A l \in {"open", "dump"} : InFrame(t, l)' => l = label BY <1>2, <1>3, <1>4 DEF InFrame
<1> QED BY <1>5, <1>6, <1>7 DEF Singles

(* The test of fut_fd.  While a thread is between it and the end of its    *)
(* write, no other gets there unless that is known.                        *)
LEMMA FlushTestsInv ==
    ASSUME IInv, NEW t \in Threads, FlushTests(t)
    PROVE  IInv'
<1>0. TypeInv /\ Nesting /\ Books BY DEF IInv
<1>1. /\ Top(t).at = "flush" /\ ~gone
      /\ UNCHANGED <<prof, handlers, infos, active, allocated, buffer, file, disk, shield, count, starts, gone>>
      /\ UNCHANGED <<owed, cutShort>>
      BY DEF FlushTests, Is
<1>2. "flush" \in Writing BY DEF Writing
<1>3. ~On /\ InFrame(t, "flush") BY <1>1, <1>2, WritesOff
<1>4. First' = First /\ ~On' BY <1>1, <1>3 DEF First, On
<1>5. CASE ~allocated
  <2>1. Goto(t, "done") /\ UNCHANGED <<taken, overlapped>> BY <1>5 DEF FlushTests
  <2>2. "done" \in Writing BY DEF Writing
  <2>3. Arrives(t, {"done"}) BY <1>1, <1>2, <2>1, <2>2, WritingLabels
  <2>4. OpenedOnce' BY <1>0, <1>1, <2>1, <2>3, OpenedOnceStays DEF Books, Arrives
  <2>5. ~Pending BY <1>5 DEF Pending
  <2>6. OnceOff' BY <1>0, <1>1, <1>3, <1>4, <2>1, <2>5 DEF Books, OnceOff
  <2> QED BY <1>1, <1>2, <2>3, <2>4, <2>6, WritingStep
<1>6. CASE allocated
  <2>1. PICK label \in {"open", "dump"} : Goto(t, label) /\ label = IF file = "none" THEN "open" ELSE "dump"
        BY <1>6 DEF FlushTests
  <2>2. label \in Writing BY DEF Writing
  <2>3. /\ label = "open" <=> file = "none"
        /\ taken' = [taken EXCEPT ![t] = buffer] /\ overlapped' = (overlapped \/ InFile)
        BY <1>6, <2>1 DEF FlushTests
  <2>4. Arrives(t, {label}) BY <1>1, <1>2, <2>1, <2>2, WritingLabels
  <2>5. /\ \A u \in Threads : \A l : l \notin {"flush", label} => (InFrame(u, l)' <=> InFrame(u, l))
        /\ \A u \in Threads \ {t} : \A l : InFrame(u, l)' <=> InFrame(u, l)
        BY <1>1, <2>2, <2>4 DEF Labelled, Arrives
  <2>6. InFrame(t, label)' BY <2>4 DEF Arrives, Labelled
  <2>7. DOMAIN taken = Threads /\ taken'[t] = buffer /\ DOMAIN taken' = Threads
        BY <1>0, <2>3 DEF Books, OpenedOnce
  <2>8. ~overlapped' => ~overlapped /\ \A u \in Threads : ~Flushes(u)
        BY <2>3 DEF InFile, Flushes
  <2>9. OpenedOnce'
    <3>1. file = "none" => disk = {} /\ \A u \in Threads : ~InFrame(u, "dump")' /\ ~InFrame(u, "close")'
          BY <1>0, <2>2, <2>3, <2>5 DEF Books, OpenedOnce
    <3>2. ASSUME ~overlapped' PROVE Singles' /\ Apart' /\ Opening'
      <4>1. Singles BY <1>0, <2>8, <3>2 DEF Books, OpenedOnce
      <4>2. Singles'
        <5>1. "flush" \notin EventLabels /\ Top(t).at = "flush" BY <1>1 DEF EventLabels
        <5> QED BY <1>0, <2>1, <2>2, <2>8, <3>2, <4>1, <5>1, GotoFlush
      <4>3. \A u \in Threads : Flushes(u)' => u = t BY <2>5, <2>8, <3>2 DEF Flushes
      <4>4. Opening' BY <1>1, <2>2, <2>3, <2>5, <2>8, <3>2 DEF Opening, Flushes
      <4> QED BY <4>2, <4>3, <4>4 DEF Apart
    <3> QED BY <1>1, <2>7, <3>1, <3>2 DEF OpenedOnce
  <2>10. OnceOff'
    <3>1. SUFFICES ASSUME ~cutShort, ~overlapped', ~(First \subseteq disk) PROVE Pending'
          BY <1>1, <1>4 DEF OnceOff
    <3>2. Pending BY <1>0, <1>3, <2>8, <3>1 DEF Books, OnceOff
    <3>3. Unbegun BY <2>8, <3>1, <3>2 DEF Pending, Begun, Flushes
    <3>4. First \subseteq taken'[t] /\ label = "open" BY <2>3, <2>7, <3>3 DEF Unbegun
    <3>5. Begun' BY <1>1, <1>4, <2>6, <3>3, <3>4 DEF Begun, Unbegun, First
    <3>6. \A u \in Threads : ~InFrame(u, "close")' /\ ~InFrame(u, "done")'
          BY <2>2, <2>5, <3>2 DEF Pending
    <3> QED BY <1>1, <3>2, <3>5, <3>6 DEF Pending
  <2> QED BY <1>1, <1>2, <2>4, <2>9, <2>10, WritingStep
<1> QED BY <1>5, <1>6

(* The open: when it truncates the file, nothing was written to it.        *)
LEMMA FlushOpensInv ==
    ASSUME IInv, NEW t \in Threads, FlushOpens(t)
    PROVE  IInv'
<1>0. TypeInv /\ Nesting /\ Books BY DEF IInv
<1>1. /\ Top(t).at = "open" /\ ~gone /\ Goto(t, "dump") /\ file' = "open" /\ disk' = {}
      /\ UNCHANGED <<prof, handlers, infos, active, allocated, buffer, taken, shield, count, starts, gone>>
      /\ UNCHANGED <<owed, cutShort, overlapped>>
      BY DEF FlushOpens, Is, history
<1>2. "open" \in Writing /\ "dump" \in Writing BY DEF Writing
<1>3. ~On /\ InFrame(t, "open") BY <1>1, <1>2, WritesOff
<1>4. First' = First /\ ~On' BY <1>1, <1>3 DEF First, On
<1>5. Flushes(t) BY <1>3 DEF Flushes
<1>6. Arrives(t, {"dump"}) BY <1>1, <1>2, WritingLabels
<1>7. /\ \A u \in Threads : \A l : l \notin {"open", "dump"} => (InFrame(u, l)' <=> InFrame(u, l))
      /\ \A u \in Threads \ {t} : \A l : InFrame(u, l)' <=> InFrame(u, l)
      BY <1>1, <1>6 DEF Labelled, Arrives
<1>8. InFrame(t, "dump")' BY <1>6 DEF Arrives, Labelled
<1>9. ASSUME ~overlapped
      PROVE  /\ Singles' /\ ~InFrame(t, "open")' /\ file = "none" /\ disk = {}
             /\ \A u \in Threads : Flushes(u) \/ Flushes(u)' => u = t
  <2>1. Singles /\ Apart /\ Opening BY <1>0, <1>9 DEF Books, OpenedOnce
  <2>2. file = "none" /\ disk = {} BY <1>0, <1>3, <2>1 DEF Books, OpenedOnce, Opening
  <2>3. Singles' /\ ~InFrame(t, "open")'
    <3>1. "open" \notin EventLabels BY DEF EventLabels
    <3> QED BY <1>0, <1>1, <2>1, <3>1, GotoFlush
  <2>4. \A u \in Threads : Flushes(u) => u = t BY <1>5, <2>1 DEF Apart
  <2>5. \A u \in Threads : Flushes(u)' => u = t BY <1>7, <2>4 DEF Flushes
  <2> QED BY <2>2, <2>3, <2>4, <2>5
<1>10. OpenedOnce'
  <2>1. \A u \in Threads : ~overlapped => ~InFrame(u, "open")' BY <1>9 DEF Flushes
  <2> QED BY <1>0, <1>1, <1>9, <2>1 DEF Books, OpenedOnce, Apart, Opening
<1>11. OnceOff'
  <2>1. SUFFICES ASSUME ~cutShort, ~overlapped, ~(First \subseteq {}) PROVE Pending'
        BY <1>1, <1>4 DEF OnceOff
  <2>2. Pending BY <1>0, <1>3, <1>9, <2>1 DEF Books, OnceOff
  <2>3. Begun BY <1>5, <2>2 DEF Pending, Unbegun
  <2>4. First \subseteq taken[t] BY <1>9, <2>1, <2>3 DEF Begun, Flushes
  <2>5. Begun' BY <1>1, <1>4, <1>8, <2>4 DEF Begun
  <2>6. \A u \in Threads : ~InFrame(u, "close")' /\ ~InFrame(u, "done")' BY <1>7, <2>2 DEF Pending
  <2> QED BY <1>1, <2>2, <2>5, <2>6 DEF Pending
<1> QED BY <1>1, <1>2, <1>6, <1>10, <1>11, WritingStep

(* The write: it is the only one, so what is owed comes to the file.       *)
LEMMA FlushDumpsInv ==
    ASSUME IInv, NEW t \in Threads, FlushDumps(t)
    PROVE  IInv'
<1>0. TypeInv /\ Nesting /\ Books BY DEF IInv
<1>1. /\ Top(t).at = "dump" /\ ~gone /\ taken' = [taken EXCEPT ![t] = {}]
      /\ UNCHANGED <<prof, handlers, infos, active, allocated, buffer, file, shield, count, starts, gone>>
      /\ UNCHANGED <<owed, cutShort, overlapped>>
      BY DEF FlushDumps, Is, history
<1>2. PICK label \in {"close", "exit"} : Goto(t, label) BY DEF FlushDumps
<1>3. "dump" \in Writing /\ label \in Writing \cup {"exit"} BY DEF Writing
<1>4. ~On /\ InFrame(t, "dump") BY <1>1, <1>3, WritesOff
<1>5. First' = First /\ ~On' BY <1>1, <1>4 DEF First, On
<1>6. Arrives(t, {label}) BY <1>1, <1>2, <1>3, WritingLabels
<1>7. label \notin {"open", "dump"} OBVIOUS
<1>8. file # "none" BY <1>0, <1>4 DEF Books, OpenedOnce
<1>9. \A u \in Threads : \A l \in {"open", "dump"} : InFrame(u, l)' => InFrame(u, l)
      BY <1>6, <1>7 DEF Labelled, Arrives
<1>10. OpenedOnce'
  <2>1. DOMAIN taken' = Threads BY <1>0, <1>1 DEF Books, OpenedOnce
  <2>2. Singles => Singles' BY <1>6, <1>7 DEF Labelled, Arrives
  <2>3. Apart => Apart' BY <1>9 DEF Apart, Flushes
  <2>4. Opening => Opening' BY <1>1, <1>9 DEF Opening
  <2> QED BY <1>0, <1>1, <1>8, <2>1, <2>2, <2>3, <2>4 DEF Books, OpenedOnce
<1>11. OnceOff'
  <2>1. SUFFICES ASSUME ~cutShort, ~overlapped PROVE First \subseteq disk'
        BY <1>1, <1>5 DEF OnceOff
  <2>2. disk \subseteq disk' /\ (file # "closed" => disk' = disk \cup taken[t]) BY <2>1 DEF FlushDumps
  <2>3. CASE First \subseteq disk BY <2>2, <2>3
  <2>4. CASE Pending
    <3>1. Begun BY <1>4, <2>4 DEF Pending, Unbegun, Flushes
    <3>2. Apart BY <1>0, <2>1 DEF Books, OpenedOnce
    <3>3. First \subseteq taken[t] /\ file = "open" BY <1>4, <1>8, <3>1, <3>2 DEF Begun, Apart, Flushes
    <3> QED BY <2>2, <3>3
  <2> QED BY <1>0, <1>4, <2>1, <2>3, <2>4 DEF Books, OnceOff
<1> QED BY <1>1, <1>3, <1>6, <1>10, <1>11, WritingStep

\* The rest: the file is closed, or fut_flush has returned at once.
LEMMA ClosingSteps ==
    ASSUME IInv, NEW t \in Threads, EndupCloses(t) \/ StopReturns(t)
    PROVE  IInv'
<1>0. TypeInv /\ Nesting /\ Books BY DEF IInv
<1>1. /\ Top(t).at \in {"close", "done"} /\ ~gone
      /\ UNCHANGED <<prof, handlers, infos, disk, taken, shield, count, starts, gone>>
      /\ UNCHANGED <<owed, cutShort, overlapped>>
      BY DEF EndupCloses, StopReturns, Is, history
<1>2. file' \in {file, "closed"} /\ (Top(t).at = "close" => file' = "closed")
      /\ (Top(t).at # "close" => file' = file)
      BY DEF EndupCloses, StopReturns, Is
<1>3. Top(t).at \in Writing BY <1>1 DEF Writing
<1>4. ~On /\ InFrame(t, Top(t).at) BY <1>3, WritesOff
<1>5. First' = First /\ ~On' BY <1>1, <1>4 DEF First, On
<1>6. PICK in \in {{}, {"done"}, {"exit"}} : Arrives(t, in)
  <2>1. Goto(t, "done") \/ Goto(t, "exit") \/ Return(t) BY DEF EndupCloses, StopReturns
  <2>2. "done" \in Writing \cup {"exit"} /\ "exit" \in Writing \cup {"exit"} BY DEF Writing
  <2> QED BY <1>3, <2>1, <2>2, WritingLabels
<1>7. "open" \notin in /\ "dump" \notin in BY <1>6
<1>8. \A u \in Threads : \A l \in {"open", "dump"} : InFrame(u, l)' => InFrame(u, l)
      BY <1>6, <1>7 DEF Labelled, Arrives
<1>9. OpenedOnce'
  <2>1. CASE Top(t).at # "close"
    <3>1. "close" \notin in BY <1>6
    <3> QED BY <1>0, <1>1, <1>2, <1>6, <1>7, <2>1, <3>1, OpenedOnceStays DEF Books, Arrives
  <2>2. CASE Top(t).at = "close"
    <3>1. file # "none" /\ file' = "closed" BY <1>0, <1>2, <1>4, <2>2 DEF Books, OpenedOnce
    <3>2. Singles => Singles' BY <1>6, <1>7 DEF Labelled, Arrives
    <3>3. Apart => Apart' BY <1>8 DEF Apart, Flushes
    <3>4. Opening => Opening' BY <1>8, <3>1 DEF Opening
    <3> QED BY <1>0, <1>1, <3>1, <3>2, <3>3, <3>4 DEF Books, OpenedOnce
  <2> QED BY <2>1, <2>2
<1>10. OnceOff'
  <2>1. ~Pending BY <1>1, <1>4 DEF Pending
  <2> QED BY <1>0, <1>1, <1>4, <1>5, <2>1 DEF Books, OnceOff
<1> QED BY <1>1, <1>3, <1>6, <1>9, <1>10, WritingStep

LEMMA ExitedInv ==
    ASSUME IInv, NEW t \in Threads, Exited(t)
    PROVE  IInv'
<1>1. Top(t).at = "exited" BY DEF Exited, Is
<1>2. ~On /\ handlers BY <1>1, HandlersOn DEF IInv, Books, OnItsWay, Later
<1> QED BY <1>2, EndBooks DEF Exited, fxt

-----------------------------------------------------------------------------
(* The theorem *)

LEMMA InitInv == Init => IInv
<1> SUFFICES ASSUME Init PROVE IInv OBVIOUS
<1>0. Main \in Threads BY MainAssumption
<1> DEFINE f == [at |-> "app"]
<1>1. f \in Frame /\ f.at = "app"
  <2>1. f \in [at : Labels] /\ f.at = "app" BY DEF Labels
  <2> QED BY <2>1 DEF Frame
<1>2. frames = [t \in Threads |-> <<f>>] BY DEF Init
<1> HIDE DEF f
<1>3. \A t \in Threads : frames[t] = <<f>> /\ Len(frames[t]) = 1 /\ frames[t][1] = f /\ DOMAIN frames[t] = {1}
      BY <1>1, <1>2
<1>4. \A t \in Threads : \A l : InFrame(t, l) => l = "app" BY <1>1, <1>3 DEF InFrame
<1>5. TypeInv
  <2>1. <<f>> \in Seq(Frame) BY <1>1
  <2>2. frames \in [Threads -> Seq(Frame)] BY <1>2, <2>1
  <2> QED BY <2>2 DEF Init, TypeInv
<1>6. Nesting
  <2>1. ASSUME NEW t \in Threads, NEW i \in 1 .. 1 PROVE Nested(frames[t], i, t)
    <3>1. i = 1 OBVIOUS
    <3> QED BY <1>1, <1>3, <3>1 DEF Nested, EventLabels
  <2>2. \A t \in Threads : Len(frames[t]) > 0 /\ 1 .. Len(frames[t]) = 1 .. 1 BY <1>3
  <2>3. \A t \in Threads : \A i \in 1 .. Len(frames[t]) : Nested(frames[t], i, t) BY <2>1, <2>2
  <2> QED BY <2>2, <2>3 DEF Nesting
<1>7. Shields /\ Counted BY BoundsAssumption DEF Init, Shields, Counted
<1>8. First = {} /\ ~On BY DEF Init, First, On
<1>9. NotStarted BY <1>0, <1>4 DEF Init, NotStarted, Later
<1>10. SettingUp /\ NothingOwed /\ OnItsWay /\ OnceOff
       BY <1>0, <1>4, <1>8 DEF SettingUp, NothingOwed, OnItsWay, OnceOff
<1>11. FirstTraceSaved BY DEF Init, FirstTraceSaved, Saved
<1>12. OpenedOnce
  <2>1. \A t \in Threads : \A i \in DOMAIN frames[t] : frames[t][i].at \notin {"open", "dump"} BY <1>1, <1>3
  <2>2. Singles BY <2>1 DEF Singles, Single
  <2>3. DOMAIN taken = Threads /\ file = "none" /\ disk = {} BY DEF Init
  <2> QED BY <1>4, <2>2, <2>3 DEF OpenedOnce, Apart, Opening, Flushes
<1> QED BY <1>5, <1>6, <1>7, <1>9, <1>10, <1>11, <1>12 DEF IInv, Books

LEMMA StutterInv == IInv /\ UNCHANGED vars => IInv'
<1> SUFFICES ASSUME IInv, UNCHANGED vars PROVE IInv' OBVIOUS
<1>0. /\ UNCHANGED <<prof, handlers, infos, active, allocated, buffer, file, disk, taken>>
      /\ UNCHANGED <<shield, frames, count, starts, gone, owed, cutShort, overlapped>>
      BY DEF vars, fxt, history
<1>1. \A u : \A l : InFrame(u, l)' <=> InFrame(u, l) BY <1>0 DEF InFrame
<1>2. \A u : Top(u)' = Top(u) BY <1>0 DEF Top
<1>3. InProgress' = InProgress /\ First' = First /\ (On' <=> On) BY <1>0 DEF InProgress, First, On
<1>4. TypeInv' BY <1>0 DEF IInv, TypeInv
<1>5. Nesting' BY <1>0 DEF IInv, Nesting, Nested
<1>6. Shields' BY <1>0, <1>1 DEF IInv, Shields
<1>7. Counted' BY <1>0 DEF IInv, Counted
<1>8. NotStarted' BY <1>0, <1>1 DEF IInv, Books, NotStarted
<1>9. SettingUp' BY <1>0, <1>1 DEF IInv, Books, SettingUp, Writes, Writing
<1>10. NothingOwed' BY <1>0, <1>1, <1>3 DEF IInv, Books, NothingOwed
<1>11. OnItsWay' BY <1>0, <1>1, <1>2, <1>3 DEF IInv, Books, OnItsWay, Writes, Writing
<1>12. OnceOff'
  <2>1. Pending => Pending' BY <1>0, <1>1, <1>3, PendingStays
  <2> QED BY <1>0, <1>3, <2>1 DEF IInv, Books, OnceOff
<1>13. FirstTraceSaved' BY <1>0 DEF IInv, Books, FirstTraceSaved, Saved
<1>14. OpenedOnce'
  <2>1. Singles' <=> Singles BY <1>0 DEF Singles, Single
  <2>2. Apart' <=> Apart BY <1>1 DEF Apart, Flushes
  <2>3. Opening' <=> Opening BY <1>0, <1>1 DEF Opening
  <2> QED BY <1>0, <1>1, <2>1, <2>2, <2>3 DEF IInv, Books, OpenedOnce
<1> QED BY <1>4, <1>5, <1>6, <1>7, <1>8, <1>9, <1>10, <1>11, <1>12, <1>13, <1>14 DEF IInv, Books

LEMMA NextInv == IInv /\ [Next]_vars => IInv'
<1> SUFFICES ASSUME IInv, [Next]_vars PROVE IInv' OBVIOUS
<1>1. CASE UNCHANGED vars BY <1>1, StutterInv
<1>2. CASE App BY <1>2, AppEventInv, AppStartsInv, QuietSteps, MainAssumption DEF App
<1>3. ASSUME NEW t \in Threads, Step(t) PROVE IInv'
  <2>1. CASE EventProtects(t) \/ EventProbes(t) \/ EventUnprotects(t)
        BY <2>1, EventProtectsInv, EventProbesInv, EventUnprotectsInv
  <2>2. CASE StartActivates(t) \/ StartSetsUp(t) BY <2>2, StartActivatesInv, StartSetsUpInv
  <2>3. CASE StopTests(t) \/ StopDeactivates(t) \/ EndupHalts(t)
        BY <2>3, StopTestsInv, StopDeactivatesInv, EndupHaltsInv
  <2>4. CASE FlushTests(t) \/ FlushOpens(t) \/ FlushDumps(t) \/ EndupCloses(t) \/ StopReturns(t)
        BY <2>4, FlushTestsInv, FlushOpensInv, FlushDumpsInv, ClosingSteps
  <2>5. CASE Exits(t) \/ HandlerPasses(t) \/ HandlerShields(t) BY <2>5, QuietSteps
  <2>6. CASE Exited(t) BY <2>6, ExitedInv
  <2> QED BY <1>3, <2>1, <2>2, <2>3, <2>4, <2>5, <2>6 DEF Step
<1>4. ASSUME NEW t \in Threads, HandlerSpins(t) PROVE IInv' BY <1>4, StutterInv DEF HandlerSpins
<1>5. ASSUME NEW t \in Threads, NEW s \in Signals, Signal(t, s) PROVE IInv' BY <1>5, SignalInv
<1>6. CASE Terminated BY <1>6, StutterInv DEF Terminated
<1> QED BY <1>1, <1>2, <1>3, <1>4, <1>5, <1>6 DEF Next

LEMMA AlwaysIInv == Spec => []IInv
  BY InitInv, NextInv, PTL DEF Spec

(* With any number of threads, events, starts and signals: when the        *)
(* process has ended, what the application asked for while eztrace_start   *)
(* and eztrace_stop of the first trace were not at work is in its file,    *)
(* wherever the signals came (eztrace_stop, eztrace_signal_handler),       *)
(* unless the process ended, or eztrace_start came again, between          *)
(* prof_activated = 0 and the write, or two threads that had both found    *)
(* prof_activated set were in fut_flush at once, which has no lock         *)
(* (fut_setup.c:369, 387).                                                 *)
THEOREM FirstTraceSavedHolds == Spec => []FirstTraceSaved
<1>1. IInv => FirstTraceSaved BY DEF IInv, Books
<1> QED BY <1>1, AlwaysIInv, PTL
=============================================================================
