---------------------------- MODULE PthreadConvert ----------------------------
(***************************************************************************)
(* The handlers of the pthread events                                      *)
(* (src/src/modules/pthread/eztrace_convert_pthread.c and .h), as          *)
(* operators on what the converter knows of one process: the locks, the    *)
(* stack of states of each thread and the warnings printed.                *)
(*                                                                         *)
(* An event is [code, thread, lock, ret]; the locks know their kind.  The  *)
(* handlers of the kinds of locks differ by the names of the states only,  *)
(* and have one operator.  Time is the number of events handled.           *)
(***************************************************************************)
EXTENDS Naturals, Sequences

CONSTANTS Threads, NoThread,
          Mutexes, Spins, RWLocks, Semaphores, Conditions, Barriers

Locks == Mutexes \cup Spins \cup RWLocks \cup Semaphores \cup Conditions \cup Barriers

\* enum lock_type_t
Kind(l) == CASE l \in Mutexes -> "mutex"
             [] l \in Spins -> "spin"
             [] l \in RWLocks -> "rwlock"
             [] l \in Semaphores -> "sem"
             [] l \in Barriers -> "barrier"
             [] OTHER -> "cond"

(* The states that the handlers push. *)
BlockedOn(l) == <<"Blocked", Kind(l)>>
CriticalIn(l) == <<"Critical", Kind(l)>>

(* __new_lock_info *)
NewLockInfo == [nb_acquire |-> 0, last_owner |-> NoThread,
                time_acquire |-> 0, time_release |-> 0, duration |-> 0]

NothingKnown == [clock |-> 0,
                 info |-> [l \in Locks |-> NewLockInfo],
                 stack |-> [t \in Threads |-> << >>],
                 warned |-> {}]

(* pushState and popState; popping the state that the thread was created   *)
(* with changes nothing.                                                   *)
PushState(c, t, state) == [c EXCEPT !.stack[t] = Append(@, state)]
PopState(c, t) ==
    [c EXCEPT !.stack[t] = IF @ = << >> THEN @ ELSE SubSeq(@, 1, Len(@) - 1)]

(* record_lock_acquired *)
Acquired(c, t, l) ==
    [c EXCEPT !.info[l].time_acquire = c.clock,
              !.info[l].nb_acquire = @ + 1,
              !.info[l].last_owner = t]

(* Fault: the section is measured from the last release. *)
ReleasedLater(c, l) ==
    [c EXCEPT !.info[l].time_release = c.clock,
              !.info[l].duration = @ + c.clock]

(* record_lock_release *)
Released(c, l) ==
    [c EXCEPT !.info[l].time_release = c.clock,
              !.info[l].duration = @ + c.clock - c.info[l].time_acquire]

(* __check_lock_mismatch *)
CheckMismatch(c, t, l) ==
    IF c.info[l].last_owner = t THEN c
    ELSE [c EXCEPT !.warned = @ \cup {[lock |-> l, locked |-> c.info[l].last_owner, unlocks |-> t]}]

(* handle_*_start, handle_start_sem_wait *)
HandleStart(c, e) == PushState(c, e.thread, BlockedOn(e.lock))

(* handle_stop_sem_wait counts the semaphore as acquired, without its      *)
(* time; a barrier has no lock.                                            *)
SemAcquired(c, t, l) ==
    [c EXCEPT !.info[l].nb_acquire = @ + 1, !.info[l].last_owner = t]

HandleStop(c, e) ==
    LET t == e.thread  l == e.lock
    IN CASE Kind(l) \in {"mutex", "spin", "rwlock"} ->
              PushState(PopState(Acquired(c, t, l), t), t, CriticalIn(l))
         [] Kind(l) = "cond" -> PopState(Acquired(c, t, l), t)
         [] Kind(l) = "sem" -> PopState(SemAcquired(c, t, l), t)
         [] Kind(l) = "barrier" -> PopState(c, t)

(* handle_mutex_trylock(1), which is only recorded for a success, and      *)
(* handle_spin_trylock, which tests the value that pthread_spin_trylock    *)
(* has returned.                                                           *)
HandleTrylock(c, e) ==
    IF Kind(e.lock) = "mutex" \/ e.ret # 0
    THEN PushState(Acquired(c, e.thread, e.lock), e.thread, CriticalIn(e.lock))
    ELSE c

(* Fault: the state stays. *)
UnlockKeepsState(c, e) == CheckMismatch(Released(c, e.lock), e.thread, e.lock)

(* handle_spin_unlock, handle_mutex_unlock, handle_rwlock_unlock *)
HandleUnlock(c, e) ==
    PopState(CheckMismatch(Released(c, e.lock), e.thread, e.lock), e.thread)

(* handle_pthread_events *)
HandlePthreadEvent(c, e) ==
    LET now == [c EXCEPT !.clock = @ + 1]
    IN CASE e.code = "start" -> HandleStart(now, e)
         [] e.code = "stop" -> HandleStop(now, e)
         [] e.code = "trylock" -> HandleTrylock(now, e)
         [] e.code = "unlock" -> HandleUnlock(now, e)
=============================================================================
