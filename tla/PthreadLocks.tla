----------------------------- MODULE PthreadLocks -----------------------------
(***************************************************************************)
(* The threads of an application that use locks through the wrappers of    *)
(* the pthread module (src/src/modules/pthread/pthread.c), the locks of    *)
(* libpthread, and the converter that reads the events in the order in     *)
(* which they were recorded.  The converter depends on nothing but that    *)
(* order: each event is handled in the step that records it.               *)
(*                                                                         *)
(* A thread makes the calls of its program.  A trylock that fails goes on  *)
(* after the matching unlock: an unlock of a lock that the thread was not  *)
(* given is not called.                                                    *)
(***************************************************************************)
EXTENDS PthreadConvert, FiniteSets, SequencesExt

CONSTANT Programs   \* the calls that each thread makes

Exclusive == Mutexes \cup Spins \cup RWLocks

(* A lock is of one kind. *)
ASSUME KindsAssumption ==
    /\ NoThread \notin Threads
    /\ Mutexes \cap Spins = {}
    /\ (Mutexes \cup Spins) \cap RWLocks = {}
    /\ Exclusive \cap (Semaphores \cup Conditions \cup Barriers) = {}

(* A call is for a lock of its kind. *)
Fits(call) ==
    /\ call.op \in {"lock", "trylock"} => call.lock \in Mutexes \cup Spins
    /\ call.op \in {"rdlock", "wrlock"} => call.lock \in RWLocks
    /\ call.op = "unlock" => call.lock \in Exclusive
    /\ call.op = "wait" => call.lock \in Conditions /\ call.mutex \in Mutexes
    /\ call.op \in {"sem_wait", "post"} => call.lock \in Semaphores
    /\ call.op = "barrier_wait" => call.lock \in Barriers

\* The mutex l was locked in p before its i-th call, and not unlocked since.
LockedBefore(p, i, l) ==
    \E j \in 1 .. i - 1 : /\ p[j].op = "lock" /\ p[j].lock = l
                          /\ \A k \in j + 1 .. i - 1 : ~(p[k].op = "unlock" /\ p[k].lock = l)

Calls == [op : {"lock", "trylock", "unlock", "rdlock", "wrlock", "wait", "sem_wait", "post", "barrier_wait"},
          lock : Locks, mutex : Locks]

(* A program waits on a condition with a mutex that it has locked. *)
ASSUME ProgramsAssumption ==
    \A w \in Programs :
        /\ w \in [Threads -> Seq(Calls)]
        /\ \A t \in Threads : \A i \in DOMAIN w[t] :
              /\ Fits(w[t][i])
              /\ w[t][i].op = "wait" => LockedBefore(w[t], i, w[t][i].mutex)

VARIABLES
    work,         \* the calls of each thread, [op, lock, mutex]
    next, at,     \* of each thread: the index of its call, where it is in it
    initialized,  \* __pthread_initialized
    owner,        \* of each mutex, spin lock and rwlock: who holds it exclusively
    readers,      \* of each rwlock: who holds it for reading
    tokens,       \* the value of each semaphore
    held,         \* the locks that each thread was given, in the order it got them
    conv,         \* the converter
    (* history *)
    blurred,      \* the locks with an owner that the events do not tell
    nested        \* the threads that release their locks in the reverse order

vars == <<work, next, at, initialized, owner, readers, tokens, held, conv, blurred, nested>>
real == <<owner, readers, tokens>>

Call(t) == work[t][next[t]]

Init ==
    /\ work \in Programs
    /\ next = [t \in Threads |-> 1]
    /\ at = [t \in Threads |-> "app"]
    /\ initialized = TRUE
    /\ owner = [l \in Exclusive |-> NoThread]
    /\ readers = [l \in RWLocks |-> {}]
    /\ tokens = [l \in Semaphores |-> 0]
    /\ held = [t \in Threads |-> << >>]
    /\ conv = NothingKnown
    /\ blurred = {}
    /\ nested = Threads

(* EZTRACE_EVENT: the destructor of the module stops the recording. *)
Record(t, code, ret) ==
    conv' = IF initialized
            THEN HandlePthreadEvent(conv, [code |-> code, thread |-> t, lock |-> Call(t).lock, ret |-> ret])
            ELSE conv

Goto(t, label) == at' = [at EXCEPT ![t] = label] /\ UNCHANGED next
Return(t) == at' = [at EXCEPT ![t] = "app"] /\ next' = [next EXCEPT ![t] = @ + 1]
MakesCall(t, ops) == at[t] = "app" /\ next[t] <= Len(work[t]) /\ Call(t).op \in ops

\* The application has the lock of its call.
Given(t) == held' = [held EXCEPT ![t] = Append(@, Call(t).lock)]

\* It gives the lock of its call back, the last time it was given.
PositionOf(s, l) == CHOOSE i \in DOMAIN s : s[i] = l /\ \A j \in DOMAIN s : s[j] = l => j <= i
GivenBack(t) == held' = [held EXCEPT ![t] = RemoveAt(@, PositionOf(@, Call(t).lock))]

\* Whether the wrapper goes to libpthread: those of mutexes test __pthread_initialized.
Passes(t) == initialized \/ Call(t).lock \notin Mutexes

-----------------------------------------------------------------------------
(* The calls that may block. *)

Blocking == {"lock", "rdlock", "wrlock", "wait", "sem_wait", "barrier_wait"}

(* The event before the call. *)
Start(t) ==
    /\ MakesCall(t, Blocking) /\ Passes(t)
    /\ Record(t, "start", 0)
    /\ Goto(t, "waiting")
    /\ UNCHANGED <<work, initialized, real, held, blurred, nested>>

(* pthread_mutex_lock and pthread_mutex_trylock return 0 while the module  *)
(* is not initialized.                                                     *)
NotLocked(t) ==
    /\ MakesCall(t, {"lock", "trylock"}) /\ ~Passes(t)
    /\ Given(t)
    /\ Return(t)
    /\ UNCHANGED <<work, initialized, real, conv, blurred, nested>>

NobodyReads(l) == l \in RWLocks => readers[l] = {}

(* libpthread_mutex_lock, libpthread_spin_lock, libpthread_rwlock_wrlock *)
Lock(t) ==
    /\ at[t] = "waiting" /\ Call(t).op \in {"lock", "wrlock"}
    /\ owner[Call(t).lock] = NoThread /\ NobodyReads(Call(t).lock)
    /\ owner' = [owner EXCEPT ![Call(t).lock] = t]
    /\ Goto(t, "got")
    /\ UNCHANGED <<work, initialized, readers, tokens, held, conv, blurred, nested>>

(* libpthread_rwlock_rdlock *)
ReadLock(t) ==
    /\ at[t] = "waiting" /\ Call(t).op = "rdlock" /\ owner[Call(t).lock] = NoThread
    /\ readers' = [readers EXCEPT ![Call(t).lock] = @ \cup {t}]
    /\ blurred' = IF readers[Call(t).lock] = {} THEN blurred ELSE blurred \cup {Call(t).lock}
    /\ Goto(t, "got")
    /\ UNCHANGED <<work, initialized, owner, tokens, held, conv, nested>>

(* libpthread_sem_wait *)
SemWait(t) ==
    /\ at[t] = "waiting" /\ Call(t).op = "sem_wait" /\ tokens[Call(t).lock] > 0
    /\ tokens' = [tokens EXCEPT ![Call(t).lock] = @ - 1]
    /\ Goto(t, "got")
    /\ UNCHANGED <<work, initialized, owner, readers, held, conv, blurred, nested>>

(* libpthread_barrier_wait: the threads whose programs have the barrier    *)
(* meet at it.                                                             *)
Meets(b) == {t \in Threads : \E i \in DOMAIN work[t] : work[t][i].lock = b}
BarrierOpens(b) ==
    /\ Meets(b) # {}
    /\ \A t \in Meets(b) : at[t] = "waiting" /\ Call(t).lock = b
    /\ at' = [t \in Threads |-> IF t \in Meets(b) THEN "got" ELSE at[t]]
    /\ UNCHANGED <<work, next, initialized, real, held, conv, blurred, nested>>

(* libpthread_cond_wait gives the mutex up ... *)
CondWait(t) ==
    /\ at[t] = "waiting" /\ Call(t).op = "wait"
    /\ owner' = [owner EXCEPT ![Call(t).mutex] = NoThread]
    /\ Goto(t, "blocked")
    /\ UNCHANGED <<work, initialized, readers, tokens, held, conv, blurred, nested>>

(* ... may return without a signal, or because its time is over ... *)
Wakes(t) ==
    /\ at[t] = "blocked"
    /\ Goto(t, "woken")
    /\ UNCHANGED <<work, initialized, real, held, conv, blurred, nested>>

(* ... and locks the mutex again; no event tells it. *)
LockAgain(t) ==
    /\ at[t] = "woken" /\ owner[Call(t).mutex] = NoThread
    /\ owner' = [owner EXCEPT ![Call(t).mutex] = t]
    /\ blurred' = blurred \cup {Call(t).mutex}
    /\ Goto(t, "got")
    /\ UNCHANGED <<work, initialized, readers, tokens, held, conv, nested>>

(* The event after the call. *)
Stop(t) ==
    /\ at[t] = "got"
    /\ Record(t, "stop", 0)
    /\ IF Call(t).op \in {"lock", "rdlock", "wrlock"} THEN Given(t) ELSE UNCHANGED held
    /\ Return(t)
    /\ UNCHANGED <<work, initialized, real, blurred, nested>>

-----------------------------------------------------------------------------
(* The other calls. *)

(* Fault: what libpthread_*_trylock has returned is not looked at. *)
StopTryGiven(t) ==
    /\ at[t] \in {"tried", "failed"}
    /\ Record(t, "trylock", 0) /\ Given(t)
    /\ Return(t)
    /\ UNCHANGED <<work, initialized, real, blurred, nested>>

(* libpthread_mutex_trylock, libpthread_spin_trylock. *)
Trylock(t) ==
    /\ MakesCall(t, {"trylock"}) /\ Passes(t)
    /\ IF owner[Call(t).lock] = NoThread
       THEN owner' = [owner EXCEPT ![Call(t).lock] = t] /\ Goto(t, "tried")
       ELSE UNCHANGED owner /\ Goto(t, "failed")
    /\ UNCHANGED <<work, initialized, readers, tokens, held, conv, blurred, nested>>

(* The event of a trylock: that of a mutex only for a success. *)
StopTry(t) ==
    /\ at[t] \in {"tried", "failed"}
    /\ IF at[t] = "tried"
       THEN Record(t, "trylock", 0) /\ Given(t)
       ELSE /\ IF Call(t).lock \in Spins THEN Record(t, "trylock", 1) ELSE UNCHANGED conv
            /\ UNCHANGED held
    /\ Return(t)
    /\ IF Call(t).lock \in Spins
       THEN blurred' = blurred \cup {Call(t).lock} /\ nested' = nested \ {t}
       ELSE UNCHANGED <<blurred, nested>>
    /\ UNCHANGED <<work, initialized, real>>

HasLock(t) == \E i \in DOMAIN held[t] : held[t][i] = Call(t).lock

(* Fault: the event is recorded after the call. *)
StartUnlockLate(t) ==
    /\ \/ /\ MakesCall(t, {"unlock"}) /\ HasLock(t) /\ Passes(t)
          /\ Call(t).lock \notin RWLocks
          /\ owner' = [owner EXCEPT ![Call(t).lock] = NoThread]
          /\ Goto(t, "released")
          /\ UNCHANGED <<conv, held, nested>>
       \/ /\ at[t] = "released"
          /\ Record(t, "unlock", 0)
          /\ nested' = IF Last(held[t]) = Call(t).lock THEN nested ELSE nested \ {t}
          /\ GivenBack(t)
          /\ Return(t)
          /\ UNCHANGED owner
    /\ UNCHANGED <<work, initialized, readers, tokens, blurred>>

(* The event of an unlock, before libpthread_*_unlock. *)
StartUnlock(t) ==
    /\ MakesCall(t, {"unlock"}) /\ HasLock(t) /\ Passes(t)
    /\ Record(t, "unlock", 0)
    /\ nested' = IF Last(held[t]) = Call(t).lock THEN nested ELSE nested \ {t}
    /\ GivenBack(t)
    /\ Goto(t, "releasing")
    /\ UNCHANGED <<work, initialized, real, blurred>>

(* pthread_mutex_unlock returns 0 while the module is not initialized. *)
NotUnlocked(t) ==
    /\ MakesCall(t, {"unlock"}) /\ HasLock(t) /\ ~Passes(t)
    /\ GivenBack(t)
    /\ Return(t)
    /\ UNCHANGED <<work, initialized, real, conv, blurred, nested>>

(* The lock of a trylock that has failed is not unlocked. *)
SkipsUnlock(t) ==
    /\ MakesCall(t, {"unlock"}) /\ ~HasLock(t)
    /\ Return(t)
    /\ UNCHANGED <<work, initialized, real, held, conv, blurred, nested>>

(* libpthread_mutex_unlock, libpthread_spin_unlock, libpthread_rwlock_unlock *)
Unlock(t) ==
    /\ at[t] = "releasing"
    /\ IF owner[Call(t).lock] = t
       THEN owner' = [owner EXCEPT ![Call(t).lock] = NoThread] /\ UNCHANGED readers
       ELSE readers' = [readers EXCEPT ![Call(t).lock] = @ \ {t}] /\ UNCHANGED owner
    /\ Return(t)
    /\ UNCHANGED <<work, initialized, tokens, held, conv, blurred, nested>>

(* sem_post: its event changes nothing of what is modelled. *)
Post(t) ==
    /\ MakesCall(t, {"post"})
    /\ tokens' = [tokens EXCEPT ![Call(t).lock] = @ + 1]
    /\ Return(t)
    /\ UNCHANGED <<work, initialized, owner, readers, held, conv, blurred, nested>>

-----------------------------------------------------------------------------
(* __pthread_conclude: the destructor runs in the thread that ends the     *)
(* process, while the others go on.                                        *)
Conclude ==
    /\ initialized
    /\ initialized' = FALSE
    /\ UNCHANGED <<work, next, at, real, held, conv, blurred, nested>>

Step(t) ==
    \/ Start(t) \/ NotLocked(t) \/ Lock(t) \/ ReadLock(t) \/ SemWait(t)
    \/ CondWait(t) \/ Wakes(t) \/ LockAgain(t) \/ Stop(t)
    \/ Trylock(t) \/ StopTry(t)
    \/ StartUnlock(t) \/ NotUnlocked(t) \/ SkipsUnlock(t) \/ Unlock(t) \/ Post(t)

\* The process ends, at the latest when all its threads have.
Terminated ==
    /\ (\A t \in Threads : next[t] > Len(work[t])) \/ ~initialized
    /\ UNCHANGED vars

Next ==
    \/ \E t \in Threads : Step(t)
    \/ \E b \in Barriers : BarrierOpens(b)
    \/ Conclude
    \/ Terminated

Spec == Init /\ [][Next]_vars

-----------------------------------------------------------------------------
(* Properties. *)

Believes(t) ==
    {l \in Mutexes \cup Spins :
       /\ \E i \in DOMAIN held[t] : held[t][i] = l
       /\ ~(at[t] \in {"blocked", "woken"} /\ Call(t).mutex = l)}

(* No two threads were given the same mutex or spin lock.  When            *)
(* __pthread_initialized is not set, "The application is initializing, so  *)
(* don't do anything" (pthread.c:72); the destructor clears it, too.       *)
MutualExclusion == \A t, u \in Threads : t # u => Believes(t) \cap Believes(u) = {}

(* Until the process ends, the wrappers keep what the locks promise, also  *)
(* across a trylock that fails and a wait on a condition.                  *)
ExclusionUntilExit == initialized => MutualExclusion

(* About a program that unlocks its own locks the converter prints a       *)
(* warning only for a lock whose owner the events do not tell: the order   *)
(* in which the threads record the end of a lock and the begin of an       *)
(* unlock never deceives it.                                               *)
WarningsBlurred == \A w \in conv.warned : w.lock \in blurred

(* The critical sections of a lock do not overlap: together they last no   *)
(* longer than the time at which the last of them ends.  The converter     *)
(* subtracts the time of the last acquire, whoever made it.                *)
SectionsDisjoint ==
    \A l \in Exclusive \ blurred : conv.info[l].duration <= conv.info[l].time_release

(* What a thread is shown to do, for one that releases its locks in the    *)
(* reverse order: the critical sections that it is in and, during a call,  *)
(* that it is blocked.                                                     *)
Shown(t) ==
    [i \in DOMAIN held[t] |-> CriticalIn(held[t][i])]
      \o IF at[t] \in {"waiting", "got", "blocked", "woken"} THEN <<BlockedOn(Call(t).lock)>> ELSE << >>
StatesShown == initialized => \A t \in nested : conv.stack[t] = Shown(t)

=============================================================================
