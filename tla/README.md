# EZTrace: a TLA+ verification of its recorder and its trace converter

EZTrace records what the processes of a parallel program do (each process writes an FxT trace)
and converts those traces, after the run, into one trace for a viewer. This directory models both
halves in TLA+, checks them with TLC on small inputs and proves properties of them with TLAPS.
File names below are relative to the root of the repository, and without their directory where it
is clear: `core.c` stands for `src/core/eztrace_convert_core.c`, `mpi.c`, `p2p.c` and `coll.c` for
`src/modules/mpi/eztrace_convert_mpi.c`, `..._mpi_p2p.c` and `..._mpi_coll.c`, and `fut_*.c` are in
`src/extlib/fxt/tools`. `PROJECT.json` gives the source lines of every definition, the runs and what
each is about, and the hazards of the code with the properties that watch them.

Contents: [inventory](#inventory-of-the-system) · [modules](#modules) · [runs](#runs) ·
[bounds](#bounds) · [fairness and deadlock](#fairness-and-deadlock) · [proofs](#proofs) ·
[findings](#findings) · [not modelled](#what-is-not-modelled) · [plan](#plan)

## Inventory of the system

### The recorder (in the traced processes)

| part | state | operations | what is hard | what makes it correct |
|---|---|---|---|---|
| **Recorder core** (`eztrace_core.c`, `eztrace.h`) | `prof_activated`, the recursion shield of each thread, the shield of the signal handler, the trace file | `eztrace_start`, `eztrace_stop`, the signal handler, `EZTRACE_EVENT*`, the end of the process | flags tested and set in two steps; a signal between any two steps of a start or a stop; events dropped under the shield | a trace that was started is written, however the process ends; a signal ends the process |
| **FxT event buffer** (`fut.h`, `fut_record.c`, `fut_setup.c`) | `fut_next_slot`, `fut_active`, the buffer, the flush lock, the file | `FUT_RAW_PROBE`, `fut_getstampedbuffer`, `fut_flush`, `fut_endup`, `fut_done` | no lock but a compare-and-swap; a slot that did not fit is given back without a test; a flush while others write; the flush of `fut_endup`, without the lock, and the closed file that a late flush finds | no cell given twice, no recorded event lost, events in their order |
| **Thread interception** (`pthread_core.c`) | the wrapped routine and argument of each new thread | `pthread_create`, `pthread_join`, `pthread_exit`, start and end of a thread | ids given again; a thread that ends otherwise than by returning | see the containers of the converter |
| **Pthread recorder** (`modules/pthread/pthread.c`) | `__pthread_initialized`, the real locks | wrappers of mutexes, spin locks, rwlocks, semaphores, conditions, barriers; the destructor | events recorded outside of the critical section; threads that run after the destructor | locks keep excluding |
| **OpenMP recorder** (`modules/omp/gomp.c`) | `_next_section_id` | regions, critical sections, locks, loops of libgomp | a counter without a lock; nested regions | regions have numbers of their own |
| **Memory recorder** (`modules/memory/memory.c`) | a header in each block, `libmalloc`, `malloc_protect_on` | `malloc`, `calloc`, `realloc`, `free` | blocks with and without header; allocation before libc's functions are found; the shield | libc is given back what it gave; sizes are right |
| **MPI wrappers** (`modules/mpi/mpi_funcs`) | none | an event before and one after each call, info events for arrays | the order of the events of a call | the handlers read what was written |
| stdio and PAPI wrappers | none | events around the calls | - | - |
| pptrace (`src/pptrace`) | the code of the traced program, trampolines | replace a function by a jump to its wrapper | instruction lengths, partial failure | - |
| Launcher (`eztrace.c`, `eztrace_avail.c`, `eztrace_loaded.c`) | environment variables | start a process under eztrace | I/O only | - |

### The converter (one process, after the run)

| part | state | operations | interacts with | what makes it correct |
|---|---|---|---|---|
| **Event scheduler** (`core.c`) | for each trace its current event, clock origin, delay, `start`, `done`, `skip`; the global `SKIP`; pending replays; `nb_start`, `nb_done` | `__get_cur_ev`, `handle_one_event`, `next_ev`, `ask_for_replay`, `add_delay_to_trace`, `handle_all_events` | calls the handlers of the modules, which defer (SKIP), delay, start and advance traces | every event handled once; nothing before its cause; times of a trace in order; the loop ends, and only when all is handled |
| **Handler threads** (`core.c`) | `main_thread_sem`, `events_processed`, the threads, the lists of expected codes | `wait_for_an_event` and the threads it creates, `main` | run the scheduler's loop in turn | one thread at a time in the scheduler; every event taken once; `main` goes on at the end and not before |
| **MPI messages** (`p2p.c`, `mpi.c`) | messages with six times each; per process the lists `incoming` and `outgoing` with progress flags; requests | start and end of sends, receives, sendrecv, isend, irecv, wait | the scheduler (defer), the clocks | the n-th send meets the n-th receive; both sides agree on the progress; nothing stays pending |
| **MPI requests, persistent requests** (`mpi.c`, `eztrace_convert_mpi_pers.c`) | arrays of requests; activation of persistent ones | waitany, waitsome, waitall, test*, start, startall | messages, replay | a request completes its own message, once |
| **MPI collectives** (`coll.c`, `mpi.c`) | a message per collective: entry, exit and thread of each process; delays | `__enter_coll`, `__leave_coll`, barrier start and stop | the scheduler (defer, delay), whose traces are numbered otherwise than the ranks | all processes join the same message; nobody leaves before all have entered; arrows drawn once |
| **Containers** (`core.c`, `eztrace_convert_macros.h`) | the tree of containers, each known by an int, the states of each | `new_thread`, `get_thread_cont_from_id`, `handle_end_thread`, joins, `handle_mpi_init` | all handlers | one container for each thread, its states follow it |
| **Pthread converter** (`eztrace_convert_pthread.c`, `.h`) | owner, times and duration of each lock, states | start, stop, trylock, unlock of each kind | containers | durations and states; warnings only when deserved |
| **OpenMP converter** (`eztrace_convert_gomp.c`) | sections in progress and finished, the stack of each thread | regions, forks, joins, critical sections, locks | containers | a thread is taken for one of the region it is in; links complete |
| **Memory converter** (`eztrace_convert_memory.c`) | counters of 64 and 32 bits | malloc, realloc (sizes cut to an int), free | - | the use shown is that of the blocks |
| MPI init, spawn, communicators | ranks, groups, process containers | `handle_mpi_init`, `handle_mpi_spawn`, `handle_mpi_spawned` | scheduler clocks | a rank stands for the same process everywhere |
| Data structures (`eztrace_list.h`, `eztrace_hook.h`, `eztrace_stack.h`, `eztrace_hierarchical_array.c`) | lists, hooks, arrays by container | add, remove, iterate | all | iteration visits everything |
| Statistics (`eztrace_stats*.c`, `eztrace_stats_mpi.c`) | counters of containers | a loop of its own on the traces, reductions | containers | totals add up |
| stdio and PAPI converters | states, values | one handler for each event | containers | - |

The two halves meet in the trace: what the wrappers record, in which order, is what the handlers
rely on. The hard behaviours come from a few facts. In the recorder nothing is protected by a lock
that the application does not hold: the buffer, the shields, the counter of the regions and the
flags of the recorder are shared by threads and by signal handlers. In the converter the traces
have clocks that do not agree, so handlers see the end of a receive before its send; handlers answer by
*deferring* the event (it stays current, its trace is skipped for a while) or by *replaying* the rest
of a `waitall`, and nothing may be lost or done twice; each message is kept in two lists that are
searched and updated separately; and events name threads, requests and regions by values that
are used again.

## Modules

| module | models | checked by | proofs |
|---|---|---|---|
| `CausalMerge` | abstract: what a conversion promises | the refinement `MergeLiveSpec` | |
| `EztSched` | the scheduler, deferral, replay, delays, start of the traces | `EztSchedMC` | `EztSched_proofs` |
| `HandlerThreads` | `main`, the handler threads and their semaphores | `HandlerThreadsMC` | `Converter_proofs` |
| `MpiCalls`, `MpiCollCalls` | the events that the wrappers of the MPI functions record | the inputs of the next three | |
| `MpiP2P` | point-to-point messages and their requests, persistent ones too | `MpiP2PMC`, `MpiRequestsMC` | `Converter_proofs` |
| `MpiRequests` | waiting for several requests at once, on top of `MpiP2P` | `MpiRequestsMC` | `Converter_proofs` |
| `MpiColl` | collectives | `MpiCollMC` | `MpiColl_proofs` |
| `FutBuffer` | the FxT buffer: threads that record, the flush, the end of the recording | `FutBufferMC` | `FutBuffer_proofs` |
| `Recorder` | start, stop, signals, shields, end of the process | itself | `Recorder_proofs` |
| `PthreadConvert` | the handlers of the pthread events, as operators | `PthreadLocksMC` | |
| `PthreadLocks` | the wrappers of the locks, the locks, and the converter behind them | `PthreadLocksMC` | `PthreadLocks_proofs` |
| `Memory` | the memory module and its handlers | itself | `Memory_proofs` |
| `OpenMP` | the regions and constructs of libgomp and their handlers | itself | `OpenMP_proofs` |
| `Containers` | threads of a process and their containers | itself | `Converter_proofs` |

### CausalMerge and EztSched

`CausalMerge` says what the user is promised: the events of a trace are handled in order, once,
none before what it needs was posted, and in the end all of them. `EztSched` is the scheduler:
one action for each turn of `handle_one_event`, by what the handler does.

* A handler is seen from the scheduler. An event *posts* keys (a send or an entry begins), *needs*
  keys (a receive or an exit cannot be handled before), *starts* its trace, or is followed by
  `info` events that the handler itself consumes. `MpiP2P` and `MpiColl` open those handlers.
* `Picked` is `__get_cur_ev`: the traces that have not started come first; then the least current
  time, the lowest index on a tie; the skip flags are cleared by a search that does not follow a
  deferral. This clearing happens in the same loop as the search, after each flag was looked at:
  this is why `NoTrace` is possible (the code then uses `traces[-1]`, status `"undefined"`).
* `StepForward` is `next_ev`: at the end of a trace the current event stays where it is and the
  trace is done; `nb_done` counts, and `Finish` is the end of the loop. A trace that has not
  started is picked even after its end, as in the code.
* `HandleNeed`/`NeedNotPosted` are the two outcomes of a handler that may defer;
  `HandleWaitall`/`WaitallNotPosted` those of `handle_mpi_stop_waitall`, with `replay` the data
  given to `ask_for_replay`.
* `HandleInit`, `HandleSpawn`, `HandleSpawned`, `SpawnNotHandled` restart the clocks. A time is
  `CUR_TIME`: event time minus `start_time` plus `delay`; `NotShown` is the `CHANGE` macro that
  draws nothing for a trace that has not started.
* `Complete` says what inputs are: non-empty traces, in time order, with the info events that the
  recorder writes next to their event.
* A delay is that of the trace itself: messages look the trace of a rank up (`mpi.c:128`), collectives do not
  (`mpi.c:954`), so that `EztSched` is about traces given in the order of their ranks. `MpiColl` has the other orders.

### HandlerThreads

The threads run the same loop of `handle_all_events` in turn: `main` posts `main_thread_sem` and
waits for `events_processed`; a handler that calls `wait_for_an_event` looks at the next event of
the trace, and if another thread of the application comes between, creates a new handler thread,
hands the loop over to it and blocks. One action for each step between two semaphore operations,
since these are the only points where another thread can run with a different result. What the
loop itself picks is left free here (`EztSched` has it).

### MpiP2P and MpiCalls

The state is that of `p2p.c`: messages with their six times (0: not yet), the two lists of pending
communications of each process with their four progress flags, and the requests. `StartSend`,
`StartRecv`, `StopSend`, `StopRecv` and `SetCompleted` are the functions of the same names; they
return a new state so that `sendrecv` can chain them as the code does. The actions are the
handlers. The order in which the traces are read is left free: the properties hold for *any*
order, so also for the one of `EztSched`. A handler that returns SKIP is an action that is not
enabled (it changes nothing here: its trace stays at the same event). `AssertionFails` is the
failure of an assertion of the handlers, after which the converter has aborted.

A request is known by its address: `reqs` is the last request recorded for each address, which is
the one that the search from the end of the array finds. `MessageOf` is
`__mpi_find_p2p_message_by_mpi_req` with its search for the message of a request that has ended.
`EndAsserts`, `CanEnd` and `EndRequest` are `__handle_mpi_test_success`: what it asserts, whether it
can end the request, and the result; every call that ends requests uses them.

A pending communication is added at the end of its list and found by a search from the head; the model's lists are functions
on the positions of the events that added them, which grow, so that the first entry is the least index and an
entry that is freed leaves a gap and moves no other.

The inputs are programs written with `MpiCalls`: `Send`, `Waitall`, ... give the events that the
wrapper of the same name records, in its order. (`Waitsome` records a wait for each request, the
tests an event only when they succeed.) The buffered, synchronous and ready forms have wrappers of
their own, and operators of their own.

### MpiRequests

`waitany` and `waitall` record one event for the call and one info event for each request, which the
handler consumes. One action handles them all, from one event to the next one that another handler
takes. `HandleStopWaitall` ends its requests one after the other; where it cannot, `AskForReplay` keeps
what was done, and `resume` is the index in `replays[].data`. How and when a replay comes back is in
`EztSched`. `StopWaitanyTooEarly` is the waitany that has consumed its events and cannot end its
request; `lost` is a history variable, the messages to which this happened.
`WaitAssertionFails` happens for a request that has ended and is waited for again in an array, as
MPI allows (it is MPI_REQUEST_NULL then): the handlers compare the parameter of the info event with
MPI_REQUEST_NULL, but it is the address of the request. The programs do this with sends only; for a
receive the old message is found and its times change, which no property would survive.

### MpiColl and MpiCollCalls

`HandleStart` and `HandleStop` are the entry and exit handlers, with `__enter_coll` /
`__leave_coll`, the search by kind and length among the messages not entered (not left) yet, the
arrows between each pair, and the delays that move an exit after the last entry. `joined` and
`left` are history variables: the messages in the order in which a process entered and left them.
`order` is the process whose trace is the i-th on the command line. The handlers call `add_delay_to_trace`
with a rank (`mpi.c:914`, `mpi.c:954`), and `get_traces` takes it for an index (`eztrace_convert.c:65` numbers the
traces): `Delayed(rank)` is the process that gets the delay, which is the one meant only if its trace is at the place of
its rank. Events that end a gather or a scatter do not carry the length that their handler reads: the inputs
`Gathers` let it read any value. `MpiCollCalls` has what the wrappers of the fourteen collectives
record: which handler takes the event, and with which length.

### FutBuffer

Threads that record (`Probe`, `Reserve`, `Write`: the test of `fut_active`, the compare-and-swap on
`fut_next_slot`, the writing of the event), against the end of the buffer. Without flush, the thread
whose event does not fit clears `fut_active` (`Deactivate`) and gives its slot back (`Restore`); with
flush, the one whose slot crosses the end takes the lock, writes the buffer out and resets it
(`LockFlush`, `FlushTests` ... `FlushSeeks`, `Reset`, `UnlockFlush`) while the others try again. Another thread calls
`eztrace_stop` at any point: `EndupHalts` ... `DoneReleases` are the statements of `fut_endup` and
`fut_done` between which another thread can tell a difference.

`fut_flush` is the same four steps in both callers: the test of `fut_fd` (`FlushTests`, `EndupTests`), the open with
O_TRUNC (`Opens`), the write (`Dumps`) and the `lseek`. The threads call it under `fut_flush_lock`
(`fut_record.c:285`), `fut_endup` without (`fut_setup.c:454`). `overlapped` remembers that one call began while another one was under
way: from then on a write may lose what was in the file, or its own block. `fut_endup` closes `fut_fd` and leaves its number in it
(`fd = "closed"`): the write of a thread that flushes later fails, which is only reported, and its `lseek` fails, upon which the process
exits (`gone`), or the application has opened another file with that number. A thread that tries again after the
buffer was released and the pointers were reset reserves at NULL (`ReservesAtNull`), one that writes to released memory may end the process.
That the open fails is not modelled.

A cell of `mem` says which part of which event is in it. The compare-and-swap loop is the addition of its last turn; the stamp is taken
after it, so that stamps need not follow slots: the order that `RealTimeOrder` is about is that of the
file, which the converter follows. `seen`, `spans`, `recorded`, `late` and `overlapped` are history variables.

### Recorder

Each thread has a stack of the functions it is in, and a signal puts the handler on the stack of any
thread between any two steps. `StartActivates`/`StartSetsUp` are `eztrace_start`, `StopTests`,
`StopDeactivates`, `EndupHalts`, `FlushTests`, `FlushOpens`, `FlushDumps`, `EndupCloses`, `StopReturns` are `eztrace_stop` down to
`fut_done`, `HandlerPasses`/`HandlerShields` the two steps of the handler's shield. The buffer is here
only the set of the events in it (`FutBuffer` has the rest). `owed` is what the application has asked
to record while the recorder was on; `cutShort` remembers that the process ended, or started another
trace, while a thread was between `prof_activated = 0` and the write. Two threads that have both found `prof_activated` set
(the application's stop and the handler in another thread) may both find `fut_fd` unset and open the file; the second open
empties it. `overlapped` remembers that a flush began while another thread was between the open and the close.

### PthreadLocks and PthreadConvert

The application's threads run programs of calls; each call of a wrapper is the event before, the
call of libpthread and the event after, as separate steps. The locks of libpthread are modelled by what
they guarantee (`Lock`, `ReadLock`, `SemWait`, `BarrierOpens`, `CondWait`, `Wakes`, `LockAgain`). The
converter of these events depends on their order only, so that `Record` applies the handler
(`HandlePthreadEvent` of `PthreadConvert`) in the step that records. `Conclude` is the destructor of the
module, after which the mutex wrappers return 0 and do nothing (`NotLocked`, `NotUnlocked`). `blurred`
is the set of the locks whose owner the events do not tell: read locks shared by several, a mutex
locked again after a condition, a spin lock taken by trylock (whose handler tests the result the
wrong way round).

### Memory

A block is an address of libc's allocator; its header says what the module thinks of it (`type`,
`bytes`, `offset`, `size`), and `data` where the contents really are. `MallocSeeks`, `HandMadeMalloc`,
`MallocFinds` are the allocations that `dlsym` makes before libc's `malloc` is known; `Malloc` and
`MallocRecords`, `FreeRecords` and `FreeEnds`, `Realloc` and `ReallocRecords` are a call in its two
steps, between which other threads run and the recording may start. The handlers work on counters of 64
and 32 bits (`% Wide`, `% Narrow`); those of malloc and realloc put the sizes in an int first (`ToInt`; what a difference that is
not an int gives is undefined in C: `IntDifferences` are the two that compilers produce), that of free does not. `cut` remembers a size
that is not an int. `foreign`, `wrapped`, `wild` and `astray` remember the events that
end what the properties promise.

### OpenMP

`ReadId`/`WriteId` are `_next_section_id++`; `LibParallelStart` and `LibParallelEnd` are libgomp
(external), which gives a region a team of idle threads; `RecordFork`, `RecordJoin`, `RecordJoinDone`,
the constructs, and the handlers of all of these, with the assertions they make (`Failed`). Each event is
handled in the step that records it. `raced` remembers that two threads were between the read and
the write of the counter. The converter's list of pending sections is modelled as a set of positions in
`sections`: the list is kept in the order of creation, so that its first match is the `Min` of those that
match. `Without` takes a construct out of those that a thread has open.

### Containers

Threads are created, joined, end by returning (with an event) or by `pthread_exit` (without), and get
ids that the system gives again after a join. `DeclareCurThread` (any event makes the container of its
thread if there is none), `NewThread`, `Destroyed` and `MpiInit` are the converter's side, where
`get_thread_cont_from_id` returns the first container with the id. The converter cuts `pthread_self` to an int of `Width` values where it
gives it to a function (`Tid`); `clashed` has the ints that two threads at work had at the same time. Both a trace that is alone (started
from the beginning) and one of several (started by `MPI_Init`) are initial states.


## Runs

| run | question | result |
|---|---|---|
| `EztSched` | Do deferral, replay, clocks and delays lose, repeat or misplace events? Does the conversion end? | holds |
| `HandlerThreads` | Do the semaphores leave the scheduler to one thread, take each event once and let `main` go on? | holds |
| `MpiRequests` | Are messages paired, ended once and released, by whatever call and in whatever order the traces are read? Does each request end its own message? | holds |
| `MpiColl` | Do the processes meet in the same message, leave after all entered, with arrows drawn once, whatever the order and the clocks? | holds; delays are right for the processes whose trace is at the place of their rank |
| `FutBuffer` | Do threads that record, flush and stop without a lock keep every event, once and in order? | holds, with an exception that the property names: the flush of `fut_endup` together with another one |
| `Recorder` | Is a trace that was started written, and does a signal end the process, wherever it comes? | holds, with exceptions that the properties name |
| `PthreadLocks` | Do the wrappers keep the locks exclusive, and do the converter's sections, states and warnings follow the locks? | holds |
| `Memory` | Is libc given back its own addresses, are the contents where the program looks, is the memory shown that of the blocks? | holds, with exceptions that the properties name |
| `OpenMP` | Are the events of a thread taken for those of its region, with nested regions and regions side by side? | holds unless `_next_section_id` was raced for |
| `Containers` | Has a thread one container, the states that fit what it does, and nothing after its end? | holds unless two threads have the same id, or the same int |
| `MpiP2PSendrecv` | Is a program with a sendrecv whose source is not its destination converted? | violated: finding 1 |
| `ContainersReuse` | Does nothing use the container of a thread after its end, as the code says? | violated: finding 2 |

What the properties mean:

* `EztSched`: `NothingLost` (what was handled is what precedes the current event), `AllConverted` (the
  loop, which counts ends, ends when all is handled), `Causality` (nothing ends in the output before
  what it waited for began), `TimesOrdered` (the times of a trace never go back), `ReplayAtRequest` (a
  replay resumes at the request it stopped at), and the refinement `MergeLiveSpec`: the scheduler
  implements `CausalMerge`, and traces that are whole are converted to their end.
* `HandlerThreads`: `OneHandler`, `TakenInOrder`, `ConversionEnds`.
* `MpiRequests`: `PairedInOrder` (the order in which MPI guarantees that messages match),
  `TimesConsistent` (no message ends before it starts on a side), `StatusMirrored` (both lists of a
  message agree on its progress), `OwnMessage` (a request in progress has a message of its own, started
  and not ended on its side), `ReplayAfterEnded` (what a waitall has passed has ended), `OnlyLostPending`
  (only what a waitany dropped stays in the lists at the end), `AllWaitsHandled` (every wait is handled).
* `MpiColl`: `SameCollective` (the n-th collective of all processes is one message),
  `LeftAfterAllEntered`, `RoundsFollow` (a process whose trace is at the place of its rank does not enter the next round before it left
  this one; the delay of another process goes elsewhere, so that its times need not follow),
  `EverythingHandled` (every exit is handled and every arrow drawn, begun and ended once).
* `FutBuffer`: `SlotsDisjoint` (no cell in two slots of one round), `FlushCoversRound` (what is written
  out is what was given since the last reset), `CompletedSaved` (what was recorded before its round was written out is
  in the buffer or in the file, and in the file if the process has exited, unless `overlapped`), `RealTimeOrder` (an event recorded before another one's probe began precedes it in the
  file), `ProbesReturn` (every probe returns, unless the process has ended, which it does only after `fut_endup` has closed the file).
* `Recorder`: `FirstTraceSaved` (all that the application asked to record in its first trace is in the
  file when the process is over, unless `cutShort` or `overlapped`), `SignalEnds` (a signal ends the process, unless its handler
  waits for itself).
* `PthreadLocks`: `ExclusionUntilExit`, `SectionsDisjoint` (the durations of the sections of a lock add
  up to no more than the time they span), `StatesShown`, `WarningsBlurred` (a program that unlocks its own
  locks is warned only of locks whose owner the events do not tell).
* `Memory`: `UseFollows` (the use shown is that of the blocks the events told of, until a size was `cut`), `ContentsKept`,
  `AllocatorKnows`.
* `OpenMP`: `SectionsFollow`, `LinksComplete`, `StatesShown`.
* `Containers`: `OneContainer`, `StatesFollow` (unless the thread's int is in `clashed` or `caught`), `DestroyedIsLast` (unless two threads have had
  the same int).

`Unambiguous` (no wildcard receive that two sends match), `LengthsKnown` (every exit holds the length of
its entry), `AwaitedAgain` (a request is waited for again after its end), `blurred`, `cutShort`, `overlapped`, `foreign`,
`cut`, `wrapped`, `astray`, `clashed` and `raced` separate what the code does well from the faults listed
[below](#disagreements-met-while-modelling). Each run contains behaviours on both sides of its
conditions, so that they are neither always true nor always false.

Each property of a passing run has a mutant in `PROJECT.json`: a definition of the model with a
plausible fault (defined next to it and marked "Fault:"), with which TLC finds the property
violated. The fault definitions are used nowhere else.

## Bounds

* `EztSched`: three traces of up to seven events, times up to 12, clocks early and late around the points
  where one trace passes another. Three is the number of traces at which two can be deferred while a
  third decides; the searches treat traces alike beyond that. A waitall has two requests: the
  replay can stop at the first, at the second or at both.
* `HandlerThreads`: two traces, four handler threads (three handovers, one inside another).
* `MpiRequests`: two or three processes, two tags, two or three request addresses, up to six operations for
  each process: two messages in flight with the same or different tags in both orders, an address used
  again, persistent requests started twice, a relay, a shift by sendrecv, one and two senders for receives
  from any source, up to three requests in one call in every order. A waitall of three can stop before,
  between and after requests that it ends. Two requests for the same source and tag are waited for in the
  order of their operations: the code matches the end of a receive by source and tag and not by its
  request, so that in the other order each wait ends the message of the other (`p2p.c:495`).
* `MpiColl`: three processes, two or three collectives of all ten kinds, clocks early or late by more than
  a round, and the traces in all six orders. Two rounds apart is the farthest that processes can be, since an exit waits for all entries.
* `FutBuffer`: three threads, room for three words (`Capacity`), events of one or two words (`MaxSize`); two
  workloads; an event can fit, end at the end or cross it with another thread's slot before, at and behind it,
  and with flush the buffer is emptied several times, before, during and after the flush of `fut_endup`. Stamps are not bounded by the model but by the
  number of events.
* `Recorder`: two threads, one event each (`MaxEvents`), one call of `eztrace_start`
  (`MaxStarts`), SIGSEGV and SIGTERM once each: a handler inside a handler, in the same thread and in the
  other, at every step of a start, a stop and a probe. `FirstTraceSaved` is proved for any number of starts.
* `PthreadLocks`: three threads, thirteen programs, at most six calls of a thread. Three threads make two wait
  while one holds.
* `Memory`: two threads, three blocks, four calls (`MaxCalls`), counts and elements of 1 and 3 with a header
  of 2 (3 does not divide it: the padding), and 64 and 16 for the two widths, which stand for 2^64 and
  2^32: a counter wraps when it goes below 0, whatever the modulus, and an int ends at 7, so that
  the sizes of 8 cells and more are cut.
* `OpenMP`: three threads, two initial ones, two regions and two constructs (`MaxRegions`, `MaxConstructs`): nested, in a row,
  side by side.
* `Containers`: four threads, three ids, two other events (`MaxWork`). Four threads and three ids: an id is
  given again while two other threads have theirs. The ids are 1, 3 and 5 and an int has four values (`Width`): 1 and 5 are the
  same int. `ContainersReuse` needs three, two and one.

All other inputs are finite, so that every state space is.

## Fairness and deadlock

`FairSpec` is weak fairness of the next-state relation in `EztSched`, `MpiRequests` and `MpiColl`: one
thread runs a loop in which nothing blocks. The last two see the loop without the choice of the trace: some
handler that can go on does. `EztSched` justifies it (`MergeLiveSpec`: a deferred trace is tried again), for
whole traces. In `HandlerThreads` each thread has weak fairness of its own steps: the kernel schedules
every thread that can run, and a semaphore wait is enabled only while its value is positive. The same holds
of the threads of `FutBuffer` (the spinning ones too: a thread that tries again has steps; `eztrace_stop` is called in the end, at any time) and of `Recorder`.
The other modules state no liveness.

Deadlock is checked in every run: the only states without another step are the ends of the conversion,
of the process or of the bounded work, and failed assertions, which have the explicit action `Terminated` (`Exited`
in `Containers`). Two configurations turn the check off: `MpiP2PSendrecv`, whose point is a converter that
waits forever, and `OpenMP`, whose programs can end, wait forever (for a lock that the same thread
has set, for a critical section inside itself) or make the converter fail an assertion.

## Proofs

All theorems are for every value of the constants: any number of traces, threads, blocks, ids, any
inputs and programs that satisfy the named assumptions of the module.

`EztSched_proofs`
: `TypeCorrect` and `ReplayAtRequestHolds` from `TypeInv`: `TypeOK`, `ClocksOK` (the origin of a
  clock is not after the current event, so that relative times and delays are natural numbers:
  this is what `TypeOK` alone does not keep, since the code subtracts unsigned numbers) and
  `ReplayAtRequest` (without it the position that a replay steps to could pass the trace's end).
  `NothingLostHolds` and `AllConvertedHolds`, under the hypothesis `EveryTraceStarts` (each trace
  has the event that starts it: `__get_cur_ev` looks first at the traces that have not started, even after
  their end, so one without `MPI_Init` is taken forever, `handle_one_event` counts it as done each time, and
  the loop ends before the other traces do). The invariant `CInv` has the
  facts that the loop relies on without saying so: `DoneAtEnd` (a done trace is at its last event),
  `DoneCounted` (`nb_done` is the number of traces done), `StarterAhead` (a trace that has not
  started has its starting event still to come, so that it is never taken again after its end) and
  `EndCounted` (the loop has ended only with all traces done).

: The last part of the module is the refinement. `SchedulerMerges`: the scheduler implements `CausalMerge` (its safety part), under `EveryTraceStarts`. Each
  handler is a step of the merge or a stutter (`Advances`, `NextMerges`). What makes it true is `RequestsInReplay`: the
  requests of a waitall, which may have to wait, are the current event only while its replay is pending, so
  that no other handler takes them without a look at what they need. `CausalityHolds`, from the same
  invariant and `StartedPast` (a trace past its MPI_Init has started, so that its events are drawn), under
  the further hypothesis `NeedsAfterStart`: a process waits for others only after its MPI_Init. The workloads of the run satisfy
  both hypotheses.

: `TimesOrderedHolds`, under `EveryTraceStarts` and `StartsOnce`: the clock of a trace is reset once, and a trace that is
  alone has nothing before its start (what happens otherwise is [below](#disagreements-met-while-modelling); the workloads of the run satisfy it). `TimesOrdered` is
  inductive with `Bounded` (nothing was drawn later than the time the last event has with the delay that the
  next ones inherit) and `Hidden` (until its start nothing of a trace is drawn; if `handle_mpi_spawned` has counted it as started
  without its spawn, it is still at that event).

`FutBuffer_proofs`
: `Invariance` and from it `SlotSafety`, `FlushSafety`, `OrderSafety`. The slots given in a round are disjoint and begin
  below `fut_next_slot`; the key facts of `IInv` are `OneCrosses` (of the threads that cross the end of
  the buffer in a round one alone has a slot that begins in it) and `CrossingHeld` and `FlushingCrosses` (until
  that one gives its slot back, or has reset the buffer, no slot is given). This is why giving a
  slot back without a test is right, which the comment in the code doubts. `NothingRecordedLost` (`CompletedSaved`)
  needs what the callers of `fut_flush` do with the file, `FileInv`: `LockHeld` (one thread at a time flushes), `FileUsed` (a file is written
  to only once it is open) and `OpenedOnce` (as long as the flush of `fut_endup` has not met another one, nobody opens the file a
  second time, and nobody writes to it once it is closed). `SInv` then has `WritersHold` (an event whose thread is not writing it was written),
  `WritersInTime` (a slot that is not written yet is one of this round, which nobody has written out), `StopCovers` (what `fut_endup` writes
  has all that was given before) and `FlushedOnDisk` (between the write and the reset all of the round is on the disk, so that
  neither the reset nor the exit of a process that finds the file closed loses anything).

`MpiColl_proofs`
: `CollectivesMatched`, `NoneLeavesEarly`, `DelaysKept` and `ArrowsDrawn`, for any number of processes and threads, under
  `LegalProgramsAssumption`: a process makes one collective at a time, all make the same collectives in the same order, with
  the same length, and the events of a trace are in the order of time. (The first is what MPI asks of the
  collectives of one communicator; the lengths leave out gatherv and the others of `coll.c:93`. The length that the *end* of a gather or
  scatter reads is free: such an end waits, or fails an assertion.) The code matches an entry with the first
  message of its kind and length that the process has not entered; that this is the n-th message at the n-th collective is `Numbered`,
  for which `IInv` needs `Positions` (entries and exits alternate), `Recorded` (a message
  knows exactly who has entered and left it) and `Kinds` (the n-th message is of the kind of everyone's n-th
  collective, also of those not reached yet). `AllEnteredFirst` and `EnteredInTurn` need `Past`: no entry in a
  message is after the clock of its process, which a delay only moves forward, whosever it was; no exit is either, if the delays that a process
  asks for are its own (`Delayed(p) = p`), which is the condition of `RoundsFollow`. `ArrowsDrawn` is `LinksDrawnOnce`.

`Recorder_proofs`
: `FirstTraceSavedHolds`, for any number of threads, events, starts and signals. While the first trace is recorded
  (`On`), an event that is owed is in the buffer or on some thread's stack on its way there, and on no stack any more
  once a thread in `eztrace_stop` is past its test of `prof_activated` (`OnItsWay`). Once `prof_activated` is 0 what is owed is
  on the disk, or a thread that has come to write it has not written it yet and nobody is closing the file (`OnceOff`, `Pending`); only then can the end of the process or another start
  lose it, which is `cutShort`. `Pending` says which of the two it is: no thread has begun to flush (`Unbegun`), or one has taken the buffer and is
  between the open and the write (`Begun`); unless two flushes overlapped (`overlapped`) no second thread is (`OpenedOnce`), so that
  the file is emptied once, when it is empty. Three facts carry this across the signals. `Nesting`: what may be below a function on a stack;
  the event of a wrapper is called by the application itself, so that `Shields` (the shield of a thread is on only in an event) lets
  no event that is owed find it on. `NotStarted`: no handler is installed, and so no thread is in `eztrace_stop`, before
  `eztrace_start` has set `prof_activated`. `SettingUp`: between that and `fut_setup` a stop that a signal makes finds no `fut_infos` and
  gets no further than the second SIGSEGV, so that it cannot open the file or release a buffer.

`PthreadLocks_proofs`
: `ExclusionUntilExitHolds`, under `KindsAssumption` (a lock is of one kind) and `ProgramsAssumption` (each call is made on a lock of its kind;
  a condition is waited for with a mutex locked before). `KInv` ties the call a thread is in to the kind of its lock,
  `PInv` says that
  a thread has the mutexes that its program has locked and not unlocked, `OInv` that while the module is
  initialised what a thread has is its own, once, but for the mutex of the condition that it waits on.
  The converter's half needs more, because it knows only the order of the events: `RInv` (who uses a rwlock that is not
  `blurred` uses it alone), `ConvOK` (no lock was acquired after the present, so that the durations, which are unsigned, are
  natural numbers), `HInv` (the stack of a thread that releases its locks in the reverse order is that of its calls:
  `StatesShownHolds`) and `EInv`: until the destructor runs, the converter knows the thread that was given such a
  lock, and when it was given the sections summed so far were over (`WarningsBlurredHolds`, `SectionsDisjointHolds`).
  The proof showed that a stack of locks is matched from its top: of a rwlock that a thread reads twice it is the *last* read
  that an unlock ends. The run has a program for it (`ReadsTwice`).

`Memory_proofs`
: `AllocatorKnowsHolds` (`OInv`: a block is libc's, the program's or that of one call under way, never of two) and
  `ContentsKeptHolds` (`Placed`: the contents are behind the header and its padding, and `realloc` can only lose the padding).
  `UseFollowsHolds` (`TInv`: a block that an event told of has a header and is in no call; before the start there is none)
  is for sizes of type int (until `cut`) and under `MemoryFits`: what was told of is less than the address space, `Wide`, as the C library's blocks are; it is what
  makes the sums modulo `Wide` exact (in the run it is never more than 36 of 64). The four steps that record or withdraw a size
  change one block's share of `Told` and one thread's. What the sums become needs an induction over finite sets: it is done as the smallest
  counterexample (`SmallestSet`, from `WFMin`), for which a set is enough and no operator is a parameter.

`Converter_proofs`
: `HandlerThreads`: `HandlersTyped`; `OneHandlerHolds` from the inductive invariant `HInv`: the value of
  `main_thread_sem`, the threads inside the loop and the handovers in progress add up to one token
  that `main` gives and takes back; `TakenInOrderHolds` from `TakenInv`, which ties the sequence of
  events taken to the positions of the traces across a handover.

: `Containers`: `OneContainerHolds` (`IInv`: before the trace starts there is no container, which is why `handle_mpi_init`
  may make one without looking) and `DestroyedIsLastHolds` (`GInv`: the thread of a destroyed container is over, so that
  whoever still records under its int is another one). `StatesFollowHolds` (`SInv`): of the threads at work one
  alone has an int (`OneUser`), and a container's states are those of that thread: Working, with
  Blocked above it exactly while the thread waits in a join. Ints that two threads at work had at once (`clashed`), and those of threads that were in
  a join when the trace started (`caught`), are excepted. All this is for any `Width`, also 2^32.

: `MpiP2P` and `MpiRequests`: `PairedInOrderHolds`, for any number of processes, tags, requests and any programs under `CallsAssumption` (a
  send names its destination and its tag, a call about requests gives one), with the waits, the tests and the replays of `waitall`;
  `PairedInOrderAlone` is the same of `MpiP2P` by itself. The converter never counts messages: a send takes the first
  receive that waits for one, in a list from which `SetCompleted` also takes entries away, and the receive may have had
  wildcards. The invariant is `Paired`: `OutgoingOK` and `IncomingOK` (an entry stands for a message that was started at the position under
  which the entry is kept, and says so by its flags exactly as long as the other side has not started), `OneSided` (a message that one side alone has
  started still has its entry there, so that the other side will find it), `Resolves` (a receive without wildcards has the source and the tag of
  its message), `InOrder` (of the messages of one sender, receiver and tag, those made first are started first, on each side)
  and `AllThere` (each send and receive that was handled is in a message). So the starts of a sender and those of a receiver are each a prefix of
  the same list of messages, and as many sends as receives have started up to a message: both are in bijection with the messages up to it. Nothing in it depends on the ends of messages but that they
  take away only entries that have both starts; `RInv` adds that a replay resumes in the waitall that its process is at.

`OpenMP_proofs`
: `FramesFormed`, `RegionsLinked`, `SectionsFollowHolds`, `LinksCompleteHolds` and `StatesShownHolds`, for any finite set of
  threads, any number of regions and any nesting of them. `FInv` is about libgomp and the wrappers alone and holds always: the regions of a thread are nested in the order
  in which they were started, the thread has in each the number that libgomp gave it, and the one that started a region is in it while
  another one is. `CInv` holds until two threads increment `_next_section_id` together (`raced`, which is never reset) and ties the
  converter to it. `Numbered`: regions that are under way or ended have different ids. `Sections`: each id has one section, which holds the threads
  that have forked and those that have joined, and nothing else. `Lists`: `finished` has the sections of the regions that every thread has
  left, `pending` all others. `Stacks`: the stack of a thread ends in the sections of its regions. So each handler finds the section of
  the region that the event comes from (`SectionsFollow`), and the join that makes the count complete is the last one
  (`LinksComplete`).

: `StatesShownHolds` holds with or without the race. `SInv` has what makes it inductive: a construct is open at most once in a thread and is not
  when the thread asks for it; as long as no assertion has failed a thread shows one state more than what it has open or waits for; and
  `Critical` lies under at most as many states as the thread has constructs open or waited for in the critical section, so that the pop
  of its end takes it off, even when a lock unset inside has popped the wrong state. Only the thread that libgomp has given the critical
  section has entered it.

Only model-checked:

* liveness (`MergeLiveSpec` beyond its safety part, `ConversionEnds`, `AllWaitsHandled`, `EverythingHandled`,
  `ProbesReturn`, `SignalEnds`), which needs ENABLED and fairness;
* `TimesConsistent` and `OwnMessage`. They are not true of every program: the end of a receive is matched by source and tag and not
  by its request (`p2p.c:495`), so that an `MPI_Irecv` followed by an `MPI_Recv` from the same process with the same
  tag, and then by the wait, gives each of the two the end of the other; and waiting again for a receive that has ended
  writes new times in its message. A theorem would have to exclude such programs by a hypothesis on the order of all
  ends, which is the bound that the run has;
* `StatusMirrored`, `ReplayAfterEnded` and `OnlyLostPending`, which speak of programs without ambiguity (`Unambiguous`) or of requests
  that are not awaited twice (`AwaitedAgain`): they need the order of ends too.

## Findings

Two runs show that the program does not do what the repository says of it:

1. `MpiP2PSendrecv`, `src/modules/mpi/mpi_funcs/mpi_sendrecv.c:42`: the wrapper records the receive first and
   the send in the info event (and the other way round at the end), the handlers read the opposite
   (`mpi.c:385`). Each sendrecv is converted as a send to its source and a receive from its
   destination: in a shift of all processes the arrows are reversed, and with a process that uses plain
   sends and receives the converter waits forever for a message that nobody sends. (`sendrecv_replace` does
   the same.)
2. `ContainersReuse`, `core.c:776`: "this thread won't be used anymore", says `process_one_event` of a thread
   that ends. The system gives its id to another thread after the join, `get_thread_cont_from_id` (`core.c:318`) finds
   the destroyed container, and the new thread's events go there.

### Disagreements met while modelling

They are in the models (an action or a condition of the properties), without a run of their own.

* Scheduler. `core.c:940`: `__get_cur_ev` can return -1, which is used as an index; it takes traces that were
  cut short (the sender's ends with its send while the receive was just deferred). `core.c:1001`:
  `wait_for_an_event` never links the code it waits for into the list that `__handle_event_generic` searches; the
  handler stays blocked. `eztrace_convert.c:140`: a trace that is alone counts as started, so that `CHANGE` drops nothing of
  it, and `handle_mpi_init` resets its clock all the same (`mpi.c:187`): "when MPI_Init is grabbed and the timer reset, the
  trace will be a mess" (`eztrace_convert_macros.h:160`) is what happens to one MPI process whose libraries do
  something before `MPI_Init` (`StartsOnce`).
* MPI. `p2p.c:498`: receives from any source that two sends match put the two lists of a message out of step, and
  `assert(pending_comm)` fails. `mpi.c:784`: a waitany whose send was not read yet is not handled again: the event
  that is current when its handler returns is the last info event, not its own. `mpi.c:1258`: the end of a gather
  or scatter reads a length that its event does not have; `assert(msg)` fails. `coll.c:93`: collectives whose
  processes give different lengths (gatherv, scatterv, allgatherv; scatter records a length that is significant at the root only) are
  put in different messages, and the exits wait forever. `mpi.c:914` and 954: the delay of a collective is given to the trace
  whose place on the command line is the rank, where messages look the trace up (`mpi.c:128`).
* FxT buffer. `fut_setup.c:58` says that `fut_next_slot` points to the next unused byte in the buffer: it can pass the end
  (`fut_record.c:299`), and `fut_endup` then writes bytes behind the buffer. The comment at `fut_record.c:301` asks
  whether giving the slot back is a race: it is, but no cell is shared (`SlotSafety`). `fut_endup` flushes without
  `fut_flush_lock` (`fut_setup.c:454`): with a thread that flushes, both may open the file with O_TRUNC (line 387), and events are lost.
  It does not reset `fut_fd` when it has closed it (line 461): a thread that flushes later makes the process exit (line 430). The stamp is taken after
  the compare-and-swap (`fut_record.c:266`), so that stamps need not follow slots.
* Recorder (`eztrace_core.c`). "Stop recording events and write the trace to the disk" (`eztrace.h:44`): a second start
  and stop write to a descriptor that is closed; a signal between `prof_activated = 0` (line 294) and the
  flush loses the trace; a start while another thread stops loses the buffer; a stop in two threads (the application's and that of a
  handler) may open the file twice and lose the first trace. A signal during
  `eztrace_start` before `fut_setup` finds no buffer and its handler then waits for itself, as does
  any second signal in one thread (line 201). The event FUT_SIGNAL_RECEIVED is always dropped, by the shield that the
  handler has set itself (lines 174 and 185).
* Pthread. After the destructor the mutex wrappers return 0 without taking the lock (`pthread.c:72`). The converter warns of
  locks released by a thread that does not own them where the program is right (rwlocks read by several,
  conditions, trylock of a spin lock, whose handler tests the result the wrong way round, `eztrace_convert_pthread.c:112`).
* Memory. The size recorded by `realloc` has the header in it (`memory.c:235`, against the comment at line 50);
  `GET_HEADER_SIZE` leaves the padding of `calloc` out (line 56); `realloc` and `free` under the shield give libc an inner address
  or leak (lines 219, 243, 308); the handlers of malloc and realloc cut sizes to an int (`eztrace_convert_memory.c:61`, 85), that of free does not; `calloc` of elements of size 0 divides by zero; the hand-made pool has no bound (line 140).
* OpenMP. `_next_section_id++` is not atomic (`gomp.c:69`). `eztrace_convert_gomp.c:236` says "retrieve and remove" and never
  pops; a join inside a region shows Working; events before the start of a trace are ignored and the
  assertion on the token fails later (line 152); unsetting a lock inside a critical section pops the wrong state; the shield is
  cleared whatever it was before (`gomp.c:78`).
* Containers. Ids are `pthread_self` cut to an int (`eztrace_convert.h:43`, `eztrace_convert_types.h:82`, `core.c:257`), so that two
  threads may share a container. A join begun before `MPI_Init` by another thread pops the first
  state. `pthread_exit` records no end (`pthread_core.c:88`).
* Seen in code that is not modelled. `ezt_list_foreach_safe` is used with its tokens swapped (`eztrace_hook.h:62` and 95): the
  head is skipped and freed tokens are read. A send is recorded in the container of its destination (`eztrace_convert_mpi_p2p.c:576`), so
  that `eztrace_stats_mpi.c:198` counts the messages a process was sent. `eztrace_array_new_value` grows its
  array by elements counted as bytes.

## What is not modelled

* Output: names, colours and kinds of links and states. Times are modelled where they are drawn.
* Communicators other than MPI_COMM_WORLD (the rank in the communicator then takes the place of the rank of the process, `mpi.c:997`), probes, puts and gets; `MPI_Testsome`, whose wrapper records the first requests of the array and not those that
  have completed; the Fortran forms of the wrappers; filtering by EZTRACE variables.
* Traces without `MPI_Init` in the theorems (see their hypotheses and the hazard at `core.c:172`); a single trace with events before
  `MPI_Init`, whose times go back, in `TimesOrderedHolds`.
* The code of a blocked handler after its wait: never reached.
* Statistics: the same handlers in a second loop, and sums over what they have recorded. Data structures: they are seen
  through what they hold; sequential code.
* stdio: pairs of events around calls, with handlers of the shape of those of pthread. PAPI: values read.
  `pomp2_lib.c`: events of the kind of gomp's, called by code that opari2 has instrumented.
* pptrace: a sequential program that writes code into a stopped process; its correctness is in the bytes. Launcher,
  plugin generator, listing tools: input and output only.
* FxT's reader and kernel part, GTG, OTF and opari2: vendored libraries, which hold nearly all the lines that no model maps.
  They are seen as the code uses them.

## Plan

Done: the scheduler, handler threads, messages, requests, collectives, the buffer, the recorder, the modules pthread,
memory and OpenMP, the containers. What could follow, most important first:

1. A table of ranks of the communicators and the spawn groups under `MpiP2P` and `MpiColl`.
2. Proofs of `TimesConsistent`, `StatusMirrored`, `OwnMessage`, `ReplayAfterEnded` and `OnlyLostPending`, under a hypothesis on
   the order in which a process ends what it has started.
3. The statistics loop over the messages of `MpiP2P`.
4. The replacement of a function by pptrace, step by step with failures.
