-------------------------------- MODULE Memory --------------------------------
(***************************************************************************)
(* The memory module: malloc, calloc, realloc and free as the recorder     *)
(* replaces them (src/src/modules/memory/memory.c), and the handlers of    *)
(* their events in the converter (eztrace_convert_memory.c).               *)
(*                                                                         *)
(* A block is an address of the C library's allocator; what the program    *)
(* is given is an offset into it, behind the header.  The events reach the *)
(* converter in the order in which they are recorded, so that each is      *)
(* handled by the step that records it.                                    *)
(***************************************************************************)
EXTENDS Integers, FiniteSets, Functions

CONSTANTS Threads,
          Main,         \* the thread that is there when the library is loaded
          Blocks,       \* the addresses
          Counts,       \* the numbers of elements asked for
          Elements,     \* the sizes of the elements of calloc
          HeaderSize,   \* sizeof(struct mem_block_info)
          MaxCalls,     \* how many calls the program makes
          Wide, Narrow  \* 2^64 and 2^32

ASSUME MemoryAssumption ==
    /\ IsFiniteSet(Threads) /\ Main \in Threads /\ IsFiniteSet(Blocks)
    /\ Counts \subseteq Nat /\ 1 \in Elements /\ Elements \subseteq Nat \ {0}
    /\ HeaderSize \in Nat \ {0} /\ Wide \in Nat \ {0} /\ Narrow \in Nat \ {0}

VARIABLES
    heap,        \* of each block: what it is, and what its header says
    live,        \* the blocks that the program has
    op,          \* of each thread: what it still has to do in its call
    found,       \* libmalloc # NULL
    seeking,     \* malloc_protect_on
    initialised, \* the library's constructor has run
    shield,      \* of each thread: the recursion shield
    active,      \* whether events are recorded
    calls,       \* the calls made
    shown,       \* struct memory_process_info_t
    (* history *)
    counted,     \* the blocks that the events have told of
    foreign,     \* an event told of the end of a block that none had told of
    cut,         \* an event told of a size that is not one of type int
    wrapped,     \* memory_use has gone below 0
    wild,        \* the allocator was given an address it had not given
    astray       \* realloc took a way that knows nothing of the header

startup == <<found, seeking, initialised>>
history == <<counted, foreign, cut, wrapped, wild, astray>>
vars == <<heap, live, op, startup, shield, active, calls, shown, history>>

Unused == [type |-> "unused", bytes |-> 0, offset |-> 0, size |-> 0, data |-> 0]
Plain(n) == [type |-> "plain", bytes |-> n, offset |-> 0, size |-> 0, data |-> 0]
UnusedBlocks == {b \in Blocks : heap[b] = Unused}

Idle == [does |-> "app"]

Init ==
    /\ heap = [b \in Blocks |-> Unused] /\ live = {}
    /\ op = [t \in Threads |-> Idle]
    /\ found = FALSE /\ seeking = FALSE /\ initialised = FALSE
    /\ shield = [t \in Threads |-> FALSE]
    /\ active = FALSE /\ calls = 0
    /\ shown = [memory_use |-> 0, nb_malloc |-> 0, nb_free |-> 0, total_malloced |-> 0,
                total_freed |-> 0, max_mem_used |-> 0]
    /\ counted = {} /\ foreign = FALSE /\ cut = FALSE /\ wrapped = FALSE /\ wild = FALSE /\ astray = FALSE

-----------------------------------------------------------------------------
(* The header. *)

\* What the elements take that make room for the header.
HeaderRoom(element) ==
    LET whole == HeaderSize \div element
    IN element * IF element * whole < HeaderSize THEN whole + 1 ELSE whole

(* INIT_MEM_INFO; total_size - size is the offset of the program's part. *)
InitMemInfo(type, bytes, n, element, data) ==
    [type |-> type, bytes |-> bytes, offset |-> HeaderRoom(element), size |-> n * element, data |-> data]

\* malloc and calloc: the contents start where the program is told.
Fresh(type, n, element) ==
    InitMemInfo(type, n * element + HeaderRoom(element), n, element, HeaderRoom(element))

\* Fault: the number and the size of the elements are exchanged.
ResizedAsOne(block, n) ==
    InitMemInfo("malloc", n + block.offset, 1, n + block.offset, block.data)

(* realloc: the C library keeps the contents where they are in its block. *)
Resized(block, n) ==
    InitMemInfo("malloc", n + block.offset, n + block.offset, 1, block.data)

-----------------------------------------------------------------------------
(* The handlers of the converter. *)

\* The comparison and the assignment to a field of 32 bits.
WithMax(p) ==
    IF p.memory_use > p.max_mem_used THEN [p EXCEPT !.max_mem_used = p.memory_use % Narrow] ELSE p

(* A size of the events, of 64 bits, in a variable of type int. *)
ToInt(n) ==
    LET low == n % Narrow
    IN IF low < Narrow \div 2 THEN low ELSE low - Narrow

IsCut(n) == ToInt(n) # n

(* handle_memory_malloc; the int gets its sign in all 64 bits. *)
HandleMalloc(p, size) ==
    WithMax([p EXCEPT !.nb_malloc = @ + 1,
                      !.memory_use = (@ + ToInt(size)) % Wide,
                      !.total_malloced = (@ + ToInt(size)) % Wide])

(* new_size - old_size, both of type int.  What it is when it is not one   *)
(* is undefined: the compiled program subtracts in 32 bits or in 64.       *)
IntDifferences(new, old) ==
    LET whole == ToInt(new) - ToInt(old) IN {whole, ToInt(whole)}

(* handle_memory_realloc *)
HandleRealloc(p, difference) ==
    WithMax([p EXCEPT !.nb_malloc = @ + 1, !.nb_free = @ + 1,
                      !.memory_use = (@ + difference) % Wide,
                      !.total_malloced = (@ + difference) % Wide])

(* handle_memory_free, which keeps the 64 bits. *)
HandleFree(p, size) ==
    [p EXCEPT !.nb_free = @ + 1,
              !.memory_use = IF @ >= size THEN @ - size ELSE 0,
              !.total_freed = (@ + size) % Wide]

-----------------------------------------------------------------------------
(* The calls of the program. *)

\* Only one thread is there before the constructor has run.
Calls(t) ==
    /\ ~wild /\ calls < MaxCalls
    /\ op[t] = Idle
    /\ initialised \/ t = Main

Called == calls' = calls + 1

(* malloc finds libmalloc NULL: dlsym, which allocates by hand. *)
MallocSeeks(t) ==
    /\ Calls(t) /\ ~found /\ ~seeking
    /\ seeking' = TRUE
    /\ op' = [op EXCEPT ![t] = [does |-> "dlsym"]]
    /\ UNCHANGED <<heap, live, found, initialised, shield, active, calls, shown, history>>

HandMadeMalloc(t, n) ==
    /\ op[t].does = "dlsym" /\ calls < MaxCalls
    /\ \E b \in UnusedBlocks :
          /\ heap' = [heap EXCEPT ![b] = Fresh("custom", n, 1)]
          /\ live' = live \cup {b}
    /\ Called
    /\ UNCHANGED <<op, startup, shield, active, shown, history>>

MallocFinds(t) ==
    /\ op[t].does = "dlsym"
    /\ found' = TRUE /\ seeking' = FALSE
    /\ op' = [op EXCEPT ![t] = Idle]
    /\ UNCHANGED <<heap, live, initialised, shield, active, calls, shown, history>>

(* __memory_init *)
MemoryInit ==
    /\ ~initialised /\ op[Main] = Idle
    /\ initialised' = TRUE /\ found' = TRUE
    /\ UNCHANGED <<heap, live, op, seeking, shield, active, calls, shown, history>>

(* malloc(n) for element = 1, calloc(n, element), which is a malloc before *)
(* the constructor has run.  Under the shield the block has no header.     *)
Malloc(t, n, element) ==
    /\ Calls(t) /\ found
    /\ initialised \/ element = 1
    /\ \E b \in UnusedBlocks :
          IF shield[t]
          THEN /\ heap' = [heap EXCEPT ![b] = Plain(n * element)]
               /\ live' = live \cup {b}
               /\ UNCHANGED op
          ELSE /\ heap' = [heap EXCEPT ![b] = Fresh("malloc", n, element)]
               /\ op' = [op EXCEPT ![t] = [does |-> "malloc", block |-> b]]
               /\ UNCHANGED live
    /\ Called
    /\ UNCHANGED <<startup, shield, active, shown, history>>

\* Fault: the size of the block in the event.
RecordsTotal(t) ==
    /\ op[t].does = "malloc"
    /\ LET b == op[t].block
       IN /\ shown' = IF active THEN HandleMalloc(shown, heap[b].size + heap[b].offset) ELSE shown
          /\ cut' = (cut \/ (active /\ IsCut(heap[b].size + heap[b].offset)))
          /\ counted' = IF active THEN counted \cup {b} ELSE counted
          /\ live' = live \cup {b}
    /\ op' = [op EXCEPT ![t] = Idle]
    /\ UNCHANGED <<heap, startup, shield, active, calls, foreign, wrapped, wild, astray>>

(* The event of malloc and calloc, and their return. *)
MallocRecords(t) ==
    /\ op[t].does = "malloc"
    /\ LET b == op[t].block
       IN /\ shown' = IF active THEN HandleMalloc(shown, heap[b].size) ELSE shown
          /\ cut' = (cut \/ (active /\ IsCut(heap[b].size)))
          /\ counted' = IF active THEN counted \cup {b} ELSE counted
          /\ live' = live \cup {b}
    /\ op' = [op EXCEPT ![t] = Idle]
    /\ UNCHANGED <<heap, startup, shield, active, calls, foreign, wrapped, wild, astray>>

(* libfree(address of b + offset). *)
LibFree(b, offset) ==
    IF heap[b].type \in {"plain", "malloc"} /\ offset = 0
    THEN heap' = [heap EXCEPT ![b] = Unused] /\ UNCHANGED wild
    ELSE wild' = TRUE /\ UNCHANGED heap

(* A block without the canary goes to the C library. *)
FreePlain(t, b) ==
    /\ Calls(t) /\ b \in live /\ heap[b].type = "plain"
    /\ LibFree(b, heap[b].offset)
    /\ live' = live \ {b}
    /\ Called
    /\ UNCHANGED <<op, startup, shield, active, shown, counted, foreign, cut, wrapped, astray>>

(* One with the canary stays where it is under the shield, or if it was    *)
(* allocated by hand.                                                      *)
FreeKeeps(t, b) ==
    /\ Calls(t) /\ b \in live /\ heap[b].type # "plain"
    /\ shield[t] \/ heap[b].type = "custom"
    /\ live' = live \ {b}
    /\ Called
    /\ UNCHANGED <<heap, op, startup, shield, active, shown, history>>

(* Otherwise the event is recorded first. *)
FreeRecords(t, b) ==
    /\ Calls(t) /\ b \in live /\ heap[b].type = "malloc" /\ ~shield[t]
    /\ live' = live \ {b}
    /\ shown' = IF active THEN HandleFree(shown, heap[b].size) ELSE shown
    /\ counted' = IF active THEN counted \ {b} ELSE counted
    /\ foreign' = (foreign \/ (active /\ b \notin counted))
    /\ op' = [op EXCEPT ![t] = [does |-> "free", block |-> b]]
    /\ Called
    /\ UNCHANGED <<heap, startup, shield, active, cut, wrapped, wild, astray>>

\* Fault: the address that the program has is given to the C library.
FreesUserPointer(t) ==
    /\ op[t].does = "free"
    /\ LibFree(op[t].block, heap[op[t].block].offset)
    /\ op' = [op EXCEPT ![t] = Idle]
    /\ UNCHANGED <<live, startup, shield, active, calls, shown, counted, foreign, cut, wrapped, astray>>

FreeEnds(t) ==
    /\ op[t].does = "free"
    /\ LibFree(op[t].block, 0)
    /\ op' = [op EXCEPT ![t] = Idle]
    /\ UNCHANGED <<live, startup, shield, active, calls, shown, counted, foreign, cut, wrapped, astray>>

(* librealloc keeps the block or moves it. *)
LibRealloc(b, moved, resized) ==
    /\ moved \in UnusedBlocks \cup {b}
    /\ heap' = [[heap EXCEPT ![b] = Unused] EXCEPT ![moved] = resized]

ReallocPlain(t, b, n) ==
    /\ Calls(t) /\ b \in live /\ heap[b].type = "plain"
    /\ \E moved \in UnusedBlocks \cup {b} :
          /\ LibRealloc(b, moved, Plain(n))
          /\ live' = (live \ {b}) \cup {moved}
    /\ Called
    /\ UNCHANGED <<op, startup, shield, active, shown, history>>

(* Under the shield realloc gives the C library the address that the       *)
(* program has; a block made by hand is given to it after a warning.       *)
ReallocStrays(t, b) ==
    /\ Calls(t) /\ b \in live /\ heap[b].type # "plain"
    /\ shield[t] \/ heap[b].type = "custom"
    /\ wild' = TRUE /\ astray' = TRUE
    /\ Called
    /\ UNCHANGED <<heap, live, op, startup, shield, active, shown, counted, foreign, cut, wrapped>>

Realloc(t, b, n) ==
    /\ Calls(t) /\ b \in live /\ heap[b].type = "malloc" /\ ~shield[t]
    /\ live' = live \ {b}
    /\ \E moved \in UnusedBlocks \cup {b} :
          /\ LibRealloc(b, moved, Resized(heap[b], n))
          /\ op' = [op EXCEPT ![t] = [does |-> "realloc", block |-> moved, old |-> heap[b].size,
                                      known |-> b \in counted]]
    /\ counted' = counted \ {b}
    /\ Called
    /\ UNCHANGED <<startup, shield, active, shown, foreign, cut, wrapped, wild, astray>>

(* The event of realloc, and its return. *)
ReallocRecords(t) ==
    /\ op[t].does = "realloc"
    /\ LET b == op[t].block
       IN /\ live' = live \cup {b}
          /\ IF active
             THEN /\ \E difference \in IntDifferences(heap[b].size, op[t].old) :
                        shown' = HandleRealloc(shown, difference)
                  /\ counted' = counted \cup {b}
                  /\ foreign' = (foreign \/ ~op[t].known)
                  /\ cut' = (cut \/ IsCut(op[t].old) \/ IsCut(heap[b].size))
                  /\ wrapped' = (wrapped \/ shown.memory_use + heap[b].size < op[t].old)
             ELSE UNCHANGED <<shown, counted, foreign, cut, wrapped>>
    /\ op' = [op EXCEPT ![t] = Idle]
    /\ UNCHANGED <<heap, startup, shield, active, calls, wild, astray>>

(* eztrace_start *)
Start ==
    /\ initialised /\ ~active
    /\ active' = TRUE
    /\ UNCHANGED <<heap, live, op, startup, shield, calls, shown, history>>

(* The shield of a thread goes on or off: the OpenMP and the PAPI modules  *)
(* set it around their own allocations and the calls of their libraries    *)
(* (gomp.c:70-79, papi.c:89-125), which call malloc and free.              *)
Shield(t) ==
    /\ initialised /\ op[t] = Idle /\ calls < MaxCalls
    /\ shield' = [shield EXCEPT ![t] = ~@]
    /\ UNCHANGED <<heap, live, op, startup, active, calls, shown, history>>

\* The bound on the calls is reached, or the process has crashed.
Terminated == (calls = MaxCalls \/ wild) /\ UNCHANGED vars

Next ==
    \/ \E t \in Threads :
          \/ MallocSeeks(t) \/ MallocFinds(t)
          \/ MallocRecords(t) \/ FreeEnds(t) \/ ReallocRecords(t)
          \/ Shield(t)
          \/ \E n \in Counts : HandMadeMalloc(t, n) \/ \E e \in Elements : Malloc(t, n, e)
          \/ \E b \in live : \/ FreePlain(t, b) \/ FreeKeeps(t, b) \/ FreeRecords(t, b)
                             \/ ReallocStrays(t, b)
                             \/ \E n \in Counts : ReallocPlain(t, b, n) \/ Realloc(t, b, n)
    \/ MemoryInit \/ Start
    \/ Terminated

Spec == Init /\ [][Next]_vars

-----------------------------------------------------------------------------
(* Properties. *)

\* The threads between the new block of realloc and its event.
Reallocating == {t \in Threads : op[t].does = "realloc" /\ op[t].known}

\* What the blocks have that the events have told of, and what those had
\* that are being resized.
CountedSize == [b \in Blocks |-> IF b \in counted THEN heap[b].size ELSE 0]
ResizedSize == [t \in Threads |-> IF t \in Reallocating THEN op[t].old ELSE 0]
Told == SumFunction(CountedSize) + SumFunction(ResizedSize)

\* The C library has given no more than there is.
MemoryFits == Told < Wide

(* The memory shown is what the headers say of the blocks that the events  *)
(* told of, those included that a free under the shield left to no one,    *)
(* as long as no block from before the start is freed or resized; then it  *)
(* is less, and never more, unless a block is resized that makes it wrap   *)
(* around 0.  After a malloc or a realloc of a size that is not of type    *)
(* int, for which the handlers add another number, nothing is claimed.     *)
UseFollows ==
    /\ ~foreign /\ ~cut => shown.memory_use = Told /\ ~wrapped
    /\ ~wrapped /\ ~cut => shown.memory_use <= Told

(* The contents of a block are where the program has been told, unless it  *)
(* came from a calloc of elements whose size does not divide the header:   *)
(* realloc leaves the padding out of the address it returns.               *)
ContentsKept ==
    \A b \in live : heap[b].data # heap[b].offset =>
        \E e \in Elements : HeaderSize % e # 0 /\ heap[b].data = HeaderRoom(e)

(* The C library is given back the addresses that it gave, each once,      *)
(* whichever of the two kinds of blocks the program has, except by a       *)
(* realloc under the shield or of a block made by hand.                    *)
AllocatorKnows == wild => astray
=============================================================================
