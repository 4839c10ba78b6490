---------------------------- MODULE MpiCollCalls ----------------------------
(***************************************************************************)
(* What the wrappers of the collective communications record               *)
(* (src/src/modules/mpi/mpi_funcs): an event when the process enters and   *)
(* one when it leaves, with the length of its data or without.  The        *)
(* converter gives each pair of events a kind and reads a length in them   *)
(* (handle_mpi_start_* and handle_mpi_stop_* of eztrace_convert_mpi.c).    *)
(*                                                                         *)
(* A call is made from begin to end by the thread tid.                     *)
(***************************************************************************)
EXTENDS Naturals, Sequences

(* "read" is what the handler of the exit takes for the length. *)
Coll(type, len, read, begin, end, tid) ==
    <<[op |-> "start", type |-> type, len |-> len, time |-> begin, tid |-> tid],
      [op |-> "stop", type |-> type, len |-> read, time |-> end, tid |-> tid]>>

(* The length is in both events, or the handlers of both use 0. *)
Known(type, len, begin, end, tid) == Coll(type, len, len, begin, end, tid)
Unsized(type, begin, end, tid) == Known(type, 0, begin, end, tid)

Barrier(begin, end, tid) == Unsized("barrier", begin, end, tid)
Bcast(len, begin, end, tid) == Known("bcast", len, begin, end, tid)

(* The exits have three parameters: their handlers read a fourth one.  The *)
(* forms with several lengths have codes of their own and are handled as   *)
(* the others.                                                             *)
Gather(len, read, begin, end, tid) == Coll("gather", len, read, begin, end, tid)
Gatherv(len, read, begin, end, tid) == Gather(len, read, begin, end, tid)
Scatter(len, read, begin, end, tid) == Coll("scatter", len, read, begin, end, tid)
Scatterv(len, read, begin, end, tid) == Scatter(len, read, begin, end, tid)

Allgather(len, begin, end, tid) == Known("allgather", len, begin, end, tid)
Allgatherv(len, begin, end, tid) == Allgather(len, begin, end, tid)

(* No length is recorded. *)
Alltoall(begin, end, tid) == Unsized("alltoall", begin, end, tid)
Alltoallv(begin, end, tid) == Alltoall(begin, end, tid)
Reduce(begin, end, tid) == Unsized("reduce", begin, end, tid)
Allreduce(begin, end, tid) == Unsized("allreduce", begin, end, tid)
ReduceScatter(begin, end, tid) == Unsized("reduce_scatter", begin, end, tid)
Scan(begin, end, tid) == Unsized("scan", begin, end, tid)

=============================================================================
