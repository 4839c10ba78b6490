----------------------------- MODULE MpiCollMC -----------------------------
(* Small programs made of collectives. *)
EXTENDS MpiColl, MpiCollCalls

(* Two rounds: twice the same collective, one kind after another, the same *)
(* kind with two lengths or in two forms.  b and e are the times of the    *)
(* first, c and f those of the second.                                     *)
TwoRounds(b, e, c, f) ==
    {Barrier(b, e, 1) \o Barrier(c, f, 1),
     Barrier(b, e, 1) \o Bcast(1, c, f, 1),
     Bcast(2, b, e, 1) \o Bcast(1, c, f, 1),
     Allgather(1, b, e, 1) \o Allgatherv(1, c, f, 1),
     Alltoallv(b, e, 1) \o Alltoall(c, f, 1),
     Reduce(b, e, 1) \o Allreduce(c, f, 1),
     ReduceScatter(b, e, 1) \o Scan(c, f, 1)}

(* The clock of a process is early or late, and changes between the rounds. *)
Shifted(events, x, y) ==
    [i \in DOMAIN events |-> [events[i] EXCEPT !.time = @ + (IF i <= 2 THEN x ELSE x + y)]]

Rounds ==
    {[p \in 0 .. 2 |-> Shifted(r, x[p], y[p])] :
       r \in TwoRounds(2, 4, 5, 7), x \in [0 .. 2 -> {0, 4}], y \in [0 .. 2 -> {0, 2}]}

(* The threads of a process may take turns. *)
ThreeRounds ==
    {[p \in 0 .. 2 |-> LET tid == IF p = 0 THEN 2 ELSE 1 IN
                       Bcast(1, 1 + x[p], 2 + x[p], 1) \o
                       (IF sized THEN Scatterv(1, 1, 4 + x[p], 5 + x[p], tid)
                                 ELSE Barrier(4 + x[p], 5 + x[p], tid)) \o
                       Bcast(1, 9, 10 + x[p], 1)] :
       x \in [0 .. 2 -> {0, 4}], sized \in BOOLEAN}

(* Gathers and scatters whose exits read any length: that of the entry, of *)
(* another collective, or another value.                                   *)
Gathers ==
    {[p \in 0 .. 2 |-> (IF gather THEN Gather(1, 1, 1, 2, 1) \o Gatherv(2, r[p], 3 + x[p], 5, 1)
                                  ELSE Gather(2, 2, 1, 2, 1) \o Scatter(2, r[p], 3 + x[p], 5, 1))] :
       r \in [0 .. 2 -> {0, 1, 2}], x \in [0 .. 2 -> {0, 1}], gather \in BOOLEAN}

(* The traces in any order: rank_10 comes before rank_2 in a directory. *)
AllOrders == {o \in [0 .. 2 -> 0 .. 2] : \A i, j \in 0 .. 2 : o[i] = o[j] => i = j}

AllPrograms == Rounds \cup ThreeRounds \cup Gathers

=============================================================================
