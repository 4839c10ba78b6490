----------------------------- MODULE EztSchedMC -----------------------------
(* Small inputs for the scheduler. *)
EXTENDS EztSched

E(code, time) == [code |-> code, time |-> time, posts |-> {}, needs |-> {}, n |-> 0, ppid |-> 0]
Plain(time) == E("plain", time)
Post(k, time) == [E("post", time) EXCEPT !.posts = {k}]
Need(ks, time) == [E("need", time) EXCEPT !.needs = ks]
Info(ks, time) == [E("info", time) EXCEPT !.needs = ks]
Waitall(n, time) == [E("waitall", time) EXCEPT !.n = n]
Spawn(p, n, time) == [E("spawn", time) EXCEPT !.n = n, !.ppid = p]
Spawned(p, time) == [E("spawned", time) EXCEPT !.ppid = p]

(* MPI_Init at absolute time "time": the clocks of two traces differ. *)
Started(time) == <<E("init", time), E("info", time)>>

(* A process that has nothing to do with the others. *)
Other == Started(4) \o <<Plain(6)>>

(* Messages both ways, the clocks of the processes being out of step. *)
P2P == {[t \in 0 .. 2 |->
            IF t = 0
            THEN <<Plain(5)>> \o Started(7) \o <<Post("a", 7 + x), Plain(7 + x), Need({"b"}, 8 + y), Plain(9 + y)>>
            ELSE IF t = 2 THEN Other
            ELSE Started(2) \o <<Need({"a"}, 2 + u), Post("b", 4 + v), Plain(5 + v)>>]
          : x \in 0 .. 4, y \in 4 .. 7, u \in 0 .. 2, v \in 0 .. 4}

(* A waitall on up to two requests, whose messages come from another trace *)
(* in either order; one request may be MPI_REQUEST_NULL.                   *)
WaitallOn == {[t \in 0 .. 2 |->
            IF t = r
            THEN Started(1) \o <<Waitall(2, 2 + x), Info(ks[1], 2 + x), Info(ks[2], 2 + x), Plain(6)>>
            ELSE IF t = 2 THEN Other
            ELSE Started(3) \o <<Post("a", 4 + y), Plain(5 + y), Post("b", 6 + y), Plain(7 + y)>>]
          : r \in 0 .. 1, x \in 0 .. 2, y \in 0 .. 3,
            ks \in {<<{"a"}, {"b"}>>, <<{"b"}, {"a"}>>, <<{}, {"b"}>>, <<{"a"}, {}>>}}

(* A collective of three processes, and a message before it. *)
Collective == {[t \in 0 .. 2 |->
            Started(t + 1) \o
            (IF t = 0 THEN <<Post("m", 2), Plain(2)>>
             ELSE IF t = 1 THEN <<Need({"m"}, 2)>> ELSE << >>) \o
            <<Post(<<"c0", "c1", "c2">>[t + 1], x[t] + 2),
              Need({"c0", "c1", "c2"}, x[t] + 3), Plain(x[t] + 4)>>]
          : x \in [0 .. 2 -> {1, 3, 6}]}

(* A process that spawns two others, which wait for its messages. *)
Spawning == {[t \in 0 .. 2 |->
            IF t = p
            THEN Started(1) \o <<Plain(1 + x), Spawn(4, 2, 2 + x), Plain(3 + x), Post("m", 4 + x), Plain(9)>>
            ELSE <<Plain(2), Spawned(4, 3)>> \o Started(3 + y) \o
                 <<Need({"m"}, 4 + y), Plain(5 + y)>>]
          : p \in 0 .. 2, x \in 0 .. 3, y \in 0 .. 2}

(* Traces cut short: an event that nothing posts, a post that is the last  *)
(* event of its trace, an MPI_Init without its info event.                 *)
Truncated == {[t \in 0 .. 2 |->
            IF t = 0 THEN Started(1) \o <<Need({"a"}, 2 + x), Plain(5)>>
            ELSE IF t = 2 THEN Other
            ELSE SubSeq(Started(2) \o <<Plain(3 + y), Post("a", 4 + y), Plain(5 + y)>>, 1, l)]
          : x \in 0 .. 3, y \in 0 .. 3, l \in 1 .. 5}

AllTraces == P2P \cup WaitallOn \cup Collective \cup Spawning \cup Truncated
=============================================================================
