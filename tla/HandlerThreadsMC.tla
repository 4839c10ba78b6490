-------------------------- MODULE HandlerThreadsMC --------------------------
(* Small inputs for the handler threads: events of two threads of the      *)
(* application, those of one thread read by groups.                        *)
EXTENDS HandlerThreads

Ev1(code, awaits) == [tid |-> 1, code |-> code, awaits |-> awaits]
Other == [tid |-> 2, code |-> "other", awaits |-> << >>]
Info == Ev1("info", << >>)
Group(n) == Ev1("group", [i \in 1 .. n |-> "info"])

(* A group of n info events, the k-th of them preceded by an event of the  *)
(* other thread (k > n: none), with or without the end of the trace.       *)
GroupTrace(n, k, end) ==
    <<Group(n)>> \o
    [i \in 1 .. k - 1 |-> Info] \o
    (IF k <= n THEN <<Other>> ELSE << >>) \o
    [i \in 1 .. n - k + 1 |-> Info] \o
    end

Groups == {GroupTrace(n, k, end) :
            n \in 1 .. 2, k \in 1 .. 3, end \in {<< >>, <<Other>>, <<Other, Group(1), Info>>}}

(* A trace cut before the last info events of a group. *)
Cut == {<<Group(2)>>, <<Group(2), Info>>, <<Other, Group(1)>>}

TwoTraces == {w \in [{"t1", "t2"} -> Groups \cup Cut] :
                w["t2"] \in Cut \/ w["t2"] \in {GroupTrace(1, 1, <<Other>>), GroupTrace(1, 2, << >>)}}

=============================================================================
