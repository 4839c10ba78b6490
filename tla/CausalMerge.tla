---------------------------- MODULE CausalMerge ----------------------------
(***************************************************************************)
(* What the conversion promises, whatever the order in which the scheduler *)
(* takes the traces: the events of a trace are handled in their order,     *)
(* each of them once, none before what it needs was posted, and in the end *)
(* all of them.                                                            *)
(***************************************************************************)
EXTENDS Integers, Sequences

CONSTANTS Traces, Inputs

VARIABLES trace,     \* the input: trace[t][i] has fields "posts" and "needs"
          handled,   \* number of events of each trace that were handled
          seen       \* keys posted by the events handled

vars == <<trace, handled, seen>>

Init ==
    /\ trace \in Inputs
    /\ handled = [t \in Traces |-> 0]
    /\ seen = {}

(* A handler goes through one or several events of one trace. *)
Advance(t) ==
    \E n \in handled[t] + 1 .. Len(trace[t]) :
        /\ \A i \in handled[t] + 1 .. n : trace[t][i].needs \subseteq seen
        /\ handled' = [handled EXCEPT ![t] = n]
        /\ seen' = seen \cup UNION {trace[t][i].posts : i \in handled[t] + 1 .. n}
        /\ UNCHANGED trace

Next == \E t \in Traces : Advance(t)

Spec == Init /\ [][Next]_vars

(* Traces that were not cut short: what an event needs is posted in one of *)
(* them, and a post is not the last event of its trace.                    *)
Whole ==
    /\ \A t \in Traces : \A i \in DOMAIN trace[t] : \A k \in trace[t][i].needs :
           \E u \in Traces : \E j \in DOMAIN trace[u] : k \in trace[u][j].posts
    /\ \A t \in Traces : trace[t][Len(trace[t])].posts = {}

Complete == \A t \in Traces : handled[t] = Len(trace[t])

LiveSpec == Spec /\ (Whole => <>Complete)

=============================================================================
