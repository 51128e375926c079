---------------------------- MODULE MCEpxExecutor ----------------------------
(***************************************************************************)
(* An instance of EpxExecutor for TLC: one instance per replica, every     *)
(* dependency graph over them with equal seqs, those with a cycle also     *)
(* with different ones.                                                    *)
(***************************************************************************)
EXTENDS EpxExecutor

\* Slots of equal numbers stay in the order they came; any will do.
Slots(S) == SetToSortSeq(S, LAMBDA a, b : a.replica < b.replica)

Graphs == {g \in [Ids -> SUBSET Ids] : \A id \in Ids : id \notin g[id]}

Attribute(g, seqs) == [id \in Ids |-> [seq |-> seqs[id], deps |-> Slots(g[id])]]

Cyclic(g) == \E S \in SUBSET Ids \ {{}} : \A id \in S : g[id] \cap S # {}

\* A number orders the members of a component (execute.c:172) and has no other
\* part: different ones are worth a state only where there is a cycle.
MCAttributes ==
    {Attribute(g, [id \in Ids |-> 1]) : g \in Graphs}
        \union {Attribute(g, [id \in Ids |-> N - id.replica]) : g \in {h \in Graphs : Cyclic(h)}}

\* The instance of replica 0.
MCLearned == {id \in Ids : id.replica = 0}

=============================================================================
