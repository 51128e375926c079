------------------------------ MODULE EpxExecOrder ------------------------------
(***************************************************************************)
(* What the executor of a node promises, whatever its algorithm: given the *)
(* attributes that the replicas agreed on, which sets of instances it may  *)
(* run next and in which order.  EpxExecutor implements this.              *)
(*                                                                         *)
(* The order two dependent instances run in follows from the attributes    *)
(* alone (FixedOrder), so it is the same at every node.                    *)
(***************************************************************************)
EXTENDS Integers, Sequences, SequencesExt, FiniteSets

CONSTANTS
    Instance,   \* the instances
    Attributes  \* the attributes they may be agreed on with

\* What the theorems ask of the constants.
OrderAssumption ==
    /\ IsFiniteSet(Instance)
    /\ Attributes \subseteq [Instance -> [seq : Nat, deps : Seq(Instance)]]

VARIABLES
    agreed,     \* the attributes the replicas agreed on
    log,        \* the components run so far, each in the order of its run
    hasty       \* whether an instance was run before its attributes were stored

vars == <<agreed, log, hasty>>

Deps(n) == ToSet(agreed[n].deps)

\* The instances that have run.
Ran == UNION {ToSet(log[k]) : k \in DOMAIN log}

\* Sets that hold the dependencies of their members, and the least of them
\* around n: what n depends on, directly or not.
DepClosed(S) == \A n \in S : Deps(n) \subseteq S

DependsOn(n) ==
    {m \in Instance : \A S \in SUBSET Instance : n \in S /\ DepClosed(S) => m \in S}

\* c lists instances that depend on each other, by sequence number.
Cycle(c) == \A n, m \in ToSet(c) : m \in DependsOn(n)

BySeq(c) == \A i, j \in DOMAIN c : i < j => agreed[c[i]].seq <= agreed[c[j]].seq

\* A component may run once its dependencies outside of it have.
Ready(c) == \A n \in ToSet(c) : Deps(n) \subseteq Ran \union ToSet(c)

Components == UNION {[1..k -> Instance] : k \in 1..Cardinality(Instance)}

-----------------------------------------------------------------------------

Init ==
    /\ agreed \in Attributes
    /\ log = <<>>
    /\ hasty = FALSE

\* An instance that ran may run again: a repeated COMMIT hands it over again.
Run(c) ==
    /\ ~hasty
    /\ log' = Append(log, c)
    /\ Cycle(c)
    /\ BySeq(c)
    /\ Ready(c)
    /\ UNCHANGED <<agreed, hasty>>

\* The executor looked at an instance whose attributes are still to come:
\* nothing is promised from there on.
Hasten ==
    /\ hasty' = TRUE
    /\ log' \in Seq(Seq(Instance))
    /\ UNCHANGED agreed

Next == (\E c \in Components : Run(c)) \/ Hasten

Spec == Init /\ [][Next]_vars

-----------------------------------------------------------------------------

\* b ran, and a had not run by then.
RanBefore(b, a) ==
    \E k \in DOMAIN log : \E i \in DOMAIN log[k] :
        /\ log[k][i] = b
        /\ \A l \in 1..k : \A j \in DOMAIN log[l] : log[l][j] = a => l = k /\ i < j

\* What the agreed attributes say of the order of a and b.
MustPrecede(b, a) ==
    /\ b \in DependsOn(a)
    /\ a \in DependsOn(b) => agreed[b].seq < agreed[a].seq

\* Nothing has run whose dependencies have not.
ClosedLog == hasty \/ DepClosed(Ran)

\* If a has run, what must precede it ran first, the first time it ran: every
\* node runs two instances of which one depends on the other in one order,
\* except those of a cycle with equal sequence numbers (execute.c:172).
FixedOrder ==
    hasty \/ \A a \in Ran, b \in Instance : MustPrecede(b, a) => RanBefore(b, a)

=============================================================================
