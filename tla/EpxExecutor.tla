------------------------------ MODULE EpxExecutor ------------------------------
(***************************************************************************)
(* The executor thread of one node, src/execute.c, and the part of the     *)
(* replica thread that hands it committed instances over chan_exec.        *)
(*                                                                         *)
(* Both threads work on the same instances without a lock.  The executor   *)
(* reads the dependencies of an instance twice, when strong_connect links  *)
(* the vertices and when execute_scc checks a component, and the replica   *)
(* may run in between, so each component is a step of its own.             *)
(***************************************************************************)
EXTENDS EpxInstance, SequencesExt

CONSTANTS
    Attributes,     \* the attributes the instances may be agreed on with
    Learned,        \* the instances this replica learns from a COMMIT
    MaxHandOvers    \* bound: sends on chan_exec

\* The arrays of struct executor hold MAX_DEPS components of MAX_DEPS nodes.
ASSUME ExecutorAssumption ==
    /\ Attributes \subseteq [Ids -> [seq : Nat \ {0}, deps : Seq(Ids)]]
    /\ Learned \subseteq Ids
    /\ MaxHandOvers \in Nat
    /\ Cardinality(Ids) <= MAX_DEPS

VARIABLES
    agreed,     \* the attributes every replica commits the instances with
    inst,       \* the instances of the replica: status, seq, deps
    storing,    \* the instance whose COMMIT the replica thread is storing
    chan,       \* chan_exec
    handed,     \* sends on chan_exec so far
    vertices,   \* executor.vertices
    edges,      \* tarjan_node.deps of each vertex
    index,      \* tarjan_node.index of each vertex, -1 if not visited
    low_link,   \* tarjan_node.low_link
    visited,    \* executor.index
    stack,      \* executor.stack, its top first
    calls,      \* the calls of visit that have not returned, the last first
    todo,       \* the edges that visit has yet to look at
    sccs,       \* executor.sccs, those this pass has not come to
    log,        \* history: the components executed, each in its order
    early       \* history: whether the executor ran during a COMMIT

replica == <<inst, storing, handed>>
graph == <<vertices, edges>>
nodes == <<index, low_link, visited, stack, calls, todo>>
history == <<log, early>>

vars == <<agreed, replica, chan, graph, nodes, sccs, history>>

Unvisited == [id \in Ids |-> -1]

NoEdges == [id \in Ids |-> {}]

Init ==
    /\ agreed \in Attributes
    /\ inst = [id \in Ids |->
                 IF id \in Learned THEN [status |-> ABSENT, seq |-> 0, deps |-> <<>>]
                 ELSE [status |-> PRE_ACCEPTED, seq |-> agreed[id].seq,
                       deps |-> agreed[id].deps]]
    /\ storing = {} /\ chan = <<>> /\ handed = 0
    /\ vertices = {} /\ edges = NoEdges
    /\ index = Unvisited /\ low_link = Unvisited /\ visited = 0
    /\ stack = <<>> /\ calls = <<>> /\ todo = NoEdges
    /\ sccs = <<>>
    /\ log = <<>> /\ early = FALSE

-----------------------------------------------------------------------------
(* The replica thread.                                                     *)

InPlace(id) == inst[id].seq = agreed[id].seq /\ inst[id].deps = agreed[id].deps

\* The status is set and the instance sent before anything else is stored.
SendExec(id) ==
    /\ handed < MaxHandOvers
    /\ handed' = handed + 1
    /\ inst' = [inst EXCEPT ![id].status = COMMITTED]
    /\ chan' = Append(chan, id)
    /\ UNCHANGED <<agreed, graph, nodes, sccs, history>>

\* do_commit, whose instance holds its attributes, or a repeated COMMIT.
HandOver(id) ==
    /\ storing = {}
    /\ InPlace(id)
    /\ SendExec(id)
    /\ UNCHANGED storing

\* commit() up to send_exec, and its rest.
Learn(id) ==
    /\ storing = {}
    /\ ~InPlace(id)
    /\ SendExec(id)
    /\ storing' = {id}

Store(id) ==
    /\ id \in storing
    /\ inst' = [inst EXCEPT ![id].seq = agreed[id].seq, ![id].deps = agreed[id].deps]
    /\ storing' = {}
    /\ UNCHANGED <<agreed, chan, handed, graph, nodes, sccs, history>>

-----------------------------------------------------------------------------
(* strong_connect and visit, a step at each call, edge and return.  visit   *)
(* takes the slots of an array in turn, here in any order.                 *)

Lesser(a, b) == IF a < b THEN a ELSE b

NotVisited(n) == index[n] < 0

\* Variant: a visited node counts whether or not it is on the stack.
OnStackOrNot(n) == TRUE

OnStack(n) == Contains(stack, n)

\* visit(n) up to its loop.
Enter(n) ==
    /\ index' = [index EXCEPT ![n] = visited]
    /\ low_link' = [low_link EXCEPT ![n] = visited]
    /\ visited' = visited + 1
    /\ stack' = <<n>> \o stack
    /\ calls' = <<n>> \o calls

\* strong_connect calls visit; khash has an order of its own.
Root ==
    /\ calls = <<>>
    /\ \E v \in vertices : NotVisited(v) /\ Enter(v)
    /\ UNCHANGED <<agreed, replica, chan, graph, todo, sccs, history>>

\* The loop of visit(n) over the edges.
Follow(n) ==
    /\ \E d \in todo[n] :
          /\ todo' = [todo EXCEPT ![n] = @ \ {d}]
          /\ \/ NotVisited(d) /\ Enter(d)
             \/ /\ ~NotVisited(d)
                /\ low_link' = IF OnStack(d)
                               THEN [low_link EXCEPT ![n] = Lesser(@, index[d])]
                               ELSE low_link
                /\ UNCHANGED <<index, visited, stack, calls>>
    /\ UNCHANGED <<agreed, replica, chan, graph, sccs, history>>

\* visit(n) after its loop: n is the root of a component or it is not, and
\* what it returns to takes its low_link.
Leave(n) ==
    /\ todo[n] = {}
    /\ calls' = Tail(calls)
    /\ low_link' = IF calls' = <<>> THEN low_link
                   ELSE [low_link EXCEPT ![Head(calls')] = Lesser(@, low_link[n])]
    /\ \/ /\ low_link[n] = index[n]
          /\ \E root \in 1..Len(stack) :
                /\ stack[root] = n
                /\ sccs' = Append(sccs, SubSeq(stack, 1, root))
                /\ stack' = SubSeq(stack, root + 1, Len(stack))
       \/ low_link[n] # index[n] /\ UNCHANGED <<stack, sccs>>
    /\ UNCHANGED <<agreed, replica, chan, graph, index, visited, todo, history>>

Visit == calls # <<>> /\ (Follow(Head(calls)) \/ Leave(Head(calls)))

\* strong_connect has returned.
Connected == calls = <<>> /\ \A v \in vertices : ~NotVisited(v)

-----------------------------------------------------------------------------
(* The executor thread.                                                    *)

\* Variant: a dependency is linked whether or not it is a vertex.
LinksUnchecked(V) == [v \in Ids |-> IF v \in V THEN ToSet(inst[v].deps) ELSE {}]

\* The edges strong_connect sets: the dependencies that are vertices.
Links(V) == [v \in Ids |-> IF v \in V THEN ToSet(inst[v].deps) \intersect V ELSE {}]

\* Variant: only the first vertex starts a pass.
AddedFirst(id) == vertices = {}

\* What add_node returns.
Added(id) == id \notin vertices

\* run_execute takes one instance; a new vertex starts a pass.
Take ==
    /\ Connected
    /\ sccs = <<>>
    /\ chan # <<>>
    /\ chan' = Tail(chan)
    /\ vertices' = vertices \union {Head(chan)}
    /\ early' = (early \/ storing # {})
    /\ \/ /\ Added(Head(chan))
          /\ edges' = Links(vertices')
          /\ todo' = edges'
          /\ index' = Unvisited /\ low_link' = Unvisited /\ visited' = 0
       \/ ~Added(Head(chan)) /\ UNCHANGED <<edges, todo, index, low_link, visited>>
    /\ UNCHANGED <<agreed, replica, stack, calls, sccs, log>>

\* Variant: a committed dependency need not be executed first.
CommittedSuffices(id) == inst[id].status >= COMMITTED

\* What execute_scc asks of a dependency outside the component.
Done(id) == inst[id].status = EXECUTED

Executable(comp) ==
    \A k \in 1..Len(comp) : \A d \in ToSet(inst[comp[k]].deps) : Contains(comp, d) \/ Done(d)

\* Variant: the component stays in the order of the stack.
Unsorted(comp) == comp

\* sort_scc: by sequence number, equal ones in the order they came.
Place(comp, k) ==
    Cardinality({j \in 1..Len(comp) :
        \/ inst[comp[j]].seq < inst[comp[k]].seq
        \/ inst[comp[j]].seq = inst[comp[k]].seq /\ j <= k})

SortScc(comp) ==
    [p \in 1..Len(comp) |-> comp[CHOOSE k \in 1..Len(comp) : Place(comp, k) = p]]

\* execute_scc on the next component: all of it or nothing.
ExecuteScc ==
    /\ Connected
    /\ sccs # <<>>
    /\ sccs' = Tail(sccs)
    /\ early' = (early \/ storing # {})
    /\ LET comp == Head(sccs)
       IN  \/ /\ Executable(comp)
              /\ inst' = [id \in Ids |-> IF Contains(comp, id)
                                         THEN [inst[id] EXCEPT !.status = EXECUTED]
                                         ELSE inst[id]]
              /\ vertices' = vertices \ ToSet(comp)
              /\ log' = Append(log, SortScc(comp))
           \/ /\ ~Executable(comp)
              /\ UNCHANGED <<inst, vertices, log>>
    /\ UNCHANGED <<agreed, storing, chan, handed, edges, nodes>>

-----------------------------------------------------------------------------

Executor == Take \/ Root \/ Visit \/ ExecuteScc

Next == (\E id \in Ids : HandOver(id) \/ Learn(id) \/ Store(id)) \/ Executor

Spec == Init /\ [][Next]_vars

\* run_execute polls its channel without end and each of its passes ends, so
\* the executor's thread never rests on work.
Fairness == WF_vars(Executor)

FairSpec == Spec /\ Fairness

-----------------------------------------------------------------------------

\* Instances, vertices and components keep their types; a vertex was handed
\* over and no component is left over from an earlier pass.
ExecutorTypeOK ==
    /\ \A id \in Ids :
          /\ inst[id].status \in {ABSENT, PRE_ACCEPTED, COMMITTED, EXECUTED}
          /\ inst[id].deps \in Seq(Ids)
    /\ vertices \subseteq {id \in Ids : inst[id].status >= COMMITTED}
    /\ UNION {ToSet(sccs[k]) : k \in 1..Len(sccs)} \subseteq vertices
    /\ Cardinality(storing) <= 1

\* The instances n reaches over the edges: those in every set that holds n
\* and where the edges of its members lead.
EdgeClosed(S) == \A n \in S : edges[n] \subseteq S

Reach(n) == {m \in Ids : \A S \in SUBSET Ids : n \in S /\ EdgeClosed(S) => m \in S}

Same(n1, n2) == n2 \in Reach(n1) /\ n1 \in Reach(n2)

\* visit (execute.c:98) finds the strongly connected components: no more and
\* no less than the nodes that reach each other are in one, and a component
\* comes after those it links to, whatever the order of the hash table.  No
\* node stays on the stack when visit returns to strong_connect.
ComponentsRight ==
    /\ \A j, k \in 1..Len(sccs) : \A n1 \in ToSet(sccs[j]), n2 \in ToSet(sccs[k]) :
          /\ j = k <=> Same(n1, n2)
          /\ n2 \in Reach(n1) => k <= j
    /\ calls = <<>> => stack = <<>>

\* When an instance is executed its dependencies have been executed before
\* or are executed with it.
ExecutedAfterDeps ==
    \A k \in 1..Len(log) : \A n \in ToSet(log[k]) : \A d \in ToSet(agreed[n].deps) :
        \E j \in 1..k : Contains(log[j], d)

\* What EpxExecOrder promises of a node's executor, with Tarjan's algorithm,
\* repeated hand-overs and instances that go back to COMMITTED hidden; it
\* promises nothing once the executor ran in the middle of a commit().
Order == INSTANCE EpxExecOrder WITH Instance <- Ids, hasty <- early

ImplementsOrder == Order!Spec

\* The first runs of two instances come in the order that the agreed
\* attributes fix, which is all that makes two nodes agree on it.
FixedOrder == Order!FixedOrder

\* The executor only looks at its vertices when a new one comes
\* (execute.c:233): still an instance is run in the end if it and all it
\* depends on were handed over, in whatever order, and however often.
HandedThenRun ==
    \A id \in Ids :
        (\E S \in SUBSET {w \in Ids : inst[w].status >= COMMITTED} :
             id \in S /\ Order!DepClosed(S))
            ~> early \/ id \in Order!Ran

=============================================================================
