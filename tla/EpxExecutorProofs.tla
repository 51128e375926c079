-------------------------- MODULE EpxExecutorProofs --------------------------
(***************************************************************************)
(* The executor of a node, for every finite set of instances, every        *)
(* dependency graph over them, every order of the hash table and every     *)
(* interleaving with the replica's thread: Tarjan's algorithm finds the    *)
(* strongly connected components, and what execute_scc runs of them is     *)
(* what EpxExecOrder allows.                                               *)
(***************************************************************************)
EXTENDS EpxExecutor, FiniteSetTheorems, SequenceTheorems, TLAPS

OrderFacts == INSTANCE EpxExecOrderProofs WITH Instance <- Ids, hasty <- early

-----------------------------------------------------------------------------
(* Sequences whose elements have falling indices: the stack and the calls. *)

Falling(s, f) == \A i, j \in 1..Len(s) : i < j => f[s[i]] > f[s[j]]

\* The elements of a sequence.
LEMMA ElementsOf ==
    ASSUME NEW S, NEW s \in Seq(S)
    PROVE  /\ \A x : x \in ToSet(s) <=> \E i \in 1..Len(s) : s[i] = x
           /\ ToSet(s) \subseteq S
BY DEF ToSet

\* At most is transitive on the integers, which indices and low links are.
LEMMA AtMostTrans ==
    ASSUME NEW a \in Int, NEW b \in Int, NEW c \in Int, a <= b, b <= c
    PROVE  a <= c
OBVIOUS

\* What is put on top of a sequence.
LEMMA OnTop ==
    ASSUME NEW S, NEW s \in Seq(S), NEW n \in S
    PROVE  /\ <<n>> \o s \in Seq(S)
           /\ <<n>> \o s # <<>>
           /\ ToSet(<<n>> \o s) = ToSet(s) \union {n}
           /\ Head(<<n>> \o s) = n
           /\ Tail(<<n>> \o s) = s
<1>1. <<n>> \in Seq(S) /\ Len(<<n>>) = 1 /\ <<n>>[1] = n
  OBVIOUS
<1>. DEFINE t == <<n>> \o s
<1>2. t \in Seq(S) /\ Len(t) = Len(s) + 1 /\ Len(s) \in Nat
  BY <1>1, ConcatProperties, LenProperties
<1>3. t[1] = n /\ \A i \in 1..Len(s) : t[i + 1] = s[i]
  BY <1>1, <1>2, ConcatProperties
<1>4. t # <<>>
  BY <1>2
<1>. HIDE DEF t
<1>5. ToSet(t) = ToSet(s) \union {n}
  <2>1. ASSUME NEW x \in ToSet(t) PROVE x \in ToSet(s) \union {n}
    <3>1. PICK i \in 1..(Len(s) + 1) : t[i] = x
      BY <1>2 DEF ToSet
    <3>2. CASE i = 1
      BY <3>1, <3>2, <1>3
    <3>3. CASE i # 1
      <4>1. i - 1 \in 1..Len(s) /\ t[(i - 1) + 1] = s[i - 1]
        BY <3>3, <1>2, <1>3
      <4>. QED
        BY <4>1, <3>1 DEF ToSet
    <3>. QED
      BY <3>2, <3>3
  <2>2. n \in ToSet(t)
    BY <1>2, <1>3 DEF ToSet
  <2>3. ASSUME NEW x \in ToSet(s) PROVE x \in ToSet(t)
    <3>1. PICK i \in 1..Len(s) : s[i] = x
      BY ElementsOf
    <3>2. i + 1 \in 1..Len(t) /\ t[i + 1] = x
      BY <3>1, <1>2, <1>3
    <3>. QED
      BY <3>2, <1>2, ElementsOf
  <2>. QED
    BY <2>1, <2>2, <2>3, Zenon
<1>6. Head(t) = n
  BY <1>2, <1>3, <1>4
<1>7. Tail(t) = s
  <2>1. /\ Tail(t) \in Seq(S) /\ Len(Tail(t)) = Len(t) - 1
        /\ \A i \in 1..Len(Tail(t)) : Tail(t)[i] = t[i + 1]
    BY <1>2, <1>4, HeadTailProperties
  <2>2. Len(Tail(t)) = Len(s) /\ \A i \in 1..Len(Tail(t)) : Tail(t)[i] = s[i]
    BY <2>1, <1>2, <1>3
  <2>. QED
    BY <2>1, <2>2, SeqEqual
<1>. QED
  BY <1>2, <1>4, <1>5, <1>6, <1>7 DEF t

\* A node with the highest index goes on top.
LEMMA FallingOnTop ==
    ASSUME NEW S, NEW s \in Seq(S), NEW n \in S, NEW f \in [S -> Int],
           Falling(s, f), \A x \in ToSet(s) : f[x] < f[n]
    PROVE  Falling(<<n>> \o s, f)
<1>. DEFINE t == <<n>> \o s
<1>1. <<n>> \in Seq(S) /\ Len(<<n>>) = 1 /\ <<n>>[1] = n
  OBVIOUS
<1>2. t \in Seq(S) /\ Len(t) = Len(s) + 1 /\ Len(s) \in Nat
  BY <1>1, ConcatProperties, LenProperties
<1>3. t[1] = n /\ \A i \in 1..(Len(s) + 1) : i > 1 => t[i] = s[i - 1] /\ i - 1 \in 1..Len(s)
  BY <1>1, <1>2, ConcatProperties
<1>4. \A i \in 1..Len(s) : s[i] \in ToSet(s) /\ s[i] \in S
  BY DEF ToSet
<1>. HIDE DEF t
<1>5. ASSUME NEW i \in 1..Len(t), NEW j \in 1..Len(t), i < j PROVE f[t[i]] > f[t[j]]
  <2>1. j > 1 /\ t[j] = s[j - 1] /\ j - 1 \in 1..Len(s)
    BY <1>2, <1>3, <1>5
  <2>2. CASE i = 1
    BY <2>1, <2>2, <1>3, <1>4
  <2>3. CASE i # 1
    <3>1. t[i] = s[i - 1] /\ i - 1 \in 1..Len(s) /\ i - 1 < j - 1
      BY <2>3, <1>2, <1>3, <1>5
    <3>. QED
      BY <3>1, <2>1 DEF Falling
  <2>. QED
    BY <2>2, <2>3
<1>. QED
  BY <1>5 DEF Falling, t

\* The head of a sequence has its highest index.
LEMMA FallingHead ==
    ASSUME NEW S, NEW s \in Seq(S), s # <<>>, NEW f \in [S -> Int], Falling(s, f)
    PROVE  /\ Head(s) \in S
           /\ Head(s) \in ToSet(s)
           /\ \A x \in ToSet(s) : f[x] <= f[Head(s)]
           /\ Tail(s) \in Seq(S)
           /\ ToSet(Tail(s)) = ToSet(s) \ {Head(s)}
           /\ Falling(Tail(s), f)
<1>. DEFINE h == Head(s)
            t == Tail(s)
<1>1. Len(s) \in Nat \ {0} /\ h = s[1] /\ h \in S
  BY EmptySeq
<1>2. t \in Seq(S) /\ Len(t) = Len(s) - 1 /\ \A i \in 1..Len(t) : t[i] = s[i + 1]
  BY HeadTailProperties
<1>. HIDE DEF t, h
<1>3. \A i \in 1..Len(s) : i > 1 => f[s[i]] < f[h] /\ s[i] \in S
  <2>. SUFFICES ASSUME NEW i \in 1..Len(s), i > 1 PROVE f[s[i]] < f[h] /\ s[i] \in S
    OBVIOUS
  <2>1. 1 \in 1..Len(s) /\ s[i] \in S
    BY <1>1
  <2>2. f[s[1]] > f[s[i]]
    BY <2>1 DEF Falling
  <2>. QED
    BY <2>1, <2>2, <1>1
<1>4. h \in ToSet(s)
  BY <1>1 DEF ToSet
<1>5. \A x \in ToSet(s) : f[x] <= f[h]
  <2>. SUFFICES ASSUME NEW i \in 1..Len(s) PROVE f[s[i]] <= f[h]
    BY DEF ToSet
  <2>. QED
    BY <1>1, <1>3
<1>6. ToSet(t) = ToSet(s) \ {h}
  <2>1. ASSUME NEW x \in ToSet(t) PROVE x \in ToSet(s) /\ x # h
    <3>. PICK i \in 1..Len(t) : t[i] = x
      BY <1>2, ElementsOf
    <3>1. i + 1 \in 1..Len(s) /\ i + 1 > 1 /\ t[i] = s[i + 1]
      BY <1>1, <1>2
    <3>2. f[s[i + 1]] < f[h] /\ s[i + 1] \in S
      BY <3>1, <1>3
    <3>3. s[i + 1] # h
      BY <3>2
    <3>. QED
      BY <3>1, <3>3 DEF ToSet
  <2>2. ASSUME NEW x \in ToSet(s), x # h PROVE x \in ToSet(t)
    <3>. PICK i \in 1..Len(s) : s[i] = x
      BY ElementsOf
    <3>1. i # 1
      BY <1>1, <2>2
    <3>2. i - 1 \in 1..Len(t) /\ (i - 1) + 1 = i
      BY <1>1, <1>2, <3>1
    <3>3. t[i - 1] = x
      BY <3>2, <1>2
    <3>. QED
      BY <3>2, <3>3, <1>2, ElementsOf
  <2>. QED
    BY <2>1, <2>2, Zenon
<1>7. Falling(t, f)
  <2>. SUFFICES ASSUME NEW i \in 1..Len(t), NEW j \in 1..Len(t), i < j
                PROVE  f[t[i]] > f[t[j]]
    BY DEF Falling
  <2>1. i + 1 \in 1..Len(s) /\ j + 1 \in 1..Len(s) /\ i + 1 < j + 1
    BY <1>1, <1>2
  <2>. QED
    BY <2>1, <1>2 DEF Falling
<1>. QED
  BY <1>1, <1>2, <1>4, <1>5, <1>6, <1>7 DEF t, h

\* What is above a place in the sequence, with it, and what is below.
LEMMA FallingCut ==
    ASSUME NEW S, NEW s \in Seq(S), NEW f \in [S -> Int], Falling(s, f),
           NEW k \in 1..Len(s)
    PROVE  LET upper == SubSeq(s, 1, k)
               lower == SubSeq(s, k + 1, Len(s))
           IN  /\ upper \in Seq(S)
               /\ upper # <<>>
               /\ ToSet(upper) = {x \in ToSet(s) : f[s[k]] <= f[x]}
               /\ \A i, j \in 1..Len(upper) : upper[i] = upper[j] => i = j
               /\ lower \in Seq(S)
               /\ ToSet(lower) = {x \in ToSet(s) : f[x] < f[s[k]]}
               /\ Falling(lower, f)
<1>. DEFINE upper == SubSeq(s, 1, k)
            lower == SubSeq(s, k + 1, Len(s))
<1>1. Len(s) \in Nat /\ k \in Int /\ \A i \in 1..Len(s) : s[i] \in S /\ f[s[i]] \in Int
  BY LenProperties
<1>2. upper \in Seq(S) /\ Len(upper) = k /\ \A i \in 1..k : upper[i] = s[i] /\ i \in 1..Len(s)
  <2>1. \A i \in 1..k : i \in 1..Len(s) /\ s[i] \in S
    BY <1>1
  <2>2. /\ upper \in Seq(S) /\ Len(upper) = (IF 1 <= k THEN k - 1 + 1 ELSE 0)
        /\ \A i \in 1..(k - 1 + 1) : upper[i] = s[1 + i - 1]
    BY <2>1, <1>1, SubSeqProperties
  <2>. QED
    BY <2>1, <2>2, <1>1
<1>3. /\ lower \in Seq(S) /\ Len(lower) = Len(s) - k
      /\ \A i \in 1..Len(lower) : lower[i] = s[k + i] /\ k + i \in 1..Len(s)
  <2>1. \A i \in (k + 1)..Len(s) : s[i] \in S
    BY <1>1
  <2>2. /\ lower \in Seq(S)
        /\ Len(lower) = (IF k + 1 <= Len(s) THEN Len(s) - (k + 1) + 1 ELSE 0)
        /\ \A i \in 1..(Len(s) - (k + 1) + 1) : lower[i] = s[(k + 1) + i - 1]
    BY <2>1, <1>1, SubSeqProperties
  <2>3. Len(lower) = Len(s) - k
    BY <2>2, <1>1
  <2>4. ASSUME NEW i \in 1..Len(lower) PROVE lower[i] = s[k + i] /\ k + i \in 1..Len(s)
    <3>1. i \in 1..(Len(s) - (k + 1) + 1) /\ (k + 1) + i - 1 = k + i
      BY <2>3, <1>1
    <3>2. lower[i] = s[(k + 1) + i - 1]
      BY <3>1, <2>2
    <3>3. k + i \in 1..Len(s)
      BY <2>3, <1>1
    <3>. QED
      BY <3>1, <3>2, <3>3
  <2>. QED
    BY <2>2, <2>3, <2>4
<1>. HIDE DEF upper, lower
<1>4. \A i, j \in 1..Len(s) : i < j => f[s[i]] > f[s[j]]
  BY DEF Falling
<1>5. upper # <<>>
  BY <1>2
<1>6. ToSet(upper) = {x \in ToSet(s) : f[s[k]] <= f[x]}
  <2>1. ASSUME NEW i \in 1..k PROVE s[i] \in ToSet(s) /\ f[s[k]] <= f[s[i]]
    <3>1. i \in 1..Len(s)
      BY <1>2
    <3>2. i = k \/ i < k
      OBVIOUS
    <3>. QED
      BY <3>1, <3>2, <1>1, <1>4 DEF ToSet
  <2>2. ASSUME NEW x \in ToSet(s), f[s[k]] <= f[x] PROVE x \in ToSet(upper)
    <3>. PICK i \in 1..Len(s) : s[i] = x
      BY ElementsOf
    <3>1. ~ (k < i)
      BY <2>2, <1>1, <1>4
    <3>2. i \in 1..k
      BY <3>1, <1>1
    <3>. QED
      BY <3>2, <1>2, ElementsOf
  <2>3. ASSUME NEW x \in ToSet(upper) PROVE x \in ToSet(s) /\ f[s[k]] <= f[x]
    <3>1. PICK i \in 1..Len(upper) : upper[i] = x
      BY <1>2, ElementsOf
    <3>2. i \in 1..k /\ s[i] = x
      BY <3>1, <1>2
    <3>. QED
      BY <3>2, <2>1
  <2>. QED
    BY <2>2, <2>3, Zenon
<1>7. \A i, j \in 1..Len(upper) : upper[i] = upper[j] => i = j
  <2>. SUFFICES ASSUME NEW i \in 1..k, NEW j \in 1..k, s[i] = s[j] PROVE i = j
    BY <1>2
  <2>1. i \in 1..Len(s) /\ j \in 1..Len(s)
    BY <1>2
  <2>2. ~ (i < j) /\ ~ (j < i)
    BY <2>1, <1>1, <1>4
  <2>. QED
    BY <2>2
<1>8. ToSet(lower) = {x \in ToSet(s) : f[x] < f[s[k]]}
  <2>1. ASSUME NEW x \in ToSet(lower) PROVE x \in ToSet(s) /\ f[x] < f[s[k]]
    <3>. PICK i \in 1..Len(lower) : lower[i] = x
      BY <1>3, ElementsOf
    <3>1. lower[i] = s[k + i] /\ k + i \in 1..Len(s)
      BY <1>3
    <3>2. k < k + i
      BY <1>1
    <3>. QED
      BY <3>1, <3>2, <1>1, <1>4 DEF ToSet
  <2>2. ASSUME NEW x \in ToSet(s), f[x] < f[s[k]] PROVE x \in ToSet(lower)
    <3>. PICK i \in 1..Len(s) : s[i] = x
      BY ElementsOf
    <3>1. ~ (i < k) /\ i # k
      BY <2>2, <1>1, <1>4
    <3>2. i - k \in 1..Len(lower) /\ k + (i - k) = i
      BY <3>1, <1>1, <1>3
    <3>3. lower[i - k] = s[i]
      BY <3>2, <1>3
    <3>. QED
      BY <3>2, <3>3, <1>3, ElementsOf
  <2>. QED
    BY <2>1, <2>2, Zenon
<1>9. Falling(lower, f)
  <2>. SUFFICES ASSUME NEW i \in 1..Len(lower), NEW j \in 1..Len(lower), i < j
                PROVE  f[lower[i]] > f[lower[j]]
    BY DEF Falling
  <2>1. k + i \in 1..Len(s) /\ k + j \in 1..Len(s) /\ k + i < k + j
    BY <1>1, <1>3
  <2>. QED
    BY <2>1, <1>3, <1>4
<1>. QED
  BY <1>2, <1>3, <1>5, <1>6, <1>7, <1>8, <1>9 DEF upper, lower

-----------------------------------------------------------------------------
(* The invariant.                                                          *)

Seen(n) == index[n] >= 0

\* The edges of n that visit has looked at.
Followed(n) == edges[n] \ todo[n]

\* The nodes visit has entered and not put into a component; the ones whose
\* call has not returned are among them.
OnTheStack == ToSet(stack)

Grey == ToSet(calls)

\* The call that is responsible for n: the last that began before n was seen,
\* or at it.
Owner(g, n) ==
    /\ g \in Grey
    /\ index[g] <= index[n]
    /\ \A h \in Grey : index[h] <= index[n] => index[h] <= index[g]

TypeInvariant ==
    /\ agreed \in [Ids -> [seq : Nat, deps : Seq(Ids)]]
    /\ inst \in [Ids -> [status : {ABSENT, PRE_ACCEPTED, COMMITTED, EXECUTED},
                         seq : Nat, deps : Seq(Ids)]]
    /\ storing = {} \/ \E id \in Ids : storing = {id}
    /\ chan \in Seq(Ids)
    /\ vertices \in SUBSET Ids
    /\ edges \in [Ids -> SUBSET Ids]
    /\ index \in [Ids -> Int]
    /\ low_link \in [Ids -> Int]
    /\ visited \in Nat
    /\ stack \in Seq(Ids)
    /\ calls \in Seq(Ids)
    /\ todo \in [Ids -> SUBSET Ids]
    /\ sccs \in Seq(Seq(Ids))
    /\ log \in Seq(Seq(Ids))
    /\ early \in BOOLEAN

\* Indices are given out once, in the order of the calls.
IndexInvariant ==
    /\ \A n \in Ids : index[n] < visited
    /\ \A m, n \in Ids : Seen(n) /\ index[m] = index[n] => m = n
    /\ \A n \in OnTheStack : Seen(n)
    /\ Grey \subseteq OnTheStack
    /\ Falling(stack, index)
    /\ Falling(calls, index)

\* Only vertices are visited; an edge that was looked at leads to a node that
\* was seen, and a call that has returned has looked at all of its edges.
EdgeInvariant ==
    /\ OnTheStack \subseteq vertices
    /\ ~Connected => \A n \in Ids : edges[n] \subseteq vertices
    /\ \A n \in Ids : todo[n] \subseteq edges[n]
    /\ \A n \in Ids : ~Seen(n) => todo[n] = edges[n]
    /\ \A n \in Ids : Seen(n) /\ n \notin Grey => todo[n] = {}
    /\ \A n \in Ids : \A d \in Followed(n) : Seen(d)

\* Nodes reach those above them on the stack, and some call below them.
StackInvariant ==
    /\ \A m, n \in OnTheStack : index[m] <= index[n] => n \in Reach(m)
    /\ \A n \in OnTheStack : \E g \in Grey : index[g] <= index[n] /\ g \in Reach(n)

\* low_link of a call is the index of a node on the stack that it reaches ...
LowReaches ==
    \A g \in Grey :
        /\ low_link[g] <= index[g]
        /\ \E m \in OnTheStack : index[m] = low_link[g] /\ m \in Reach(g)

\* ... and not above one to which a node it is responsible for has an edge.
LowBounds ==
    \A n \in OnTheStack, g \in Grey : Owner(g, n) =>
        \A d \in Followed(n) \intersect OnTheStack : low_link[g] <= index[d]

\* The nodes that were put into components.
Popped == {n \in Ids : Seen(n)} \ OnTheStack

\* No edge leads out of them; a component holds nodes that reach each other,
\* and none that a component before it reaches.
SccInvariant ==
    /\ EdgeClosed(Popped)
    /\ \A k \in 1..Len(sccs) :
          /\ sccs[k] # <<>>
          /\ ToSet(sccs[k]) \subseteq Popped \intersect vertices
          /\ \A i, j \in 1..Len(sccs[k]) : sccs[k][i] = sccs[k][j] => i = j
          /\ \A m, n \in ToSet(sccs[k]) : n \in Reach(m)
    /\ \A j, k \in 1..Len(sccs) : j < k =>
          \A m \in ToSet(sccs[j]), n \in ToSet(sccs[k]) : n \notin Reach(m)

TarjanInvariant ==
    /\ IndexInvariant
    /\ EdgeInvariant
    /\ StackInvariant
    /\ LowReaches
    /\ LowBounds
    /\ SccInvariant

\* What was handed over holds its attributes, but for the one being stored;
\* what is executed is in the log.
HandedInvariant ==
    /\ \A id \in Ids : inst[id].status >= COMMITTED /\ id \notin storing => InPlace(id)
    /\ ToSet(chan) \union vertices \subseteq {id \in Ids : inst[id].status >= COMMITTED}
    /\ ~early => \A n \in Ids : edges[n] \subseteq ToSet(agreed[n].deps)
    /\ \A id \in Ids : Done(id) => id \in Order!Ran

ExecutorInvariant == TypeInvariant /\ TarjanInvariant /\ HandedInvariant

-----------------------------------------------------------------------------
(* Reachability.                                                           *)

LEMMA ReachItself ==
    ASSUME NEW n \in Ids
    PROVE  n \in Reach(n)
BY DEF Reach

LEMMA ReachTrans ==
    ASSUME NEW l \in Ids, NEW m \in Ids, NEW n \in Ids, m \in Reach(l), n \in Reach(m)
    PROVE  n \in Reach(l)
BY DEF Reach

LEMMA ReachEdge ==
    ASSUME NEW m \in Ids, NEW n \in Ids, n \in edges[m]
    PROVE  n \in Reach(m)
BY DEF Reach, EdgeClosed

LEMMA ReachClosed ==
    ASSUME NEW S \in SUBSET Ids, EdgeClosed(S), NEW m \in S, NEW n \in Reach(m)
    PROVE  n \in S
BY DEF Reach

\* Reachability is a matter of the edges alone.
LEMMA ReachUnchanged ==
    ASSUME UNCHANGED edges
    PROVE  /\ \A n : Reach(n)' = Reach(n)
           /\ \A S : EdgeClosed(S)' <=> EdgeClosed(S)
<1>1. \A S : EdgeClosed(S)' <=> EdgeClosed(S)
  BY DEF EdgeClosed
<1>2. \A n : Reach(n)' = Reach(n)
  BY DEF Reach, EdgeClosed
<1>. QED
  BY <1>1, <1>2

-----------------------------------------------------------------------------
(* The steps of strong_connect and visit.                                  *)

\* visit enters a node.  todo may have lost the edge that led to it.
LEMMA EnterPreserves ==
    ASSUME TypeInvariant, TarjanInvariant,
           NEW d \in vertices, NotVisited(d), Enter(d),
           UNCHANGED <<vertices, edges, sccs>>,
           todo' \in [Ids -> SUBSET Ids],
           \A n \in Ids : /\ todo'[n] \subseteq todo[n]
                          /\ todo[n] \subseteq todo'[n] \union {d}
                          /\ n \notin Grey => todo'[n] = todo[n],
           calls # <<>> => d \in Reach(Head(calls))
    PROVE  /\ index' \in [Ids -> Int] /\ low_link' \in [Ids -> Int] /\ visited' \in Nat
           /\ stack' \in Seq(Ids) /\ calls' \in Seq(Ids)
           /\ TarjanInvariant'
<1>. d \in Ids
  BY DEF TypeInvariant
<1>1. /\ index' \in [Ids -> Int] /\ low_link' \in [Ids -> Int] /\ visited' = visited + 1
      /\ index'[d] = visited /\ low_link'[d] = visited
      /\ \A n \in Ids : n # d => index'[n] = index[n] /\ low_link'[n] = low_link[n]
  BY DEF Enter, TypeInvariant
<1>2. /\ stack' \in Seq(Ids) /\ stack' = <<d>> \o stack /\ OnTheStack' = OnTheStack \union {d}
      /\ calls' \in Seq(Ids) /\ calls' = <<d>> \o calls /\ Grey' = Grey \union {d}
      /\ calls' # <<>>
  <2>1. /\ stack \in Seq(Ids) /\ calls \in Seq(Ids)
        /\ stack' = <<d>> \o stack /\ calls' = <<d>> \o calls
    BY DEF Enter, TypeInvariant
  <2>2. stack' \in Seq(Ids) /\ ToSet(stack') = ToSet(stack) \union {d}
    BY <2>1, OnTop
  <2>3. calls' \in Seq(Ids) /\ calls' # <<>> /\ ToSet(calls') = ToSet(calls) \union {d}
    BY <2>1, OnTop
  <2>. QED
    BY <2>1, <2>2, <2>3 DEF OnTheStack, Grey
<1>3. /\ \A n \in Ids : index[n] \in Int /\ low_link[n] \in Int /\ index[n] < visited
      /\ visited \in Nat
      /\ OnTheStack \subseteq Ids /\ Grey \subseteq OnTheStack
      /\ index[d] < 0 /\ d \notin OnTheStack /\ d \notin Grey
  BY ElementsOf DEF TypeInvariant, TarjanInvariant, IndexInvariant, NotVisited, Seen,
                    OnTheStack, Grey
<1>4. \A n : Reach(n)' = Reach(n)
  BY ReachUnchanged
<1>5. \A S : EdgeClosed(S)' <=> EdgeClosed(S)
  BY ReachUnchanged
<1>6. \A n \in Ids : Seen(n)' <=> Seen(n) \/ n = d
  BY <1>1, <1>3 DEF Seen
<1>7. edges' = edges /\ vertices' = vertices /\ sccs' = sccs
  OBVIOUS
<1>8. \A n \in Ids : Followed(n)' \subseteq Followed(n) \union {d}
  BY <1>7 DEF Followed
<1>9. Followed(d)' = {}
  <2>1. todo'[d] = edges[d]
    BY <1>3 DEF TarjanInvariant, EdgeInvariant, Seen
  <2>. QED
    BY <2>1, <1>7 DEF Followed
<1>10. IndexInvariant'
  <2>1. ASSUME NEW n \in Ids PROVE index'[n] < visited'
    <3>1. CASE n = d
      BY <3>1, <1>1, <1>3
    <3>2. CASE n # d
      <4>1. index'[n] = index[n] /\ index[n] < visited /\ index[n] \in Int
        BY <3>2, <1>1, <1>3
      <4>. QED
        BY <4>1, <1>1, <1>3
    <3>. QED
      BY <3>1, <3>2
  <2>2. \A m, n \in Ids : Seen(n)' /\ index'[m] = index'[n] => m = n
    <3>. SUFFICES ASSUME NEW m \in Ids, NEW n \in Ids, Seen(n)', index'[m] = index'[n]
                  PROVE  m = n
      OBVIOUS
    <3>1. CASE m # d /\ n # d
      BY <3>1, <1>1, <1>6 DEF TarjanInvariant, IndexInvariant
    <3>2. CASE m = d \/ n = d
      <4>1. m # d => index'[m] < visited
        BY <1>1, <1>3
      <4>2. n # d => index'[n] < visited
        BY <1>1, <1>3
      <4>. QED
        BY <3>2, <4>1, <4>2, <1>1, <1>3
    <3>. QED
      BY <3>1, <3>2
  <2>3. \A n \in OnTheStack' : Seen(n)'
    BY <1>2, <1>3, <1>6 DEF TarjanInvariant, IndexInvariant
  <2>4. Grey' \subseteq OnTheStack'
    BY <1>2, <1>3
  <2>5. \A x \in OnTheStack : index'[x] = index[x] /\ index'[x] < index'[d]
    BY <1>1, <1>3
  <2>6. Falling(stack, index')
    <3>1. \A i \in 1..Len(stack) : stack[i] \in OnTheStack
      BY ElementsOf DEF OnTheStack, TypeInvariant
    <3>. QED
      BY <3>1, <2>5 DEF Falling, TarjanInvariant, IndexInvariant
  <2>7. Falling(calls, index')
    <3>1. \A i \in 1..Len(calls) : calls[i] \in OnTheStack
      BY <1>3, ElementsOf DEF Grey, TypeInvariant
    <3>. QED
      BY <3>1, <2>5 DEF Falling, TarjanInvariant, IndexInvariant
  <2>8. Falling(stack', index')
    BY <2>5, <2>6, <1>1, <1>2, FallingOnTop DEF OnTheStack, TypeInvariant
  <2>9. Falling(calls', index')
    <3>1. \A x \in ToSet(calls) : index'[x] < index'[d]
      BY <2>5, <1>3 DEF Grey
    <3>. QED
      BY <3>1, <2>7, <1>1, <1>2, FallingOnTop DEF TypeInvariant
  <2>. QED
    BY <2>1, <2>2, <2>3, <2>4, <2>8, <2>9 DEF IndexInvariant, Falling
<1>11. EdgeInvariant'
  <2>1. \A n \in Ids : edges[n] \subseteq vertices
    BY DEF TarjanInvariant, EdgeInvariant, Connected
  <2>2. \A n \in Ids : todo'[n] \subseteq edges[n]
    BY DEF TarjanInvariant, EdgeInvariant
  <2>3. \A n \in Ids : ~Seen(n)' => todo'[n] = edges[n]
    BY <1>3, <1>6 DEF TarjanInvariant, EdgeInvariant, IndexInvariant
  <2>4. \A n \in Ids : Seen(n)' /\ n \notin Grey' => todo'[n] = {}
    BY <1>2, <1>6 DEF TarjanInvariant, EdgeInvariant
  <2>5. \A n \in Ids : \A x \in Followed(n)' : Seen(x)'
    <3>1. \A n \in Ids : \A x \in Followed(n) : x \in Ids
      BY DEF Followed, TypeInvariant
    <3>. QED
      BY <3>1, <1>6, <1>8 DEF TarjanInvariant, EdgeInvariant
  <2>6. OnTheStack' \subseteq vertices
    BY <1>2 DEF TarjanInvariant, EdgeInvariant
  <2>. QED
    BY <2>1, <2>2, <2>3, <2>4, <2>5, <2>6, <1>7 DEF EdgeInvariant
<1>12. \A n \in OnTheStack : d \in Reach(n)
  <2>. SUFFICES ASSUME NEW n \in OnTheStack PROVE d \in Reach(n)
    OBVIOUS
  <2>1. PICK g \in Grey : g \in Reach(n)
    BY DEF TarjanInvariant, StackInvariant
  <2>2. calls # <<>>
    BY ElementsOf DEF Grey, TypeInvariant
  <2>3. Head(calls) \in Grey /\ index[g] <= index[Head(calls)]
    BY <2>2, FallingHead DEF TypeInvariant, TarjanInvariant, IndexInvariant, Grey
  <2>4. Head(calls) \in Reach(g)
    BY <2>3, <1>3 DEF TarjanInvariant, StackInvariant
  <2>. QED
    BY <2>1, <2>2, <2>3, <2>4, <1>3, ReachTrans
<1>13. StackInvariant'
  <2>1. ASSUME NEW m \in OnTheStack', NEW n \in OnTheStack', index'[m] <= index'[n]
        PROVE  n \in Reach(m)
    <3>1. CASE n = d /\ m = d
      BY <3>1, ReachItself
    <3>2. CASE n = d /\ m # d
      BY <3>2, <1>2, <1>12
    <3>3. CASE n # d
      <4>1. n \in OnTheStack /\ index'[n] = index[n] /\ index[n] < visited
        BY <3>3, <1>1, <1>2, <1>3
      <4>2. m # d
        BY <4>1, <2>1, <1>1, <1>3
      <4>3. m \in OnTheStack /\ index'[m] = index[m]
        BY <4>2, <1>1, <1>2, <1>3
      <4>. QED
        BY <4>1, <4>3, <2>1 DEF TarjanInvariant, StackInvariant
    <3>. QED
      BY <3>1, <3>2, <3>3
  <2>2. ASSUME NEW n \in OnTheStack'
        PROVE  \E g \in Grey' : index'[g] <= index'[n] /\ g \in Reach(n)
    <3>1. CASE n = d
      BY <3>1, <1>1, <1>2, <1>3, ReachItself
    <3>2. CASE n # d
      <4>1. n \in OnTheStack
        BY <3>2, <1>2
      <4>2. PICK g \in Grey : index[g] <= index[n] /\ g \in Reach(n)
        BY <4>1 DEF TarjanInvariant, StackInvariant
      <4>3. index'[g] = index[g] /\ index'[n] = index[n] /\ g \in Grey'
        BY <4>1, <1>1, <1>2, <1>3
      <4>. QED
        BY <4>2, <4>3
    <3>. QED
      BY <3>1, <3>2
  <2>. QED
    BY <2>1, <2>2, <1>4 DEF StackInvariant
<1>14. LowReaches'
  <2>. SUFFICES ASSUME NEW g \in Grey'
                PROVE  /\ low_link'[g] <= index'[g]
                       /\ \E m \in OnTheStack' : index'[m] = low_link'[g] /\ m \in Reach(g)
    BY <1>4 DEF LowReaches
  <2>1. CASE g = d
    BY <2>1, <1>1, <1>2, <1>3, ReachItself
  <2>2. CASE g # d
    <3>1. g \in Grey /\ low_link'[g] = low_link[g] /\ index'[g] = index[g]
      BY <2>2, <1>1, <1>2, <1>3
    <3>2. PICK m \in OnTheStack : index[m] = low_link[g] /\ m \in Reach(g)
      BY <3>1 DEF TarjanInvariant, LowReaches
    <3>3. index'[m] = index[m] /\ m \in OnTheStack'
      BY <1>1, <1>2, <1>3
    <3>. QED
      BY <3>1, <3>2, <3>3 DEF TarjanInvariant, LowReaches
  <2>. QED
    BY <2>1, <2>2
<1>15. LowBounds'
  <2>. SUFFICES ASSUME NEW n \in OnTheStack', NEW g \in Grey', Owner(g, n)',
                       NEW x \in Followed(n)' \intersect OnTheStack'
                PROVE  low_link'[g] <= index'[x]
    BY DEF LowBounds
  <2>1. low_link'[g] <= visited
    <3>1. CASE g = d
      BY <3>1, <1>1, <1>3
    <3>2. CASE g # d
      <4>1. g \in Grey /\ g \in Ids
        BY <3>2, <1>2, <1>3
      <4>2. low_link[g] <= index[g]
        BY <4>1 DEF TarjanInvariant, LowReaches
      <4>. QED
        BY <3>2, <4>1, <4>2, <1>1, <1>3
    <3>. QED
      BY <3>1, <3>2
  <2>2. CASE x = d
    BY <2>1, <2>2, <1>1
  <2>3. CASE x # d
    <3>1. n # d
      BY <1>9
    <3>2. n \in OnTheStack /\ x \in OnTheStack /\ x \in Followed(n)
      BY <3>1, <2>3, <1>2, <1>3, <1>8
    <3>3. index'[n] = index[n] /\ index'[x] = index[x] /\ index[n] < visited
      BY <3>1, <3>2, <2>3, <1>1, <1>3
    <3>4. g # d
      <4>1. index'[g] <= index'[n]
        BY DEF Owner
      <4>2. n \in Ids /\ index'[n] < visited
        BY <3>2, <3>3, <1>3
      <4>. QED
        BY <4>1, <4>2, <1>1, <1>3
    <3>5. g \in Grey /\ index'[g] = index[g] /\ low_link'[g] = low_link[g]
      BY <3>4, <1>1, <1>2, <1>3
    <3>6. Owner(g, n)
      <4>. SUFFICES ASSUME NEW h \in Grey, index[h] <= index[n] PROVE index[h] <= index[g]
        BY <3>3, <3>5 DEF Owner
      <4>1. h \in Grey' /\ index'[h] = index[h]
        BY <1>1, <1>2, <1>3
      <4>. QED
        BY <4>1, <3>3, <3>5 DEF Owner
    <3>. QED
      BY <3>2, <3>3, <3>5, <3>6 DEF TarjanInvariant, LowBounds
  <2>. QED
    BY <2>2, <2>3
<1>16. SccInvariant'
  <2>1. Popped' = Popped
    <3>1. \A n \in Ids : Seen(n)' /\ n \notin OnTheStack' <=> Seen(n) /\ n \notin OnTheStack
      BY <1>2, <1>3, <1>6 DEF Seen
    <3>. QED
      BY <3>1 DEF Popped
  <2>. QED
    BY <2>1, <1>4, <1>5, <1>7 DEF SccInvariant, TarjanInvariant
<1>. QED
  BY <1>1, <1>2, <1>3, <1>10, <1>11, <1>13, <1>14, <1>15, <1>16 DEF TarjanInvariant

\* What a call of visit looks at: n is the last call that has not returned.
LEMMA LastCall ==
    ASSUME TypeInvariant, TarjanInvariant, calls # <<>>
    PROVE  /\ Head(calls) \in Ids
           /\ Head(calls) \in Grey
           /\ Head(calls) \in OnTheStack
           /\ \A g \in Grey : index[g] <= index[Head(calls)]
           /\ Tail(calls) \in Seq(Ids)
           /\ ToSet(Tail(calls)) = Grey \ {Head(calls)}
           /\ Falling(Tail(calls), index)
           /\ \A x \in Ids : index[x] \in Int /\ low_link[x] \in Int /\ index[x] < visited
           /\ OnTheStack \subseteq Ids /\ Grey \subseteq OnTheStack
           /\ visited \in Nat
<1>1. calls \in Seq(Ids) /\ index \in [Ids -> Int] /\ low_link \in [Ids -> Int]
      /\ stack \in Seq(Ids) /\ visited \in Nat
  BY DEF TypeInvariant
<1>2. Falling(calls, index) /\ Grey \subseteq OnTheStack /\ \A x \in Ids : index[x] < visited
  BY DEF TarjanInvariant, IndexInvariant
<1>3. OnTheStack \subseteq Ids
  BY <1>1, ElementsOf DEF OnTheStack
<1>. QED
  BY <1>1, <1>2, <1>3, FallingHead DEF Grey

\* visit looks at an edge that leads to a node that was seen.
LEMMA LookPreserves ==
    ASSUME TypeInvariant, TarjanInvariant, calls # <<>>,
           NEW n, n = Head(calls), NEW d \in todo[n], ~NotVisited(d),
           todo' = [todo EXCEPT ![n] = @ \ {d}],
           low_link' = IF OnStack(d) THEN [low_link EXCEPT ![n] = Lesser(@, index[d])]
                       ELSE low_link,
           UNCHANGED <<index, visited, stack, calls, vertices, edges, sccs>>
    PROVE  low_link' \in [Ids -> Int] /\ todo' \in [Ids -> SUBSET Ids] /\ TarjanInvariant'
<1>1. /\ index' = index /\ visited' = visited /\ stack' = stack /\ calls' = calls
      /\ vertices' = vertices /\ edges' = edges /\ sccs' = sccs
  OBVIOUS
<1>2. /\ n \in Ids /\ n \in Grey /\ n \in OnTheStack
      /\ \A g \in Grey : index[g] <= index[n]
      /\ \A x \in Ids : index[x] \in Int /\ low_link[x] \in Int
      /\ OnTheStack \subseteq Ids /\ Grey \subseteq OnTheStack
  BY LastCall
<1>3. /\ todo' \in [Ids -> SUBSET Ids] /\ d \in Ids /\ todo'[n] = todo[n] \ {d}
      /\ \A m \in Ids : m # n => todo'[m] = todo[m]
  BY <1>2 DEF TypeInvariant
<1>4. Seen(d) /\ d \in edges[n]
  <2>1. index[d] >= 0
    BY <1>2, <1>3 DEF NotVisited
  <2>. QED
    BY <2>1, <1>2 DEF Seen, TarjanInvariant, EdgeInvariant
<1>5. OnStack(d) <=> d \in OnTheStack
  BY ElementsOf DEF OnStack, OnTheStack, Contains, TypeInvariant
<1>6. /\ low_link' \in [Ids -> Int]
      /\ \A m \in Ids : m # n => low_link'[m] = low_link[m]
      /\ d \notin OnTheStack => low_link'[n] = low_link[n]
      /\ d \in OnTheStack => /\ low_link'[n] = low_link[n] \/ low_link'[n] = index[d]
                             /\ low_link'[n] <= low_link[n] /\ low_link'[n] <= index[d]
  <2>1. CASE d \in OnTheStack
    <3>1. low_link' = [low_link EXCEPT ![n] = Lesser(low_link[n], index[d])]
      BY <2>1, <1>5
    <3>2. /\ Lesser(low_link[n], index[d]) \in {low_link[n], index[d]}
          /\ Lesser(low_link[n], index[d]) <= low_link[n]
          /\ Lesser(low_link[n], index[d]) <= index[d]
      BY <1>2, <1>3 DEF Lesser
    <3>3. low_link \in [Ids -> Int] /\ Lesser(low_link[n], index[d]) \in Int
      <4>1. low_link[n] \in Int /\ index[d] \in Int
        BY <1>2, <1>3
      <4>. QED
        BY <3>2, <4>1 DEF TypeInvariant
    <3>4. /\ low_link' \in [Ids -> Int] /\ low_link'[n] = Lesser(low_link[n], index[d])
          /\ \A m \in Ids : m # n => low_link'[m] = low_link[m]
      BY <3>1, <3>3, <1>2
    <3>. QED
      BY <3>2, <3>4, <2>1
  <2>2. CASE d \notin OnTheStack
    BY <2>2, <1>5 DEF TypeInvariant
  <2>. QED
    BY <2>1, <2>2
<1>7. /\ OnTheStack' = OnTheStack /\ Grey' = Grey
      /\ (\A m : Seen(m)' <=> Seen(m)) /\ (\A m, g : Owner(g, m)' <=> Owner(g, m))
  BY <1>1 DEF OnTheStack, Grey, Seen, Owner
<1>8. \A m \in Ids : /\ m # n => Followed(m)' = Followed(m)
                     /\ Followed(m)' \subseteq Followed(m) \union {d}
  BY <1>1, <1>3 DEF Followed
<1>9. (\A m : Reach(m)' = Reach(m)) /\ \A S : EdgeClosed(S)' <=> EdgeClosed(S)
  BY <1>1, ReachUnchanged
<1>10. IndexInvariant'
  BY <1>1, <1>7, Zenon DEF TarjanInvariant, IndexInvariant, Falling, Seen
<1>11. EdgeInvariant'
  <2>1. Connected' <=> Connected
    BY <1>1 DEF Connected, NotVisited
  <2>2. \A m \in Ids : todo'[m] \subseteq edges[m]
    BY <1>3 DEF TarjanInvariant, EdgeInvariant
  <2>3. \A m \in Ids : ~Seen(m) => todo'[m] = edges[m]
    BY <1>2, <1>3 DEF TarjanInvariant, EdgeInvariant, IndexInvariant
  <2>4. \A m \in Ids : Seen(m) /\ m \notin Grey => todo'[m] = {}
    BY <1>2, <1>3 DEF TarjanInvariant, EdgeInvariant
  <2>5. \A m \in Ids : \A x \in Followed(m)' : Seen(x)
    BY <1>4, <1>8 DEF TarjanInvariant, EdgeInvariant
  <2>. QED
    BY <2>1, <2>2, <2>3, <2>4, <2>5, <1>1, <1>7 DEF TarjanInvariant, EdgeInvariant
<1>12. StackInvariant'
  BY <1>1, <1>7, <1>9 DEF TarjanInvariant, StackInvariant
<1>13. LowReaches'
  <2>. SUFFICES ASSUME NEW g \in Grey
                PROVE  /\ low_link'[g] <= index[g]
                       /\ \E m \in OnTheStack : index[m] = low_link'[g] /\ m \in Reach(g)
    BY <1>1, <1>7, <1>9 DEF LowReaches
  <2>1. /\ low_link[g] <= index[g] /\ g \in Ids
        /\ \E m \in OnTheStack : index[m] = low_link[g] /\ m \in Reach(g)
    BY <1>2 DEF TarjanInvariant, LowReaches
  <2>2. CASE low_link'[g] = low_link[g]
    BY <2>1, <2>2
  <2>3. CASE low_link'[g] # low_link[g]
    <3>1. g = n /\ d \in OnTheStack /\ low_link'[n] = index[d] /\ low_link'[n] <= low_link[n]
      BY <2>1, <2>3, <1>2, <1>6
    <3>2. d \in Reach(n)
      BY <1>2, <1>3, <1>4, ReachEdge
    <3>3. low_link'[n] <= index[n]
      BY <3>1, <2>1, <1>2, <1>3
    <3>. QED
      BY <3>1, <3>2, <3>3
  <2>. QED
    BY <2>2, <2>3
<1>14. LowBounds'
  <2>. SUFFICES ASSUME NEW m \in OnTheStack, NEW g \in Grey, Owner(g, m),
                       NEW x \in Followed(m)' \intersect OnTheStack
                PROVE  low_link'[g] <= index[x]
    BY <1>1, <1>7 DEF LowBounds
  <2>1. g \in Ids /\ m \in Ids /\ x \in Ids /\ low_link'[g] <= low_link[g]
    BY <1>2, <1>3, <1>6
  <2>2. CASE x \in Followed(m)
    <3>1. low_link[g] <= index[x]
      BY <2>2 DEF TarjanInvariant, LowBounds
    <3>2. low_link'[g] \in Int
      BY <2>1, <1>6
    <3>. QED
      BY <3>1, <3>2, <2>1, <1>2
  <2>3. CASE x \notin Followed(m)
    <3>1. m = n /\ x = d
      BY <2>1, <2>3, <1>8
    <3>2. index[g] <= index[n] /\ index[n] <= index[g]
      BY <3>1, <1>2 DEF Owner
    <3>3. g = n
      BY <3>2, <2>1, <1>2 DEF TarjanInvariant, IndexInvariant
    <3>. QED
      BY <3>1, <3>3, <1>6
  <2>. QED
    BY <2>2, <2>3
<1>15. SccInvariant'
  <2>1. Popped' = Popped
    BY <1>1, <1>7 DEF Popped, Seen
  <2>. QED
    BY <2>1, <1>1, <1>9 DEF TarjanInvariant, SccInvariant
<1>. QED
  BY <1>3, <1>6, <1>10, <1>11, <1>12, <1>13, <1>14, <1>15 DEF TarjanInvariant

\* What a call that returns does to the low_link of the others.
LEMMA LeaveLow ==
    ASSUME TypeInvariant, TarjanInvariant, calls # <<>>,
           NEW n, n = Head(calls), calls' = Tail(calls),
           low_link' = IF calls' = <<>> THEN low_link
                       ELSE [low_link EXCEPT ![Head(calls')] = Lesser(@, low_link[n])]
    PROVE  /\ low_link' \in [Ids -> Int]
           /\ Grey' = Grey \ {n}
           /\ \A g \in Grey' : /\ index[g] < index[n]
                               /\ low_link'[g] <= low_link[g]
                               /\ low_link'[g] = low_link[g] \/ low_link'[g] = low_link[n]
                               /\ (\A h \in Grey' : index[h] <= index[g])
                                    => low_link'[g] <= low_link[n]
<1>1. /\ n \in Ids /\ n \in Grey
      /\ \A g \in Grey : index[g] <= index[n]
      /\ Tail(calls) \in Seq(Ids) /\ ToSet(Tail(calls)) = Grey \ {n}
      /\ Falling(Tail(calls), index)
      /\ \A x \in Ids : index[x] \in Int /\ low_link[x] \in Int
      /\ OnTheStack \subseteq Ids /\ Grey \subseteq OnTheStack
  BY LastCall
<1>2. Grey' = Grey \ {n}
  BY <1>1 DEF Grey
<1>3. ASSUME NEW g \in Grey' PROVE g \in Ids /\ index[g] < index[n]
  <2>1. g \in Ids /\ Seen(g) /\ g # n /\ index[g] <= index[n]
    BY <1>1, <1>2 DEF TarjanInvariant, IndexInvariant
  <2>2. index[g] # index[n]
    BY <2>1, <1>1 DEF TarjanInvariant, IndexInvariant
  <2>. QED
    BY <2>1, <2>2, <1>1
<1>4. CASE calls' = <<>>
  <2>1. Grey' = {}
    BY <1>4 DEF Grey, ToSet
  <2>. QED
    BY <2>1, <1>2, <1>4 DEF TypeInvariant
<1>5. CASE calls' # <<>>
  <2>. DEFINE p == Head(calls')
  <2>1. p \in Ids /\ p \in Grey' /\ \A h \in Grey' : index[h] <= index[p]
    <3>1. index \in [Ids -> Int]
      BY DEF TypeInvariant
    <3>. QED
      BY <3>1, <1>1, <1>5, FallingHead DEF Grey
  <2>. HIDE DEF p
  <2>2. low_link' = [low_link EXCEPT ![p] = Lesser(low_link[p], low_link[n])]
    BY <1>5 DEF p
  <2>3. low_link[p] \in Int /\ low_link[n] \in Int
    BY <2>1, <1>1
  <2>4. /\ \/ Lesser(low_link[p], low_link[n]) = low_link[p]
           \/ Lesser(low_link[p], low_link[n]) = low_link[n]
        /\ Lesser(low_link[p], low_link[n]) <= low_link[p]
        /\ Lesser(low_link[p], low_link[n]) <= low_link[n]
        /\ Lesser(low_link[p], low_link[n]) \in Int
    BY <2>3 DEF Lesser
  <2>5. /\ low_link' \in [Ids -> Int]
        /\ low_link'[p] = Lesser(low_link[p], low_link[n])
        /\ \A m \in Ids : m # p => low_link'[m] = low_link[m]
    <3>1. p \in Ids /\ Lesser(low_link[p], low_link[n]) \in Int /\ low_link \in [Ids -> Int]
      BY <2>1, <2>4 DEF TypeInvariant
    <3>. QED
      BY <3>1, <2>2
  <2>6. ASSUME NEW g \in Grey'
        PROVE  /\ low_link'[g] <= low_link[g]
               /\ low_link'[g] = low_link[g] \/ low_link'[g] = low_link[n]
               /\ (\A h \in Grey' : index[h] <= index[g]) => low_link'[g] <= low_link[n]
    <3>1. CASE g = p
      BY <3>1, <2>4, <2>5
    <3>2. CASE g # p
      <4>1. low_link'[g] = low_link[g] /\ low_link[g] \in Int
        BY <3>2, <2>5, <1>1, <1>3
      <4>2. ~ (\A h \in Grey' : index[h] <= index[g])
        <5>1. index[p] # index[g]
          BY <3>2, <2>1, <1>1, <1>2, <1>3 DEF TarjanInvariant, IndexInvariant
        <5>2. index[g] <= index[p] /\ index[p] \in Int /\ index[g] \in Int
          BY <2>1, <1>1, <1>3
        <5>. QED
          BY <5>1, <5>2, <2>1
      <4>3. low_link'[g] <= low_link[g]
        BY <4>1
      <4>. QED
        BY <4>1, <4>2, <4>3, Zenon
    <3>. QED
      BY <3>1, <3>2
  <2>. QED
    BY <2>5, <2>6, <1>2, <1>3
<1>. QED
  BY <1>4, <1>5

\* A call that is not the root of a component returns.
LEMMA ReturnPreserves ==
    ASSUME TypeInvariant, TarjanInvariant, calls # <<>>,
           NEW n, n = Head(calls), todo[n] = {}, calls' = Tail(calls),
           low_link' = IF calls' = <<>> THEN low_link
                       ELSE [low_link EXCEPT ![Head(calls')] = Lesser(@, low_link[n])],
           low_link[n] # index[n],
           UNCHANGED <<index, visited, stack, todo, vertices, edges, sccs>>
    PROVE  low_link' \in [Ids -> Int] /\ calls' \in Seq(Ids) /\ TarjanInvariant'
<1>1. /\ index' = index /\ visited' = visited /\ stack' = stack /\ todo' = todo
      /\ vertices' = vertices /\ edges' = edges /\ sccs' = sccs
  OBVIOUS
<1>2. /\ n \in Ids /\ n \in Grey /\ n \in OnTheStack
      /\ \A g \in Grey : index[g] <= index[n]
      /\ Tail(calls) \in Seq(Ids) /\ Falling(Tail(calls), index)
      /\ \A x \in Ids : index[x] \in Int /\ low_link[x] \in Int
      /\ OnTheStack \subseteq Ids /\ Grey \subseteq OnTheStack
  BY LastCall
<1>3. /\ low_link' \in [Ids -> Int] /\ Grey' = Grey \ {n}
      /\ \A g \in Grey' : /\ index[g] < index[n]
                          /\ low_link'[g] <= low_link[g]
                          /\ low_link'[g] = low_link[g] \/ low_link'[g] = low_link[n]
                          /\ (\A h \in Grey' : index[h] <= index[g])
                               => low_link'[g] <= low_link[n]
  BY LeaveLow
<1>4. low_link[n] < index[n]
  <2>1. low_link[n] <= index[n]
    BY <1>2 DEF TarjanInvariant, LowReaches
  <2>. QED
    BY <2>1, <1>2
<1>5. OnTheStack' = OnTheStack /\ (\A m : Seen(m)' <=> Seen(m)) /\ \A m : Followed(m)' = Followed(m)
  BY <1>1 DEF OnTheStack, Seen, Followed
<1>6. (\A m : Reach(m)' = Reach(m)) /\ \A S : EdgeClosed(S)' <=> EdgeClosed(S)
  BY <1>1, ReachUnchanged
<1>7. PICK low \in OnTheStack : index[low] = low_link[n] /\ low \in Reach(n)
  BY <1>2 DEF TarjanInvariant, LowReaches
<1>8. IndexInvariant'
  <2>1. Grey' \subseteq OnTheStack' /\ Falling(calls', index')
    BY <1>1, <1>2, <1>3, <1>5
  <2>2. Falling(stack', index')
    BY <1>1 DEF TarjanInvariant, IndexInvariant
  <2>. QED
    BY <2>1, <2>2, <1>1, <1>5, Zenon DEF TarjanInvariant, IndexInvariant, Falling, Seen
<1>9. EdgeInvariant'
  <2>1. \A m \in Ids : edges[m] \subseteq vertices
    BY DEF TarjanInvariant, EdgeInvariant, Connected
  <2>2. \A m \in Ids : Seen(m) /\ m \notin Grey' => todo[m] = {}
    BY <1>3 DEF TarjanInvariant, EdgeInvariant
  <2>. QED
    BY <2>1, <2>2, <1>1, <1>5 DEF TarjanInvariant, EdgeInvariant
<1>10. StackInvariant'
  <2>1. ASSUME NEW m \in OnTheStack
        PROVE  \E g \in Grey' : index[g] <= index[m] /\ g \in Reach(m)
    <3>1. PICK g \in Grey : index[g] <= index[m] /\ g \in Reach(m)
      BY DEF TarjanInvariant, StackInvariant
    <3>2. CASE g # n
      BY <3>1, <3>2, <1>3
    <3>3. CASE g = n
      <4>1. PICK h \in Grey : index[h] <= index[low] /\ h \in Reach(low)
        BY <1>7 DEF TarjanInvariant, StackInvariant
      <4>2. index[h] \in Int /\ index[low] \in Int /\ index[n] \in Int /\ index[m] \in Int
        BY <1>2
      <4>3. h # n /\ index[h] <= index[m]
        BY <4>1, <4>2, <3>1, <3>3, <1>4, <1>7
      <4>4. h \in Reach(m)
        <5>1. h \in Reach(n)
          BY <4>1, <1>2, <1>7, ReachTrans
        <5>. QED
          BY <5>1, <3>1, <3>3, <1>2, ReachTrans
      <4>. QED
        BY <4>3, <4>4, <1>3
    <3>. QED
      BY <3>2, <3>3
  <2>. QED
    BY <2>1, <1>1, <1>5, <1>6 DEF TarjanInvariant, StackInvariant
<1>11. LowReaches'
  <2>. SUFFICES ASSUME NEW g \in Grey'
                PROVE  /\ low_link'[g] <= index[g]
                       /\ \E m \in OnTheStack : index[m] = low_link'[g] /\ m \in Reach(g)
    BY <1>1, <1>5, <1>6 DEF LowReaches
  <2>1. /\ g \in Grey /\ g \in Ids /\ low_link[g] <= index[g]
        /\ \E m \in OnTheStack : index[m] = low_link[g] /\ m \in Reach(g)
    BY <1>2, <1>3 DEF TarjanInvariant, LowReaches
  <2>2. low_link'[g] <= index[g]
    <3>1. low_link'[g] \in Int /\ low_link'[g] <= low_link[g]
      BY <2>1, <1>3
    <3>. QED
      BY <3>1, <2>1, <1>2
  <2>3. CASE low_link'[g] = low_link[g]
    BY <2>1, <2>2, <2>3
  <2>4. CASE low_link'[g] = low_link[n]
    <3>1. n \in Reach(g)
      BY <2>1, <1>2 DEF TarjanInvariant, StackInvariant
    <3>2. low \in Reach(g)
      BY <3>1, <2>1, <1>2, <1>7, ReachTrans
    <3>. QED
      BY <3>2, <2>2, <2>4, <1>7
  <2>. QED
    BY <2>3, <2>4, <1>3
<1>12. LowBounds'
  <2>. SUFFICES ASSUME NEW m \in OnTheStack, NEW g \in Grey', Owner(g, m)',
                       NEW x \in Followed(m) \intersect OnTheStack
                PROVE  low_link'[g] <= index[x]
    BY <1>1, <1>5 DEF LowBounds
  <2>1. /\ g \in Grey /\ g \in Ids /\ m \in Ids /\ x \in Ids
        /\ low_link'[g] \in Int
    BY <1>2, <1>3
  <2>2. index[g] <= index[m] /\ \A h \in Grey' : index[h] <= index[m] => index[h] <= index[g]
    BY <1>1 DEF Owner
  <2>3. CASE index[n] <= index[m]
    <3>1. Owner(n, m)
      BY <2>3, <1>2 DEF Owner
    <3>2. low_link[n] <= index[x]
      BY <3>1, <1>2 DEF TarjanInvariant, LowBounds
    <3>3. ASSUME NEW h \in Grey' PROVE index[h] <= index[g]
      <4>1. index[h] <= index[m]
        <5>1. h \in Ids /\ index[h] < index[n]
          BY <1>2, <1>3
        <5>. QED
          BY <5>1, <2>1, <2>3, <1>2
      <4>. QED
        BY <4>1, <2>2
    <3>4. low_link'[g] <= low_link[n]
      BY <3>3, <1>3
    <3>5. low_link[n] \in Int /\ index[x] \in Int
      BY <2>1, <1>2
    <3>. QED
      BY <3>2, <3>4, <3>5, <2>1, AtMostTrans, Zenon
  <2>4. CASE ~ (index[n] <= index[m])
    <3>1. Owner(g, m)
      <4>. SUFFICES ASSUME NEW h \in Grey, index[h] <= index[m] PROVE index[h] <= index[g]
        BY <2>1, <2>2 DEF Owner
      <4>1. h # n
        BY <2>4
      <4>. QED
        BY <4>1, <2>2, <1>3
    <3>2. low_link[g] <= index[x]
      BY <3>1, <2>1 DEF TarjanInvariant, LowBounds
    <3>3. low_link'[g] <= low_link[g]
      BY <1>3
    <3>4. low_link[g] \in Int /\ index[x] \in Int
      BY <2>1, <1>2
    <3>. QED
      BY <3>2, <3>3, <3>4, <2>1, AtMostTrans, Zenon
  <2>. QED
    BY <2>3, <2>4
<1>13. SccInvariant'
  <2>1. Popped' = Popped
    BY <1>5 DEF Popped, Seen
  <2>. QED
    BY <2>1, <1>1, <1>6 DEF TarjanInvariant, SccInvariant
<1>. QED
  BY <1>2, <1>3, <1>8, <1>9, <1>10, <1>11, <1>12, <1>13 DEF TarjanInvariant

\* The root of a component returns: the nodes above it on the stack, with it,
\* are a component.
LEMMA RootPreserves ==
    ASSUME TypeInvariant, TarjanInvariant, calls # <<>>,
           NEW n, n = Head(calls), todo[n] = {}, calls' = Tail(calls),
           low_link' = IF calls' = <<>> THEN low_link
                       ELSE [low_link EXCEPT ![Head(calls')] = Lesser(@, low_link[n])],
           low_link[n] = index[n],
           NEW comp \in Seq(Ids), comp # <<>>,
           ToSet(comp) = {x \in OnTheStack : index[n] <= index[x]},
           \A i, j \in 1..Len(comp) : comp[i] = comp[j] => i = j,
           sccs' = Append(sccs, comp),
           stack' \in Seq(Ids), Falling(stack', index),
           OnTheStack' = {x \in OnTheStack : index[x] < index[n]},
           UNCHANGED <<index, visited, todo, vertices, edges>>
    PROVE  /\ low_link' \in [Ids -> Int] /\ calls' \in Seq(Ids)
           /\ sccs' \in Seq(Seq(Ids))
           /\ TarjanInvariant'
<1>. DEFINE C == ToSet(comp)
<1>1. /\ index' = index /\ visited' = visited /\ todo' = todo
      /\ vertices' = vertices /\ edges' = edges
  OBVIOUS
<1>2. /\ n \in Ids /\ n \in Grey /\ n \in OnTheStack
      /\ \A g \in Grey : index[g] <= index[n]
      /\ Tail(calls) \in Seq(Ids) /\ Falling(Tail(calls), index)
      /\ \A x \in Ids : index[x] \in Int /\ low_link[x] \in Int
      /\ OnTheStack \subseteq Ids /\ Grey \subseteq OnTheStack
  BY LastCall
<1>3. /\ low_link' \in [Ids -> Int] /\ Grey' = Grey \ {n}
      /\ \A g \in Grey' : /\ index[g] < index[n]
                          /\ low_link'[g] <= low_link[g]
                          /\ low_link'[g] = low_link[g] \/ low_link'[g] = low_link[n]
  BY LeaveLow
<1>4. /\ C = {x \in OnTheStack : index[n] <= index[x]}
      /\ OnTheStack' = {x \in OnTheStack : index[x] < index[n]}
  OBVIOUS
<1>. HIDE DEF C
<1>5. sccs \in Seq(Seq(Ids)) /\ sccs' \in Seq(Seq(Ids))
  BY AppendProperties DEF TypeInvariant
<1>6. (\A m : Seen(m)' <=> Seen(m)) /\ \A m : Followed(m)' = Followed(m)
  BY <1>1 DEF Seen, Followed
<1>7. (\A m : Reach(m)' = Reach(m)) /\ \A S : EdgeClosed(S)' <=> EdgeClosed(S)
  BY <1>1, ReachUnchanged
<1>8. OnTheStack' \subseteq OnTheStack /\ OnTheStack = OnTheStack' \union C /\ C \subseteq Ids
  BY <1>2, <1>4
<1>9. Popped' = Popped \union C /\ Popped \intersect C = {} /\ Popped' \subseteq Ids
  <2>1. \A x \in C : Seen(x) /\ x \in Ids /\ x \in OnTheStack /\ x \notin OnTheStack'
    BY <1>2, <1>4 DEF TarjanInvariant, IndexInvariant
  <2>2. Popped' = {x \in Ids : Seen(x)} \ OnTheStack'
    BY <1>6 DEF Popped
  <2>. QED
    BY <2>1, <2>2, <1>8 DEF Popped
<1>10. IndexInvariant'
  <2>1. \A m \in OnTheStack' : Seen(m)
    BY <1>8 DEF TarjanInvariant, IndexInvariant
  <2>2. Grey' \subseteq OnTheStack'
    BY <1>2, <1>3, <1>4
  <2>3. Falling(stack', index') /\ Falling(calls', index')
    BY <1>1, <1>2, <1>4
  <2>. QED
    BY <2>1, <2>2, <2>3, <1>1, <1>6, Zenon DEF TarjanInvariant, IndexInvariant, Falling, Seen
<1>11. EdgeInvariant'
  <2>1. \A m \in Ids : edges[m] \subseteq vertices
    BY DEF TarjanInvariant, EdgeInvariant, Connected
  <2>2. \A m \in Ids : Seen(m) /\ m \notin Grey' => todo[m] = {}
    BY <1>3 DEF TarjanInvariant, EdgeInvariant
  <2>3. OnTheStack' \subseteq vertices
    BY <1>8 DEF TarjanInvariant, EdgeInvariant
  <2>. QED
    BY <2>1, <2>2, <2>3, <1>1, <1>6 DEF TarjanInvariant, EdgeInvariant
<1>12. StackInvariant'
  <2>1. ASSUME NEW m \in OnTheStack'
        PROVE  \E g \in Grey' : index[g] <= index[m] /\ g \in Reach(m)
    <3>1. m \in OnTheStack /\ m \in Ids /\ index[m] < index[n]
      BY <1>2, <1>4
    <3>2. PICK g \in Grey : index[g] <= index[m] /\ g \in Reach(m)
      BY <3>1 DEF TarjanInvariant, StackInvariant
    <3>3. g # n
      BY <3>1, <3>2, <1>2
    <3>. QED
      BY <3>2, <3>3, <1>3
  <2>2. \A m, x \in OnTheStack' : index[m] <= index[x] => x \in Reach(m)
    BY <1>8 DEF TarjanInvariant, StackInvariant
  <2>. QED
    BY <2>1, <2>2, <1>1, <1>7 DEF StackInvariant
<1>13. LowReaches'
  <2>. SUFFICES ASSUME NEW g \in Grey'
                PROVE  /\ low_link'[g] <= index[g]
                       /\ \E m \in OnTheStack' : index[m] = low_link'[g] /\ m \in Reach(g)
    BY <1>1, <1>7 DEF LowReaches
  <2>1. g \in Grey /\ g \in Ids /\ low_link[g] <= index[g] /\ index[g] < index[n]
    BY <1>2, <1>3 DEF TarjanInvariant, LowReaches
  <2>2. low_link'[g] = low_link[g]
    <3>1. index[g] \in Int /\ index[n] \in Int /\ low_link[g] \in Int
      BY <2>1, <1>2
    <3>2. low_link'[g] <= low_link[g]
      BY <1>3
    <3>3. low_link'[g] # index[n]
      <4>. DEFINE a == low_link'[g]
                  b == low_link[g]
                  c == index[g]
                  e == index[n]
      <4>1. b \in Int /\ c \in Int /\ e \in Int /\ a <= b /\ b <= c /\ c < e
        BY <3>1, <3>2, <2>1
      <4>. HIDE DEF a, b, c, e
      <4>2. a # e
        BY <4>1
      <4>. QED
        BY <4>2 DEF a, e
    <3>. QED
      BY <3>3, <1>3
  <2>3. PICK m \in OnTheStack : index[m] = low_link[g] /\ m \in Reach(g)
    BY <2>1 DEF TarjanInvariant, LowReaches
  <2>4. m \in OnTheStack'
    BY <2>1, <2>3, <1>2, <1>4
  <2>. QED
    BY <2>1, <2>2, <2>3, <2>4
<1>14. LowBounds'
  <2>. SUFFICES ASSUME NEW m \in OnTheStack', NEW g \in Grey', Owner(g, m)',
                       NEW x \in Followed(m) \intersect OnTheStack'
                PROVE  low_link'[g] <= index[x]
    BY <1>1, <1>6 DEF LowBounds
  <2>1. /\ g \in Grey /\ g \in Ids /\ m \in Ids /\ x \in Ids /\ low_link'[g] \in Int
        /\ m \in OnTheStack /\ x \in OnTheStack /\ index[m] < index[n]
    BY <1>2, <1>3, <1>4
  <2>2. index[g] <= index[m] /\ \A h \in Grey' : index[h] <= index[m] => index[h] <= index[g]
    BY <1>1 DEF Owner
  <2>3. Owner(g, m)
    <3>. SUFFICES ASSUME NEW h \in Grey, index[h] <= index[m] PROVE index[h] <= index[g]
      BY <2>1, <2>2 DEF Owner
    <3>1. h # n
      BY <2>1, <1>2
    <3>. QED
      BY <3>1, <2>2, <1>3
  <2>4. low_link[g] <= index[x]
    BY <2>1, <2>3 DEF TarjanInvariant, LowBounds
  <2>5. low_link'[g] <= low_link[g]
    BY <1>3
  <2>6. low_link[g] \in Int /\ index[x] \in Int
    BY <2>1, <1>2
  <2>. DEFINE a == low_link'[g]
              b == low_link[g]
              c == index[x]
  <2>7. a \in Int /\ b \in Int /\ c \in Int /\ a <= b /\ b <= c
    BY <2>1, <2>4, <2>5, <2>6, Zenon
  <2>. HIDE DEF a, b, c
  <2>8. a <= c
    BY <2>7
  <2>. QED
    BY <2>8 DEF a, c
<1>15. EdgeClosed(Popped')
  <2>. SUFFICES ASSUME NEW x \in Popped', NEW d \in edges[x] PROVE d \in Popped'
    BY DEF EdgeClosed
  <2>1. CASE x \in Popped
    BY <2>1, <1>9 DEF TarjanInvariant, SccInvariant, EdgeClosed
  <2>2. CASE x \in C
    <3>1. x \in Ids /\ x \in OnTheStack /\ index[n] <= index[x] /\ Seen(x)
      BY <2>2, <1>2, <1>4 DEF TarjanInvariant, IndexInvariant
    <3>2. todo[x] = {}
      <4>1. CASE x \in Grey
        <5>1. index[x] <= index[n]
          BY <4>1, <1>2
        <5>2. index[x] = index[n]
          BY <5>1, <3>1, <1>2
        <5>3. x = n
          BY <5>2, <3>1, <1>2 DEF TarjanInvariant, IndexInvariant
        <5>. QED
          BY <5>3
      <4>2. CASE x \notin Grey
        BY <4>2, <3>1 DEF TarjanInvariant, EdgeInvariant
      <4>. QED
        BY <4>1, <4>2
    <3>3. d \in Followed(x) /\ d \in Ids /\ Seen(d)
      <4>1. d \in Followed(x)
        BY <3>2 DEF Followed
      <4>. QED
        BY <4>1, <3>1 DEF TarjanInvariant, EdgeInvariant, TypeInvariant
    <3>4. CASE d \notin OnTheStack
      BY <3>3, <3>4, <1>9 DEF Popped
    <3>5. CASE d \in OnTheStack
      <4>1. Owner(n, x)
        BY <3>1, <1>2 DEF Owner
      <4>2. low_link[n] <= index[d]
        BY <4>1, <3>1, <3>3, <3>5, <1>2 DEF TarjanInvariant, LowBounds
      <4>. QED
        BY <4>2, <3>5, <1>4, <1>9
    <3>. QED
      BY <3>4, <3>5
  <2>. QED
    BY <2>1, <2>2, <1>9
<1>16. ASSUME NEW x \in C, NEW y \in C PROVE y \in Reach(x)
  <2>1. PICK g \in Grey : index[g] <= index[x] /\ g \in Reach(x)
    BY <1>4 DEF TarjanInvariant, StackInvariant
  <2>2. g \in Popped'
    BY <2>1, <1>9, <1>15, ReachClosed
  <2>3. g \in C
    BY <2>2, <1>2, <1>8, <1>9 DEF Popped
  <2>4. index[g] = index[n]
    <3>1. index[n] <= index[g] /\ index[g] <= index[n]
      BY <2>3, <1>2, <1>4
    <3>. QED
      BY <3>1, <2>1, <1>2
  <2>5. y \in Reach(g)
    BY <2>1, <2>4, <1>2, <1>4 DEF TarjanInvariant, StackInvariant
  <2>. QED
    BY <2>1, <2>5, <1>2, <1>8, ReachTrans
<1>17. SccInvariant'
  <2>1. /\ Len(sccs) \in Nat /\ Len(sccs') = Len(sccs) + 1
        /\ \A k \in 1..Len(sccs) : sccs'[k] = sccs[k]
        /\ sccs'[Len(sccs) + 1] = comp
    BY <1>4, <1>5, AppendProperties, LenProperties
  <2>2. ASSUME NEW k \in 1..Len(sccs')
        PROVE  /\ sccs'[k] # <<>>
               /\ ToSet(sccs'[k]) \subseteq Popped' \intersect vertices
               /\ \A i, j \in 1..Len(sccs'[k]) : sccs'[k][i] = sccs'[k][j] => i = j
               /\ \A m, x \in ToSet(sccs'[k]) : x \in Reach(m)
    <3>1. CASE k \in 1..Len(sccs)
      <4>1. sccs'[k] = sccs[k]
        BY <3>1, <2>1
      <4>2. /\ sccs[k] # <<>>
            /\ ToSet(sccs[k]) \subseteq Popped' \intersect vertices
            /\ \A i, j \in 1..Len(sccs[k]) : sccs[k][i] = sccs[k][j] => i = j
            /\ \A m, x \in ToSet(sccs[k]) : x \in Reach(m)
        BY <3>1, <1>9 DEF TarjanInvariant, SccInvariant
      <4>. QED
        BY <4>1, <4>2, Zenon
    <3>2. CASE k = Len(sccs) + 1
      <4>1. C \subseteq vertices
        BY <1>8 DEF TarjanInvariant, EdgeInvariant
      <4>. QED
        BY <4>1, <3>2, <2>1, <1>4, <1>9, <1>16 DEF C
    <3>3. k \in 1..Len(sccs) \/ k = Len(sccs) + 1
      BY <2>1
    <3>. QED
      BY <3>1, <3>2, <3>3, Zenon
  <2>3. ASSUME NEW j \in 1..Len(sccs'), NEW k \in 1..Len(sccs'), j < k,
               NEW m \in ToSet(sccs'[j]), NEW x \in ToSet(sccs'[k])
        PROVE  x \notin Reach(m)
    <3>1. j \in 1..Len(sccs) /\ sccs'[j] = sccs[j]
      BY <2>1, <2>3
    <3>2. CASE k \in 1..Len(sccs)
      <4>1. sccs'[k] = sccs[k]
        BY <3>2, <2>1
      <4>. QED
        BY <4>1, <3>1, <3>2, <2>3 DEF TarjanInvariant, SccInvariant
    <3>3. CASE k = Len(sccs) + 1
      <4>1. x \in C /\ x \notin Popped
        BY <3>3, <2>1, <1>9 DEF C
      <4>2. m \in Popped /\ EdgeClosed(Popped) /\ Popped \subseteq Ids
        BY <3>1 DEF TarjanInvariant, SccInvariant, Popped
      <4>. QED
        BY <4>1, <4>2, ReachClosed
    <3>. QED
      BY <3>2, <3>3, <2>1
  <2>4. \A k \in 1..Len(sccs') :
          /\ sccs'[k] # <<>>
          /\ ToSet(sccs'[k]) \subseteq Popped' \intersect vertices'
          /\ \A i, j \in 1..Len(sccs'[k]) : sccs'[k][i] = sccs'[k][j] => i = j
          /\ \A m, x \in ToSet(sccs'[k]) : x \in Reach(m)'
    BY <2>2, <1>1, <1>7, Zenon
  <2>5. \A j, k \in 1..Len(sccs') : j < k =>
           \A m \in ToSet(sccs'[j]), x \in ToSet(sccs'[k]) : x \notin Reach(m)'
    BY <2>3, <1>7, Zenon
  <2>6. EdgeClosed(Popped)'
    BY <1>1, <1>7, <1>15
  <2>. QED
    BY <2>4, <2>5, <2>6 DEF SccInvariant
<1>. QED
  BY <1>2, <1>3, <1>4, <1>5, <1>10, <1>11, <1>12, <1>13, <1>14, <1>17 DEF TarjanInvariant

\* strong_connect starts: no vertex has been visited.
LEMMA FreshTarjan ==
    ASSUME TypeInvariant,
           edges' = Links(vertices'), vertices' \in SUBSET Ids,
           todo' = edges', index' = Unvisited, visited' = 0,
           stack' = <<>>, calls' = <<>>, sccs' = <<>>
    PROVE  edges' \in [Ids -> SUBSET Ids] /\ TarjanInvariant'
<1>1. edges' \in [Ids -> SUBSET Ids] /\ \A n \in Ids : edges'[n] \subseteq vertices'
  BY DEF Links
<1>2. OnTheStack' = {} /\ Grey' = {}
  BY DEF OnTheStack, Grey, ToSet
<1>3. \A n \in Ids : index'[n] = -1 /\ ~Seen(n)' /\ Followed(n)' = {}
  BY DEF Unvisited, Seen, Followed
<1>4. IndexInvariant'
  <2>1. Falling(stack', index') /\ Falling(calls', index')
    BY DEF Falling
  <2>2. \A n \in Ids : index'[n] < visited'
    BY <1>3
  <2>. QED
    BY <1>2, <1>3, <2>1, <2>2 DEF IndexInvariant, Falling
<1>5. EdgeInvariant'
  BY <1>1, <1>2, <1>3 DEF EdgeInvariant
<1>6. StackInvariant' /\ LowReaches' /\ LowBounds'
  BY <1>2 DEF StackInvariant, LowReaches, LowBounds
<1>7. Popped' = {}
  BY <1>3 DEF Popped
<1>8. SccInvariant'
  BY <1>7 DEF SccInvariant, EdgeClosed
<1>. QED
  BY <1>1, <1>4, <1>5, <1>6, <1>8 DEF TarjanInvariant

\* A step that leaves the graph and the nodes alone and takes components and
\* their vertices away, once strong_connect has returned.
LEMMA ConnectedStays ==
    ASSUME TypeInvariant, TarjanInvariant, Connected,
           vertices' \in SUBSET vertices, UNCHANGED <<edges, nodes>>,
           SccInvariant'
    PROVE  TarjanInvariant'
<1>1. /\ edges' = edges /\ index' = index /\ low_link' = low_link /\ visited' = visited
      /\ stack' = stack /\ calls' = calls /\ todo' = todo
  BY DEF nodes
<1>2. OnTheStack' = OnTheStack /\ Grey' = Grey
  BY <1>1 DEF OnTheStack, Grey
<1>3. Grey = {}
  BY DEF Connected, Grey, ToSet
<1>4. OnTheStack = {}
  BY <1>3 DEF TarjanInvariant, StackInvariant
<1>5. Connected'
  BY <1>1 DEF Connected, NotVisited
<1>6. IndexInvariant'
  BY <1>1, <1>2, Zenon DEF TarjanInvariant, IndexInvariant, Falling, Seen
<1>7. EdgeInvariant'
  BY <1>1, <1>2, <1>4, <1>5 DEF TarjanInvariant, EdgeInvariant, Followed, Seen
<1>8. StackInvariant' /\ LowReaches' /\ LowBounds'
  BY <1>2, <1>3, <1>4 DEF StackInvariant, LowReaches, LowBounds
<1>. QED
  BY <1>6, <1>7, <1>8 DEF TarjanInvariant

\* A step of which Tarjan's algorithm sees nothing.
LEMMA TarjanUnchanged ==
    ASSUME TarjanInvariant, UNCHANGED <<graph, nodes, sccs>>
    PROVE  TarjanInvariant'
<1>1. /\ vertices' = vertices /\ edges' = edges /\ index' = index /\ low_link' = low_link
      /\ visited' = visited /\ stack' = stack /\ calls' = calls /\ todo' = todo /\ sccs' = sccs
  BY DEF graph, nodes
<1>2. /\ OnTheStack' = OnTheStack /\ Grey' = Grey /\ Popped' = Popped
      /\ (\A n : Seen(n)' <=> Seen(n)) /\ (\A n : Followed(n)' = Followed(n))
      /\ (\A n, g : Owner(g, n)' <=> Owner(g, n)) /\ (Connected' <=> Connected)
  BY <1>1 DEF OnTheStack, Grey, Popped, Seen, Followed, Owner, Connected, NotVisited
<1>3. (\A n : Reach(n)' = Reach(n)) /\ \A S : EdgeClosed(S)' <=> EdgeClosed(S)
  BY <1>1, ReachUnchanged
<1>4. IndexInvariant'
  BY <1>1, <1>2, Zenon DEF TarjanInvariant, IndexInvariant, Falling, Seen
<1>5. EdgeInvariant'
  BY <1>1, <1>2 DEF TarjanInvariant, EdgeInvariant
<1>6. StackInvariant' /\ LowReaches' /\ LowBounds'
  BY <1>1, <1>2, <1>3 DEF TarjanInvariant, StackInvariant, LowReaches, LowBounds
<1>7. SccInvariant'
  BY <1>1, <1>2, <1>3 DEF TarjanInvariant, SccInvariant
<1>. QED
  BY <1>4, <1>5, <1>6, <1>7 DEF TarjanInvariant

-----------------------------------------------------------------------------
(* sort_scc.                                                               *)

\* Node j of a component comes before node k, or is it.
Precedes(comp, j, k) ==
    \/ inst[comp[j]].seq < inst[comp[k]].seq
    \/ inst[comp[j]].seq = inst[comp[k]].seq /\ j <= k

\* Each node of a component gets a place of its own.
LEMMA PlacesDiffer ==
    ASSUME TypeInvariant, NEW comp \in Seq(Ids)
    PROVE  /\ \A k \in 1..Len(comp) : Place(comp, k) \in 1..Len(comp)
           /\ \A j, k \in 1..Len(comp) : j # k /\ Precedes(comp, j, k)
                => Place(comp, j) < Place(comp, k)
           /\ \A j, k \in 1..Len(comp) : Precedes(comp, j, k) \/ Precedes(comp, k, j)
<1>. DEFINE m == Len(comp)
            Below(k) == {j \in 1..m : Precedes(comp, j, k)}
<1>1. m \in Nat /\ \A k \in 1..m : inst[comp[k]].seq \in Nat
  <2>1. \A k \in 1..m : comp[k] \in Ids
    OBVIOUS
  <2>. QED
    BY <2>1, LenProperties DEF TypeInvariant
<1>2. \A j, k \in 1..m : Precedes(comp, j, k) \/ Precedes(comp, k, j)
  BY <1>1 DEF Precedes
<1>3. \A j, k, l \in 1..m : Precedes(comp, j, k) /\ Precedes(comp, k, l) => Precedes(comp, j, l)
  BY <1>1 DEF Precedes
<1>4. \A j, k \in 1..m : Precedes(comp, j, k) /\ Precedes(comp, k, j) => j = k
  BY <1>1 DEF Precedes
<1>5. \A k \in 1..m : Place(comp, k) = Cardinality(Below(k))
  BY DEF Place, Precedes
<1>6. IsFiniteSet(1..m) /\ Cardinality(1..m) = m
  <2>. HIDE DEF m
  <2>1. IsFiniteSet(1..m) /\ Cardinality(1..m) = IF 1 > m THEN 0 ELSE m - 1 + 1
    BY <1>1, FS_Interval
  <2>. QED
    BY <2>1, <1>1
<1>. HIDE DEF m
<1>7. ASSUME NEW k \in 1..m
      PROVE  /\ IsFiniteSet(Below(k)) /\ Cardinality(Below(k)) \in 1..m
             /\ k \in Below(k)
  <2>1. Below(k) \subseteq 1..m /\ k \in Below(k)
    BY <1>2
  <2>2. IsFiniteSet(Below(k)) /\ Cardinality(Below(k)) <= m
    <3>. HIDE DEF Below
    <3>1. Below(k) \in SUBSET (1..m)
      BY <2>1
    <3>2. IsFiniteSet(Below(k)) /\ Cardinality(Below(k)) <= Cardinality(1..m)
      BY <3>1, <1>6, FS_Subset
    <3>. QED
      BY <3>2, <1>6
  <2>3. Cardinality(Below(k)) \in Nat /\ Cardinality(Below(k)) # 0
    BY <2>1, <2>2, FS_CardinalityType, FS_EmptySet
  <2>. QED
    BY <2>1, <2>2, <2>3, <1>1
<1>8. ASSUME NEW j \in 1..m, NEW k \in 1..m, j # k, Precedes(comp, j, k)
      PROVE  Cardinality(Below(j)) < Cardinality(Below(k))
  <2>1. Below(j) \subseteq Below(k)
    BY <1>3, <1>8
  <2>2. k \in Below(k) /\ k \notin Below(j)
    BY <1>4, <1>7, <1>8
  <2>3. /\ Cardinality(Below(j)) <= Cardinality(Below(k))
        /\ Cardinality(Below(k)) # Cardinality(Below(j))
    BY <2>1, <2>2, <1>7, FS_Subset
  <2>4. Cardinality(Below(j)) \in Nat /\ Cardinality(Below(k)) \in Nat
    <3>1. Cardinality(Below(j)) \in 1..m /\ Cardinality(Below(k)) \in 1..m
      BY <1>7
    <3>. HIDE DEF Below
    <3>. QED
      BY <3>1, <1>1
  <2>. QED
    BY <2>3, <2>4
<1>. QED
  BY <1>2, <1>5, <1>7, <1>8 DEF m

\* sort_scc permutes a component so that no sequence number falls.
LEMMA SortSccProperties ==
    ASSUME TypeInvariant, NEW comp \in Seq(Ids)
    PROVE  /\ SortScc(comp) \in Seq(Ids)
           /\ Len(SortScc(comp)) = Len(comp)
           /\ ToSet(SortScc(comp)) = ToSet(comp)
           /\ \A i, j \in 1..Len(comp) : i < j =>
                 inst[SortScc(comp)[i]].seq <= inst[SortScc(comp)[j]].seq
<1>. DEFINE m == Len(comp)
            At(p) == CHOOSE k \in 1..m : Place(comp, k) = p
            place == [k \in 1..m |-> Place(comp, k)]
            s == SortScc(comp)
<1>1. m \in Nat /\ \A k \in 1..m : comp[k] \in Ids
  BY LenProperties
<1>2. \A k \in 1..m : Place(comp, k) \in 1..m
  BY PlacesDiffer
<1>3. ASSUME NEW j \in 1..m, NEW k \in 1..m, Place(comp, j) = Place(comp, k) PROVE j = k
  <2>1. Place(comp, j) \in Nat /\ Place(comp, k) \in Nat
    BY <1>1, <1>2
  <2>2. /\ j # k /\ Precedes(comp, j, k) => Place(comp, j) < Place(comp, k)
        /\ k # j /\ Precedes(comp, k, j) => Place(comp, k) < Place(comp, j)
        /\ Precedes(comp, j, k) \/ Precedes(comp, k, j)
    BY PlacesDiffer
  <2>. QED
    BY <2>1, <2>2, <1>3
<1>4. \A p \in 1..m : \E k \in 1..m : Place(comp, k) = p
  <2>1. IsFiniteSet(1..m)
    BY <1>1, FS_Interval
  <2>2. place \in Injection(1..m, 1..m)
    BY <1>2, <1>3 DEF Injection, IsInjective
  <2>3. place \in Surjection(1..m, 1..m)
    BY <2>1, <2>2, FS_Injection
  <2>. QED
    BY <2>3 DEF Surjection
<1>5. \A p \in 1..m : At(p) \in 1..m /\ Place(comp, At(p)) = p
  BY <1>4
<1>6. s = [p \in 1..m |-> comp[At(p)]]
  BY DEF SortScc
<1>. HIDE DEF At, s, m
<1>7. s \in Seq(Ids) /\ Len(s) = m /\ \A p \in 1..m : s[p] = comp[At(p)]
  <2>1. \A p \in 1..m : comp[At(p)] \in Ids
    BY <1>1, <1>5
  <2>. QED
    BY <2>1, <1>1, <1>6
<1>8. ToSet(s) = ToSet(comp)
  <2>1. ASSUME NEW x \in ToSet(s) PROVE x \in ToSet(comp)
    <3>1. PICK p \in 1..m : s[p] = x
      BY <1>7, ElementsOf
    <3>. QED
      BY <3>1, <1>5, <1>7, ElementsOf DEF m
  <2>2. ASSUME NEW x \in ToSet(comp) PROVE x \in ToSet(s)
    <3>1. PICK k \in 1..m : comp[k] = x
      BY ElementsOf DEF m
    <3>2. /\ Place(comp, k) \in 1..m /\ At(Place(comp, k)) \in 1..m
          /\ Place(comp, At(Place(comp, k))) = Place(comp, k)
      BY <1>2, <1>5
    <3>3. At(Place(comp, k)) = k
      BY <3>2, <1>3
    <3>4. s[Place(comp, k)] = x
      BY <3>1, <3>2, <3>3, <1>7
    <3>. QED
      BY <3>2, <3>4, <1>7, ElementsOf
  <2>. QED
    BY <2>1, <2>2, Zenon
<1>9. ASSUME NEW i \in 1..m, NEW j \in 1..m, i < j PROVE inst[s[i]].seq <= inst[s[j]].seq
  <2>1. At(i) \in 1..m /\ At(j) \in 1..m /\ Place(comp, At(i)) = i /\ Place(comp, At(j)) = j
    BY <1>5
  <2>2. ~ (Precedes(comp, At(j), At(i)) /\ At(j) # At(i))
    <3>1. Precedes(comp, At(j), At(i)) /\ At(j) # At(i)
            => Place(comp, At(j)) < Place(comp, At(i))
      BY <2>1, PlacesDiffer DEF m
    <3>2. ~ (j < i)
      BY <1>1, <1>9
    <3>. QED
      BY <3>1, <3>2, <2>1
  <2>3. At(i) # At(j)
    BY <2>1, <1>1, <1>9
  <2>4. Precedes(comp, At(i), At(j))
    BY <2>1, <2>2, <2>3, PlacesDiffer DEF m
  <2>5. inst[comp[At(i)]].seq \in Nat /\ inst[comp[At(j)]].seq \in Nat
    BY <2>1, <1>1 DEF TypeInvariant
  <2>6. inst[comp[At(i)]].seq <= inst[comp[At(j)]].seq
    BY <2>4, <2>5 DEF Precedes
  <2>. QED
    BY <2>6, <1>7
<1>. QED
  BY <1>7, <1>8, <1>9 DEF s, m


-----------------------------------------------------------------------------
(* What the constants are assumed to be.                                    *)

LEMMA IdsFinite == IsFiniteSet(Ids)
<1>. DEFINE I == 1..MaxInst
            pairs == Replicas \X I
            f == [p \in pairs |-> [replica |-> p[1], instance |-> p[2]]]
<1>1. IsFiniteSet(Replicas) /\ IsFiniteSet(I)
  <2>1. N \in Int /\ MaxInst \in Int
    BY InstanceAssumption
  <2>. QED
    BY <2>1, FS_Interval DEF Replicas
<1>2. IsFiniteSet(pairs)
  BY <1>1, FS_Product
<1>3. f \in [pairs -> Ids]
  BY DEF Ids
<1>4. \A id \in Ids : \E p \in pairs : f[p] = id
  <2>. SUFFICES ASSUME NEW id \in Ids PROVE \E p \in pairs : f[p] = id
    OBVIOUS
  <2>1. id = [replica |-> id.replica, instance |-> id.instance]
        /\ id.replica \in Replicas /\ id.instance \in I
    BY DEF Ids
  <2>2. <<id.replica, id.instance>> \in pairs
    BY <2>1
  <2>. QED
    BY <2>1, <2>2
<1>. HIDE DEF f, pairs
<1>5. f \in Surjection(pairs, Ids)
  BY <1>3, <1>4 DEF Surjection
<1>. QED
  BY <1>2, <1>5, FS_Surjection

LEMMA SameCardinality == ASSUME NEW S PROVE Order!Cardinality(S) = Cardinality(S)
BY DEF Order!Cardinality, Cardinality

LEMMA SameFiniteness == ASSUME NEW S PROVE OrderFacts!IsFiniteSet(S) <=> IsFiniteSet(S)
BY DEF OrderFacts!IsFiniteSet, IsFiniteSet

LEMMA SameElements == ASSUME NEW s PROVE Order!ToSet(s) = ToSet(s)
BY DEF Order!ToSet, ToSet

\* The constants are what EpxExecOrder asks for.
LEMMA OrderConstants == OrderFacts!OrderAssumption
<1>1. OrderFacts!IsFiniteSet(Ids)
  BY IdsFinite, SameFiniteness
<1>2. Attributes \subseteq [Ids -> [seq : Nat, deps : Seq(Ids)]]
  <2>1. [seq : Nat \ {0}, deps : Seq(Ids)] \subseteq [seq : Nat, deps : Seq(Ids)]
    OBVIOUS
  <2>2. Attributes \subseteq [Ids -> [seq : Nat \ {0}, deps : Seq(Ids)]]
    BY ExecutorAssumption
  <2>. QED
    BY <2>1, <2>2
<1>. QED
  BY <1>1, <1>2 DEF OrderFacts!OrderAssumption

\* The two names under which this module knows EpxExecOrder stand for the same.
LEMMA SameOrder ==
    /\ FixedOrder <=> OrderFacts!FixedOrder
    /\ Order!Spec => OrderFacts!Spec
<1>1. \A s : Order!ToSet(s) = OrderFacts!ToSet(s)
  BY Zenon DEF Order!ToSet, OrderFacts!ToSet
<1>2. \A n : Order!Deps(n) = OrderFacts!Deps(n)
  BY <1>1, Zenon DEF Order!Deps, OrderFacts!Deps
<1>3. \A S : Order!DepClosed(S) <=> OrderFacts!DepClosed(S)
  BY <1>2, Zenon DEF Order!DepClosed, OrderFacts!DepClosed
<1>4. \A n : Order!DependsOn(n) = OrderFacts!DependsOn(n)
  BY <1>3 DEF Order!DependsOn, OrderFacts!DependsOn
<1>5. Order!Ran = OrderFacts!Ran
  BY <1>1 DEF Order!Ran, OrderFacts!Ran
<1>6. \A a, b : Order!MustPrecede(b, a) <=> OrderFacts!MustPrecede(b, a)
  BY <1>4, Zenon DEF Order!MustPrecede, OrderFacts!MustPrecede
<1>7. \A a, b : Order!RanBefore(b, a) <=> OrderFacts!RanBefore(b, a)
  BY Zenon DEF Order!RanBefore, OrderFacts!RanBefore
<1>8. FixedOrder <=> OrderFacts!FixedOrder
  BY <1>5, <1>6, <1>7, Zenon DEF FixedOrder, Order!FixedOrder, OrderFacts!FixedOrder
<1>9. \A c : Order!Cycle(c) <=> OrderFacts!Cycle(c)
  BY <1>1, <1>4, Zenon DEF Order!Cycle, OrderFacts!Cycle
<1>10. \A c : Order!Ready(c) <=> OrderFacts!Ready(c)
  BY <1>1, <1>2, <1>5, Zenon DEF Order!Ready, OrderFacts!Ready
<1>11. \A c : Order!BySeq(c) <=> OrderFacts!BySeq(c)
  BY Zenon DEF Order!BySeq, OrderFacts!BySeq
<1>12. \A c : Order!Run(c) <=> OrderFacts!Run(c)
  BY <1>9, <1>10, <1>11, Zenon DEF Order!Run, OrderFacts!Run
<1>13. Order!Next <=> OrderFacts!Next
  <2>1. Order!Components = OrderFacts!Components
    BY DEF Order!Components, OrderFacts!Components, Order!Cardinality, OrderFacts!Cardinality
  <2>2. Order!Hasten <=> OrderFacts!Hasten
    BY DEF Order!Hasten, OrderFacts!Hasten
  <2>. QED
    BY <1>12, <2>1, <2>2, Zenon DEF Order!Next, OrderFacts!Next
<1>14. Order!Init <=> OrderFacts!Init
  BY Zenon DEF Order!Init, OrderFacts!Init
<1>. QED
  BY <1>8, <1>13, <1>14, PTL DEF Order!Spec, OrderFacts!Spec, Order!vars, OrderFacts!vars


-----------------------------------------------------------------------------
(* The steps of the replica's thread.                                      *)

LEMMA Codes ==
    /\ ABSENT = 0 /\ PRE_ACCEPTED = 2 /\ COMMITTED = 64 /\ EXECUTED = 128
BY DEF ABSENT, PRE_ACCEPTED, COMMITTED, EXECUTED

\* What ran, in terms of this module.
LEMMA RanIs ==
    ASSUME log \in Seq(Seq(Ids))
    PROVE  \A x : x \in Order!Ran <=> \E k \in 1..Len(log) : x \in ToSet(log[k])
<1>1. DOMAIN log = 1..Len(log)
  OBVIOUS
<1>2. \A x : x \in Order!Ran <=> \E k \in DOMAIN log : x \in Order!ToSet(log[k])
  BY Zenon DEF Order!Ran
<1>. QED
  BY <1>1, <1>2, SameElements

LEMMA RanGrows ==
    ASSUME log \in Seq(Seq(Ids)), NEW c \in Seq(Ids), log' = Append(log, c)
    PROVE  \A x : (x \in Order!Ran)' <=> x \in Order!Ran \/ x \in ToSet(c)
<1>1. log' \in Seq(Seq(Ids)) /\ Len(log') = Len(log) + 1 /\ Len(log) \in Nat
      /\ log'[Len(log) + 1] = c /\ \A k \in 1..Len(log) : log'[k] = log[k]
  OBVIOUS
<1>2. \A x : (x \in Order!Ran)' <=> \E k \in 1..Len(log') : x \in ToSet(log'[k])
  <2>1. DOMAIN log' = 1..Len(log')
    BY <1>1
  <2>2. \A x : (x \in Order!Ran)' <=> \E k \in DOMAIN log' : x \in ToSet(log'[k])
    BY DEF Order!Ran, Order!ToSet, ToSet
  <2>. QED
    BY <2>1, <2>2, SameElements
<1>3. \A k \in 1..Len(log') : k \in 1..Len(log) \/ k = Len(log) + 1
  BY <1>1
<1>4. \A k \in 1..Len(log) : k \in 1..Len(log')
  BY <1>1
<1>5. Len(log) + 1 \in 1..Len(log')
  BY <1>1
<1>6. ASSUME NEW x, \E k \in 1..Len(log') : x \in ToSet(log'[k])
      PROVE  (\E k \in 1..Len(log) : x \in ToSet(log[k])) \/ x \in ToSet(c)
  <2>. PICK k \in 1..Len(log') : x \in ToSet(log'[k])
    BY <1>6
  <2>1. CASE k \in 1..Len(log)
    BY <2>1, <1>1
  <2>2. CASE k = Len(log) + 1
    BY <2>2, <1>1
  <2>. QED
    BY <2>1, <2>2, <1>3
<1>7. ASSUME NEW x, (\E k \in 1..Len(log) : x \in ToSet(log[k])) \/ x \in ToSet(c)
      PROVE  \E k \in 1..Len(log') : x \in ToSet(log'[k])
  <2>1. CASE x \in ToSet(c)
    BY <2>1, <1>1, <1>5
  <2>2. CASE \E k \in 1..Len(log) : x \in ToSet(log[k])
    BY <2>2, <1>1, <1>4
  <2>. QED
    BY <2>1, <2>2, <1>7
<1>. QED
  BY <1>2, <1>6, <1>7, RanIs, Zenon

\* What a send on chan_exec does to the instances and the channel.
LEMMA SendExecDoes ==
    ASSUME TypeInvariant, HandedInvariant, NEW id \in Ids, SendExec(id)
    PROVE  /\ inst' \in [Ids -> [status : {ABSENT, PRE_ACCEPTED, COMMITTED, EXECUTED},
                                 seq : Nat, deps : Seq(Ids)]]
           /\ \A n \in Ids : inst'[n].seq = inst[n].seq /\ inst'[n].deps = inst[n].deps
           /\ \A n \in Ids : n # id => inst'[n] = inst[n]
           /\ inst'[id].status = COMMITTED
           /\ chan' \in Seq(Ids)
           /\ ToSet(chan') \union vertices' \subseteq {n \in Ids : inst'[n].status >= COMMITTED}
           /\ \A n \in Ids : Done(n)' => n \in (Order!Ran)'
<1>1. /\ inst \in [Ids -> [status : {ABSENT, PRE_ACCEPTED, COMMITTED, EXECUTED},
                           seq : Nat, deps : Seq(Ids)]]
      /\ chan \in Seq(Ids) /\ vertices \subseteq Ids
  BY DEF TypeInvariant
<1>2. inst' = [inst EXCEPT ![id].status = COMMITTED] /\ chan' = Append(chan, id)
      /\ vertices' = vertices /\ log' = log
  BY DEF SendExec, graph, history
<1>3. PICK x : x = [inst[id] EXCEPT !.status = COMMITTED]
  OBVIOUS
<1>4. x \in [status : {ABSENT, PRE_ACCEPTED, COMMITTED, EXECUTED}, seq : Nat, deps : Seq(Ids)]
      /\ x.status = COMMITTED /\ x.seq = inst[id].seq /\ x.deps = inst[id].deps
  BY <1>1, <1>3
<1>5. inst' = [inst EXCEPT ![id] = x]
  BY <1>1, <1>2, <1>3
<1>6. /\ inst' \in [Ids -> [status : {ABSENT, PRE_ACCEPTED, COMMITTED, EXECUTED},
                            seq : Nat, deps : Seq(Ids)]]
      /\ inst'[id] = x
      /\ \A n \in Ids : n # id => inst'[n] = inst[n]
  BY <1>1, <1>4, <1>5
<1>7. \A n \in Ids : inst'[n].seq = inst[n].seq /\ inst'[n].deps = inst[n].deps
  BY <1>4, <1>6
<1>8. chan' \in Seq(Ids) /\ \A n \in ToSet(chan') : n \in ToSet(chan) \/ n = id
  <2>1. chan' \in Seq(Ids) /\ Len(chan') = Len(chan) + 1 /\ Len(chan) \in Nat
        /\ chan'[Len(chan) + 1] = id /\ \A k \in 1..Len(chan) : chan'[k] = chan[k]
    BY <1>1, <1>2
  <2>2. ASSUME NEW k \in 1..Len(chan') PROVE chan'[k] \in ToSet(chan) \/ chan'[k] = id
    <3>1. k \in 1..Len(chan) \/ k = Len(chan) + 1
      BY <2>1
    <3>. QED
      BY <3>1, <2>1, <1>1, ElementsOf
  <2>. QED
    BY <2>1, <2>2, ElementsOf
<1>9. \A n \in ToSet(chan) \union vertices : n \in Ids /\ inst[n].status >= COMMITTED
  BY DEF HandedInvariant
<1>10. ASSUME NEW n \in ToSet(chan') \union vertices'
       PROVE  n \in Ids /\ inst'[n].status >= COMMITTED
  <2>1. CASE n = id
    BY <2>1, <1>4, <1>6, Codes
  <2>2. CASE n # id
    BY <2>2, <1>2, <1>6, <1>8, <1>9
  <2>. QED
    BY <2>1, <2>2
<1>11. ASSUME NEW n \in Ids, Done(n)' PROVE n \in (Order!Ran)'
  <2>1. n # id
    BY <1>4, <1>6, <1>11, Codes DEF Done
  <2>2. Done(n)
    BY <2>1, <1>6, <1>11 DEF Done
  <2>3. n \in Order!Ran
    BY <2>2 DEF HandedInvariant
  <2>. QED
    BY <2>3, <1>2 DEF Order!Ran, Order!ToSet
<1>. QED
  BY <1>4, <1>6, <1>7, <1>8, <1>10, <1>11, Zenon

LEMMA HandOverPreserves ==
    ASSUME ExecutorInvariant, NEW id \in Ids, HandOver(id)
    PROVE  ExecutorInvariant'
<1>1. TypeInvariant /\ TarjanInvariant /\ HandedInvariant
  BY DEF ExecutorInvariant
<1>2. SendExec(id) /\ storing' = storing /\ InPlace(id)
  BY DEF HandOver
<1>3. UNCHANGED <<agreed, graph, nodes, sccs, log, early>>
  BY <1>2 DEF SendExec, history
<1>4. TypeInvariant'
  BY <1>1, <1>2, <1>3, SendExecDoes DEF TypeInvariant, graph, nodes
<1>5. TarjanInvariant'
  BY <1>1, <1>3, TarjanUnchanged
<1>6. HandedInvariant'
  <2>1. ASSUME NEW n \in Ids, inst'[n].status >= COMMITTED, n \notin storing'
        PROVE  InPlace(n)'
    <3>1. InPlace(n)
      <4>1. CASE n = id
        BY <4>1, <1>2
      <4>2. CASE n # id
        BY <4>2, <2>1, <1>1, <1>2, SendExecDoes DEF HandedInvariant
      <4>. QED
        BY <4>1, <4>2
    <3>. QED
      BY <3>1, <1>1, <1>2, <1>3, SendExecDoes DEF InPlace
  <2>2. ~early' => \A n \in Ids : edges'[n] \subseteq ToSet(agreed'[n].deps)
    BY <1>1, <1>3 DEF HandedInvariant, graph
  <2>. QED
    BY <2>1, <2>2, <1>1, <1>2, SendExecDoes DEF HandedInvariant
<1>. QED
  BY <1>4, <1>5, <1>6 DEF ExecutorInvariant

LEMMA LearnPreserves ==
    ASSUME ExecutorInvariant, NEW id \in Ids, Learn(id)
    PROVE  ExecutorInvariant'
<1>1. TypeInvariant /\ TarjanInvariant /\ HandedInvariant
  BY DEF ExecutorInvariant
<1>2. SendExec(id) /\ storing' = {id} /\ storing = {}
  BY DEF Learn
<1>3. UNCHANGED <<agreed, graph, nodes, sccs, log, early>>
  BY <1>2 DEF SendExec, history
<1>4. TypeInvariant'
  BY <1>1, <1>2, <1>3, SendExecDoes DEF TypeInvariant, graph, nodes
<1>5. TarjanInvariant'
  BY <1>1, <1>3, TarjanUnchanged
<1>6. HandedInvariant'
  <2>1. ASSUME NEW n \in Ids, inst'[n].status >= COMMITTED, n \notin storing'
        PROVE  InPlace(n)'
    <3>1. InPlace(n)
      BY <2>1, <1>1, <1>2, SendExecDoes DEF HandedInvariant
    <3>. QED
      BY <3>1, <1>1, <1>2, <1>3, SendExecDoes DEF InPlace
  <2>2. ~early' => \A n \in Ids : edges'[n] \subseteq ToSet(agreed'[n].deps)
    BY <1>1, <1>3 DEF HandedInvariant, graph
  <2>. QED
    BY <2>1, <2>2, <1>1, <1>2, SendExecDoes DEF HandedInvariant
<1>. QED
  BY <1>4, <1>5, <1>6 DEF ExecutorInvariant

LEMMA StorePreserves ==
    ASSUME ExecutorInvariant, NEW id \in Ids, Store(id)
    PROVE  ExecutorInvariant'
<1>1. TypeInvariant /\ TarjanInvariant /\ HandedInvariant
  BY DEF ExecutorInvariant
<1>2. /\ inst' = [inst EXCEPT ![id].seq = agreed[id].seq, ![id].deps = agreed[id].deps]
      /\ storing = {id} /\ storing' = {}
  BY <1>1 DEF Store, TypeInvariant
<1>3. UNCHANGED <<agreed, chan, graph, nodes, sccs, log, early>>
  BY DEF Store, history
<1>4. /\ inst' \in [Ids -> [status : {ABSENT, PRE_ACCEPTED, COMMITTED, EXECUTED},
                            seq : Nat, deps : Seq(Ids)]]
      /\ \A n \in Ids : inst'[n].status = inst[n].status
      /\ \A n \in Ids : n # id => inst'[n] = inst[n]
      /\ inst'[id].seq = agreed[id].seq /\ inst'[id].deps = agreed[id].deps
  <2>1. /\ inst \in [Ids -> [status : {ABSENT, PRE_ACCEPTED, COMMITTED, EXECUTED},
                             seq : Nat, deps : Seq(Ids)]]
        /\ agreed \in [Ids -> [seq : Nat, deps : Seq(Ids)]]
    BY <1>1 DEF TypeInvariant
  <2>2. PICK x : x = [inst[id] EXCEPT !.seq = agreed[id].seq, !.deps = agreed[id].deps]
    OBVIOUS
  <2>3. x \in [status : {ABSENT, PRE_ACCEPTED, COMMITTED, EXECUTED}, seq : Nat, deps : Seq(Ids)]
        /\ x.status = inst[id].status /\ x.seq = agreed[id].seq /\ x.deps = agreed[id].deps
    BY <2>1, <2>2
  <2>4. inst' = [inst EXCEPT ![id] = x]
    BY <1>2, <2>1, <2>2
  <2>. QED
    BY <2>1, <2>3, <2>4
<1>5. TypeInvariant'
  BY <1>1, <1>2, <1>3, <1>4 DEF TypeInvariant, graph, nodes
<1>6. TarjanInvariant'
  BY <1>1, <1>3, TarjanUnchanged
<1>7. HandedInvariant'
  <2>1. ASSUME NEW n \in Ids, inst'[n].status >= COMMITTED PROVE InPlace(n)'
    <3>1. CASE n = id
      BY <3>1, <1>3, <1>4 DEF InPlace
    <3>2. CASE n # id
      BY <3>2, <2>1, <1>1, <1>2, <1>3, <1>4 DEF HandedInvariant, InPlace
    <3>. QED
      BY <3>1, <3>2
  <2>2. ToSet(chan') \union vertices' \subseteq {n \in Ids : inst'[n].status >= COMMITTED}
    BY <1>1, <1>3, <1>4 DEF HandedInvariant, graph
  <2>3. ~early' => \A n \in Ids : edges'[n] \subseteq ToSet(agreed'[n].deps)
    BY <1>1, <1>3 DEF HandedInvariant, graph
  <2>4. \A n \in Ids : Done(n)' => n \in (Order!Ran)'
    <3>1. (Order!Ran)' = Order!Ran
      BY <1>3 DEF Order!Ran, Order!ToSet
    <3>. QED
      BY <3>1, <1>1, <1>4 DEF HandedInvariant, Done
  <2>. QED
    BY <2>1, <2>2, <2>3, <2>4 DEF HandedInvariant
<1>. QED
  BY <1>5, <1>6, <1>7 DEF ExecutorInvariant

-----------------------------------------------------------------------------
(* The steps of strong_connect and visit.                                  *)

\* What the replica's thread needs of a step of visit.
LEMMA VisitUntouched ==
    ASSUME TypeInvariant, HandedInvariant,
           UNCHANGED <<agreed, replica, chan, graph, history>>
    PROVE  HandedInvariant'
<1>1. /\ agreed' = agreed /\ inst' = inst /\ storing' = storing /\ chan' = chan
      /\ vertices' = vertices /\ edges' = edges /\ log' = log /\ early' = early
  BY DEF replica, graph, history
<1>2. (Order!Ran)' = Order!Ran
  BY <1>1 DEF Order!Ran, Order!ToSet
<1>. QED
  BY <1>1, <1>2 DEF HandedInvariant, InPlace, Done

LEMMA RootStep ==
    ASSUME ExecutorInvariant, Root
    PROVE  ExecutorInvariant'
<1>1. TypeInvariant /\ TarjanInvariant /\ HandedInvariant
  BY DEF ExecutorInvariant
<1>2. PICK d \in vertices : NotVisited(d) /\ Enter(d)
  BY DEF Root
<1>3. /\ calls = <<>>
      /\ UNCHANGED <<agreed, replica, chan, graph, todo, sccs, history>>
  BY DEF Root
<1>4. todo' = todo /\ vertices' = vertices /\ edges' = edges /\ sccs' = sccs
      /\ todo \in [Ids -> SUBSET Ids]
  BY <1>1, <1>3 DEF graph, TypeInvariant
<1>5. /\ index' \in [Ids -> Int] /\ low_link' \in [Ids -> Int] /\ visited' \in Nat
      /\ stack' \in Seq(Ids) /\ calls' \in Seq(Ids)
      /\ TarjanInvariant'
  BY <1>1, <1>2, <1>3, <1>4, EnterPreserves
<1>6. TypeInvariant'
  BY <1>1, <1>3, <1>4, <1>5 DEF TypeInvariant, replica, graph, history
<1>7. HandedInvariant'
  BY <1>1, <1>3, VisitUntouched
<1>. QED
  BY <1>5, <1>6, <1>7 DEF ExecutorInvariant

LEMMA FollowStep ==
    ASSUME ExecutorInvariant, calls # <<>>, NEW n, n = Head(calls), Follow(n)
    PROVE  ExecutorInvariant'
<1>1. TypeInvariant /\ TarjanInvariant /\ HandedInvariant
  BY DEF ExecutorInvariant
<1>2. n \in Ids /\ n \in Grey
  BY <1>1, LastCall
<1>3. UNCHANGED <<agreed, replica, chan, graph, sccs, history>>
  BY DEF Follow
<1>4. PICK d \in todo[n] :
          /\ todo' = [todo EXCEPT ![n] = @ \ {d}]
          /\ \/ NotVisited(d) /\ Enter(d)
             \/ /\ ~NotVisited(d)
                /\ low_link' = IF OnStack(d)
                               THEN [low_link EXCEPT ![n] = Lesser(@, index[d])]
                               ELSE low_link
                /\ UNCHANGED <<index, visited, stack, calls>>
  BY DEF Follow
<1>5. /\ vertices' = vertices /\ edges' = edges /\ sccs' = sccs
      /\ todo \in [Ids -> SUBSET Ids] /\ edges \in [Ids -> SUBSET Ids]
  BY <1>1, <1>3 DEF graph, TypeInvariant
<1>6. d \in edges[n] /\ d \in vertices /\ d \in Ids
  <2>1. ~Connected
    BY DEF Connected
  <2>. QED
    BY <2>1, <1>1, <1>2, <1>5 DEF TarjanInvariant, EdgeInvariant
<1>7. d \in Reach(n)
  BY <1>2, <1>6, ReachEdge
<1>8. /\ todo' \in [Ids -> SUBSET Ids]
      /\ \A m \in Ids : /\ todo'[m] \subseteq todo[m]
                        /\ todo[m] \subseteq todo'[m] \union {d}
                        /\ m \notin Grey => todo'[m] = todo[m]
  BY <1>2, <1>4, <1>5
<1>9. /\ index' \in [Ids -> Int] /\ low_link' \in [Ids -> Int] /\ visited' \in Nat
      /\ stack' \in Seq(Ids) /\ calls' \in Seq(Ids)
      /\ TarjanInvariant'
  <2>1. CASE NotVisited(d) /\ Enter(d)
    BY <2>1, <1>1, <1>5, <1>6, <1>7, <1>8, EnterPreserves
  <2>2. CASE ~NotVisited(d)
    <3>1. low_link' = IF OnStack(d) THEN [low_link EXCEPT ![n] = Lesser(@, index[d])]
                      ELSE low_link
      BY <2>2, <1>4
    <3>2. UNCHANGED <<index, visited, stack, calls, vertices, edges, sccs>>
      BY <2>2, <1>4, <1>5
    <3>3. low_link' \in [Ids -> Int] /\ TarjanInvariant'
      BY <3>1, <3>2, <2>2, <1>1, <1>4, LookPreserves
    <3>. QED
      BY <3>2, <3>3, <1>1 DEF TypeInvariant
  <2>. QED
    BY <2>1, <2>2, <1>4
<1>10. TypeInvariant'
  BY <1>1, <1>3, <1>5, <1>8, <1>9 DEF TypeInvariant, replica, graph, history
<1>11. HandedInvariant'
  BY <1>1, <1>3, VisitUntouched
<1>. QED
  BY <1>9, <1>10, <1>11 DEF ExecutorInvariant

LEMMA LeaveStep ==
    ASSUME ExecutorInvariant, calls # <<>>, NEW n, n = Head(calls), Leave(n)
    PROVE  ExecutorInvariant'
<1>1. TypeInvariant /\ TarjanInvariant /\ HandedInvariant
  BY DEF ExecutorInvariant
<1>2. /\ todo[n] = {} /\ calls' = Tail(calls)
      /\ low_link' = IF calls' = <<>> THEN low_link
                     ELSE [low_link EXCEPT ![Head(calls')] = Lesser(@, low_link[n])]
      /\ UNCHANGED <<agreed, replica, chan, graph, index, visited, todo, history>>
  BY DEF Leave
<1>3. /\ vertices' = vertices /\ edges' = edges
      /\ index' = index /\ visited' = visited /\ todo' = todo
  BY <1>2 DEF graph
<1>4. CASE low_link[n] # index[n] /\ UNCHANGED <<stack, sccs>>
  <2>1. low_link' \in [Ids -> Int] /\ calls' \in Seq(Ids) /\ TarjanInvariant'
    BY <1>1, <1>2, <1>3, <1>4, ReturnPreserves
  <2>2. TypeInvariant'
    BY <1>1, <1>2, <1>3, <1>4, <2>1 DEF TypeInvariant, replica, graph, history
  <2>. QED
    BY <2>1, <2>2, <1>1, <1>2, VisitUntouched DEF ExecutorInvariant
<1>5. ASSUME low_link[n] = index[n],
             NEW root \in 1..Len(stack), stack[root] = n,
             sccs' = Append(sccs, SubSeq(stack, 1, root)),
             stack' = SubSeq(stack, root + 1, Len(stack))
      PROVE  ExecutorInvariant'
  <2>. DEFINE comp == SubSeq(stack, 1, root)
  <2>1. stack \in Seq(Ids) /\ index \in [Ids -> Int] /\ Falling(stack, index)
    BY <1>1 DEF TypeInvariant, TarjanInvariant, IndexInvariant
  <2>. DEFINE rest == SubSeq(stack, root + 1, Len(stack))
  <2>2. /\ comp \in Seq(Ids) /\ comp # <<>>
        /\ ToSet(comp) = {x \in ToSet(stack) : index[stack[root]] <= index[x]}
        /\ \A i, j \in 1..Len(comp) : comp[i] = comp[j] => i = j
        /\ rest \in Seq(Ids)
        /\ ToSet(rest) = {x \in ToSet(stack) : index[x] < index[stack[root]]}
        /\ Falling(rest, index)
    <3>1. root \in 1..Len(stack)
      OBVIOUS
    <3>2. LET upper == SubSeq(stack, 1, root)
              lower == SubSeq(stack, root + 1, Len(stack))
          IN  /\ upper \in Seq(Ids)
              /\ upper # <<>>
              /\ ToSet(upper) = {x \in ToSet(stack) : index[stack[root]] <= index[x]}
              /\ \A i, j \in 1..Len(upper) : upper[i] = upper[j] => i = j
              /\ lower \in Seq(Ids)
              /\ ToSet(lower) = {x \in ToSet(stack) : index[x] < index[stack[root]]}
              /\ Falling(lower, index)
      BY <3>1, <2>1, FallingCut, Zenon
    <3>. QED
      BY <3>2, Zenon
  <2>3. sccs' = Append(sccs, comp) /\ stack' = rest
    BY <1>5
  <2>. HIDE DEF comp, rest
  <2>4. /\ ToSet(comp) = {x \in OnTheStack : index[n] <= index[x]}
        /\ OnTheStack' = {x \in OnTheStack : index[x] < index[n]}
        /\ stack' \in Seq(Ids) /\ Falling(stack', index)
    BY <2>2, <2>3, <1>5 DEF OnTheStack
  <2>5. /\ low_link' \in [Ids -> Int] /\ calls' \in Seq(Ids)
        /\ sccs' \in Seq(Seq(Ids))
        /\ TarjanInvariant'
    BY <1>1, <1>2, <1>3, <1>5, <2>2, <2>3, <2>4, RootPreserves
  <2>6. TypeInvariant'
    BY <1>1, <1>2, <1>3, <2>4, <2>5 DEF TypeInvariant, replica, graph, history
  <2>. QED
    BY <2>5, <2>6, <1>1, <1>2, VisitUntouched DEF ExecutorInvariant
<1>. QED
  BY <1>4, <1>5 DEF Leave

-----------------------------------------------------------------------------
(* The steps of the executor outside of strong_connect.                     *)

\* The stack is empty when visit has returned to strong_connect.
LEMMA StackEmpty ==
    ASSUME TypeInvariant, TarjanInvariant, calls = <<>>
    PROVE  stack = <<>>
<1>1. Grey = {}
  BY DEF Grey, ToSet
<1>2. OnTheStack = {}
  BY <1>1 DEF TarjanInvariant, StackInvariant
<1>3. stack \in Seq(Ids)
  BY DEF TypeInvariant
<1>4. Len(stack) = 0
  <2>1. Len(stack) \in Nat
    BY <1>3, LenProperties
  <2>2. 1 \notin 1..Len(stack)
    BY <1>2, <1>3, ElementsOf DEF OnTheStack
  <2>. QED
    BY <2>1, <2>2
<1>. QED
  BY <1>3, <1>4, EmptySeq

LEMMA TakeStep ==
    ASSUME ExecutorInvariant, Take
    PROVE  ExecutorInvariant'
<1>. DEFINE id == Head(chan)
<1>1. TypeInvariant /\ TarjanInvariant /\ HandedInvariant
  BY DEF ExecutorInvariant
<1>2. /\ Connected /\ sccs = <<>> /\ chan # <<>> /\ chan' = Tail(chan)
      /\ vertices' = vertices \union {id}
      /\ early' = (early \/ storing # {})
      /\ UNCHANGED <<agreed, replica, stack, calls, sccs, log>>
  BY DEF Take
<1>3. /\ agreed' = agreed /\ inst' = inst /\ storing' = storing
      /\ stack' = stack /\ calls' = calls /\ sccs' = sccs /\ log' = log
  BY <1>2 DEF replica
<1>4. chan \in Seq(Ids) /\ id \in Ids /\ id \in ToSet(chan)
      /\ chan' \in Seq(Ids) /\ ToSet(chan') \subseteq ToSet(chan)
  <2>1. chan \in Seq(Ids)
    BY <1>1 DEF TypeInvariant
  <2>2. Len(chan) \in Nat \ {0} /\ id = chan[1] /\ id \in Ids
    BY <2>1, <1>2, EmptySeq
  <2>3. /\ Tail(chan) \in Seq(Ids) /\ Len(Tail(chan)) = Len(chan) - 1
        /\ \A i \in 1..Len(Tail(chan)) : Tail(chan)[i] = chan[i + 1]
    BY <2>1, <1>2, HeadTailProperties
  <2>4. id \in ToSet(chan)
    BY <2>1, <2>2, ElementsOf
  <2>5. ASSUME NEW i \in 1..Len(Tail(chan)) PROVE Tail(chan)[i] \in ToSet(chan)
    <3>1. i + 1 \in 1..Len(chan)
      BY <2>2, <2>3
    <3>. QED
      BY <3>1, <2>1, <2>3, ElementsOf
  <2>6. ToSet(Tail(chan)) \subseteq ToSet(chan)
    <3>1. \A x : x \in ToSet(Tail(chan)) <=> \E i \in 1..Len(Tail(chan)) : Tail(chan)[i] = x
      BY <2>3, ElementsOf
    <3>. QED
      BY <3>1, <2>5
  <2>. QED
    BY <2>1, <2>2, <2>3, <2>4, <2>6, <1>2
<1>. HIDE DEF id
<1>5. vertices' \in SUBSET Ids /\ early' \in BOOLEAN
  BY <1>1, <1>2, <1>4 DEF TypeInvariant
<1>6. \A n \in ToSet(chan) \union vertices : n \in Ids /\ inst[n].status >= COMMITTED
  BY <1>1 DEF HandedInvariant
<1>7. CASE /\ Added(id)
           /\ edges' = Links(vertices')
           /\ todo' = edges'
           /\ index' = Unvisited /\ low_link' = Unvisited /\ visited' = 0
  <2>1. stack = <<>>
    BY <1>1, <1>2, StackEmpty DEF Connected
  <2>2. stack' = <<>> /\ calls' = <<>> /\ sccs' = <<>>
    BY <2>1, <1>2, <1>3 DEF Connected
  <2>3. edges' \in [Ids -> SUBSET Ids] /\ TarjanInvariant'
    BY <2>2, <1>1, <1>5, <1>7, FreshTarjan
  <2>4. index' \in [Ids -> Int] /\ low_link' \in [Ids -> Int] /\ visited' \in Nat
    BY <1>7 DEF Unvisited
  <2>5. TypeInvariant'
    BY <2>3, <2>4, <1>1, <1>3, <1>4, <1>5, <1>7 DEF TypeInvariant
  <2>6. ASSUME ~early', NEW n \in Ids PROVE edges'[n] \subseteq ToSet(agreed'[n].deps)
    <3>1. CASE n \in vertices'
      <4>1. storing = {}
        BY <2>6, <1>2
      <4>2. n \in ToSet(chan) \union vertices
        BY <3>1, <1>2, <1>4
      <4>3. InPlace(n)
        BY <4>1, <4>2, <1>1, <1>6 DEF HandedInvariant
      <4>4. edges'[n] \subseteq ToSet(inst[n].deps)
        BY <1>7 DEF Links
      <4>. QED
        BY <4>3, <4>4, <1>3 DEF InPlace
    <3>2. CASE n \notin vertices'
      BY <3>2, <1>7 DEF Links
    <3>. QED
      BY <3>1, <3>2
  <2>7. HandedInvariant'
    <3>1. \A n \in Ids : inst'[n].status >= COMMITTED /\ n \notin storing' => InPlace(n)'
      BY <1>1, <1>3 DEF HandedInvariant, InPlace
    <3>2. ToSet(chan') \union vertices' \subseteq {n \in Ids : inst'[n].status >= COMMITTED}
      BY <1>2, <1>3, <1>4, <1>6
    <3>3. \A n \in Ids : Done(n)' => n \in (Order!Ran)'
      <4>1. (Order!Ran)' = Order!Ran
        BY <1>3 DEF Order!Ran, Order!ToSet
      <4>. QED
        BY <4>1, <1>1, <1>3 DEF HandedInvariant, Done
    <3>. QED
      BY <3>1, <3>2, <3>3, <2>6 DEF HandedInvariant
  <2>. QED
    BY <2>3, <2>5, <2>7 DEF ExecutorInvariant
<1>8. CASE ~Added(id) /\ UNCHANGED <<edges, todo, index, low_link, visited>>
  <2>1. vertices' = vertices
    BY <1>2, <1>8 DEF Added
  <2>2. TarjanInvariant'
    <3>1. UNCHANGED <<graph, nodes, sccs>>
      BY <2>1, <1>3, <1>8 DEF graph, nodes
    <3>. QED
      BY <3>1, <1>1, TarjanUnchanged
  <2>3. TypeInvariant'
    BY <1>1, <1>3, <1>4, <1>5, <1>8 DEF TypeInvariant
  <2>4. HandedInvariant'
    <3>1. \A n \in Ids : inst'[n].status >= COMMITTED /\ n \notin storing' => InPlace(n)'
      BY <1>1, <1>3 DEF HandedInvariant, InPlace
    <3>2. ToSet(chan') \union vertices' \subseteq {n \in Ids : inst'[n].status >= COMMITTED}
      BY <2>1, <1>3, <1>4, <1>6
    <3>3. \A n \in Ids : Done(n)' => n \in (Order!Ran)'
      <4>1. (Order!Ran)' = Order!Ran
        BY <1>3 DEF Order!Ran, Order!ToSet
      <4>. QED
        BY <4>1, <1>1, <1>3 DEF HandedInvariant, Done
    <3>4. ~early' => \A n \in Ids : edges'[n] \subseteq ToSet(agreed'[n].deps)
      BY <1>1, <1>2, <1>3, <1>8 DEF HandedInvariant
    <3>. QED
      BY <3>1, <3>2, <3>3, <3>4 DEF HandedInvariant
  <2>. QED
    BY <2>2, <2>3, <2>4 DEF ExecutorInvariant
<1>. QED
  BY <1>7, <1>8 DEF Take, id

\* The components that are left when the first has been looked at.
LEMMA NextScc ==
    ASSUME TypeInvariant, sccs # <<>>
    PROVE  /\ Head(sccs) \in Seq(Ids)
           /\ Tail(sccs) \in Seq(Seq(Ids))
           /\ Head(sccs) = sccs[1]
           /\ 1 \in 1..Len(sccs)
           /\ \A k \in 1..Len(Tail(sccs)) : /\ k + 1 \in 1..Len(sccs)
                                            /\ 1 < k + 1
                                            /\ Tail(sccs)[k] = sccs[k + 1]
<1>1. sccs \in Seq(Seq(Ids))
  BY DEF TypeInvariant
<1>2. Len(sccs) \in Nat \ {0} /\ Head(sccs) = sccs[1] /\ Head(sccs) \in Seq(Ids)
  BY <1>1, EmptySeq
<1>3. /\ Tail(sccs) \in Seq(Seq(Ids)) /\ Len(Tail(sccs)) = Len(sccs) - 1
      /\ \A i \in 1..Len(Tail(sccs)) : Tail(sccs)[i] = sccs[i + 1]
  BY <1>1, HeadTailProperties
<1>. QED
  BY <1>2, <1>3

\* The components that are left are still right, and of vertices.
LEMMA SccsLeft ==
    ASSUME TypeInvariant, SccInvariant, sccs # <<>>, sccs' = Tail(sccs),
           UNCHANGED <<edges, index, stack>>,
           vertices' = vertices \/ vertices' = vertices \ ToSet(Head(sccs))
    PROVE  SccInvariant'
<1>1. edges' = edges /\ index' = index /\ stack' = stack
  OBVIOUS
<1>2. Popped' = Popped
  BY <1>1 DEF Popped, Seen, OnTheStack
<1>3. (\A m : Reach(m)' = Reach(m)) /\ \A S : EdgeClosed(S)' <=> EdgeClosed(S)
  BY <1>1, ReachUnchanged
<1>4. EdgeClosed(Popped)'
  BY <1>2, <1>1 DEF SccInvariant, EdgeClosed
<1>5. \A k \in 1..Len(sccs') : /\ k + 1 \in 1..Len(sccs) /\ 1 < k + 1
                               /\ sccs'[k] = sccs[k + 1] /\ k \in Int
  BY NextScc
<1>6. Head(sccs) = sccs[1] /\ 1 \in 1..Len(sccs)
  BY NextScc
<1>7. Popped \subseteq Ids
  BY DEF Popped
<1>8. ASSUME NEW k \in 1..Len(sccs')
      PROVE  /\ sccs'[k] # <<>>
             /\ ToSet(sccs'[k]) \subseteq Popped \intersect vertices'
             /\ \A i, j \in 1..Len(sccs'[k]) : sccs'[k][i] = sccs'[k][j] => i = j
             /\ \A m, n \in ToSet(sccs'[k]) : n \in Reach(m)
  <2>1. /\ sccs[k + 1] # <<>>
        /\ ToSet(sccs[k + 1]) \subseteq Popped \intersect vertices
        /\ \A i, j \in 1..Len(sccs[k + 1]) : sccs[k + 1][i] = sccs[k + 1][j] => i = j
        /\ \A m, n \in ToSet(sccs[k + 1]) : n \in Reach(m)
    BY <1>5 DEF SccInvariant
  <2>2. ASSUME NEW x \in ToSet(sccs[k + 1]) PROVE x \notin ToSet(sccs[1])
    <3>1. x \in Ids
      BY <2>1, <1>7
    <3>2. x \in Reach(x)
      BY <3>1, ReachItself
    <3>. QED
      BY <3>2, <1>5, <1>6 DEF SccInvariant
  <2>3. ToSet(sccs[k + 1]) \subseteq vertices'
    BY <2>1, <2>2, <1>6
  <2>. QED
    BY <2>1, <2>3, <1>5
<1>9. ASSUME NEW j \in 1..Len(sccs'), NEW k \in 1..Len(sccs'), j < k,
             NEW m \in ToSet(sccs'[j]), NEW n \in ToSet(sccs'[k])
      PROVE  n \notin Reach(m)
  <2>1. j + 1 \in 1..Len(sccs) /\ k + 1 \in 1..Len(sccs) /\ j + 1 < k + 1
    BY <1>5, <1>9
  <2>. QED
    BY <2>1, <1>5, <1>9 DEF SccInvariant
<1>10. \A k \in 1..Len(sccs') :
         /\ sccs'[k] # <<>>
         /\ ToSet(sccs'[k]) \subseteq Popped' \intersect vertices'
         /\ \A i, j \in 1..Len(sccs'[k]) : sccs'[k][i] = sccs'[k][j] => i = j
         /\ \A m, n \in ToSet(sccs'[k]) : n \in Reach(m)'
  BY <1>2, <1>3, <1>8, Zenon
<1>11. \A j, k \in 1..Len(sccs') : j < k =>
          \A m \in ToSet(sccs'[j]), n \in ToSet(sccs'[k]) : n \notin Reach(m)'
  BY <1>3, <1>9, Zenon
<1>. QED
  BY <1>4, <1>10, <1>11 DEF SccInvariant

\* What execute_scc does with a component that it executes.
LEMMA ExecutedDoes ==
    ASSUME TypeInvariant, HandedInvariant, NEW comp \in Seq(Ids),
           inst' = [id \in Ids |-> IF Contains(comp, id)
                                   THEN [inst[id] EXCEPT !.status = EXECUTED]
                                   ELSE inst[id]],
           ToSet(comp) \subseteq vertices
    PROVE  /\ inst' \in [Ids -> [status : {ABSENT, PRE_ACCEPTED, COMMITTED, EXECUTED},
                                 seq : Nat, deps : Seq(Ids)]]
           /\ \A n \in Ids : inst'[n].seq = inst[n].seq /\ inst'[n].deps = inst[n].deps
           /\ \A n \in Ids : n \notin ToSet(comp) => inst'[n] = inst[n]
           /\ \A n \in Ids : n \in ToSet(comp) => inst[n].status >= COMMITTED
           /\ \A n \in Ids : inst'[n].status >= COMMITTED <=> inst[n].status >= COMMITTED
<1>1. inst \in [Ids -> [status : {ABSENT, PRE_ACCEPTED, COMMITTED, EXECUTED},
                        seq : Nat, deps : Seq(Ids)]]
  BY DEF TypeInvariant
<1>2. \A n : Contains(comp, n) <=> n \in ToSet(comp)
  BY DEF Contains, ToSet
<1>3. ASSUME NEW n \in Ids
      PROVE  /\ inst'[n] \in [status : {ABSENT, PRE_ACCEPTED, COMMITTED, EXECUTED},
                              seq : Nat, deps : Seq(Ids)]
             /\ inst'[n].seq = inst[n].seq /\ inst'[n].deps = inst[n].deps
             /\ n \notin ToSet(comp) => inst'[n] = inst[n]
             /\ n \in ToSet(comp) => inst'[n].status = EXECUTED
  <2>1. PICK x : x = [inst[n] EXCEPT !.status = EXECUTED]
    OBVIOUS
  <2>2. /\ x \in [status : {ABSENT, PRE_ACCEPTED, COMMITTED, EXECUTED},
                  seq : Nat, deps : Seq(Ids)]
        /\ x.seq = inst[n].seq /\ x.deps = inst[n].deps /\ x.status = EXECUTED
    BY <1>1, <2>1
  <2>3. inst'[n] = IF n \in ToSet(comp) THEN x ELSE inst[n]
    BY <1>2, <2>1
  <2>. QED
    BY <2>2, <2>3, <1>1
<1>4. inst' \in [Ids -> [status : {ABSENT, PRE_ACCEPTED, COMMITTED, EXECUTED},
                         seq : Nat, deps : Seq(Ids)]]
  BY <1>3
<1>5. \A n \in Ids : n \in ToSet(comp) => inst[n].status >= COMMITTED
  BY DEF HandedInvariant
<1>6. ASSUME NEW n \in Ids PROVE inst'[n].status >= COMMITTED <=> inst[n].status >= COMMITTED
  BY <1>3, <1>5, Codes
<1>. QED
  BY <1>3, <1>4, <1>5, <1>6

LEMMA ExecuteSccStep ==
    ASSUME ExecutorInvariant, ExecuteScc
    PROVE  ExecutorInvariant'
<1>. DEFINE comp == Head(sccs)
<1>1. TypeInvariant /\ TarjanInvariant /\ HandedInvariant
  BY DEF ExecutorInvariant
<1>2. /\ Connected /\ sccs # <<>> /\ sccs' = Tail(sccs)
      /\ early' = (early \/ storing # {})
      /\ UNCHANGED <<agreed, storing, chan, handed, edges, nodes>>
  BY DEF ExecuteScc
<1>3. /\ index' = index /\ low_link' = low_link /\ visited' = visited /\ stack' = stack
      /\ calls' = calls /\ todo' = todo /\ edges' = edges /\ agreed' = agreed
      /\ storing' = storing /\ chan' = chan
  BY <1>2 DEF nodes
<1>4. comp \in Seq(Ids) /\ sccs' \in Seq(Seq(Ids)) /\ ToSet(comp) \subseteq vertices
  BY <1>1, <1>2, NextScc DEF TarjanInvariant, SccInvariant
<1>5. early' \in BOOLEAN /\ (~early' => ~early)
  BY <1>1, <1>2 DEF TypeInvariant
<1>6. CASE /\ Executable(comp)
           /\ inst' = [id \in Ids |-> IF Contains(comp, id)
                                      THEN [inst[id] EXCEPT !.status = EXECUTED]
                                      ELSE inst[id]]
           /\ vertices' = vertices \ ToSet(comp)
           /\ log' = Append(log, SortScc(comp))
  <2>. HIDE DEF comp
  <2>1. SortScc(comp) \in Seq(Ids) /\ ToSet(SortScc(comp)) = ToSet(comp)
    BY <1>1, <1>4, SortSccProperties
  <2>2. log \in Seq(Seq(Ids)) /\ log' \in Seq(Seq(Ids))
    BY <2>1, <1>1, <1>6 DEF TypeInvariant
  <2>3. /\ inst' \in [Ids -> [status : {ABSENT, PRE_ACCEPTED, COMMITTED, EXECUTED},
                              seq : Nat, deps : Seq(Ids)]]
        /\ \A n \in Ids : inst'[n].seq = inst[n].seq /\ inst'[n].deps = inst[n].deps
        /\ \A n \in Ids : n \notin ToSet(comp) => inst'[n] = inst[n]
        /\ \A n \in Ids : inst'[n].status >= COMMITTED <=> inst[n].status >= COMMITTED
    BY <1>1, <1>4, <1>6, ExecutedDoes
  <2>4. TypeInvariant'
    BY <2>2, <2>3, <1>1, <1>2, <1>3, <1>4, <1>5, <1>6 DEF TypeInvariant
  <2>5. SccInvariant'
    <3>1. vertices' = vertices \ ToSet(Head(sccs))
      BY <1>6 DEF comp
    <3>. QED
      BY <3>1, <1>1, <1>2, <1>3, SccsLeft DEF TarjanInvariant
  <2>6. TarjanInvariant'
    BY <2>5, <1>1, <1>2, <1>6, ConnectedStays
  <2>7. HandedInvariant'
    <3>1. \A n \in Ids : inst'[n].status >= COMMITTED /\ n \notin storing' => InPlace(n)'
      BY <2>3, <1>1, <1>3 DEF HandedInvariant, InPlace
    <3>2. ToSet(chan') \union vertices' \subseteq {n \in Ids : inst'[n].status >= COMMITTED}
      BY <2>3, <1>1, <1>3, <1>6 DEF HandedInvariant
    <3>3. ~early' => \A n \in Ids : edges'[n] \subseteq ToSet(agreed'[n].deps)
      BY <1>1, <1>3, <1>5 DEF HandedInvariant
    <3>4. ASSUME NEW n \in Ids, Done(n)' PROVE n \in (Order!Ran)'
      <4>1. n \in ToSet(comp) \/ n \in Order!Ran
        <5>1. CASE n \notin ToSet(comp)
          BY <5>1, <3>4, <2>3, <1>1 DEF HandedInvariant, Done
        <5>. QED
          BY <5>1
      <4>2. log' = Append(log, SortScc(comp))
        BY <1>6
      <4>. QED
        BY <4>1, <4>2, <2>1, <2>2, RanGrows
    <3>. QED
      BY <3>1, <3>2, <3>3, <3>4 DEF HandedInvariant
  <2>. QED
    BY <2>4, <2>6, <2>7 DEF ExecutorInvariant
<1>7. CASE ~Executable(comp) /\ UNCHANGED <<inst, vertices, log>>
  <2>. HIDE DEF comp
  <2>1. TypeInvariant'
    BY <1>1, <1>2, <1>3, <1>4, <1>5, <1>7 DEF TypeInvariant
  <2>2. SccInvariant'
    BY <1>1, <1>2, <1>3, <1>7, SccsLeft DEF TarjanInvariant
  <2>3. TarjanInvariant'
    BY <2>2, <1>1, <1>2, <1>7, ConnectedStays
  <2>4. HandedInvariant'
    <3>1. (Order!Ran)' = Order!Ran
      BY <1>7 DEF Order!Ran, Order!ToSet
    <3>. QED
      BY <3>1, <1>1, <1>3, <1>5, <1>7 DEF HandedInvariant, InPlace, Done
  <2>. QED
    BY <2>1, <2>3, <2>4 DEF ExecutorInvariant
<1>. QED
  BY <1>6, <1>7 DEF ExecuteScc, comp

-----------------------------------------------------------------------------
(* The invariant holds.                                                    *)

LEMMA StutterStep ==
    ASSUME ExecutorInvariant, UNCHANGED vars
    PROVE  ExecutorInvariant'
<1>1. /\ UNCHANGED <<agreed, replica, chan, graph, history>>
      /\ UNCHANGED <<graph, nodes, sccs>>
  BY DEF vars
<1>2. TypeInvariant'
  BY DEF ExecutorInvariant, TypeInvariant, vars, replica, graph, nodes, history
<1>3. TarjanInvariant' /\ HandedInvariant'
  BY <1>1, TarjanUnchanged, VisitUntouched DEF ExecutorInvariant
<1>. QED
  BY <1>2, <1>3 DEF ExecutorInvariant

LEMMA InvariantInit ==
    ASSUME Init
    PROVE  ExecutorInvariant
<1>1. /\ agreed \in [Ids -> [seq : Nat, deps : Seq(Ids)]]
      /\ inst \in [Ids -> [status : {ABSENT, PRE_ACCEPTED, COMMITTED, EXECUTED},
                           seq : Nat, deps : Seq(Ids)]]
  <2>1. agreed \in [Ids -> [seq : Nat, deps : Seq(Ids)]]
    <3>1. [seq : Nat \ {0}, deps : Seq(Ids)] \subseteq [seq : Nat, deps : Seq(Ids)]
      OBVIOUS
    <3>2. agreed \in [Ids -> [seq : Nat \ {0}, deps : Seq(Ids)]]
      BY ExecutorAssumption DEF Init
    <3>. QED
      BY <3>1, <3>2
  <2>2. ASSUME NEW id \in Ids
        PROVE  (IF id \in Learned THEN [status |-> ABSENT, seq |-> 0, deps |-> <<>>]
                ELSE [status |-> PRE_ACCEPTED, seq |-> agreed[id].seq, deps |-> agreed[id].deps])
                 \in [status : {ABSENT, PRE_ACCEPTED, COMMITTED, EXECUTED},
                      seq : Nat, deps : Seq(Ids)]
    BY <2>1
  <2>. QED
    BY <2>1, <2>2 DEF Init
<1>2. \A id \in Ids : inst[id].status \in {ABSENT, PRE_ACCEPTED}
  BY DEF Init
<1>3. TypeInvariant
  <2>1. Unvisited \in [Ids -> Int] /\ NoEdges \in [Ids -> SUBSET Ids]
    BY DEF Unvisited, NoEdges
  <2>2. <<>> \in Seq(Ids) /\ <<>> \in Seq(Seq(Ids))
    OBVIOUS
  <2>. QED
    BY <2>1, <2>2, <1>1 DEF Init, TypeInvariant
<1>4. OnTheStack = {} /\ Grey = {} /\ Popped = {}
  BY DEF Init, OnTheStack, Grey, Popped, Seen, ToSet, Unvisited
<1>5. \A n \in Ids : index[n] = -1 /\ ~Seen(n) /\ edges[n] = {} /\ todo[n] = {}
  BY DEF Init, Unvisited, NoEdges, Seen
<1>6. IndexInvariant
  <2>1. Falling(stack, index) /\ Falling(calls, index)
    BY DEF Init, Falling
  <2>2. visited = 0
    BY DEF Init
  <2>. QED
    BY <2>1, <2>2, <1>4, <1>5 DEF IndexInvariant
<1>7. EdgeInvariant
  BY <1>4, <1>5 DEF EdgeInvariant, Followed
<1>8. StackInvariant /\ LowReaches /\ LowBounds
  BY <1>4 DEF StackInvariant, LowReaches, LowBounds
<1>9. SccInvariant
  BY <1>4 DEF Init, SccInvariant, EdgeClosed
<1>10. HandedInvariant
  <2>1. \A id \in Ids : ~ (inst[id].status >= COMMITTED) /\ ~Done(id)
    BY <1>2, Codes DEF Done
  <2>2. ToSet(chan) = {} /\ vertices = {}
    BY DEF Init, ToSet
  <2>. QED
    BY <2>1, <2>2, <1>5 DEF HandedInvariant
<1>. QED
  BY <1>3, <1>6, <1>7, <1>8, <1>9, <1>10 DEF ExecutorInvariant, TarjanInvariant

LEMMA InvariantNext ==
    ASSUME ExecutorInvariant, [Next]_vars
    PROVE  ExecutorInvariant'
<1>1. ASSUME NEW id \in Ids, HandOver(id) PROVE ExecutorInvariant'
  BY <1>1, HandOverPreserves
<1>2. ASSUME NEW id \in Ids, Learn(id) PROVE ExecutorInvariant'
  BY <1>2, LearnPreserves
<1>3. ASSUME NEW id \in Ids, Store(id) PROVE ExecutorInvariant'
  BY <1>3, StorePreserves
<1>4. CASE Take
  BY <1>4, TakeStep
<1>5. CASE Root
  BY <1>5, RootStep
<1>6. CASE Visit
  <2>1. calls # <<>> /\ (Follow(Head(calls)) \/ Leave(Head(calls)))
    BY <1>6 DEF Visit
  <2>2. CASE Follow(Head(calls))
    BY <2>1, <2>2, FollowStep
  <2>3. CASE Leave(Head(calls))
    BY <2>1, <2>3, LeaveStep
  <2>. QED
    BY <2>1, <2>2, <2>3
<1>7. CASE ExecuteScc
  BY <1>7, ExecuteSccStep
<1>8. CASE UNCHANGED vars
  BY <1>8, StutterStep
<1>. QED
  BY <1>1, <1>2, <1>3, <1>4, <1>5, <1>6, <1>7, <1>8 DEF Next, Executor

LEMMA InvariantHolds == Spec => []ExecutorInvariant
BY InvariantInit, InvariantNext, PTL DEF Spec

-----------------------------------------------------------------------------
(* What the invariant is for.                                              *)

\* The records and arrays that both threads use keep their types; what the
\* executor keeps as a vertex was handed over, and what a pass has yet to come
\* to is made of vertices.
THEOREM ExecutorTyped == Spec => []ExecutorTypeOK
<1>1. ASSUME ExecutorInvariant PROVE ExecutorTypeOK
  <2>1. TypeInvariant /\ SccInvariant /\ HandedInvariant
    BY <1>1 DEF ExecutorInvariant, TarjanInvariant
  <2>2. \A id \in Ids : /\ inst[id].status \in {ABSENT, PRE_ACCEPTED, COMMITTED, EXECUTED}
                        /\ inst[id].deps \in Seq(Ids)
    BY <2>1 DEF TypeInvariant
  <2>3. vertices \subseteq {id \in Ids : inst[id].status >= COMMITTED}
    BY <2>1 DEF HandedInvariant
  <2>4. UNION {ToSet(sccs[k]) : k \in 1..Len(sccs)} \subseteq vertices
    BY <2>1 DEF SccInvariant
  <2>5. Cardinality(storing) <= 1
    <3>1. storing = {} \/ \E id \in Ids : storing = {id}
      BY <2>1 DEF TypeInvariant
    <3>2. CASE storing = {}
      <4>1. Cardinality({}) = 0
        BY FS_EmptySet
      <4>. QED
        BY <3>2, <4>1
    <3>3. CASE \E id \in Ids : storing = {id}
      <4>. PICK id \in Ids : storing = {id}
        BY <3>3
      <4>1. Cardinality({id}) = 1
        BY FS_Singleton
      <4>. QED
        BY <4>1
    <3>. QED
      BY <3>1, <3>2, <3>3
  <2>. QED
    BY <2>2, <2>3, <2>4, <2>5 DEF ExecutorTypeOK
<1>. QED
  BY <1>1, InvariantHolds, PTL

\* Tarjan's algorithm, as strong_connect and visit have it (execute.c:98), is
\* right for every graph: the components are the classes of instances that
\* reach each other, and come in the order of their dependencies.
THEOREM ComponentsAreRight == Spec => []ComponentsRight
<1>1. ASSUME ExecutorInvariant PROVE ComponentsRight
  <2>1. TypeInvariant /\ TarjanInvariant /\ SccInvariant
    BY <1>1 DEF ExecutorInvariant, TarjanInvariant
  <2>2. ASSUME NEW j \in 1..Len(sccs), NEW k \in 1..Len(sccs),
               NEW n1 \in ToSet(sccs[j]), NEW n2 \in ToSet(sccs[k])
        PROVE  (j = k <=> Same(n1, n2)) /\ (n2 \in Reach(n1) => k <= j)
    <3>1. j = k => Same(n1, n2)
      BY <2>1 DEF SccInvariant, Same
    <3>2. j < k => n2 \notin Reach(n1)
      BY <2>1 DEF SccInvariant
    <3>3. k < j => n1 \notin Reach(n2)
      BY <2>1 DEF SccInvariant
    <3>4. j = k \/ j < k \/ k < j
      OBVIOUS
    <3>. QED
      BY <3>1, <3>2, <3>3, <3>4 DEF Same
  <2>3. calls = <<>> => stack = <<>>
    BY <2>1, StackEmpty
  <2>. QED
    BY <2>2, <2>3 DEF ComponentsRight
<1>. QED
  BY <1>1, InvariantHolds, PTL

-----------------------------------------------------------------------------
(* EpxExecutor implements EpxExecOrder.                                    *)

\* The component execute_scc runs is one that EpxExecOrder may run.
LEMMA ComponentRuns ==
    ASSUME ExecutorInvariant, sccs # <<>>, ~early, storing = {},
           NEW comp, comp = Head(sccs), Executable(comp)
    PROVE  /\ SortScc(comp) \in Order!Components
           /\ Order!Cycle(SortScc(comp))
           /\ Order!BySeq(SortScc(comp))
           /\ Order!Ready(SortScc(comp))
<1>. DEFINE c == SortScc(comp)
<1>1. TypeInvariant /\ TarjanInvariant /\ HandedInvariant /\ SccInvariant
  BY DEF ExecutorInvariant, TarjanInvariant
<1>2. /\ comp \in Seq(Ids) /\ comp # <<>> /\ ToSet(comp) \subseteq vertices
      /\ \A i, j \in 1..Len(comp) : comp[i] = comp[j] => i = j
      /\ \A m, n \in ToSet(comp) : n \in Reach(m)
  BY <1>1, NextScc DEF SccInvariant
<1>3. /\ c \in Seq(Ids) /\ Len(c) = Len(comp) /\ ToSet(c) = ToSet(comp)
      /\ \A i, j \in 1..Len(comp) : i < j => inst[c[i]].seq <= inst[c[j]].seq
  BY <1>1, <1>2, SortSccProperties
<1>. HIDE DEF c
<1>4. \A n \in ToSet(comp) : n \in Ids /\ InPlace(n)
  BY <1>1, <1>2 DEF HandedInvariant
<1>5. Order!ToSet(c) = ToSet(comp)
  BY <1>3, SameElements
<1>6. \A n \in Ids : Order!Deps(n) = ToSet(agreed[n].deps)
  BY SameElements DEF Order!Deps
<1>7. c \in Order!Components
  <2>1. IsFiniteSet(1..Len(comp)) /\ Cardinality(1..Len(comp)) = Len(comp)
        /\ Len(comp) \in Nat \ {0}
    <3>1. Len(comp) \in Nat \ {0}
      BY <1>2, EmptySeq
    <3>2. \A m \in Nat \ {0} : IsFiniteSet(1..m) /\ Cardinality(1..m) = m
      <4>. SUFFICES ASSUME NEW m \in Nat \ {0}
                    PROVE  IsFiniteSet(1..m) /\ Cardinality(1..m) = m
        OBVIOUS
      <4>1. IsFiniteSet(1..m) /\ Cardinality(1..m) = IF 1 > m THEN 0 ELSE m - 1 + 1
        BY FS_Interval
      <4>. QED
        BY <4>1
    <3>. QED
      BY <3>1, <3>2
  <2>2. comp \in [1..Len(comp) -> Ids]
    BY <1>2
  <2>3. comp \in Injection(1..Len(comp), Ids)
    BY <2>2, <1>2 DEF Injection, IsInjective
  <2>4. Cardinality(1..Len(comp)) <= Cardinality(Ids)
    BY <2>3, IdsFinite, FS_Injection
  <2>5. Cardinality(Ids) \in Nat
    BY IdsFinite, FS_CardinalityType
  <2>6. Len(comp) \in 1..Order!Cardinality(Ids)
    <3>1. Order!Cardinality(Ids) = Cardinality(Ids)
      BY SameCardinality
    <3>. QED
      BY <3>1, <2>1, <2>4, <2>5
  <2>7. c \in [1..Len(comp) -> Ids]
    BY <1>3
  <2>. QED
    BY <2>6, <2>7 DEF Order!Components
<1>8. Order!Cycle(c)
  <2>. SUFFICES ASSUME NEW n \in ToSet(comp), NEW m \in ToSet(comp)
                PROVE  m \in Order!DependsOn(n)
    BY <1>5, Zenon DEF Order!Cycle
  <2>1. m \in Reach(n) /\ m \in Ids
    BY <1>2, <1>4
  <2>2. ASSUME NEW S \in SUBSET Ids, n \in S, Order!DepClosed(S) PROVE m \in S
    <3>1. \A x \in S : edges[x] \subseteq ToSet(agreed[x].deps)
      BY <1>1 DEF HandedInvariant
    <3>2. \A x \in S : ToSet(agreed[x].deps) \subseteq S
      BY <2>2, <1>6 DEF Order!DepClosed
    <3>3. EdgeClosed(S)
      BY <3>1, <3>2 DEF EdgeClosed
    <3>. QED
      BY <3>3, <2>1, <2>2, ReachClosed
  <2>. QED
    BY <2>1, <2>2 DEF Order!DependsOn
<1>9. Order!BySeq(c)
  <2>1. DOMAIN c = 1..Len(comp)
    BY <1>3
  <2>2. ASSUME NEW i \in 1..Len(comp), NEW j \in 1..Len(comp), i < j
        PROVE  agreed[c[i]].seq <= agreed[c[j]].seq
    <3>1. c[i] \in ToSet(comp) /\ c[j] \in ToSet(comp)
      BY <1>3, ElementsOf
    <3>2. inst[c[i]].seq = agreed[c[i]].seq /\ inst[c[j]].seq = agreed[c[j]].seq
      BY <3>1, <1>4 DEF InPlace
    <3>. QED
      BY <3>2, <2>2, <1>3
  <2>. QED
    BY <2>1, <2>2 DEF Order!BySeq
<1>10. Order!Ready(c)
  <2>. SUFFICES ASSUME NEW n \in ToSet(comp), NEW d \in ToSet(agreed[n].deps)
                PROVE  d \in Order!Ran \/ d \in ToSet(comp)
    BY <1>4, <1>5, <1>6 DEF Order!Ready
  <2>1. PICK k \in 1..Len(comp) : comp[k] = n
    BY <1>2, ElementsOf
  <2>2. d \in ToSet(inst[comp[k]].deps)
    BY <2>1, <1>4 DEF InPlace
  <2>3. Contains(comp, d) \/ Done(d)
    BY <2>2 DEF Executable
  <2>4. CASE Contains(comp, d)
    BY <2>4 DEF Contains, ToSet
  <2>5. CASE Done(d)
    <3>1. d \in Ids
      <4>1. agreed[n].deps \in Seq(Ids)
        BY <1>1, <1>4 DEF TypeInvariant
      <4>. QED
        BY <4>1, ElementsOf
    <3>. QED
      BY <3>1, <2>5, <1>1 DEF HandedInvariant
  <2>. QED
    BY <2>3, <2>4, <2>5
<1>. QED
  BY <1>7, <1>8, <1>9, <1>10 DEF c

\* What EpxExecOrder sees of a step.
LEMMA StepRefines ==
    ASSUME ExecutorInvariant, ExecutorInvariant', [Next]_vars
    PROVE  [Order!Next]_(Order!vars)
<1>1. /\ log' \in Seq(Seq(Ids)) /\ early \in BOOLEAN /\ early' \in BOOLEAN
  BY DEF ExecutorInvariant, TypeInvariant
<1>2. CASE agreed' = agreed /\ log' = log /\ early' = early
  BY <1>2 DEF Order!vars
<1>3. ASSUME early', agreed' = agreed PROVE Order!Next
  BY <1>1, <1>3 DEF Order!Next, Order!Hasten
<1>4. ASSUME NEW id \in Ids, HandOver(id) \/ Learn(id) \/ Store(id)
      PROVE  agreed' = agreed /\ log' = log /\ early' = early
  BY <1>4 DEF HandOver, Learn, Store, SendExec, history
<1>5. CASE Take
  <2>1. agreed' = agreed /\ log' = log /\ (early => early')
    BY <1>5 DEF Take
  <2>. QED
    BY <2>1, <1>1, <1>2, <1>3
<1>6. CASE Root
  BY <1>2, <1>6 DEF Root, history
<1>7. CASE Visit
  BY <1>2, <1>7 DEF Visit, Follow, Leave, history
<1>8. CASE ExecuteScc
  <2>. DEFINE comp == Head(sccs)
  <2>1. /\ sccs # <<>> /\ agreed' = agreed
        /\ early' = (early \/ storing # {})
        /\ \/ Executable(comp) /\ log' = Append(log, SortScc(comp))
           \/ log' = log
    BY <1>8 DEF ExecuteScc
  <2>. HIDE DEF comp
  <2>2. CASE early'
    BY <2>1, <2>2, <1>3
  <2>3. CASE ~early' /\ log' = log
    BY <2>1, <2>3, <1>1, <1>2
  <2>4. CASE ~early' /\ Executable(comp) /\ log' = Append(log, SortScc(comp))
    <3>1. ~early /\ storing = {} /\ early' = early
      BY <2>1, <2>4, <1>1
    <3>2. /\ SortScc(comp) \in Order!Components
          /\ Order!Cycle(SortScc(comp))
          /\ Order!BySeq(SortScc(comp))
          /\ Order!Ready(SortScc(comp))
      BY <3>1, <2>1, <2>4, ComponentRuns DEF comp
    <3>3. Order!Run(SortScc(comp))
      BY <3>1, <3>2, <2>1, <2>4 DEF Order!Run
    <3>. QED
      BY <3>2, <3>3 DEF Order!Next
  <2>. QED
    BY <2>1, <2>2, <2>3, <2>4
<1>9. CASE UNCHANGED vars
  BY <1>2, <1>9 DEF vars, history
<1>. QED
  BY <1>2, <1>4, <1>5, <1>6, <1>7, <1>8, <1>9 DEF Next, Executor

\* The executor runs what EpxExecOrder allows and in the order it allows,
\* whatever the hash table yields first, however often and in whatever order
\* instances are handed over, as long as it does not run in the middle of a
\* commit(); from there on nothing is promised.
THEOREM ExecutorImplementsOrder == Spec => ImplementsOrder
<1>1. Init => Order!Init
  BY DEF Init, Order!Init
<1>. QED
  BY <1>1, StepRefines, InvariantHolds, PTL DEF Spec, ImplementsOrder, Order!Spec

\* So the first runs of two instances of which one depends on the other come
\* in the order that the agreed attributes fix: the same at every node.
THEOREM ExecutorOrderFixed == Spec => []FixedOrder
<1>1. Spec => Order!Spec
  BY ExecutorImplementsOrder DEF ImplementsOrder
<1>2. OrderFacts!Spec => []OrderFacts!FixedOrder
  BY OrderConstants, OrderFacts!OrderFollowsFromAttributes
<1>. QED
  BY <1>1, <1>2, SameOrder, PTL

\* A step that EpxExecOrder allows keeps ExecutedAfterDeps until the executor
\* has run in the middle of a commit().
LEMMA AfterDepsStep ==
    ASSUME ExecutorInvariant, ExecutorInvariant', [Order!Next]_(Order!vars),
           early \/ ExecutedAfterDeps
    PROVE  (early \/ ExecutedAfterDeps)'
<1>1. CASE UNCHANGED Order!vars
  BY <1>1 DEF Order!vars, ExecutedAfterDeps
<1>2. CASE Order!Hasten
  BY <1>2 DEF Order!Hasten
<1>3. ASSUME NEW c, Order!Run(c) PROVE (early \/ ExecutedAfterDeps)'
  <2>1. log \in Seq(Seq(Ids)) /\ agreed' = agreed /\ ~early /\ log' = Append(log, c)
    BY <1>3 DEF ExecutorInvariant, TypeInvariant, Order!Run
  <2>2. /\ Len(log) \in Nat /\ Len(log') = Len(log) + 1 /\ log'[Len(log) + 1] = c
        /\ \A k \in 1..Len(log) : log'[k] = log[k]
    BY <2>1
  <2>3. \A n \in ToSet(c) : \A d \in ToSet(agreed[n].deps) : d \in Order!Ran \/ d \in ToSet(c)
    <3>1. \A n \in Order!ToSet(c) : Order!Deps(n) \subseteq Order!Ran \union Order!ToSet(c)
      BY <1>3 DEF Order!Run, Order!Ready
    <3>2. \A n : Order!Deps(n) = ToSet(agreed[n].deps)
      BY SameElements DEF Order!Deps
    <3>. QED
      BY <3>1, <3>2, SameElements
  <2>4. \A x : x \in Order!Ran <=> \E k \in 1..Len(log) : x \in ToSet(log[k])
    BY <2>1, RanIs
  <2>5. \A s, x : x \in ToSet(s) <=> Contains(s, x)
    BY DEF Contains, ToSet
  <2>6. ASSUME NEW k \in 1..Len(log'), NEW n \in ToSet(log'[k]),
               NEW d \in ToSet(agreed'[n].deps)
        PROVE  \E j \in 1..k : Contains(log'[j], d)
    <3>1. k \in 1..Len(log) \/ k = Len(log) + 1
      BY <2>2
    <3>2. CASE k \in 1..Len(log)
      <4>1. PICK j \in 1..k : Contains(log[j], d)
        BY <3>2, <2>1, <2>2, <2>6 DEF ExecutedAfterDeps
      <4>2. j \in 1..Len(log)
        BY <3>2
      <4>. QED
        BY <4>1, <4>2, <2>2
    <3>3. CASE k = Len(log) + 1
      <4>1. d \in Order!Ran \/ d \in ToSet(c)
        BY <3>3, <2>1, <2>2, <2>3, <2>6
      <4>2. CASE d \in ToSet(c)
        <5>1. k \in 1..k /\ Contains(log'[k], d)
          BY <3>3, <4>2, <2>2, <2>5
        <5>. QED
          BY <5>1
      <4>3. CASE d \in Order!Ran
        <5>1. PICK j \in 1..Len(log) : d \in ToSet(log[j])
          BY <4>3, <2>4
        <5>2. j \in 1..k /\ Contains(log'[j], d)
          BY <3>3, <5>1, <2>2, <2>5
        <5>. QED
          BY <5>2
      <4>. QED
        BY <4>1, <4>2, <4>3
    <3>. QED
      BY <3>1, <3>2, <3>3
  <2>. QED
    BY <2>6 DEF ExecutedAfterDeps
<1>. QED
  BY <1>1, <1>2, <1>3 DEF Order!Next

\* The race with commit() is the only way to run an instance ahead of its
\* dependencies: ExecutedAfterDeps holds up to the first step of the executor
\* between a send_exec and the stores that follow it (epaxos.c:450).
THEOREM OnlyEarlyRunsAhead == Spec => [](early \/ ExecutedAfterDeps)
<1>1. Init => early \/ ExecutedAfterDeps
  BY DEF Init, ExecutedAfterDeps
<1>. QED
  BY <1>1, StepRefines, AfterDepsStep, InvariantHolds, PTL DEF Spec
=============================================================================
