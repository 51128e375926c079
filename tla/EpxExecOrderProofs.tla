--------------------------- MODULE EpxExecOrderProofs ---------------------------
(***************************************************************************)
(* The order of execution follows from the agreed attributes, for every    *)
(* finite set of instances and every dependency graph over it.  The        *)
(* inductive invariant says that what ran is closed under dependencies, so *)
(* that the components that run together are whole cycles the first time.  *)
(***************************************************************************)
EXTENDS EpxExecOrder, FiniteSetTheorems, TLAPS

OrderTypeOK ==
    /\ agreed \in [Instance -> [seq : Nat, deps : Seq(Instance)]]
    /\ log \in Seq(Seq(Instance))
    /\ hasty \in BOOLEAN

OrderInvariant == OrderTypeOK /\ ClosedLog /\ FixedOrder

\* A closed set holds all that its members depend on.
LEMMA DependsOnClosed ==
    ASSUME NEW S \in SUBSET Instance, DepClosed(S), NEW n \in S
    PROVE  DependsOn(n) \subseteq S
BY DEF DependsOn

\* A component is a sequence of instances.
LEMMA ComponentIsSeq ==
    ASSUME NEW c \in Components, OrderAssumption
    PROVE  c \in Seq(Instance)
<1>1. PICK k \in 1..Cardinality(Instance) : c \in [1..k -> Instance]
  BY DEF Components
<1>2. k \in Nat
  BY <1>1, FS_CardinalityType DEF OrderAssumption
<1>. QED
  BY <1>1, <1>2

\* Only instances are in the log.
LEMMA RanSubset ==
    ASSUME OrderTypeOK
    PROVE  Ran \subseteq Instance
BY DEF OrderTypeOK, Ran, ToSet

\* What ran after a component c is appended.
LEMMA RanGrows ==
    ASSUME OrderTypeOK, NEW c \in Seq(Instance), log' = Append(log, c)
    PROVE  Ran' = Ran \union ToSet(c)
<1>1. \A k \in DOMAIN log : k \in DOMAIN log' /\ log'[k] = log[k]
  BY DEF OrderTypeOK
<1>2. DOMAIN log' = (DOMAIN log) \union {Len(log) + 1} /\ log'[Len(log) + 1] = c
  BY DEF OrderTypeOK
<1>3. ASSUME NEW x PROVE x \in Ran' <=> x \in Ran \/ x \in ToSet(c)
  BY <1>1, <1>2 DEF Ran
<1>. QED
  BY <1>3

\* The step that runs a component.
LEMMA RunPreserves ==
    ASSUME OrderAssumption, OrderInvariant, NEW c \in Components, Run(c)
    PROVE  OrderInvariant'
<1>1. c \in Seq(Instance)
  BY ComponentIsSeq
<1>2. OrderTypeOK'
  BY <1>1 DEF OrderInvariant, OrderTypeOK, Run
<1>3. Ran' = Ran \union ToSet(c)
  BY <1>1, RanGrows DEF OrderInvariant, Run
<1>4. ~hasty /\ ~hasty' /\ agreed' = agreed /\ DepClosed(Ran)
  BY DEF OrderInvariant, OrderTypeOK, Run, ClosedLog
<1>5. DepClosed(Ran)'
  <2>. SUFFICES ASSUME NEW n \in Ran' PROVE Deps(n)' \subseteq Ran'
    BY DEF DepClosed
  <2>1. Deps(n)' = Deps(n)
    BY <1>4 DEF Deps
  <2>2. CASE n \in Ran
    BY <2>1, <2>2, <1>3, <1>4 DEF DepClosed
  <2>3. CASE n \in ToSet(c)
    BY <2>1, <2>3, <1>3 DEF Run, Ready
  <2>. QED
    BY <1>3, <2>2, <2>3
<1>6. ClosedLog'
  BY <1>5 DEF ClosedLog
<1>7. \A n \in Instance : DependsOn(n)' = DependsOn(n)
  BY <1>4 DEF DependsOn, DepClosed, Deps
<1>8. \A k \in DOMAIN log : k \in DOMAIN log' /\ log'[k] = log[k] /\ k \in 1..Len(log)
  BY <1>1 DEF OrderInvariant, OrderTypeOK, Run
<1>9. /\ DOMAIN log' = 1..(Len(log) + 1) /\ DOMAIN log = 1..Len(log) /\ Len(log) \in Nat
      /\ log'[Len(log) + 1] = c
  BY <1>1 DEF OrderInvariant, OrderTypeOK, Run
<1>10. ASSUME NEW a \in Ran', NEW b \in Instance, MustPrecede(b, a)'
       PROVE  RanBefore(b, a)'
  <2>1. Ran' \subseteq Instance
    BY <1>2, RanSubset DEF OrderTypeOK, Ran, ToSet
  <2>2. MustPrecede(b, a)
    BY <2>1, <1>4, <1>7, <1>10 DEF MustPrecede
  <2>3. CASE a \in Ran
    <3>1. RanBefore(b, a)
      BY <2>2, <2>3, <1>4 DEF OrderInvariant, FixedOrder
    <3>2. PICK k \in DOMAIN log : \E i \in DOMAIN log[k] :
              /\ log[k][i] = b
              /\ \A l \in 1..k : \A j \in DOMAIN log[l] : log[l][j] = a => l = k /\ i < j
      BY <3>1 DEF RanBefore
    <3>3. \A l \in 1..k : l \in DOMAIN log
      BY <1>9, <3>2
    <3>. QED
      BY <3>2, <3>3, <1>8 DEF RanBefore
  <2>4. CASE a \notin Ran
    <3>1. a \in ToSet(c)
      BY <2>4, <1>3
    <3>2. \A l \in DOMAIN log : \A j \in DOMAIN log[l] : log[l][j] # a
      BY <2>4 DEF Ran, ToSet
    <3>3. b \in Ran \union ToSet(c)
      <4>1. DependsOn(a)' \subseteq Ran'
        BY <1>5, <2>1 DEF DependsOn
      <4>. QED
        BY <4>1, <1>3, <1>7, <2>1, <2>2 DEF MustPrecede
    <3>4. CASE b \in Ran
      <4>1. PICK k \in DOMAIN log : b \in ToSet(log[k])
        BY <3>4 DEF Ran
      <4>2. PICK i \in DOMAIN log[k] : log[k][i] = b
        BY <4>1 DEF ToSet
      <4>3. \A l \in 1..k : l \in DOMAIN log
        BY <1>9, <4>1
      <4>. QED
        BY <4>2, <4>3, <3>2, <1>8 DEF RanBefore
    <3>5. CASE b \in ToSet(c)
      <4>1. PICK i \in DOMAIN c : c[i] = b
        BY <3>5 DEF ToSet
      <4>2. agreed[b].seq < agreed[a].seq
        BY <3>1, <3>5, <2>2 DEF MustPrecede, Run, Cycle
      <4>3. agreed[a].seq \in Nat /\ agreed[b].seq \in Nat
        BY <2>1 DEF OrderInvariant, OrderTypeOK
      <4>4. ASSUME NEW j \in DOMAIN c, c[j] = a PROVE i < j
        <5>1. i \in Nat /\ j \in Nat
          BY <1>1
        <5>2. i # j
          BY <4>1, <4>2, <4>3, <4>4
        <5>3. ~ (j < i)
          BY <4>1, <4>2, <4>3, <4>4 DEF Run, BySeq
        <5>. QED
          BY <5>1, <5>2, <5>3
      <4>5. \A l \in 1..(Len(log) + 1) : l = Len(log) + 1 \/ l \in DOMAIN log
        BY <1>9
      <4>. QED
        BY <4>1, <4>4, <4>5, <3>2, <1>8, <1>9 DEF RanBefore
    <3>. QED
      BY <3>3, <3>4, <3>5
  <2>. QED
    BY <2>3, <2>4
<1>11. FixedOrder'
  BY <1>10 DEF FixedOrder
<1>. QED
  BY <1>2, <1>6, <1>11 DEF OrderInvariant

\* Becoming hasty changes neither the attributes nor the log.
LEMMA HastenPreserves ==
    ASSUME OrderInvariant, Hasten
    PROVE  OrderInvariant'
BY DEF OrderInvariant, OrderTypeOK, ClosedLog, FixedOrder, Hasten

\* The order invariant does not depend on anything outside vars.
LEMMA StutterPreserves ==
    ASSUME OrderInvariant, UNCHANGED vars
    PROVE  OrderInvariant'
<1>1. agreed' = agreed /\ log' = log /\ hasty' = hasty
  BY DEF vars
<1>2. OrderTypeOK'
  BY <1>1 DEF OrderInvariant, OrderTypeOK
<1>3. Ran' = Ran
  BY <1>1 DEF Ran
<1>4. ClosedLog'
  BY <1>1, <1>3 DEF OrderInvariant, ClosedLog, DepClosed, Deps
<1>5. \A n \in Instance : DependsOn(n)' = DependsOn(n)
  BY <1>1 DEF DependsOn, DepClosed, Deps
<1>6. Ran \subseteq Instance
  BY RanSubset DEF OrderInvariant
<1>7. \A a, b \in Instance : MustPrecede(b, a)' <=> MustPrecede(b, a)
  BY <1>1, <1>5 DEF MustPrecede
<1>8. \A a, b \in Instance : RanBefore(b, a)' <=> RanBefore(b, a)
  BY <1>1 DEF RanBefore
<1>9. FixedOrder'
  BY <1>1, <1>3, <1>6, <1>7, <1>8 DEF OrderInvariant, FixedOrder
<1>. QED
  BY <1>2, <1>4, <1>9 DEF OrderInvariant

\* The order invariant holds in every execution EpxExecOrder allows.
LEMMA OrderInvariantHolds ==
    ASSUME OrderAssumption
    PROVE  Spec => []OrderInvariant
<1>1. Init => OrderInvariant
  <2>. SUFFICES ASSUME Init PROVE OrderInvariant
    OBVIOUS
  <2>1. OrderTypeOK
    <3>1. agreed \in [Instance -> [seq : Nat, deps : Seq(Instance)]]
      BY DEF Init, OrderAssumption
    <3>2. log \in Seq(Seq(Instance))
      BY DEF Init
    <3>. QED
      BY <3>1, <3>2 DEF Init, OrderTypeOK
  <2>2. Ran = {}
    BY DEF Init, Ran
  <2>. QED
    BY <2>1, <2>2 DEF OrderInvariant, ClosedLog, FixedOrder, DepClosed
<1>2. OrderInvariant /\ [Next]_vars => OrderInvariant'
  BY RunPreserves, HastenPreserves, StutterPreserves DEF Next
<1>. QED
  BY <1>1, <1>2, PTL DEF Spec

\* What has run is closed under dependencies at every node and at all times:
\* execute_scc never runs an instance ahead of one it depends on.
THEOREM NothingAheadOfItsDependencies ==
    ASSUME OrderAssumption
    PROVE  Spec => []ClosedLog
<1>1. OrderInvariant => ClosedLog
  BY DEF OrderInvariant
<1>. QED
  BY <1>1, OrderInvariantHolds, PTL

\* Of two instances one of which depends on the other, the order of the first
\* runs is the one the agreed attributes say, whatever else was handed over
\* and run again: sort_scc and the components of visit leave no other.
THEOREM OrderFollowsFromAttributes ==
    ASSUME OrderAssumption
    PROVE  Spec => []FixedOrder
<1>1. OrderInvariant => FixedOrder
  BY DEF OrderInvariant
<1>. QED
  BY <1>1, OrderInvariantHolds, PTL

=============================================================================
