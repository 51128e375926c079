--------------------------- MODULE EpxDepListProofs ---------------------------
(***************************************************************************)
(* What a dependency array keeps through any number of update_deps calls,  *)
(* for each size of the array, number of replicas and range of instance    *)
(* numbers: the invariants and the action properties of EpxDepList, from   *)
(* what one call does (EpxInstanceProofs).                                 *)
(***************************************************************************)
EXTENDS EpxDepList, EpxInstanceProofs

(***************************************************************************)
(* The invariant of the array, and the properties that follow.  Sorted is  *)
(* what makes HeadIsNewest inductive, and NoDuplicates what CommitKept     *)
(* needs: with an id in two slots the flag of one could be raised alone.   *)
(***************************************************************************)
ArrayInv == DepsTypeOK /\ Sorted /\ NoDuplicates /\ HeadIsNewest

\* The empty array satisfies the invariant.
LEMMA ArrayInvInit == Init => ArrayInv
<1>1. SUFFICES ASSUME Init PROVE ArrayInv
  OBVIOUS
<1>2. DepsTypeOK
  <2>1. <<>> \in Seq(Dependency) /\ Len(<<>>) = 0
    OBVIOUS
  <2>2. QED
    BY <1>1, <2>1, InstanceAssumption DEF Init, DepsTypeOK, DepList
<1>3. QED
  BY <1>1, <1>2 DEF Init, ArrayInv, Sorted, NoDuplicates, HeadIsNewest

\* One call of update_deps keeps it.
LEMMA ArrayInvStep == ArrayInv /\ [Next]_vars => ArrayInv'
<1>1. SUFFICES ASSUME ArrayInv, [Next]_vars PROVE ArrayInv'
  OBVIOUS
<1>2. CASE UNCHANGED vars
  BY <1>1, <1>2 DEF ArrayInv, DepsTypeOK, Sorted, NoDuplicates, HeadIsNewest, vars
<1>3. ASSUME NEW d \in Dependency, Offer(d) PROVE ArrayInv'
  <2>1. deps \in DepList /\ seen \subseteq Dependency
    BY <1>1 DEF ArrayInv, DepsTypeOK
  <2>2. Updated(deps, d, deps') /\ seen' = seen \union {d}
    BY <1>3, <2>1, UpdateDepsCases DEF Offer
  <2>3. SortedList(deps) /\ NoTwice(deps)
    BY <1>1 DEF ArrayInv, Sorted, NoDuplicates, SortedList, NoTwice
  <2>4. DepsTypeOK'
    BY <2>1, <2>2, UpdatedType DEF DepsTypeOK
  <2>5. Sorted'
    <3>1. SortedList(deps')
      BY <2>1, <2>2, <2>3, UpdatedSorted
    <3>2. QED
      BY <3>1 DEF Sorted, SortedList
  <2>6. NoDuplicates'
    <3>1. NoTwice(deps')
      BY <2>1, <2>2, <2>3, UpdatedNoTwice
    <3>2. QED
      BY <3>1 DEF NoDuplicates, NoTwice
  <2>7. HeadIsNewest'
    <3>1. /\ Len(deps') > 0
          /\ deps'[1].id.instance >= d.id.instance
          /\ Len(deps) > 0 => deps'[1].id.instance >= deps[1].id.instance
      BY <2>1, <2>2, <2>3, UpdatedHead
    <3>2. \A e \in seen : Len(deps) > 0 /\ deps[1].id.instance >= e.id.instance
      BY <1>1 DEF ArrayInv, HeadIsNewest
    <3>3. /\ \A e \in Dependency : e.id.instance \in Nat
          /\ Len(deps) > 0 => deps[1].id.instance \in Nat
          /\ deps'[1].id.instance \in Nat
      <4>1. deps' \in DepList
        BY <2>4 DEF DepsTypeOK
      <4>2. /\ Len(deps) > 0 => 1 \in 1..Len(deps)
            /\ 1 \in 1..Len(deps')
        BY <2>1, <3>1, <4>1, DepListTypes
      <4>3. QED
        BY <2>1, <4>1, <4>2, DepListTypes DEF Dependency, Ids
    <3>4. \A e \in seen : deps'[1].id.instance >= e.id.instance
      BY <2>1, <3>1, <3>2, <3>3
    <3>5. QED
      BY <2>2, <3>1, <3>4 DEF HeadIsNewest
  <2>8. QED
    BY <2>4, <2>5, <2>6, <2>7 DEF ArrayInv
<1>4. QED
  BY <1>1, <1>2, <1>3 DEF Next

\* The inductive invariant of the array holds in every reachable state.
THEOREM ArrayInvariant == Spec => []ArrayInv
BY ArrayInvInit, ArrayInvStep, PTL DEF Spec

\* The array and its history keep their types: no call of update_deps writes
\* beyond the slots of the array (instance.c:141-174).
THEOREM TypeCorrect == Spec => []DepsTypeOK
<1>1. ArrayInv => DepsTypeOK
  BY DEF ArrayInv
<1>2. QED
  BY <1>1, ArrayInvariant, PTL

\* The numbers never increase along the array, as equal_deps, lt_dep_replica
\* and has_uncommitted_deps rely on (instance.c:113).
THEOREM AlwaysSorted == Spec => []Sorted
<1>1. ArrayInv => Sorted
  BY DEF ArrayInv
<1>2. QED
  BY <1>1, ArrayInvariant, PTL

\* No instance ever occupies two slots (instance.c:146-154).
THEOREM NeverTwice == Spec => []NoDuplicates
<1>1. ArrayInv => NoDuplicates
  BY DEF ArrayInv
<1>2. QED
  BY <1>1, ArrayInvariant, PTL

\* Whatever update_deps drops, an entry of the highest number offered stays.
THEOREM NewestKept == Spec => []HeadIsNewest
<1>1. ArrayInv => HeadIsNewest
  BY DEF ArrayInv
<1>2. QED
  BY <1>1, ArrayInvariant, PTL

\* The committed flag of an entry that stays is never cleared
\* (instance.c:148).
THEOREM FlagsNeverLowered == Spec => CommitKept
<1> DEFINE Kept ==
      \A k \in 1..Len(deps) : \A j \in 1..Len(deps') :
          deps'[j].id = deps[k].id /\ deps[k].committed => deps'[j].committed
<1>1. ArrayInv /\ [Next]_vars => [Kept]_vars
  <2>1. SUFFICES ASSUME ArrayInv, NEW d \in Dependency, Offer(d) PROVE Kept
    BY DEF Next
  <2>2. deps \in DepList /\ NoTwice(deps)
    BY <2>1 DEF ArrayInv, DepsTypeOK, NoDuplicates, NoTwice
  <2>3. Updated(deps, d, deps')
    BY <2>1, <2>2, UpdateDepsCases DEF Offer
  <2>4. QED
    BY <2>2, <2>3, UpdatedFlags
<1>2. QED
  BY <1>1, ArrayInvariant, PTL DEF Spec, CommitKept

\* A call forgets at most the last entry, the one with the smallest number
\* (instance.c:142).
THEOREM OnlyLastForgotten == Spec => OnlyOldestLost
<1> DEFINE Kept ==
      \A k \in 1..Len(deps) :
          (\A j \in 1..Len(deps') : deps'[j].id # deps[k].id) => k = Len(deps)
<1>1. ArrayInv /\ [Next]_vars => [Kept]_vars
  <2>1. SUFFICES ASSUME ArrayInv, NEW d \in Dependency, Offer(d) PROVE Kept
    BY DEF Next
  <2>2. deps \in DepList
    BY <2>1 DEF ArrayInv, DepsTypeOK
  <2>3. Updated(deps, d, deps')
    BY <2>1, <2>2, UpdateDepsCases DEF Offer
  <2>4. QED
    BY <2>2, <2>3, UpdatedKeeps
<1>2. QED
  BY <1>1, ArrayInvariant, PTL DEF Spec, OnlyOldestLost

=============================================================================
