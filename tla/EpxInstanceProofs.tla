--------------------------- MODULE EpxInstanceProofs ---------------------------
(***************************************************************************)
(* What update_deps (instance.c:141) and the walks that call it for one    *)
(* dependency after another return, for each size of the array, number of  *)
(* replicas and range of instance numbers.  UpdateDepsCases says which of  *)
(* its ways out a call takes, with the slot found by the two loops of the  *)
(* code; the rest follows case by case.                                    *)
(***************************************************************************)
EXTENDS EpxInstance, WellFoundedInduction, TLAPS

(***************************************************************************)
(* First(S) is what the loops of update_deps stop at: the least of a       *)
(* non-empty set of slots.                                                 *)
(***************************************************************************)
LEMMA FirstIsLeast ==
    ASSUME NEW n \in Nat, NEW S \in SUBSET (1..n), S # {}
    PROVE  /\ First(S) \in S
           /\ \A j \in S : First(S) <= j
<1> DEFINE R == OpToRel(<, Nat)
<1>1. S \subseteq Nat
  OBVIOUS
<1>2. PICK k \in S : \A j \in S : ~(<<j, k>> \in R)
  <2>1. IsWellFoundedOn(R, Nat)
    BY NatLessThanWellFounded
  <2>. HIDE DEF R
  <2>2. QED
    BY <1>1, <2>1, WFMin, Zenon
<1>3. \A j \in S : ~(j < k)
  <2>1. \A i, j \in Nat : i < j => <<i, j>> \in R
    BY DEF OpToRel
  <2>. HIDE DEF R
  <2>2. QED
    BY <1>1, <1>2, <2>1, Zenon
<1>4. \A j \in S : k <= j
  BY <1>1, <1>3
<1>5. QED
  BY <1>4 DEF First

(***************************************************************************)
(* Loops.  A loop over n slots is a function on 0..n that starts in base   *)
(* and takes step[<<k, f[k - 1]>>] as its k-th value.                      *)
(***************************************************************************)

\* Induction up to n, from the least number that X would miss.
LEMMA UpTo ==
    ASSUME NEW n \in Nat, NEW X, 0 \in X, \A k \in 1..n : k - 1 \in X => k \in X
    PROVE  \A k \in 0..n : k \in X
<1> DEFINE S == {k \in 1..n : k \notin X}
<1>1. SUFFICES ASSUME S # {} PROVE FALSE
  OBVIOUS
<1>2. S \in SUBSET (1..n)
  OBVIOUS
<1>3. First(S) \in S /\ \A j \in S : First(S) <= j
  <2>. HIDE DEF S
  <2>1. QED
    BY <1>1, <1>2, FirstIsLeast
<1>4. First(S) \in 1..n /\ First(S) \notin X
  BY <1>3
<1>5. First(S) - 1 \in X
  <2>1. CASE First(S) = 1
    BY <2>1
  <2>2. CASE First(S) # 1
    <3>1. First(S) - 1 \in 1..n /\ ~(First(S) <= First(S) - 1)
      BY <1>4, <2>2
    <3>2. First(S) - 1 \notin S
      BY <1>3, <3>1
    <3>3. QED
      BY <3>1, <3>2
  <2>3. QED
    BY <2>1, <2>2
<1>6. QED
  BY <1>4, <1>5

Looped(f, n, base, step) ==
    /\ f = [k \in 0..n |-> f[k]]
    /\ f[0] = base
    /\ \A k \in 1..n : f[k] = step[<<k, f[k - 1]>>]

\* There is such a function, whatever the step.
LEMMA LoopExists ==
    ASSUME NEW n \in Nat, NEW base, NEW step
    PROVE  \E f : Looped(f, n, base, step)
<1> DEFINE X == {k \in 0..n : \E f : Looped(f, k, base, step)}
<1>1. 0 \in X
  <2> DEFINE f == [k \in 0..0 |-> base]
  <2>1. Looped(f, 0, base, step)
    BY DEF Looped
  <2>2. QED
    BY <2>1
<1>2. ASSUME NEW k \in 1..n, k - 1 \in X
      PROVE  k \in X
  <2>1. PICK f : Looped(f, k - 1, base, step)
    BY <1>2
  <2> DEFINE g == [j \in 0..k |-> IF j = k THEN step[<<k, f[k - 1]>>] ELSE f[j]]
  <2>2. g = [j \in 0..k |-> g[j]] /\ g[0] = base
    BY <2>1 DEF Looped
  <2>3. ASSUME NEW j \in 1..k
        PROVE  g[j] = step[<<j, g[j - 1]>>]
    <3>1. j - 1 \in 0..k /\ j - 1 # k /\ g[j - 1] = f[j - 1]
      OBVIOUS
    <3>2. CASE j = k
      BY <3>1, <3>2
    <3>3. CASE j # k
      <4>1. j \in 1..(k - 1)
        BY <3>3
      <4>2. f[j] = step[<<j, f[j - 1]>>]
        BY <2>1, <4>1 DEF Looped
      <4>3. QED
        BY <3>1, <3>3, <4>2
    <3>4. QED
      BY <3>2, <3>3
  <2>4. Looped(g, k, base, step)
    <3>. HIDE DEF g
    <3>1. QED
      BY <2>2, <2>3 DEF Looped
  <2>5. QED
    BY <2>4
<1>3. n \in X
  <2>. HIDE DEF X
  <2>1. QED
    BY <1>1, <1>2, UpTo
<1>4. QED
  BY <1>3

\* What holds of base and is kept by each step holds of every value.
LEMMA LoopStays ==
    ASSUME NEW n \in Nat, NEW base, NEW step, NEW f, Looped(f, n, base, step),
           NEW S, base \in S,
           \A k \in 1..n : \A p \in S : step[<<k, p>>] \in S
    PROVE  \A k \in 0..n : f[k] \in S
<1> DEFINE X == {k \in 0..n : f[k] \in S}
<1>1. 0 \in X
  BY DEF Looped
<1>2. ASSUME NEW k \in 1..n, k - 1 \in X
      PROVE  k \in X
  <2>1. f[k - 1] \in S
    BY <1>2
  <2>2. f[k] = step[<<k, f[k - 1]>>]
    BY DEF Looped
  <2>3. f[k] \in S
    BY <2>1, <2>2
  <2>4. QED
    BY <2>3
<1>3. \A k \in 0..n : k \in X
  <2>. HIDE DEF X
  <2>1. QED
    BY <1>1, <1>2, UpTo
<1>4. QED
  BY <1>3

(***************************************************************************)
(* The ways a call of update_deps can end.                                 *)
(***************************************************************************)
Unchanged(deps1, d, new) ==
    /\ new = deps1
    /\ \/ \E k \in 1..Len(deps1) : deps1[k].id = d.id
       \/ /\ Len(deps1) >= MAX_DEPS
          /\ \A k \in 1..Len(deps1) : deps1[k].id.instance >= d.id.instance

FlagRaised(deps1, d, new) ==
    \E k \in 1..Len(deps1) :
        /\ deps1[k].id = d.id /\ d.committed
        /\ new = [deps1 EXCEPT ![k] = d]

Inserted(deps1, d, new) ==
    /\ \A j \in 1..Len(deps1) : deps1[j].id # d.id
    /\ \E k \in 1..Len(deps1) :
        /\ deps1[k].id.instance < d.id.instance
        /\ \A j \in 1..Len(deps1) : j < k => deps1[j].id.instance >= d.id.instance
        /\ new = ShiftIn(deps1, k, d)

Appended(deps1, d, new) ==
    /\ \A j \in 1..Len(deps1) : deps1[j].id # d.id
    /\ \A j \in 1..Len(deps1) : deps1[j].id.instance >= d.id.instance
    /\ Len(deps1) < MAX_DEPS
    /\ new = Append(deps1, d)

\* What membership in DepList gives of an array and of its slots.
LEMMA DepListTypes ==
    ASSUME NEW deps1 \in DepList
    PROVE  /\ Len(deps1) \in Nat /\ Len(deps1) <= MAX_DEPS
           /\ deps1 \in [1..Len(deps1) -> Dependency]
           /\ \A k \in 1..Len(deps1) : deps1[k].id.instance \in Nat
<1>1. deps1 \in Seq(Dependency) /\ Len(deps1) <= MAX_DEPS
  BY DEF DepList
<1>2. /\ Len(deps1) \in Nat
      /\ deps1 \in [1..Len(deps1) -> Dependency]
  BY <1>1
<1>3. \A e \in Dependency : e.id.instance \in Nat
  BY DEF Dependency, Ids
<1>4. QED
  BY <1>1, <1>2, <1>3

Updated(deps1, d, new) ==
    \/ Unchanged(deps1, d, new)
    \/ FlagRaised(deps1, d, new)
    \/ Inserted(deps1, d, new)
    \/ Appended(deps1, d, new)

\* The five ways a call of update_deps can end (instance.c:143-173).
LEMMA UpdateDepsCases ==
    ASSUME NEW deps1 \in DepList, NEW d \in Dependency
    PROVE  Updated(deps1, d, UpdateDeps(deps1, d).deps)
<1> DEFINE new == UpdateDeps(deps1, d).deps
<1> DEFINE held == Holding(deps1, d.id)
<1> DEFINE smaller == Smaller(deps1, d)
<1>1. /\ Len(deps1) \in Nat
      /\ held \in SUBSET (1..Len(deps1))
      /\ smaller \in SUBSET (1..Len(deps1))
  BY DepListTypes DEF Holding, Smaller
<1>2. \A k \in 1..Len(deps1) : deps1[k].id.instance \in Nat
  BY DepListTypes
<1>3. d.id.instance \in Nat /\ d.committed \in BOOLEAN
  BY DEF Dependency, Ids
<1>4. CASE held # {}
  <2>1. First(held) \in 1..Len(deps1) /\ deps1[First(held)].id = d.id
    <3>1. First(held) \in held
      BY <1>1, <1>4, FirstIsLeast
    <3>2. QED
      BY <3>1 DEF Holding
  <2>2. CASE deps1[First(held)].committed \/ ~d.committed
    <3>1. new = deps1
      BY <1>4, <2>2 DEF UpdateDeps
    <3>2. QED
      BY <2>1, <3>1 DEF Unchanged, Updated
  <2>3. CASE ~deps1[First(held)].committed /\ d.committed
    <3>1. new = [deps1 EXCEPT ![First(held)] = d]
      BY <1>4, <2>3 DEF UpdateDeps
    <3>2. QED
      BY <2>1, <2>3, <3>1 DEF FlagRaised, Updated
  <2>4. QED
    BY <2>2, <2>3
<1>5. CASE held = {} /\ smaller # {}
  <2> DEFINE k == First(smaller)
  <2>1. k \in smaller /\ \A j \in smaller : k <= j
    BY <1>1, <1>5, FirstIsLeast
  <2>2. \A j \in 1..Len(deps1) : deps1[j].id # d.id
    BY <1>5 DEF Holding
  <2>3. new = ShiftIn(deps1, k, d)
    BY <1>5 DEF UpdateDeps
  <2>4. k \in 1..Len(deps1) /\ deps1[k].id.instance < d.id.instance
    BY <2>1 DEF Smaller
  <2>5. \A j \in 1..Len(deps1) : j < k => deps1[j].id.instance >= d.id.instance
    <3>1. \A j \in 1..Len(deps1) : j < k => ~(deps1[j].id.instance < d.id.instance)
      <4>1. \A j \in 1..Len(deps1) : j < k => j \notin smaller
        BY <1>1, <2>1, <2>4
      <4>2. QED
        BY <4>1 DEF Smaller
    <3>2. QED
      BY <1>2, <1>3, <3>1
  <2>. HIDE DEF k
  <2>6. QED
    BY <2>2, <2>3, <2>4, <2>5 DEF Inserted, Updated
<1>6. CASE held = {} /\ smaller = {}
  <2>1. \A j \in 1..Len(deps1) : deps1[j].id # d.id
    BY <1>6 DEF Holding
  <2>2. \A j \in 1..Len(deps1) : deps1[j].id.instance >= d.id.instance
    BY <1>2, <1>3, <1>6 DEF Smaller
  <2>3. CASE Len(deps1) < MAX_DEPS
    <3>1. new = Append(deps1, d)
      BY <1>6, <2>3 DEF UpdateDeps
    <3>2. QED
      BY <2>1, <2>2, <2>3, <3>1 DEF Appended, Updated
  <2>4. CASE ~(Len(deps1) < MAX_DEPS)
    <3>1. new = deps1
      BY <1>6, <2>4 DEF UpdateDeps
    <3>2. Len(deps1) >= MAX_DEPS
      BY <1>1, <2>4, InstanceAssumption
    <3>3. QED
      BY <2>2, <3>1, <3>2 DEF Unchanged, Updated
  <2>5. QED
    BY <2>3, <2>4
<1>7. QED
  BY <1>4, <1>5, <1>6 DEF Updated

(***************************************************************************)
(* A call keeps the type of the array.                                     *)
(***************************************************************************)
LEMMA ShiftInType ==
    ASSUME NEW deps1 \in DepList, NEW d \in Dependency, NEW k \in 1..Len(deps1)
    PROVE  /\ ShiftIn(deps1, k, d) \in DepList
           /\ Len(ShiftIn(deps1, k, d)) = Len(deps1)
           /\ \A j \in 1..Len(deps1) : ShiftIn(deps1, k, d)[j] =
                 IF j < k THEN deps1[j] ELSE IF j = k THEN d ELSE deps1[j - 1]
<1> DEFINE new == ShiftIn(deps1, k, d)
<1>1. /\ Len(deps1) \in Nat /\ Len(deps1) <= MAX_DEPS
      /\ deps1 \in [1..Len(deps1) -> Dependency]
  BY DepListTypes
<1>2. new \in [1..Len(deps1) -> Dependency]
  <2>1. \A j \in 1..Len(deps1) :
           (IF j < k THEN deps1[j] ELSE IF j = k THEN d ELSE deps1[j - 1]) \in Dependency
    <3>1. TAKE j \in 1..Len(deps1)
    <3>2. j > k => j - 1 \in 1..Len(deps1)
      BY <1>1
    <3>3. j < k \/ j = k \/ j > k
      BY <1>1
    <3>4. QED
      BY <1>1, <3>2, <3>3
  <2>2. QED
    BY <2>1 DEF ShiftIn
<1>3. new \in Seq(Dependency) /\ Len(new) = Len(deps1)
  BY <1>1, <1>2
<1>4. QED
  BY <1>1, <1>3 DEF DepList, ShiftIn

\* A call returns an array of the same type: it never outgrows its slots.
LEMMA UpdatedType ==
    ASSUME NEW deps1 \in DepList, NEW d \in Dependency, NEW new,
           Updated(deps1, d, new)
    PROVE  new \in DepList
<1>1. /\ Len(deps1) \in Nat /\ Len(deps1) <= MAX_DEPS
      /\ deps1 \in Seq(Dependency)
      /\ deps1 \in [1..Len(deps1) -> Dependency]
  BY DepListTypes DEF DepList
<1>2. CASE Unchanged(deps1, d, new)
  BY <1>2 DEF Unchanged
<1>3. CASE FlagRaised(deps1, d, new)
  <2>1. new \in [1..Len(deps1) -> Dependency]
    BY <1>1, <1>3 DEF FlagRaised
  <2>2. new \in Seq(Dependency) /\ Len(new) = Len(deps1)
    BY <1>1, <2>1
  <2>3. QED
    BY <1>1, <2>2 DEF DepList
<1>4. CASE Inserted(deps1, d, new)
  BY <1>4, ShiftInType DEF Inserted
<1>5. CASE Appended(deps1, d, new)
  <2>1. new \in Seq(Dependency) /\ Len(new) = Len(deps1) + 1
    BY <1>1, <1>5 DEF Appended
  <2>2. QED
    BY <1>1, <1>5, <2>1, InstanceAssumption DEF DepList, Appended
<1>6. QED
  BY <1>2, <1>3, <1>4, <1>5 DEF Updated

(***************************************************************************)
(* What a call does to the order, the identities and the head.             *)
(***************************************************************************)
SortedList(ds) ==
    \A j, k \in 1..Len(ds) : j < k => ds[j].id.instance >= ds[k].id.instance

NoTwice(ds) == \A j, k \in 1..Len(ds) : ds[j].id = ds[k].id => j = k

\* The slots of an array a flag was raised in.
LEMMA FlagRaisedSlots ==
    ASSUME NEW deps1 \in DepList, NEW d \in Dependency, NEW new,
           FlagRaised(deps1, d, new)
    PROVE  /\ Len(new) = Len(deps1)
           /\ \A j \in 1..Len(deps1) :
                 /\ new[j].id = deps1[j].id
                 /\ deps1[j].committed => new[j].committed
<1>1. /\ Len(deps1) \in Nat
      /\ deps1 \in [1..Len(deps1) -> Dependency]
      /\ deps1 \in Seq(Dependency)
  BY DepListTypes DEF DepList
<1>2. PICK k \in 1..Len(deps1) :
           /\ deps1[k].id = d.id /\ d.committed
           /\ new = [deps1 EXCEPT ![k] = d]
  BY DEF FlagRaised
<1>3. Len(new) = Len(deps1)
  BY <1>1, <1>2
<1>4. \A j \in 1..Len(deps1) : new[j] = IF j = k THEN d ELSE deps1[j]
  BY <1>1, <1>2
<1>5. QED
  BY <1>2, <1>3, <1>4

\* The slots of an array d was appended to.
LEMMA AppendedSlots ==
    ASSUME NEW deps1 \in DepList, NEW d \in Dependency, NEW new,
           Appended(deps1, d, new)
    PROVE  /\ Len(new) = Len(deps1) + 1
           /\ new[Len(deps1) + 1] = d
           /\ \A j \in 1..Len(deps1) : new[j] = deps1[j]
<1>1. /\ Len(deps1) \in Nat
      /\ deps1 \in Seq(Dependency)
  BY DepListTypes DEF DepList
<1>2. QED
  BY <1>1 DEF Appended

\* A call keeps a sorted array sorted.
LEMMA UpdatedSorted ==
    ASSUME NEW deps1 \in DepList, NEW d \in Dependency, NEW new,
           Updated(deps1, d, new), SortedList(deps1)
    PROVE  SortedList(new)
<1>1. /\ Len(deps1) \in Nat
      /\ \A k \in 1..Len(deps1) : deps1[k].id.instance \in Nat
  BY DepListTypes
<1>2. d.id.instance \in Nat
  BY DEF Dependency, Ids
<1>3. CASE Unchanged(deps1, d, new)
  BY <1>3 DEF Unchanged
<1>4. CASE FlagRaised(deps1, d, new)
  BY <1>4, FlagRaisedSlots DEF SortedList
<1>5. CASE Inserted(deps1, d, new)
  <2>1. PICK k \in 1..Len(deps1) :
             /\ deps1[k].id.instance < d.id.instance
             /\ \A j \in 1..Len(deps1) : j < k => deps1[j].id.instance >= d.id.instance
             /\ new = ShiftIn(deps1, k, d)
    BY <1>5 DEF Inserted
  <2>2. /\ Len(new) = Len(deps1)
        /\ \A j \in 1..Len(deps1) : new[j] =
              IF j < k THEN deps1[j] ELSE IF j = k THEN d ELSE deps1[j - 1]
    BY <2>1, ShiftInType
  <2>3. SUFFICES ASSUME NEW i \in 1..Len(deps1), NEW j \in 1..Len(deps1), i < j
                 PROVE  new[i].id.instance >= new[j].id.instance
    BY <2>2 DEF SortedList
  <2>4. CASE j < k
    <3>1. i < k
      BY <1>1, <2>3, <2>4
    <3>2. new[i] = deps1[i] /\ new[j] = deps1[j]
      BY <2>2, <2>4, <3>1
    <3>3. QED
      BY <2>3, <3>2 DEF SortedList
  <2>5. CASE j = k
    <3>1. i < k
      BY <2>3, <2>5
    <3>2. new[i] = deps1[i] /\ new[j] = d
      BY <2>2, <2>5, <3>1, <1>1
    <3>3. QED
      BY <2>1, <3>1, <3>2
  <2>6. CASE j > k
    <3>1. /\ j - 1 \in 1..Len(deps1)
          /\ new[j] = deps1[j - 1]
      <4>1. j - 1 \in 1..Len(deps1) /\ ~(j < k) /\ j # k
        BY <1>1, <2>6
      <4>2. QED
        BY <2>2, <4>1
    <3>2. CASE i < k
      <4>1. new[i] = deps1[i] /\ i < j - 1
        BY <1>1, <2>2, <2>6, <3>2
      <4>2. QED
        BY <3>1, <4>1 DEF SortedList
    <3>3. CASE i = k
      <4>1. new[i] = d
        BY <1>1, <2>2, <3>3
      <4>2. deps1[k].id.instance >= deps1[j - 1].id.instance
        <5>1. CASE k = j - 1
          BY <1>1, <5>1, <2>1
        <5>2. CASE k < j - 1
          BY <3>1, <5>2 DEF SortedList
        <5>3. QED
          BY <1>1, <2>6, <5>1, <5>2
      <4>3. QED
        BY <1>1, <1>2, <2>1, <3>1, <4>1, <4>2
    <3>4. CASE i > k
      <4>1. /\ i - 1 \in 1..Len(deps1) /\ i - 1 < j - 1
            /\ ~(i < k) /\ i # k
        BY <1>1, <2>3, <3>4
      <4>2. new[i] = deps1[i - 1]
        BY <2>2, <4>1
      <4>3. QED
        BY <3>1, <4>1, <4>2 DEF SortedList
    <3>5. QED
      BY <1>1, <3>2, <3>3, <3>4
  <2>7. QED
    BY <1>1, <2>4, <2>5, <2>6
<1>6. CASE Appended(deps1, d, new)
  <2>1. /\ Len(new) = Len(deps1) + 1
        /\ new[Len(deps1) + 1] = d
        /\ \A j \in 1..Len(deps1) : new[j] = deps1[j]
    BY <1>6, AppendedSlots
  <2>2. \A j \in 1..Len(deps1) : deps1[j].id.instance >= d.id.instance
    BY <1>6 DEF Appended
  <2>3. SUFFICES ASSUME NEW i \in 1..Len(new), NEW j \in 1..Len(new), i < j
                 PROVE  new[i].id.instance >= new[j].id.instance
    BY DEF SortedList
  <2>4. i \in 1..Len(deps1) /\ new[i] = deps1[i]
    BY <1>1, <2>1, <2>3
  <2>5. CASE j = Len(deps1) + 1
    BY <2>1, <2>2, <2>4, <2>5
  <2>6. CASE j \in 1..Len(deps1)
    BY <2>1, <2>3, <2>4, <2>6 DEF SortedList
  <2>7. QED
    BY <1>1, <2>1, <2>5, <2>6
<1>7. QED
  BY <1>3, <1>4, <1>5, <1>6 DEF Updated

\* d is in slot k of new, the slots before it are those of deps1 and the slots
\* after it come from one slot below.
ShiftedAt(deps1, d, new, k) ==
    /\ Len(new) = Len(deps1)
    /\ \A j \in 1..Len(deps1) : j < k => new[j] = deps1[j]
    /\ new[k] = d
    /\ \A j \in 1..Len(deps1) :
          j > k => j - 1 \in 1..Len(deps1) /\ new[j] = deps1[j - 1]
    /\ \A j \in 1..Len(deps1) : j < k => deps1[j].id.instance >= d.id.instance
    /\ deps1[k].id.instance < d.id.instance

\* Where the slots of an array that d was shifted into come from.
LEMMA InsertedSlots ==
    ASSUME NEW deps1 \in DepList, NEW d \in Dependency, NEW new,
           Inserted(deps1, d, new)
    PROVE  \E k \in 1..Len(deps1) : ShiftedAt(deps1, d, new, k)
<1>1. Len(deps1) \in Nat
  BY DepListTypes
<1>2. PICK k \in 1..Len(deps1) :
           /\ deps1[k].id.instance < d.id.instance
           /\ \A j \in 1..Len(deps1) : j < k => deps1[j].id.instance >= d.id.instance
           /\ new = ShiftIn(deps1, k, d)
  BY DEF Inserted
<1>3. /\ Len(new) = Len(deps1)
      /\ \A j \in 1..Len(deps1) : new[j] =
            IF j < k THEN deps1[j] ELSE IF j = k THEN d ELSE deps1[j - 1]
  BY <1>2, ShiftInType
<1>4. \A j \in 1..Len(deps1) : j > k => j - 1 \in 1..Len(deps1) /\ new[j] = deps1[j - 1]
  <2>1. TAKE j \in 1..Len(deps1)
  <2>2. HAVE j > k
  <2>3. j - 1 \in 1..Len(deps1) /\ ~(j < k) /\ j # k
    BY <1>1, <2>2
  <2>4. QED
    BY <1>3, <2>3
<1>5. \A j \in 1..Len(deps1) : j < k => new[j] = deps1[j]
  BY <1>3
<1>6. new[k] = d
  BY <1>1, <1>3
<1>7. ShiftedAt(deps1, d, new, k)
  BY <1>2, <1>3, <1>4, <1>5, <1>6 DEF ShiftedAt
<1>8. QED
  BY <1>7

\* A call puts no instance into a second slot.
LEMMA UpdatedNoTwice ==
    ASSUME NEW deps1 \in DepList, NEW d \in Dependency, NEW new,
           Updated(deps1, d, new), NoTwice(deps1)
    PROVE  NoTwice(new)
<1>1. Len(deps1) \in Nat
  BY DepListTypes
<1>2. CASE Unchanged(deps1, d, new)
  BY <1>2 DEF Unchanged
<1>3. CASE FlagRaised(deps1, d, new)
  BY <1>3, FlagRaisedSlots DEF NoTwice
<1>4. CASE Inserted(deps1, d, new)
  <2>1. \A j \in 1..Len(deps1) : deps1[j].id # d.id
    BY <1>4 DEF Inserted
  <2>0. PICK k \in 1..Len(deps1) : ShiftedAt(deps1, d, new, k)
    BY <1>4, InsertedSlots
  <2>2. /\ Len(new) = Len(deps1)
        /\ \A j \in 1..Len(deps1) : j < k => new[j] = deps1[j]
        /\ new[k] = d
        /\ \A j \in 1..Len(deps1) :
              j > k => j - 1 \in 1..Len(deps1) /\ new[j] = deps1[j - 1]
    BY <2>0 DEF ShiftedAt
  <2> DEFINE from(j) == IF j < k THEN j ELSE j - 1
  <2>3. \A j \in 1..Len(deps1) :
           j # k => from(j) \in 1..Len(deps1) /\ new[j] = deps1[from(j)]
    BY <1>1, <2>2
  <2>4. SUFFICES ASSUME NEW i \in 1..Len(deps1), NEW j \in 1..Len(deps1),
                        new[i].id = new[j].id
                 PROVE  i = j
    BY <2>2 DEF NoTwice
  <2>5. CASE i = k \/ j = k
    <3>1. \A l \in 1..Len(deps1) : l # k => new[l].id # d.id
      <4>1. TAKE l \in 1..Len(deps1)
      <4>2. HAVE l # k
      <4>3. PICK q \in 1..Len(deps1) : new[l] = deps1[q]
        BY <2>3, <4>2
      <4>4. QED
        BY <2>1, <4>3
    <3>2. QED
      BY <2>2, <2>4, <2>5, <3>1
  <2>6. CASE i # k /\ j # k
    <3>1. /\ from(i) \in 1..Len(deps1) /\ new[i] = deps1[from(i)]
          /\ from(j) \in 1..Len(deps1) /\ new[j] = deps1[from(j)]
      BY <2>3, <2>6
    <3>2. from(i) = from(j)
      <4>. HIDE DEF from
      <4>1. deps1[from(i)].id = deps1[from(j)].id
        BY <2>4, <3>1
      <4>2. QED
        BY <3>1, <4>1 DEF NoTwice
    <3>3. QED
      BY <1>1, <2>6, <3>2
  <2>7. QED
    BY <2>5, <2>6
<1>5. CASE Appended(deps1, d, new)
  <2>1. \A j \in 1..Len(deps1) : deps1[j].id # d.id
    BY <1>5 DEF Appended
  <2>2. /\ Len(new) = Len(deps1) + 1
        /\ new[Len(deps1) + 1] = d
        /\ \A j \in 1..Len(deps1) : new[j] = deps1[j]
    BY <1>5, AppendedSlots
  <2>3. \A j \in 1..Len(new) : j = Len(deps1) + 1 \/ j \in 1..Len(deps1)
    BY <1>1, <2>2
  <2>4. QED
    BY <2>1, <2>2, <2>3 DEF NoTwice
<1>6. QED
  BY <1>2, <1>3, <1>4, <1>5 DEF Updated

\* After a call the head is at least the new number and the old head.
LEMMA UpdatedHead ==
    ASSUME NEW deps1 \in DepList, NEW d \in Dependency, NEW new,
           Updated(deps1, d, new), SortedList(deps1)
    PROVE  /\ Len(new) > 0
           /\ new[1].id.instance >= d.id.instance
           /\ Len(deps1) > 0 => new[1].id.instance >= deps1[1].id.instance
<1>1. /\ Len(deps1) \in Nat
      /\ \A k \in 1..Len(deps1) : deps1[k].id.instance \in Nat
      /\ d.id.instance \in Nat
  BY DepListTypes DEF Dependency, Ids
<1>2. CASE Unchanged(deps1, d, new)
  <2>1. CASE \E k \in 1..Len(deps1) : deps1[k].id = d.id
    <3>1. PICK k \in 1..Len(deps1) : deps1[k].id = d.id
      BY <2>1
    <3>2. 1 \in 1..Len(deps1) /\ (k = 1 \/ 1 < k)
      BY <1>1
    <3>3. deps1[1].id.instance >= deps1[k].id.instance
      BY <1>1, <3>2 DEF SortedList
    <3>4. QED
      BY <1>1, <1>2, <3>1, <3>2, <3>3 DEF Unchanged
  <2>2. CASE /\ Len(deps1) >= MAX_DEPS
             /\ \A k \in 1..Len(deps1) : deps1[k].id.instance >= d.id.instance
    <3>1. 1 \in 1..Len(deps1)
      BY <1>1, <2>2, InstanceAssumption
    <3>2. QED
      BY <1>1, <1>2, <2>2, <3>1 DEF Unchanged
  <2>3. QED
    BY <1>2, <2>1, <2>2 DEF Unchanged
<1>3. CASE FlagRaised(deps1, d, new)
  <2>1. PICK k \in 1..Len(deps1) : deps1[k].id = d.id
    BY <1>3 DEF FlagRaised
  <2>2. 1 \in 1..Len(deps1) /\ (k = 1 \/ 1 < k)
    BY <1>1
  <2>3. deps1[1].id.instance >= deps1[k].id.instance
    BY <1>1, <2>2 DEF SortedList
  <2>4. Len(new) = Len(deps1) /\ new[1].id = deps1[1].id
    BY <1>3, <2>2, FlagRaisedSlots
  <2>5. QED
    BY <1>1, <2>1, <2>2, <2>3, <2>4
<1>4. CASE Inserted(deps1, d, new)
  <2>0. PICK k \in 1..Len(deps1) : ShiftedAt(deps1, d, new, k)
    BY <1>4, InsertedSlots
  <2>1. /\ Len(new) = Len(deps1)
        /\ \A j \in 1..Len(deps1) : j < k => new[j] = deps1[j]
        /\ new[k] = d
        /\ \A j \in 1..Len(deps1) : j < k => deps1[j].id.instance >= d.id.instance
        /\ deps1[k].id.instance < d.id.instance
    BY <2>0 DEF ShiftedAt
  <2>2. 1 \in 1..Len(deps1) /\ (k = 1 \/ 1 < k)
    BY <1>1
  <2>3. QED
    BY <1>1, <2>1, <2>2
<1>5. CASE Appended(deps1, d, new)
  <2>1. /\ Len(new) = Len(deps1) + 1
        /\ new[Len(deps1) + 1] = d
        /\ \A j \in 1..Len(deps1) : new[j] = deps1[j]
    BY <1>5, AppendedSlots
  <2>2. \A j \in 1..Len(deps1) : deps1[j].id.instance >= d.id.instance
    BY <1>5 DEF Appended
  <2>3. CASE Len(deps1) = 0
    BY <1>1, <2>1, <2>3
  <2>4. CASE Len(deps1) # 0
    <3>1. 1 \in 1..Len(deps1)
      BY <1>1, <2>4
    <3>2. QED
      BY <1>1, <2>1, <2>2, <3>1
  <2>5. QED
    BY <2>3, <2>4
<1>6. QED
  BY <1>2, <1>3, <1>4, <1>5 DEF Updated

\* A held flag is never lowered.
LEMMA UpdatedFlags ==
    ASSUME NEW deps1 \in DepList, NEW d \in Dependency, NEW new,
           Updated(deps1, d, new), NoTwice(deps1),
           NEW k \in 1..Len(deps1), NEW j \in 1..Len(new),
           new[j].id = deps1[k].id, deps1[k].committed
    PROVE  new[j].committed
<1>1. Len(deps1) \in Nat
  BY DepListTypes
<1>2. CASE Unchanged(deps1, d, new)
  BY <1>2 DEF Unchanged, NoTwice
<1>3. CASE FlagRaised(deps1, d, new)
  <2>1. j \in 1..Len(deps1) /\ new[j].id = deps1[j].id
    BY <1>3, FlagRaisedSlots
  <2>2. j = k
    BY <2>1 DEF NoTwice
  <2>3. QED
    BY <1>3, <2>2, FlagRaisedSlots
<1>4. CASE Inserted(deps1, d, new) \/ Appended(deps1, d, new)
  <2>1. deps1[k].id # d.id
    BY <1>4 DEF Inserted, Appended
  <2>2. new[j] = d \/ \E i \in 1..Len(deps1) : new[j] = deps1[i]
    <3>1. CASE Inserted(deps1, d, new)
      <4>0. PICK p \in 1..Len(deps1) : ShiftedAt(deps1, d, new, p)
        BY <3>1, InsertedSlots
      <4>1. /\ Len(new) = Len(deps1)
            /\ \A i \in 1..Len(deps1) : i < p => new[i] = deps1[i]
            /\ new[p] = d
            /\ \A i \in 1..Len(deps1) :
                  i > p => i - 1 \in 1..Len(deps1) /\ new[i] = deps1[i - 1]
        BY <4>0 DEF ShiftedAt
      <4>2. j < p \/ j = p \/ j > p
        BY <1>1, <4>1
      <4>3. QED
        BY <4>1, <4>2
    <3>2. CASE Appended(deps1, d, new)
      <4>1. /\ Len(new) = Len(deps1) + 1
            /\ new[Len(deps1) + 1] = d
            /\ \A i \in 1..Len(deps1) : new[i] = deps1[i]
        BY <3>2, AppendedSlots
      <4>2. j = Len(deps1) + 1 \/ j \in 1..Len(deps1)
        BY <1>1, <4>1
      <4>3. QED
        BY <4>1, <4>2
    <3>3. QED
      BY <1>4, <3>1, <3>2
  <2>3. PICK i \in 1..Len(deps1) : new[j] = deps1[i]
    BY <2>1, <2>2
  <2>4. i = k
    BY <2>3 DEF NoTwice
  <2>5. QED
    BY <2>3, <2>4
<1>5. QED
  BY <1>2, <1>3, <1>4 DEF Updated

\* Every entry but the last survives a call.
LEMMA UpdatedKeeps ==
    ASSUME NEW deps1 \in DepList, NEW d \in Dependency, NEW new,
           Updated(deps1, d, new), NEW k \in 1..Len(deps1), k # Len(deps1)
    PROVE  \E j \in 1..Len(new) : new[j].id = deps1[k].id
<1>1. Len(deps1) \in Nat
  BY DepListTypes
<1>2. CASE Unchanged(deps1, d, new)
  BY <1>2 DEF Unchanged
<1>3. CASE FlagRaised(deps1, d, new)
  BY <1>3, FlagRaisedSlots
<1>4. CASE Inserted(deps1, d, new)
  <2>0. PICK p \in 1..Len(deps1) : ShiftedAt(deps1, d, new, p)
    BY <1>4, InsertedSlots
  <2>1. /\ Len(new) = Len(deps1)
        /\ \A i \in 1..Len(deps1) : i < p => new[i] = deps1[i]
        /\ new[p] = d
        /\ \A i \in 1..Len(deps1) :
              i > p => i - 1 \in 1..Len(deps1) /\ new[i] = deps1[i - 1]
    BY <2>0 DEF ShiftedAt
  <2>2. CASE k < p
    BY <2>1, <2>2
  <2>3. CASE ~(k < p)
    <3>1. k + 1 \in 1..Len(deps1) /\ k + 1 > p /\ (k + 1) - 1 = k
      BY <1>1, <2>3
    <3>2. new[k + 1] = deps1[k]
      <4>1. new[k + 1] = deps1[(k + 1) - 1]
        BY <2>1, <3>1
      <4>2. QED
        BY <3>1, <4>1
    <3>3. QED
      BY <2>1, <3>1, <3>2
  <2>4. QED
    BY <2>2, <2>3
<1>5. CASE Appended(deps1, d, new)
  <2>1. k \in 1..Len(new) /\ new[k] = deps1[k]
    BY <1>1, <1>5, AppendedSlots
  <2>2. QED
    BY <2>1
<1>6. QED
  BY <1>2, <1>3, <1>4, <1>5 DEF Updated

(***************************************************************************)
(* A probe that is offered one dependency after another.                   *)
(***************************************************************************)

\* A probe whose array has its type and whose committed flags are raised for
\* members of C only.
SoundList(C) ==
    {ds \in DepList : \A k \in 1..Len(ds) : ds[k].committed => ds[k].id \in C}

Probe(C) == [deps : SoundList(C), updated : BOOLEAN]

\* A call of update_deps takes its flags from the array and from d.
LEMMA UpdatedSound ==
    ASSUME NEW C, NEW deps1 \in SoundList(C), NEW d \in Dependency,
           d.committed => d.id \in C, NEW new, Updated(deps1, d, new)
    PROVE  new \in SoundList(C)
<1>1. deps1 \in DepList /\ Len(deps1) \in Nat
  BY DepListTypes DEF SoundList
<1>2. new \in DepList
  BY <1>1, UpdatedType
<1>3. ASSUME NEW j \in 1..Len(new)
      PROVE  new[j] = d \/ \E i \in 1..Len(deps1) : new[j] = deps1[i]
  <2>1. CASE Unchanged(deps1, d, new)
    BY <2>1 DEF Unchanged
  <2>2. CASE FlagRaised(deps1, d, new)
    <3>1. PICK k \in 1..Len(deps1) : new = [deps1 EXCEPT ![k] = d]
      BY <2>2 DEF FlagRaised
    <3>2. Len(new) = Len(deps1)
      BY <1>1, <2>2, FlagRaisedSlots
    <3>3. deps1 \in [1..Len(deps1) -> Dependency]
      BY <1>1, DepListTypes
    <3>4. QED
      BY <3>1, <3>2, <3>3
  <2>3. CASE Inserted(deps1, d, new)
    <3>1. PICK p \in 1..Len(deps1) : ShiftedAt(deps1, d, new, p)
      BY <1>1, <2>3, InsertedSlots
    <3>2. j \in 1..Len(deps1) /\ (j < p \/ j = p \/ j > p)
      BY <1>1, <3>1 DEF ShiftedAt
    <3>3. QED
      BY <3>1, <3>2 DEF ShiftedAt
  <2>4. CASE Appended(deps1, d, new)
    <3>1. /\ Len(new) = Len(deps1) + 1
          /\ new[Len(deps1) + 1] = d
          /\ \A i \in 1..Len(deps1) : new[i] = deps1[i]
      BY <1>1, <2>4, AppendedSlots
    <3>2. j = Len(deps1) + 1 \/ j \in 1..Len(deps1)
      BY <1>1, <3>1
    <3>3. QED
      BY <3>1, <3>2
  <2>5. QED
    BY <2>1, <2>2, <2>3, <2>4 DEF Updated
<1>4. QED
  BY <1>2, <1>3 DEF SoundList

\* One more dependency.
LEMMA ProbedSound ==
    ASSUME NEW C, NEW p \in Probe(C), NEW d \in Dependency, d.committed => d.id \in C
    PROVE  Probed(p, d) \in Probe(C)
<1>1. p.deps \in SoundList(C) /\ p.deps \in DepList /\ p.updated \in BOOLEAN
  BY DEF Probe, SoundList
<1>2. UpdateDeps(p.deps, d).deps \in SoundList(C)
  BY <1>1, UpdateDepsCases, UpdatedSound
<1>3. UpdateDeps(p.deps, d).updated \in BOOLEAN
  BY DEF UpdateDeps
<1>4. QED
  BY <1>1, <1>2, <1>3 DEF Probed, Probe

\* What a new probe has and each call keeps, the probe has after the loop.
LEMMA UpdateAllStays ==
    ASSUME NEW S, NEW deps1, NEW ds, Len(ds) \in Nat, NewProbe(deps1) \in S,
           \A k \in 1..Len(ds) : \A p \in S : Probed(p, ds[k]) \in S
    PROVE  UpdateAll(deps1, ds) \in S
<1> DEFINE n == Len(ds)
           step == [x \in (1..n) \X S |-> Probed(x[2], ds[x[1]])]
           Body(f) == [k \in 0..n |-> IF k = 0 THEN NewProbe(deps1) ELSE Probed(f[k - 1], ds[k])]
<1>1. \A k \in 1..n : \A p \in S : step[<<k, p>>] = Probed(p, ds[k])
  OBVIOUS
<1>2. \E f : f = Body(f)
  <2>1. PICK f : Looped(f, n, NewProbe(deps1), step)
    BY LoopExists
  <2>2. \A k \in 0..n : f[k] \in S
    <3>1. \A k \in 1..n : \A p \in S : step[<<k, p>>] \in S
      BY <1>1
    <3>. HIDE DEF step
    <3>2. QED
      BY <2>1, <3>1, LoopStays
  <2>3. \A k \in 1..n : f[k] = Probed(f[k - 1], ds[k])
    <3>1. \A k \in 1..n : f[k - 1] \in S
      BY <2>2
    <3>. HIDE DEF step
    <3>2. QED
      BY <1>1, <2>1, <3>1 DEF Looped
  <2>4. f[0] = NewProbe(deps1)
    BY <2>1 DEF Looped
  <2>5. f = [k \in 0..n |-> f[k]]
    BY <2>1 DEF Looped
  <2>6. \A k \in 0..n : f[k] = IF k = 0 THEN NewProbe(deps1) ELSE Probed(f[k - 1], ds[k])
    BY <2>3, <2>4
  <2>7. QED
    BY <2>5, <2>6, Zenon
<1> DEFINE merged == CHOOSE f : f = Body(f)
<1>3. merged = Body(merged)
  <2>. HIDE DEF Body
  <2>1. QED
    BY <1>2
<1>4. /\ merged[0] = NewProbe(deps1)
      /\ \A k \in 1..n : merged[k] = Probed(merged[k - 1], ds[k])
  <2>. HIDE DEF merged
  <2>1. QED
    BY <1>3
<1>5. UpdateAll(deps1, ds) = merged[n]
  BY DEF UpdateAll
<1> HIDE DEF merged
<1> DEFINE X == {k \in 0..n : merged[k] \in S}
<1>6. 0 \in X
  BY <1>4
<1>7. ASSUME NEW k \in 1..n, k - 1 \in X
      PROVE  k \in X
  BY <1>4, <1>7
<1>8. n \in X
  <2>. HIDE DEF X
  <2>1. \A k \in 0..n : k \in X
    BY <1>6, <1>7, UpTo
  <2>2. QED
    BY <2>1
<1>9. QED
  BY <1>5, <1>8

\* Merging sound dependencies into a sound array gives a sound array.
LEMMA UpdateAllSound ==
    ASSUME NEW C, NEW deps1 \in SoundList(C), NEW ds \in SoundList(C)
    PROVE  UpdateAll(deps1, ds) \in Probe(C)
<1>1. NewProbe(deps1) \in Probe(C)
  BY DEF NewProbe, Probe
<1>2. Len(ds) \in Nat /\ \A k \in 1..Len(ds) : ds[k] \in Dependency
  BY DepListTypes DEF SoundList
<1>3. \A k \in 1..Len(ds) : ds[k].committed => ds[k].id \in C
  BY DEF SoundList
<1>4. QED
  BY <1>1, <1>2, <1>3, ProbedSound, UpdateAllStays

=============================================================================
