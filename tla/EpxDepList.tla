------------------------------ MODULE EpxDepList ------------------------------
(***************************************************************************)
(* A dependency array on its own: a replica that merges the dependencies   *)
(* its own index and its peers report into one array, in any order.  Every *)
(* caller of update_deps starts from an empty array or from one that       *)
(* update_deps built, so the machine reaches every array a caller passes   *)
(* it that was not received over the wire.                                 *)
(***************************************************************************)
EXTENDS EpxInstance

VARIABLES
    deps,   \* the array
    seen    \* history: every dependency offered so far

vars == <<deps, seen>>

Init ==
    /\ deps = <<>>
    /\ seen = {}

\* One call of update_deps.
Offer(d) ==
    /\ deps' = UpdateDeps(deps, d).deps
    /\ seen' = seen \union {d}

Next == \E d \in Dependency : Offer(d)

Spec == Init /\ [][Next]_vars

-----------------------------------------------------------------------------

\* The array and its history keep their types; the array never outgrows its
\* slots (DEPSIZE bytes, instance.h:12).
DepsTypeOK ==
    /\ deps \in DepList
    /\ seen \subseteq Dependency

\* The numbers never increase along the array ("we know they are sorted
\* a > b", instance.c:113, relied on by equal_deps, lt_dep_replica and
\* has_uncommitted_deps).
Sorted ==
    \A j, k \in 1..Len(deps) : j < k => deps[j].id.instance >= deps[k].id.instance

\* No instance occupies two slots: update_deps finds the held one first
\* (instance.c:146-154), so a commit flag is never split over two entries.
NoDuplicates ==
    \A j, k \in 1..Len(deps) : deps[j].id = deps[k].id => j = k

\* The highest number offered is never lost: whatever is dropped, some
\* entry of the head's number stays, so the conflict an instance must wait
\* for first is always in its array.
HeadIsNewest ==
    \A d \in seen : Len(deps) > 0 /\ deps[1].id.instance >= d.id.instance

\* A step never clears the committed flag of an entry it keeps
\* (instance.c:148: the flag is only ever raised).
CommitKept ==
    [][\A k \in 1..Len(deps) : \A j \in 1..Len(deps') :
          deps'[j].id = deps[k].id /\ deps[k].committed => deps'[j].committed]_vars

\* A step loses at most one entry, the last one: what the array forgets is
\* always the entry with the smallest number (instance.c:142, "replace
\* oldest").
OnlyOldestLost ==
    [][\A k \in 1..Len(deps) :
          (\A j \in 1..Len(deps') : deps'[j].id # deps[k].id) => k = Len(deps)]_vars

\* instance.c:141: "add to free slot or replace oldest": while the array has
\* a free slot, adding a dependency never displaces another one.
FreeSlotKeepsAll ==
    [][Len(deps) < MAX_DEPS =>
          \A k \in 1..Len(deps) : \E j \in 1..Len(deps') : deps'[j].id = deps[k].id]_vars

=============================================================================
