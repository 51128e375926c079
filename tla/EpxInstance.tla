----------------------------- MODULE EpxInstance -----------------------------
(***************************************************************************)
(* The data of one EPaxos instance and the pure helpers on it:             *)
(* src/instance.c, src/instance.h and the state codes of src/message.h.    *)
(*                                                                         *)
(* A dependency array of MAX_DEPS slots is modelled by the sequence of its *)
(* used slots: update_deps, the only writer of single slots, fills the     *)
(* first free one, so the used slots are always a prefix of the array.     *)
(*                                                                         *)
(* A definition headed "Variant" here or in a later module is the one that *)
(* follows it with one slip in it; nothing uses it.  The properties tell   *)
(* the two apart.                                                          *)
(***************************************************************************)
EXTENDS Integers, Sequences

CONSTANTS
    N,          \* number of replicas, N of include/epx.h
    MAX_DEPS,   \* slots of a dependency array, MAX_DEPS of include/epx.h
    MaxInst     \* bound: instance numbers a replica hands out

\* A ballot keeps the replica in its low four bits, hence N <= 16.
ASSUME InstanceAssumption ==
    /\ N \in 2..16
    /\ MAX_DEPS \in Nat \ {0}
    /\ MaxInst \in Nat \ {0}

Replicas == 0..(N - 1)

\* Instance numbers start at 1: number 0 is an empty slot.
Ids == [replica : Replicas, instance : 1..MaxInst]

Dependency == [id : Ids, committed : BOOLEAN]

DepList == {deps \in Seq(Dependency) : Len(deps) <= MAX_DEPS}

-----------------------------------------------------------------------------
(* enum state, message.h. ABSENT stands for an instance no index holds.    *)

ABSENT            == 0
NONE              == 1
PRE_ACCEPTED      == 2
PRE_ACCEPTED_EQ   == 4
ACCEPTED          == 8
PREPARING         == 16
TRY_PRE_ACCEPTING == 32
COMMITTED         == 64
EXECUTED          == 128

State == {NONE, PRE_ACCEPTED, PRE_ACCEPTED_EQ, ACCEPTED, COMMITTED, EXECUTED}

RecoveryState == {NONE, PREPARING, TRY_PRE_ACCEPTING}

-----------------------------------------------------------------------------
(* Ballots are a uint8_t: (epoch << 4) | replica.                          *)

Ballot == 0..255

\* Variant: the replica is left out of the ballot.
BallotWithoutReplica(epoch, r) == (epoch * 16) % 256

UniqueBallot(epoch, r) == (epoch * 16 + r) % 256

LargerBallot(ballot, r) == UniqueBallot((ballot \div 16) + 1, r)

IsInitialBallot(ballot) == ballot \div 16 = 0

\* The counters of a tracker are a uint8_t too.
Inc(counter) == (counter + 1) % 256

-----------------------------------------------------------------------------
(* Dependency arrays.                                                      *)

First(S) == CHOOSE k \in S : \A j \in S : k <= j

\* Variant: only the first slot is looked at.
HeldInFirstSlot(deps, id) == {k \in 1..Len(deps) : k = 1 /\ deps[k].id = id}

\* The slots that hold id.
Holding(deps, id) == {k \in 1..Len(deps) : deps[k].id = id}

\* Variants: a new entry never moves up; only the last slot is compared.
NeverSmaller(deps, d)    == {k \in 1..Len(deps) : FALSE}
SmallerInLastSlot(deps, d) ==
    {k \in 1..Len(deps) : k = Len(deps) /\ deps[k].id.instance < d.id.instance}

\* The slots that hold a smaller number than d.
Smaller(deps, d) == {k \in 1..Len(deps) : deps[k].id.instance < d.id.instance}

\* Variant: the entry at k is overwritten, nothing moves.
OverwriteAt(deps, k, d) == [deps EXCEPT ![k] = d]

\* The slots from k on move up by one, but never into a free slot: the last
\* used slot is overwritten whether or not the array is full.
ShiftIn(deps, k, d) ==
    [j \in 1..Len(deps) |->
        IF j < k THEN deps[j] ELSE IF j = k THEN d ELSE deps[j - 1]]

\* Variants: a full array still grows; a held entry takes whatever flag comes.
UpdateDepsUnbounded(deps, d) ==
    [deps |-> IF Holding(deps, d.id) = {} THEN Append(deps, d) ELSE deps,
     updated |-> Holding(deps, d.id) = {}]

UpdateDepsFlagAsItComes(deps, d) ==
    [deps |-> IF Holding(deps, d.id) # {} THEN [deps EXCEPT ![First(Holding(deps, d.id))] = d]
              ELSE IF Len(deps) < MAX_DEPS THEN Append(deps, d) ELSE deps,
     updated |-> TRUE]

\* update_deps: the new list and whether a change is signalled.
UpdateDeps(deps, d) ==
    LET held == Holding(deps, d.id)
        k    == First(held)
    IN  CASE held # {} /\ (deps[k].committed \/ ~d.committed) ->
               [deps |-> deps, updated |-> FALSE]
          [] held # {} /\ ~deps[k].committed /\ d.committed ->
               [deps |-> [deps EXCEPT ![k] = d], updated |-> TRUE]
          [] held = {} /\ Smaller(deps, d) # {} ->
               [deps |-> ShiftIn(deps, First(Smaller(deps, d)), d), updated |-> TRUE]
          [] held = {} /\ Smaller(deps, d) = {} /\ Len(deps) < MAX_DEPS ->
               [deps |-> Append(deps, d), updated |-> TRUE]
          [] OTHER -> [deps |-> deps, updated |-> FALSE]

\* A probe (struct seq_deps_probe) before its first update_deps and after one
\* more: its array, and whether any call has signalled a change.
NewProbe(deps) == [deps |-> deps, updated |-> FALSE]

Probed(p, d) ==
    LET u == UpdateDeps(p.deps, d)
    IN  [deps |-> u.deps, updated |-> p.updated \/ u.updated]

\* update_deps for each member of a sequence.
UpdateAll(deps, ds) ==
    LET merged[n \in 0..Len(ds)] ==
            IF n = 0 THEN NewProbe(deps) ELSE Probed(merged[n - 1], ds[n])
    IN  merged[Len(ds)]

\* Variants: an accepted, a pre-accepted instance counts as committed.
AcceptedIsCommitted(status)    == status >= ACCEPTED
PreAcceptedIsCommitted(status) == status >= PRE_ACCEPTED

IsCommitted(status) == status >= COMMITTED

\* Variant: only an executed instance is closed.
ClosedOnceExecuted(status) == status = EXECUTED

\* is_state with COMMITTED | EXECUTED.
Closed(status) == status \in {COMMITTED, EXECUTED}

\* Variant: pre_accept marks an instance only if its search changed something.
MarkedIfUpdated(updated) == IF updated THEN PRE_ACCEPTED ELSE NONE

\* The status pre_accept gives an instance.
PreAcceptedAs(updated) == IF updated THEN PRE_ACCEPTED ELSE PRE_ACCEPTED_EQ

HasUncommittedDeps(deps) == \E k \in 1..Len(deps) : ~deps[k].committed

HasKey(id, deps) == Holding(deps, id) # {}

\* The number of the first dependency on replica r, 0 if there is none.
LtDepReplica(r, deps) ==
    LET S == {k \in 1..Len(deps) : deps[k].id.replica = r}
    IN  IF S = {} THEN 0 ELSE deps[First(S)].id.instance

=============================================================================
