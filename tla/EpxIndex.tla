------------------------------- MODULE EpxIndex -------------------------------
(***************************************************************************)
(* The per-replica instance indexes and the searches over them:            *)
(* src/index.c and the wrappers of src/replica.c that run a search over    *)
(* the N indexes of a replica.                                             *)
(*                                                                         *)
(* db is the store of one replica: a function from Ids to instances, with  *)
(* status ABSENT for the ids no index holds.  Each search of the C code    *)
(* walks an index from the highest number down and keeps an interval tree  *)
(* of the keys that newer writes cover; here the visited instances and the *)
(* covered keys are given directly.  Spans are points, so a span is a key, *)
(* and the tree (llrb-interval, not part of the repository) is a set.      *)
(***************************************************************************)
EXTENDS EpxInstance, FiniteSets, FiniteSetsExt

CONSTANTS
    Command,    \* the commands clients propose
    NoCommand,  \* the null command pointer, also the command of a no-op
    Junk,       \* a command whose memory was never written
    Key,
    Spans,      \* the spans of each command, in their order
    Writers     \* the commands with writing = WRITE

ASSUME IndexAssumption ==
    /\ Spans \in [Command -> Seq(Key)]
    /\ \A c \in Command : Spans[c] # <<>>
    /\ Writers \subseteq Command
    /\ NoCommand \notin Command
    /\ Junk \notin Command \union {NoCommand}

KeysOf == [c \in Command |-> {Spans[c][k] : k \in DOMAIN Spans[c]}]

Shared(c1, c2) == KeysOf[c1] \intersect KeysOf[c2]

\* The last of the spans of c1 that overlap_sparse finds in c2.
LastShared(c1, c2) ==
    Spans[c1][Max({k \in DOMAIN Spans[c1] : Spans[c1][k] \in KeysOf[c2]})]

Interferes(c1, c2) ==
    /\ c1 \in Writers \/ c2 \in Writers
    /\ Shared(c1, c2) # {}

\* The instances of a store in the index of replica rc.
Index(db, rc) == {x \in Ids : x.replica = rc /\ db[x].status # ABSENT}

\* The part of S a downward walk sees before it meets an executed instance.
Live(db, S) ==
    {x \in S : \A z \in S : z.instance >= x.instance => db[z].status # EXECUTED}

\* The writes of S above x that share a key with cmd.
Above(db, S, cmd, x) ==
    {z \in S : /\ z.instance > x.instance
               /\ db[z].cmd \in Writers
               /\ Shared(db[z].cmd, cmd) # {}}

\* The keys in the tree when the walk is at x: the node that is inserted is a
\* variable of the loop's block (index.c:93), and the next one is built in the
\* same place, so the tree holds the span added last and nothing else.
Covered(db, S, cmd, x) ==
    LET above == Above(db, S, cmd, x)
    IN  {LastShared(db[z].cmd, cmd) :
            z \in {y \in above : \A o \in above : y.instance <= o.instance}}

\* A walk also ends below the write that completes the cover of cmd.
Visited(db, S, cmd) ==
    {x \in Live(db, S) : Covered(db, S, cmd, x) # KeysOf[cmd]}

\* Whether x adds to the cover, or, being a read, lies clear of it.
Uncovered(db, S, cmd, x) ==
    IF db[x].cmd \in Writers
    THEN ~(Shared(db[x].cmd, cmd) \subseteq Covered(db, S, cmd, x))
    ELSE Covered(db, S, cmd, x) = {}

-----------------------------------------------------------------------------
(* sd_for_command: the highest sequence number and the dependencies of a   *)
(* command, ignoring its own instance.                                     *)

Candidates(db, rc, ignore) == Index(db, rc) \ {ignore}

\* interferes() dereferences both commands: the search faults on a visited
\* instance without a command, and on any instance for a null command.
SearchFaults(db, cmd, ignore) ==
    \E rc \in Replicas :
        LET S == Candidates(db, rc, ignore)
        IN  IF cmd = NoCommand THEN Live(db, S) # {}
            ELSE \E x \in Visited(db, S, cmd) : db[x].cmd = NoCommand

Conflicts(db, rc, cmd, ignore) ==
    LET S == Candidates(db, rc, ignore)
    IN  IF cmd = NoCommand THEN {}
        ELSE {x \in Visited(db, S, cmd) : Interferes(db[x].cmd, cmd)}

DepOf(db, x) == [id |-> x, committed |-> IsCommitted(db[x].status)]

\* The k-th id of the walk: index by index, each from its highest number down.
WalkId(k) ==
    [replica |-> (k - 1) \div MaxInst, instance |-> MaxInst - ((k - 1) % MaxInst)]

\* The probe after the walk offered it each instance of found.
Walked(db, found, deps) ==
    LET probe[k \in 0..(N * MaxInst)] ==
            IF k = 0 THEN NewProbe(deps)
            ELSE IF WalkId(k) \in found THEN Probed(probe[k - 1], DepOf(db, WalkId(k)))
            ELSE probe[k - 1]
    IN  probe[N * MaxInst]

SdForCommand(db, cmd, ignore, deps) ==
    LET conflicts == UNION {Conflicts(db, rc, cmd, ignore) : rc \in Replicas}
        found     == {x \in conflicts :
                        Uncovered(db, Candidates(db, x.replica, ignore), cmd, x)}
        walked    == Walked(db, found, deps)
    IN  [seq     |-> Max({0} \union {db[x].seq : x \in conflicts}),
         deps    |-> walked.deps,
         updated |-> walked.updated]

-----------------------------------------------------------------------------
(* pac_conflict: the first instance that contradicts the attributes a      *)
(* recovering replica wants to pre-accept for id.                          *)

IsDepConflict(db, x, id, seq, deps) ==
    LET lt == LtDepReplica(x.replica, deps)
    IN  \/ x.instance > lt
        \/ /\ x.instance < lt
           /\ db[x].seq >= seq
           /\ x.replica # id.replica \/ db[x].status > PRE_ACCEPTED_EQ

\* The walk starts at the instance with id's own number in each index, and
\* visits nothing in an index that has no such number.
PacScope(db, rc, id, deps) ==
    LET S == Index(db, rc)
        start == {x \in S : x.instance = id.instance}
        below == {x \in S : x.instance <= id.instance}
    IN  IF start = {} THEN {}
        ELSE {x \in Live(db, below) :
                /\ ~HasKey(x, deps)
                /\ db[x].cmd # NoCommand
                /\ LtDepReplica(id.replica, db[x].deps) < id.instance}

PacFaults(db, id, cmd, deps) ==
    cmd = NoCommand /\ \E rc \in Replicas : PacScope(db, rc, id, deps) # {}

PreAcceptConflicts(db, id, cmd, seq, deps) ==
    UNION {LET S == PacScope(db, rc, id, deps)
           IN  {x \in Visited(db, S, cmd) :
                    /\ Interferes(db[x].cmd, cmd)
                    /\ Uncovered(db, S, cmd, x)
                    /\ IsDepConflict(db, x, id, seq, deps)} : rc \in Replicas}

\* The same order as a relation.
WalkOrder(x, y) ==
    \/ x.replica < y.replica
    \/ x.replica = y.replica /\ x.instance > y.instance

\* The conflicts pac_conflict can return: the first of the walk, if any.
PacConflict(db, id, cmd, seq, deps) ==
    LET all == PreAcceptConflicts(db, id, cmd, seq, deps)
    IN  IF cmd = NoCommand THEN {}
        ELSE {x \in all : \A y \in all \ {x} : WalkOrder(x, y)}

\* find_conflict of try_pre_accept, which looks at the instance itself first.
FindConflict(db, id, cmd, seq, deps) ==
    LET i == db[id]
    IN  IF i.cmd # NoCommand /\ i.status >= ACCEPTED THEN {id}
        ELSE IF i.cmd # NoCommand /\ i.seq = seq /\ i.deps = deps THEN {}
        ELSE PacConflict(db, id, cmd, seq, deps)

FindFaults(db, id, cmd, seq, deps) ==
    LET i == db[id]
    IN  /\ i.cmd = NoCommand \/ (i.status < ACCEPTED /\ ~(i.seq = seq /\ i.deps = deps))
        /\ PacFaults(db, id, cmd, deps)

-----------------------------------------------------------------------------
(* The remaining index operations.                                         *)

\* Variant: the executed instances are overlooked, as a search does.
MaxLocalLive(db, r) == Max({0} \union {x.instance : x \in Live(db, Index(db, r))})

\* max_local: the highest number of the replica's own index, 0 if empty.
MaxLocal(db, r) == Max({0} \union {x.instance : x \in Index(db, r)})

\* noop_dep: a no-op depends on the instance before it in its own index.
NoopDeps(db, id) ==
    LET below == {x \in Index(db, id.replica) : x.instance < id.instance}
    IN  IF below = {} THEN <<>>
        ELSE <<DepOf(db, CHOOSE x \in below : \A y \in below : y.instance <= x.instance)>>

\* Variant: the highest one of the executed prefix goes too.
ClearedToTheLast(db) ==
    {x \in Ids :
        /\ db[x].status # ABSENT
        /\ \A y \in Index(db, x.replica) :
              y.instance <= x.instance => db[y].status = EXECUTED}

\* clear: from each index, the executed instances below the highest one of
\* its executed prefix.
Cleared(db) ==
    LET Executed(x) == \A y \in Index(db, x.replica) :
                          y.instance <= x.instance => db[y].status = EXECUTED
    IN  {x \in Ids :
            /\ db[x].status # ABSENT
            /\ \E y \in Index(db, x.replica) : y.instance > x.instance /\ Executed(y)}

=============================================================================
