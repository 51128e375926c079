----------------------------- MODULE MCEpxReplica -----------------------------
(***************************************************************************)
(* Instances of EpxReplica for TLC.  Three nodes, as include/epx.h sets N. *)
(***************************************************************************)
EXTENDS EpxReplica

CONSTANTS w1, w2, rd,   \* two writes and a read
          x, y          \* keys

\* w2 meets w1 on x and rd on y.
MCSpans == [c \in Command |-> CASE c = w2 -> <<x, y>> [] c = rd -> <<y>> [] OTHER -> <<x>>]

\* node_io.quorum is zeroed with the node and update_quorum never changes it,
\* because the latency of every connection stays 0 (io.c:162,220).
ZeroQuorum == [r \in Replicas |-> [s \in 1..N |-> 0]]

\* Every peer is connected; nobody is connected to itself.
FullMesh == [r \in Replicas |-> Replicas \ {r}]

\* Which timers fire: none, or one at the replicas named.
NoTimeouts == [r \in Replicas |-> 0]
At(t0, t1, t2) == [r \in Replicas |-> CASE r = 0 -> t0 [] r = 1 -> t1 [] OTHER -> t2]
T111 == At(1, 1, 1)

(***************************************************************************)
(* The states from which timeouts, recovery and clearing are explored.     *)
(* The program reaches each of them; going there from Init takes TLC too   *)
(* long.  What is not in net was lost.  The timeouts of a replica whose    *)
(* count starts at its bound do not fire.                                  *)
(***************************************************************************)
Id1 == [replica |-> 1, instance |-> 1]
Id2 == [replica |-> 2, instance |-> 1]

Running(under_way) ==
    /\ net = under_way
    /\ io = [r \in Replicas |-> TRUE]
    /\ up = [r \in Replicas |-> TRUE]
    /\ execq = [r \in Replicas |-> {}]
    /\ dh = [r \in Replicas |-> [id \in Ids |-> NoReplica]]

\* Nothing has happened; the fast-path timeout of node 1 may fire.
FreshInit ==
    /\ Running(EmptyBag)
    /\ inst = [r \in Replicas |-> [id \in Ids |-> AbsentInstance]]
    /\ lt = [r \in Replicas |-> [id \in Ids |-> NoTracker]]
    /\ timer = [r \in Replicas |-> [id \in Ids |-> "none"]]
    /\ proposed = [id \in Ids |-> NoCommand]
    /\ decided = [r \in Replicas |-> {}]
    /\ timeouts = At(1, 0, 1)

Preaccepted1(deps, seq, status) ==
    [status |-> status, ballot |-> 0, cmd |-> w1, seq |-> seq, deps |-> deps]
Preaccepted2(seq, status) ==
    [status |-> status, ballot |-> 0, cmd |-> w2, seq |-> seq, deps |-> <<>>]

\* Node 2 proposed w2 and node 1 w1, node 0 pre-accepted both, w1 after w2,
\* and every answer of node 0 is lost.
AfterW2 == Preaccepted1(<<[id |-> Id2, committed |-> FALSE]>>, 2, PRE_ACCEPTED)

BothProposed ==
    /\ proposed = [id \in Ids |-> CASE id = Id1 -> w1 [] id = Id2 -> w2 [] OTHER -> NoCommand]
    /\ decided = [r \in Replicas |-> {}]

LeaderTracker(r, id) ==
    IF r # 0 /\ id.replica = r THEN [NewTracker EXCEPT !.equal = TRUE] ELSE NoTracker

\* All timers are armed; those of node 1 and of one other node may fire.
LostAnswersInit ==
    /\ Running(EmptyBag)
    /\ inst = [r \in Replicas |-> [id \in Ids |->
            CASE r = 1 /\ id = Id1 -> Preaccepted1(<<>>, 1, PRE_ACCEPTED)
              [] r = 2 /\ id = Id2 -> Preaccepted2(1, PRE_ACCEPTED)
              [] r = 0 /\ id = Id1 -> AfterW2
              [] r = 0 /\ id = Id2 -> Preaccepted2(1, PRE_ACCEPTED_EQ)
              [] OTHER -> AbsentInstance]]
    /\ lt = [r \in Replicas |-> [id \in Ids |-> LeaderTracker(r, id)]]
    /\ timer = [r \in Replicas |-> [id \in Ids |->
            CASE r # 0 /\ id.replica = r -> "fast"
              [] r = 0 /\ id.replica # 0 -> "slow"
              [] OTHER -> "none"]]
    /\ BothProposed
    /\ timeouts \in {At(0, 0, 1), At(1, 0, 0)}

\* The same, after node 0 has begun to recover Id1 under ballot b; the answer
\* of node 1 is lost, that of node 2, which knew nothing of Id1, is under way.
\* The timers of node 2 may fire.
BegunInit(b) ==
    /\ Running(SetToBag({[type |-> "PREPARE_REPLY", from |-> 2, to |-> 0, id |-> Id1,
                          ballot |-> b, nack |-> FALSE, cmd |-> NoCommand, seq |-> 0,
                          deps |-> <<>>, status |-> NONE]}))
    /\ inst = [r \in Replicas |-> [id \in Ids |->
            CASE r = 1 /\ id = Id1 -> [Preaccepted1(<<>>, 1, PRE_ACCEPTED) EXCEPT !.ballot = b]
              [] r = 2 /\ id = Id2 -> Preaccepted2(1, PRE_ACCEPTED)
              [] r = 0 /\ id = Id1 -> [AfterW2 EXCEPT !.ballot = b]
              [] r = 0 /\ id = Id2 -> Preaccepted2(1, PRE_ACCEPTED_EQ)
              [] r = 2 /\ id = Id1 -> [NewInstance EXCEPT !.ballot = b]
              [] OTHER -> AbsentInstance]]
    /\ lt = [r \in Replicas |-> [id \in Ids |->
            IF r = 0 /\ id = Id1
            THEN [NewTracker EXCEPT !.recovery_status = PREPARING,
                                    !.ri = [status |-> PRE_ACCEPTED, cmd |-> w1, seq |-> 2,
                                            deps |-> AfterW2.deps, pre_accept_count |-> 1,
                                            leader_replied |-> FALSE]]
            ELSE LeaderTracker(r, id)]]
    /\ timer = [r \in Replicas |-> [id \in Ids |->
            CASE r # 0 /\ id.replica = r -> "fast"
              [] (r = 0 /\ id.replica # 0) \/ (r = 2 /\ id = Id1) -> "slow"
              [] OTHER -> "none"]]
    /\ BothProposed
    /\ timeouts = At(1, 1, 0)

\* Node 2 committed and executed w2, and so did node 0, the only node that
\* COMMITs are sent to; the COMMIT came without the seq.  Node 1 is about to
\* propose; nodes 0 and 2 may then recover its instance beside it.
DecidedInit ==
    /\ Running(EmptyBag)
    /\ inst = [r \in Replicas |-> [id \in Ids |->
            CASE r = 0 /\ id = Id2 -> Preaccepted2(0, EXECUTED)
              [] r = 2 /\ id = Id2 -> Preaccepted2(1, EXECUTED)
              [] OTHER -> AbsentInstance]]
    /\ lt = [r \in Replicas |-> [id \in Ids |->
            IF r = 2 /\ id = Id2
            THEN [NewTracker EXCEPT !.equal = TRUE, !.pre_accept_oks = 1] ELSE NoTracker]]
    /\ timer = [r \in Replicas |-> [id \in Ids |-> "none"]]
    /\ proposed = [id \in Ids |-> IF id = Id2 THEN w2 ELSE NoCommand]
    /\ decided = [r \in Replicas |-> IF r = 1 THEN {} ELSE {Id2}]
    /\ timeouts = At(0, 1, 0)

\* Ballot 16 is the first a recovery of node 0 takes, 240 the last.
RecoverySpec ==
    /\ FreshInit \/ LostAnswersInit \/ BegunInit(16) \/ BegunInit(240) \/ DecidedInit
    /\ [][Next]_vars

-----------------------------------------------------------------------------
(* Three numbers of one leader, for the walks down an index.               *)

Nr(n) == [replica |-> 1, instance |-> n]

SentBy1(type, id, cmd, seq, deps) ==
    [type |-> type, from |-> 1, to |-> 0, id |-> id, ballot |-> 0, nack |-> FALSE,
     cmd |-> cmd, seq |-> seq, deps |-> deps, status |-> NONE]

Attributed(status, c, seq, deps) ==
    [status |-> status, ballot |-> 0, cmd |-> c, seq |-> seq, deps |-> deps]

Answered == [NewTracker EXCEPT !.equal = TRUE, !.pre_accept_oks = 1]

\* What phase1 gives the second command of node 1, d.
First1(c) ==
    [id \in Ids |-> IF id = Nr(1) THEN Attributed(COMMITTED, c, 1, <<>>) ELSE AbsentInstance]
Second1(c, d) ==
    LET p == SdForCommand(First1(c), d, Nr(2), <<>>)
    IN  Attributed(PRE_ACCEPTED, d, p.seq + 1, p.deps)

\* Node 1 committed its first command and node 0 will learn of it, the second
\* is on its way to node 0 and the third not proposed.  No timeout fires.
GrowingInit ==
    \E c, d \in Command :
        /\ c # d
        /\ Running(SetToBag({SentBy1("COMMIT", Nr(1), Junk, 0, <<>>),
                             SentBy1("PRE_ACCEPT", Nr(2), d, Second1(c, d).seq,
                                     Second1(c, d).deps)}))
        /\ inst = [r \in Replicas |-> [id \in Ids |->
                CASE r = 1 /\ id = Nr(1) -> First1(c)[id]
                  [] r = 1 /\ id = Nr(2) -> Second1(c, d)
                  [] r = 0 /\ id = Nr(1) -> Attributed(PRE_ACCEPTED_EQ, c, 1, <<>>)
                  [] OTHER -> AbsentInstance]]
        /\ lt = [r \in Replicas |-> [id \in Ids |->
                CASE r = 1 /\ id = Nr(1) -> Answered
                  [] r = 1 /\ id = Nr(2) ->
                        [NewTracker EXCEPT !.equal = (Second1(c, d).deps = <<>>)]
                  [] OTHER -> NoTracker]]
        /\ timer = [r \in Replicas |-> [id \in Ids |->
                CASE r = 0 /\ id = Nr(1) -> "slow"
                  [] r = 1 /\ id = Nr(2) -> "fast"
                  [] OTHER -> "none"]]
        /\ proposed = [id \in Ids |->
                CASE id = Nr(1) -> c [] id = Nr(2) -> d [] OTHER -> NoCommand]
        /\ decided = [r \in Replicas |-> IF r = 1 THEN {Nr(1)} ELSE {}]
        /\ timeouts = T111

\* Nodes 0 and 1 executed the first two commands of node 1, one after the
\* other, and node 0 has their seqs from COMMITs without one; a second copy of
\* the first one's COMMIT and of its PRE_ACCEPT are still queued.  Node 0 never
\* heard of the third, which node 1 began to recover; node 2 registered it for
\* that PREPARE and its answer is lost.  The timer of node 2 may fire: it finds
\* no command, and the no-op it proposes makes node 0 clear its indexes.
ClearingInit ==
    \E c, d, e \in Command :
        /\ Cardinality({c, d, e}) = 3
        /\ Running(SetToBag({SentBy1("COMMIT", Nr(1), Junk, 0, <<>>),
                             SentBy1("PRE_ACCEPT", Nr(1), c, 1, <<>>)}))
        /\ inst = [r \in Replicas |-> [id \in Ids |->
                CASE r # 2 /\ id = Nr(1) -> Attributed(EXECUTED, c, r, <<>>)
                  [] r # 2 /\ id = Nr(2) -> Attributed(EXECUTED, d, r, <<>>)
                  [] r = 1 /\ id = Nr(3) ->
                        [Attributed(PRE_ACCEPTED, e, 1, <<>>) EXCEPT !.ballot = 17]
                  [] r = 2 /\ id = Nr(3) -> [NewInstance EXCEPT !.ballot = 17]
                  [] OTHER -> AbsentInstance]]
        /\ lt = [r \in Replicas |-> [id \in Ids |->
                CASE r = 1 /\ id \in {Nr(1), Nr(2)} -> Answered
                  [] r = 1 /\ id = Nr(3) ->
                        [NewTracker EXCEPT
                            !.equal = TRUE, !.recovery_status = PREPARING,
                            !.ri = [status |-> PRE_ACCEPTED, cmd |-> e, seq |-> 1, deps |-> <<>>,
                                    pre_accept_count |-> 1, leader_replied |-> TRUE]]
                  [] OTHER -> NoTracker]]
        /\ timer = [r \in Replicas |-> [id \in Ids |->
                IF r # 0 /\ id = Nr(3) THEN "slow" ELSE "none"]]
        /\ proposed = [id \in Ids |->
                CASE id = Nr(1) -> c [] id = Nr(2) -> d [] id = Nr(3) -> e [] OTHER -> NoCommand]
        /\ decided = [r \in Replicas |-> IF r = 2 THEN {} ELSE {Nr(1), Nr(2)}]
        /\ timeouts = At(1, 1, 0)

NumbersSpec == (GrowingInit \/ ClearingInit) /\ [][Next]_vars

=============================================================================
