------------------------------ MODULE EpxReplica ------------------------------
(***************************************************************************)
(* The replica protocol: src/epaxos.c, with the parts of src/replica.c it  *)
(* calls.  One replica is one thread that takes a tick, a peer's message   *)
(* or a client's command and runs one handler to its end, so a handler is  *)
(* one action.  A handler computes from three records of the instance it   *)
(* works on: i (struct instance), t (its leader_tracker) and m (the        *)
(* message, which handlers overwrite and send back), and ends in Finish.   *)
(*                                                                         *)
(* Messages are in a bag and received in any order: a peer's messages      *)
(* arrive through its connection, a reconnection drops what is queued and  *)
(* opens a second socket beside the one still being drained.  A message    *)
(* that is lost is one that is never received.                             *)
(***************************************************************************)
EXTENDS EpxMessage, TLC

CONSTANTS
    Leaders,    \* bound: the replicas whose clients propose
    Executors,  \* bound: the replicas whose executor gets to run
    MaxTimeouts \* bound: timeouts that fire at each replica

ASSUME ReplicaAssumption ==
    /\ Leaders \subseteq Replicas
    /\ Executors \subseteq Replicas
    /\ MaxTimeouts \in [Replicas -> Nat]

VARIABLES
    inst,       \* inst[r][id]: the instance in r's index
    lt,         \* lt[r][id]: its leader_tracker
    timer,      \* timer[r][id]: which timeout is pending
    net,        \* bag of messages under way
    io,         \* io[r]: whether r's io_reader still runs
    up,         \* up[r]: FALSE once r's process dereferenced a bad pointer
    execq,      \* execq[r]: instances handed to the executor
    dh,         \* dh[r]: the deferred table, NoReplica where it has no entry
    proposed,   \* history: the command proposed as each id
    decided,    \* history: decided[r], what r ever committed
    timeouts    \* timeouts[r]: those that fired at r so far

vars == <<inst, lt, timer, net, io, up, execq, dh, proposed, decided, timeouts>>

\* What only a proposal and only a timeout change.
history == <<proposed, timeouts>>

NoReplica == N

-----------------------------------------------------------------------------
(* Types and initial records.                                              *)

Instance ==
    [status : State \union {ABSENT}, ballot : Ballot,
     cmd : Command \union {NoCommand}, seq : Seqs, deps : DepList]

RecoveryInstance ==
    [status : State, cmd : Command \union {NoCommand}, seq : Seqs,
     deps : DepList, pre_accept_count : Ballot, leader_replied : BOOLEAN]

Tracker ==
    [on : BOOLEAN, pre_accept_oks : Ballot, accept_oks : Ballot,
     prepare_oks : Ballot, try_pre_accept_oks : Ballot, nacks : Ballot,
     equal : BOOLEAN, max_ballot : Ballot, recovery_status : RecoveryState,
     quorum : SUBSET Replicas, ri : RecoveryInstance]

Timer == {"none", "fast", "slow"}

NewInstance == [status |-> NONE, ballot |-> 0, cmd |-> NoCommand, seq |-> 0, deps |-> <<>>]

AbsentInstance == [NewInstance EXCEPT !.status = ABSENT]

\* calloc, then the two states; on is FALSE for the null tracker pointer.
NoTracker ==
    [on |-> FALSE, pre_accept_oks |-> 0, accept_oks |-> 0, prepare_oks |-> 0,
     try_pre_accept_oks |-> 0, nacks |-> 0, equal |-> FALSE, max_ballot |-> 0,
     recovery_status |-> NONE, quorum |-> {},
     ri |-> [status |-> NONE, cmd |-> NoCommand, seq |-> 0, deps |-> <<>>,
             pre_accept_count |-> 0, leader_replied |-> FALSE]]

\* Variant: the tracker pointer stays null.
TrackerLeftOut == NoTracker

NewTracker == [NoTracker EXCEPT !.on = TRUE]

Init ==
    /\ inst = [r \in Replicas |-> [id \in Ids |-> AbsentInstance]]
    /\ lt = [r \in Replicas |-> [id \in Ids |-> NoTracker]]
    /\ timer = [r \in Replicas |-> [id \in Ids |-> "none"]]
    /\ net = EmptyBag
    /\ io = [r \in Replicas |-> TRUE]
    /\ up = [r \in Replicas |-> TRUE]
    /\ execq = [r \in Replicas |-> {}]
    /\ dh = [r \in Replicas |-> [id \in Ids |-> NoReplica]]
    /\ proposed = [id \in Ids |-> NoCommand]
    /\ decided = [r \in Replicas |-> {}]
    /\ timeouts = [r \in Replicas |-> 0]

-----------------------------------------------------------------------------
(* How a handler ends.                                                     *)

\* r takes used from the network and hands ms to its io thread.
Send(r, used, ms) ==
    IF ~io[r] THEN /\ net' = net (-) used
                   /\ UNCHANGED io
    ELSE CASE ms = <<>> ->
                 /\ net' = net (-) used
                 /\ UNCHANGED io
           [] Len(ms) = 1 ->
                 /\ net' = (net (-) used) (+) Copies(r, ms[1])
                 /\ io' = [io EXCEPT ![r] = IoSurvives(r, ms[1])]
           [] Len(ms) = 2 /\ IoSurvives(r, ms[1]) ->
                 /\ net' = (net (-) used) (+) Copies(r, ms[1]) (+) Copies(r, ms[2])
                 /\ io' = [io EXCEPT ![r] = IoSurvives(r, ms[2])]
           [] Len(ms) = 2 /\ ~IoSurvives(r, ms[1]) ->
                 /\ net' = (net (-) used) (+) Copies(r, ms[1])
                 /\ io' = [io EXCEPT ![r] = FALSE]

\* The records of id become i and t, its timer tm, and ms is sent; the ids
\* in gone are destroyed.  The guard is the bound MaxSeq.
FinishClearing(r, id, used, i, t, tm, ms, gone) ==
    /\ i.seq \in Seqs
    /\ \A k \in 1..Len(ms) : ms[k].seq \in Seqs
    /\ inst' = [inst EXCEPT ![r] = [x \in Ids |->
                    IF x \in gone THEN AbsentInstance ELSE IF x = id THEN i ELSE @[x]]]
    /\ lt' = [lt EXCEPT ![r] = [x \in Ids |->
                    IF x \in gone THEN NoTracker ELSE IF x = id THEN t ELSE @[x]]]
    /\ timer' = [timer EXCEPT ![r][id] = tm]
    /\ Send(r, used, ms)

Finish(r, id, used, i, t, tm, ms) ==
    /\ FinishClearing(r, id, used, i, t, tm, ms, {})
    /\ UNCHANGED <<up, execq, dh, decided>>

\* A null pointer, or one to freed memory, is dereferenced: the process is
\* gone with all its state.
Crash(r, used) ==
    /\ up' = [up EXCEPT ![r] = FALSE]
    /\ net' = net (-) used
    /\ UNCHANGED <<inst, lt, timer, io, execq, dh, decided>>

-----------------------------------------------------------------------------
(* What step() finds or registers for the id of a message.                 *)

\* The messages of a type that r's thread can take next.
Arrived(r, type) == {e \in BagToSet(net) : up[r] /\ e.to = r /\ e.type = type}

Known(r, id) == inst[r][id].status # ABSENT

Found(r, id) == IF Known(r, id) THEN inst[r][id] ELSE NewInstance

\* Variant: step() registers an instance without a timeout.
ArmedIfKnown(r, id) == IF Known(r, id) THEN timer[r][id] ELSE "none"

Armed(r, id) == IF Known(r, id) THEN timer[r][id] ELSE "slow"

\* A handler that returns at one of its first guards.
Ignore(r, e) ==
    Finish(r, e.id, SetToBag({e}), Found(r, e.id), lt[r][e.id], Armed(r, e.id), <<>>)

\* A handler that only answers.
Answer(r, e, m) ==
    Finish(r, e.id, SetToBag({e}), Found(r, e.id), lt[r][e.id], Armed(r, e.id), <<m>>)

-----------------------------------------------------------------------------
(* Helpers that handlers end in.                                           *)

\* phase1 computes the attributes of m.cmd, pre-accepts it and asks the others.
Phase1Instance(r, id, m) ==
    LET p == SdForCommand(inst[r], m.cmd, id, <<>>)
    IN  [status |-> PRE_ACCEPTED, ballot |-> m.ballot, cmd |-> m.cmd,
         seq |-> p.seq + 1, deps |-> p.deps]

Phase1Tracker(r, id, t, m) ==
    [t EXCEPT !.ri.status = NONE,
              !.equal = ~SdForCommand(inst[r], m.cmd, id, <<>>).updated]

Phase1Message(i, m) ==
    [m EXCEPT !.type = "PRE_ACCEPT", !.seq = i.seq, !.deps = i.deps]

Phase1(r, id, used, t, m) ==
    \/ /\ SearchFaults(inst[r], m.cmd, id)
       /\ Crash(r, used)
    \/ /\ ~SearchFaults(inst[r], m.cmd, id)
       /\ LET i == Phase1Instance(r, id, m)
          IN  Finish(r, id, used, i, Phase1Tracker(r, id, t, m), "fast",
                     <<Phase1Message(i, m)>>)

\* recover starts over with a higher ballot; the counters of t keep counting.
Recover(r, id, used, i, t0, m) ==
    LET t1 == IF t0.on THEN t0 ELSE NewTracker
        t2 == IF i.status = ACCEPTED THEN [t1 EXCEPT !.max_ballot = i.ballot]
              ELSE IF i.status = PRE_ACCEPTED
                   THEN [t1 EXCEPT !.ri.pre_accept_count = 1,
                                   !.ri.leader_replied = (r = id.replica)]
              ELSE t1
        t3 == [t2 EXCEPT !.recovery_status = PREPARING,
                         !.ri.status = i.status, !.ri.cmd = i.cmd,
                         !.ri.seq = i.seq, !.ri.deps = i.deps]
        b  == LargerBallot(i.ballot, r)
    IN  Finish(r, id, used, [i EXCEPT !.ballot = b], t3, "slow",
               <<[m EXCEPT !.type = "PREPARE", !.ballot = b, !.cmd = i.cmd, !.seq = i.seq]>>)

\* do_commit: the COMMIT carries the data of m, not of i, and the command is
\* dereferenced after both sends.
DoCommit(r, id, used, i, t, m) ==
    /\ FinishClearing(r, id, used, [i EXCEPT !.status = COMMITTED], t, "none",
                      <<[m EXCEPT !.type = "COMMIT"]>>, {})
    /\ execq' = [execq EXCEPT ![r] = @ \union {id}]
    /\ decided' = [decided EXCEPT ![r] = @ \union {id}]
    /\ up' = [up EXCEPT ![r] = i.cmd # NoCommand]
    /\ UNCHANGED dh

-----------------------------------------------------------------------------
(* Proposals and the first phase.                                          *)

\* A client's command as a message; its ballot is 0.
ProposalOf(r, id, c) ==
    [type |-> "PHASE1", from |-> r, to |-> r, id |-> id, ballot |-> 0, nack |-> FALSE,
     cmd |-> c, seq |-> 0, deps |-> <<>>, status |-> NONE]

\* propose: the next number of r's own index.
Propose(r) ==
    \E c \in Command, n \in 1..MaxInst :
        LET id == [replica |-> r, instance |-> n]
        IN  /\ up[r]
            /\ n = MaxLocal(inst[r], r) + 1
            /\ \A x \in Ids : proposed[x] # c       \* commands are distinct
            /\ proposed' = [proposed EXCEPT ![id] = c]
            /\ Phase1(r, id, EmptyBag, NewTracker, ProposalOf(r, id, c))
            /\ UNCHANGED timeouts

\* pre_accept: merge the leader's attributes with the replica's own.
PreAccept(r, e) ==
    \E m \in Decode(e, inst[r]) :
        LET id   == e.id
            i    == Found(r, id)
            p    == SdForCommand(inst[r], m.cmd, id, i.deps)
            nseq == Max({m.seq, p.seq + 1})
            i2   == [status |-> PreAcceptedAs(p.updated),
                     ballot |-> m.ballot, cmd |-> m.cmd, seq |-> nseq, deps |-> p.deps]
            db   == [inst[r] EXCEPT ![id] = i2]
            gone == IF m.cmd = NoCommand THEN Cleared(db) ELSE {}
            full == \/ nseq # m.seq \/ p.updated
                    \/ HasUncommittedDeps(i2.deps) \/ ~IsInitialBallot(m.ballot)
            ans  == IF full THEN [m EXCEPT !.type = "PRE_ACCEPT_REPLY",
                                           !.seq = nseq, !.deps = i2.deps]
                    ELSE [m EXCEPT !.type = "PRE_ACCEPT_OK"]
        IN  /\ UNCHANGED history
            /\ \/ /\ i.status \notin {NONE, PRE_ACCEPTED}
                  /\ Ignore(r, e)
               \/ /\ i.status \in {NONE, PRE_ACCEPTED}
                  /\ Stale(m, i)
                  /\ Answer(r, e, [m EXCEPT !.type = "PRE_ACCEPT_REPLY",
                                            !.ballot = i.ballot, !.cmd = i.cmd,
                                            !.seq = i.seq, !.deps = i.deps, !.nack = TRUE])
               \/ /\ i.status \in {NONE, PRE_ACCEPTED}
                  /\ ~Stale(m, i)
                  /\ SearchFaults(inst[r], m.cmd, id)
                  /\ Crash(r, SetToBag({e}))
               \/ /\ i.status \in {NONE, PRE_ACCEPTED}
                  /\ ~Stale(m, i)
                  /\ ~SearchFaults(inst[r], m.cmd, id)
                  /\ FinishClearing(r, id, SetToBag({e}), i2, lt[r][id], Armed(r, id),
                                    <<ans>>, gone)
                  /\ UNCHANGED <<up, execq, dh, decided>>

\* The leader has enough answers: commit on the fast path or ask to accept.
Preaccepted(r, e, i, t, m, fast) ==
    \/ /\ t.pre_accept_oks >= N \div 2
       /\ fast
       /\ DoCommit(r, e.id, SetToBag({e}), i, t, m)
    \/ /\ t.pre_accept_oks >= N \div 2
       /\ ~fast
       /\ Finish(r, e.id, SetToBag({e}), [i EXCEPT !.status = ACCEPTED], t, Armed(r, e.id),
                 <<[m EXCEPT !.type = "ACCEPT"]>>)
    \/ /\ t.pre_accept_oks < N \div 2
       /\ Finish(r, e.id, SetToBag({e}), i, t, Armed(r, e.id), <<>>)

PreAcceptOk(r, e) ==
    \E m \in Decode(e, inst[r]) :
        LET i == Found(r, e.id)
            t == [lt[r][e.id] EXCEPT !.pre_accept_oks = Inc(@)]
        IN  /\ UNCHANGED history
            /\ \/ /\ i.status # PRE_ACCEPTED \/ ~IsInitialBallot(i.ballot)
                  /\ Ignore(r, e)
               \/ /\ i.status = PRE_ACCEPTED
                  /\ IsInitialBallot(i.ballot)
                  /\ Preaccepted(r, e, i, t, m, t.equal /\ ~HasUncommittedDeps(i.deps))

\* A refusal: remember the ballot, and start recovery at N/2 of them.
Nacked(r, e, i, t, m) ==
    LET t2 == [t EXCEPT !.nacks = Inc(@), !.max_ballot = Max({@, m.ballot})]
    IN  \/ /\ t2.nacks >= N \div 2
           /\ Recover(r, e.id, SetToBag({e}), i, t2, m)
        \/ /\ t2.nacks < N \div 2
           /\ Finish(r, e.id, SetToBag({e}), i, t2, Armed(r, e.id), <<>>)

\* pre_accept_reply merges the acceptor's attributes into the leader's own;
\* equal survives only if the merge changed no dependency.
PreAcceptReply(r, e) ==
    \E m \in Decode(e, inst[r]) :
        LET i      == Found(r, e.id)
            t      == lt[r][e.id]
            merged == UpdateAll(i.deps, m.deps)
            i2     == [i EXCEPT !.seq = Max({@, m.seq}), !.deps = merged.deps]
            t2     == [t EXCEPT !.pre_accept_oks = Inc(@),
                                !.equal = (@ \/ m.seq > i.seq) /\ ~merged.updated]
        IN  /\ UNCHANGED history
            /\ \/ /\ i.status # PRE_ACCEPTED \/ i.ballot # m.ballot
                  /\ Ignore(r, e)
               \/ /\ i.status = PRE_ACCEPTED
                  /\ i.ballot = m.ballot
                  /\ m.nack
                  /\ Nacked(r, e, i, t, m)
               \/ /\ i.status = PRE_ACCEPTED
                  /\ i.ballot = m.ballot
                  /\ ~m.nack
                  /\ Preaccepted(r, e, i2, t2, m,
                        t2.equal /\ IsInitialBallot(i.ballot) /\ ~HasUncommittedDeps(i2.deps))

-----------------------------------------------------------------------------
(* The accept phase and commits.                                           *)

\* accept stores the attributes but never the command.
Accept(r, e) ==
    \E m \in Decode(e, inst[r]) :
        LET id   == e.id
            i    == Found(r, id)
            i2   == [i EXCEPT !.status = ACCEPTED, !.ballot = m.ballot,
                              !.seq = m.seq, !.deps = m.deps]
            db   == [inst[r] EXCEPT ![id] = i2]
            gone == IF m.cmd = NoCommand THEN Cleared(db) ELSE {}
            ans  == [m EXCEPT !.type = "ACCEPT_REPLY"]
        IN  /\ UNCHANGED history
            /\ \/ /\ Closed(i.status)
                  /\ Ignore(r, e)
               \/ /\ ~Closed(i.status)
                  /\ Stale(m, i)
                  /\ Answer(r, e, [ans EXCEPT !.nack = TRUE, !.ballot = i.ballot])
               \/ /\ ~Closed(i.status)
                  /\ ~Stale(m, i)
                  /\ FinishClearing(r, id, SetToBag({e}), i2, lt[r][id], Armed(r, id),
                                    <<ans>>, gone)
                  /\ UNCHANGED <<up, execq, dh, decided>>

AcceptReply(r, e) ==
    \E m \in Decode(e, inst[r]) :
        LET i  == Found(r, e.id)
            t  == lt[r][e.id]
            t2 == [t EXCEPT !.accept_oks = Inc(@)]
        IN  /\ UNCHANGED history
            /\ \/ /\ i.status # ACCEPTED \/ i.ballot # m.ballot
                  /\ Ignore(r, e)
               \/ /\ i.status = ACCEPTED
                  /\ i.ballot = m.ballot
                  /\ m.nack
                  /\ Nacked(r, e, i, t, m)
               \/ /\ i.status = ACCEPTED
                  /\ i.ballot = m.ballot
                  /\ ~m.nack
                  /\ IF t2.accept_oks + 1 > N \div 2
                     THEN DoCommit(r, e.id, SetToBag({e}), i, t2, m)
                     ELSE Finish(r, e.id, SetToBag({e}), i, t2, Armed(r, e.id), <<>>)

\* commit overwrites the status whatever it is, and stores no command.
Commit(r, e) ==
    \E m \in Decode(e, inst[r]) :
        /\ FinishClearing(r, e.id, SetToBag({e}),
                          [Found(r, e.id) EXCEPT !.status = COMMITTED, !.seq = m.seq,
                                                 !.deps = m.deps],
                          lt[r][e.id], "none", <<>>, {})
        /\ execq' = [execq EXCEPT ![r] = @ \union {e.id}]
        /\ decided' = [decided EXCEPT ![r] = @ \union {e.id}]
        /\ UNCHANGED <<up, dh, history>>

-----------------------------------------------------------------------------
(* Recovery.                                                               *)

\* prepare: promise the ballot and report the instance, nack left as it came.
Prepare(r, e) ==
    \E m \in Decode(e, inst[r]) :
        LET i   == Found(r, e.id)
            ans == [m EXCEPT !.type = "PREPARE_REPLY"]
        IN  /\ UNCHANGED history
            /\ \/ /\ Stale(m, i)
                  /\ Answer(r, e, [ans EXCEPT !.nack = TRUE])
               \/ /\ ~Stale(m, i)
                  /\ Finish(r, e.id, SetToBag({e}), [i EXCEPT !.ballot = m.ballot],
                            lt[r][e.id], Armed(r, e.id),
                            <<[ans EXCEPT !.cmd = i.cmd, !.deps = i.deps, !.seq = i.seq,
                                          !.status = i.status]>>)

UpdateRecoveryInstance(ri, m) ==
    [ri EXCEPT !.cmd = m.cmd, !.deps = m.deps, !.seq = m.seq, !.status = m.status]

\* The recovery instance after a PREPARE_REPLY that is not a commit.
Gathered(i, t, m) ==
    LET ri     == t.ri
        copied == [UpdateRecoveryInstance(ri, m) EXCEPT !.pre_accept_count = Inc(@)]
        preaccepted == m.status \in {PRE_ACCEPTED, PRE_ACCEPTED_EQ} /\ ri.status < ACCEPTED
        replied == IF preaccepted /\ m.from = m.id.replica THEN TRUE ELSE ri.leader_replied
    IN  CASE m.status = ACCEPTED /\ (t.max_ballot < m.ballot \/ ri.status = NONE) -> copied
          [] preaccepted /\ (ri.status = NONE \/ m.status = PRE_ACCEPTED_EQ) ->
                [copied EXCEPT !.leader_replied = replied]
          [] preaccepted /\ ri.status # NONE /\ m.status # PRE_ACCEPTED_EQ ->
                [ri EXCEPT !.pre_accept_count =
                               IF m.seq = i.seq /\ m.deps = i.deps THEN Inc(@) ELSE @,
                           !.leader_replied = replied]
          [] OTHER -> ri

\* The tracker after it.
Collected(i, t, m) ==
    [t EXCEPT !.ri = Gathered(i, t, m),
              !.max_ballot = IF /\ m.status = ACCEPTED
                                /\ t.max_ballot < m.ballot \/ t.ri.status = NONE
                             THEN m.ballot ELSE @]

\* Nobody asked knows a command: propose a no-op, i keeps its command and seq.
RecoverNoop(r, e, i, t, m) ==
    LET deps == NoopDeps([inst[r] EXCEPT ![e.id] = i], e.id)
    IN  Finish(r, e.id, SetToBag({e}), [i EXCEPT !.status = ACCEPTED, !.deps = deps],
               [t EXCEPT !.recovery_status = NONE], Armed(r, e.id),
               <<[m EXCEPT !.type = "ACCEPT", !.cmd = NoCommand, !.ballot = i.ballot,
                           !.deps = deps]>>)

\* Ask to accept what was gathered.
RecoverAccept(r, e, i, t, m) ==
    Finish(r, e.id, SetToBag({e}),
           [i EXCEPT !.status = ACCEPTED, !.cmd = t.ri.cmd, !.seq = t.ri.seq, !.deps = t.ri.deps],
           [t EXCEPT !.recovery_status = NONE], Armed(r, e.id),
           <<[m EXCEPT !.type = "ACCEPT", !.ballot = i.ballot, !.seq = t.ri.seq,
                       !.deps = t.ri.deps]>>)

\* Try to pre-accept what was gathered, unless r itself knows better.
RecoverTry(r, e, i, t0, m) ==
    LET t    == [t0 EXCEPT !.pre_accept_oks = 0, !.nacks = 0, !.quorum = Replicas]
        db   == [inst[r] EXCEPT ![e.id] = i]
        conflict == PacConflict(db, e.id, t.ri.cmd, t.ri.seq, t.ri.deps)
        taken == [i EXCEPT !.cmd = t.ri.cmd, !.seq = t.ri.seq, !.deps = t.ri.deps,
                           !.status = PRE_ACCEPTED]
        Try(i2, t2) ==
            Finish(r, e.id, SetToBag({e}), i2,
                   [t2 EXCEPT !.recovery_status = TRY_PRE_ACCEPTING], Armed(r, e.id),
                   <<[m EXCEPT !.type = "TRY_PRE_ACCEPT", !.cmd = i2.cmd, !.seq = i2.seq,
                               !.deps = i2.deps, !.ballot = i2.ballot]>>)
    IN  IF PacFaults(db, e.id, t.ri.cmd, t.ri.deps) THEN Crash(r, SetToBag({e}))
        ELSE \/ /\ conflict = {}
                /\ Try(taken, [t EXCEPT !.pre_accept_oks = 1])
             \/ /\ \E x \in conflict : db[x].status >= COMMITTED
                /\ Phase1(r, e.id, SetToBag({e}), t,
                          [m EXCEPT !.cmd = t.ri.cmd, !.ballot = i.ballot])
             \/ /\ \E x \in conflict : db[x].status < COMMITTED
                /\ Try(i, [t EXCEPT !.quorum = Replicas \ {r}])

\* Start over as the leader of the command that was gathered.
RecoverPhase1(r, e, i, t, m) ==
    Phase1(r, e.id, SetToBag({e}), [t EXCEPT !.recovery_status = NONE],
           [m EXCEPT !.cmd = t.ri.cmd, !.ballot = i.ballot])

PrepareReply(r, e) ==
    \E m \in Decode(e, inst[r]) :
        LET id == e.id
            i  == Found(r, id)
            t0 == lt[r][id]
            t1 == [t0 EXCEPT !.prepare_oks = Inc(@)]
            t  == Collected(i, t1, m)
            done == t0.recovery_status # PREPARING
            committed == Closed(m.status)
            settled == \/ t.ri.status = ACCEPTED
                       \/ /\ t.ri.status = PRE_ACCEPTED_EQ
                          /\ ~t.ri.leader_replied
                          /\ t.ri.pre_accept_count >= N \div 2
            try == ~t.ri.leader_replied /\ t.ri.pre_accept_count >= (N \div 2 + 1) \div 2
        IN  /\ UNCHANGED history
            /\ \/ /\ done
                  /\ Ignore(r, e)
               \/ /\ ~done /\ m.nack
                  /\ Finish(r, id, SetToBag({e}), i, [t0 EXCEPT !.nacks = Inc(@)],
                            Armed(r, id), <<>>)
               \/ /\ ~done /\ ~m.nack /\ committed
                  /\ DoCommit(r, id, SetToBag({e}),
                              [i EXCEPT !.seq = m.seq, !.cmd = m.cmd, !.deps = m.deps],
                              t1, [m EXCEPT !.ballot = i.ballot])
               \/ /\ ~done /\ ~m.nack /\ ~committed /\ t.prepare_oks < N \div 2
                  /\ Finish(r, id, SetToBag({e}), i, t, Armed(r, id), <<>>)
               \/ /\ ~done /\ ~m.nack /\ ~committed /\ t.prepare_oks >= N \div 2
                  /\ IF t.ri.status = NONE THEN RecoverNoop(r, e, i, t, m)
                     ELSE IF settled THEN RecoverAccept(r, e, i, t, m)
                     ELSE IF try THEN RecoverTry(r, e, i, t, m)
                     ELSE RecoverPhase1(r, e, i, t, m)

TryPreAccept(r, e) ==
    \E m \in Decode(e, inst[r]) :
        LET id  == e.id
            i   == Found(r, id)
            db  == [inst[r] EXCEPT ![id] = i]
            conflict == FindConflict(db, id, m.cmd, m.seq, m.deps)
            faults   == FindFaults(db, id, m.cmd, m.seq, m.deps)
            ans == [m EXCEPT !.type = "TRY_PRE_ACCEPT_REPLY"]
        IN  /\ UNCHANGED history
            /\ \/ /\ Stale(m, i)
                  /\ Answer(r, e, [ans EXCEPT !.ballot = i.ballot, !.nack = TRUE])
               \/ /\ ~Stale(m, i)
                  /\ faults
                  /\ Crash(r, SetToBag({e}))
               \/ /\ ~Stale(m, i)
                  /\ ~faults /\ conflict # {}
                  /\ Answer(r, e, [ans EXCEPT !.ballot = i.ballot, !.nack = TRUE])
               \/ /\ ~Stale(m, i)
                  /\ ~faults /\ conflict = {}
                  /\ Finish(r, id, SetToBag({e}),
                            [status |-> PRE_ACCEPTED, ballot |-> m.ballot, cmd |-> m.cmd,
                             seq |-> m.seq, deps |-> m.deps],
                            lt[r][id], Armed(r, id), <<ans>>)

NoId == [replica |-> 0, instance |-> 0]

\* m->conflict is not on the wire: the receiver reads what the memory held.
ConflictFields(r) ==
    IF r \in HeapReuse THEN [id : Ids \union {NoId}, committed : BOOLEAN]
    ELSE {[id |-> NoId, committed |-> FALSE]}

\* The refusals of a TRY_PRE_ACCEPT that are not about id itself.  Up to two
\* PHASE1 follow each other on the same m, then the deferral.
TryRefused(r, e, i, t, m, conflict) ==
    LET nq     == Cardinality(Replicas \ t.quorum)
        first  == conflict.committed \/ nq > N \div 2
        second == nq = N \div 2 /\ dh[r][e.id] # NoReplica /\ dh[r][e.id] \in t.quorum
        third  == t.try_pre_accept_oks > N \div 2
        m2     == [m EXCEPT !.cmd = t.ri.cmd, !.ballot = IF first THEN m.ballot ELSE i.ballot]
        ms     == (IF first THEN <<m>> ELSE <<>>) \o (IF second THEN <<m2>> ELSE <<>>)
        last   == ms[Len(ms)]
        asks   == [k \in 1..Len(ms) |-> Phase1Message(Phase1Instance(r, e.id, ms[k]), ms[k])]
        tm     == IF third THEN "slow" ELSE IF ms # <<>> THEN "fast" ELSE Armed(r, e.id)
    IN  IF \E k \in 1..Len(ms) : SearchFaults(inst[r], ms[k].cmd, e.id)
        THEN Crash(r, SetToBag({e}))
        ELSE /\ IF ms = <<>>
                THEN FinishClearing(r, e.id, SetToBag({e}), i, t, tm, <<>>, {})
                ELSE FinishClearing(r, e.id, SetToBag({e}), Phase1Instance(r, e.id, last),
                         Phase1Tracker(r, e.id, [t EXCEPT !.recovery_status = NONE], last),
                         tm, asks, {})
             /\ dh' = IF third /\ conflict.id \in Ids
                      THEN [dh EXCEPT ![r][conflict.id] = e.id.replica] ELSE dh
             /\ UNCHANGED <<up, execq, decided>>

\* A TRY_PRE_ACCEPT was taken: ask to accept at N/2 of them.
TryTaken(r, e, i, t, m) ==
    LET t2 == [t EXCEPT !.pre_accept_oks = Inc(@), !.try_pre_accept_oks = Inc(@)]
        ri == t.ri
    IN  IF t2.pre_accept_oks < N \div 2
        THEN Finish(r, e.id, SetToBag({e}), i, t2, Armed(r, e.id), <<>>)
        ELSE Finish(r, e.id, SetToBag({e}),
                    [i EXCEPT !.status = ACCEPTED, !.cmd = ri.cmd, !.seq = ri.seq,
                              !.deps = ri.deps],
                    [t2 EXCEPT !.accept_oks = 0, !.recovery_status = NONE], Armed(r, e.id),
                    <<[m EXCEPT !.type = "ACCEPT", !.cmd = ri.cmd, !.seq = ri.seq,
                                !.deps = ri.deps, !.status = ACCEPTED]>>)

TryPreAcceptReply(r, e) ==
    \E m \in Decode(e, inst[r]), conflict \in ConflictFields(r) :
        LET id   == e.id
            i    == Found(r, id)
            t    == lt[r][id]
            done == t.recovery_status # TRY_PRE_ACCEPTING \/ t.ri.status = NONE
            b    == LargerBallot(m.ballot, r)
            t1   == [t EXCEPT !.nacks = Inc(@)]
            t2   == [t1 EXCEPT !.try_pre_accept_oks = Inc(@)]
        IN  /\ UNCHANGED history
            /\ \/ /\ done
                  /\ Ignore(r, e)
               \/ /\ ~done /\ ~m.nack
                  /\ TryTaken(r, e, i, t, m)
               \/ /\ ~done /\ m.nack /\ m.ballot > i.ballot
                  /\ Finish(r, id, SetToBag({e}), [i EXCEPT !.ballot = b], t1, Armed(r, id),
                            <<[m EXCEPT !.type = "TRY_PRE_ACCEPT", !.ballot = b]>>)
               \/ /\ ~done /\ m.nack /\ m.ballot <= i.ballot /\ conflict.id = id
                  /\ Finish(r, id, SetToBag({e}), i,
                            [t2 EXCEPT !.quorum = @ \ {m.from, id.replica}], Armed(r, id),
                            <<[m EXCEPT !.type = "PREPARE"]>>)
               \/ /\ ~done /\ m.nack /\ m.ballot <= i.ballot /\ conflict.id # id
                  /\ TryRefused(r, e, i, t2, m, conflict)

-----------------------------------------------------------------------------
(* Timeouts, and the executor's effect on the replica.  clear_index frees  *)
(* an instance without cancelling its timer (instance.c:49) or taking it   *)
(* from the executor's channel: whoever meets it there reads freed memory. *)

\* message_from_instance leaves nack as the memory held it.
AcceptOf(r, id, i, nack) ==
    [type |-> "ACCEPT", from |-> r, to |-> r, id |-> id, ballot |-> i.ballot, nack |-> nack,
     cmd |-> i.cmd, seq |-> i.seq, deps |-> i.deps, status |-> NONE]

\* fast_path_timeout: ask to accept what the leader has; its status stays.
FastPathTimeout(r, id) ==
    /\ up[r]
    /\ timer[r][id] = "fast"
    /\ timeouts[r] < MaxTimeouts[r]
    /\ timeouts' = [timeouts EXCEPT ![r] = @ + 1]
    /\ IF ~Known(r, id) THEN Crash(r, EmptyBag)
       ELSE \E nack \in IF r \in HeapReuse THEN BOOLEAN ELSE {FALSE} :
               Finish(r, id, EmptyBag, inst[r][id], lt[r][id], "slow",
                      <<AcceptOf(r, id, inst[r][id], nack)>>)
    /\ UNCHANGED proposed

\* The zeroed message of slow_path_timeout.
PrepareOf(r, id) ==
    [type |-> "PREPARE", from |-> r, to |-> r, id |-> id, ballot |-> 0, nack |-> FALSE,
     cmd |-> NoCommand, seq |-> 0, deps |-> <<>>, status |-> NONE]

\* slow_path_timeout: recover.
SlowPathTimeout(r, id) ==
    /\ up[r]
    /\ timer[r][id] = "slow"
    /\ timeouts[r] < MaxTimeouts[r]
    /\ timeouts' = [timeouts EXCEPT ![r] = @ + 1]
    /\ IF ~Known(r, id) THEN Crash(r, EmptyBag)
       ELSE Recover(r, id, EmptyBag, inst[r][id], lt[r][id], PrepareOf(r, id))
    /\ UNCHANGED proposed

\* The executor thread marks an instance it was handed as executed, whatever
\* its status is by then.  In which order it takes them is left open here.
Execute(r, id) ==
    /\ up[r]
    /\ id \in execq[r]
    /\ IF ~Known(r, id) THEN Crash(r, EmptyBag)
       ELSE /\ inst' = [inst EXCEPT ![r][id].status = EXECUTED]
            /\ execq' = [execq EXCEPT ![r] = @ \ {id}]
            /\ UNCHANGED <<lt, timer, net, io, up, dh, decided>>
    /\ UNCHANGED history

-----------------------------------------------------------------------------

\* step(): the handler of each message type; r's thread takes one at a time.
Receive(r) ==
    \/ \E e \in Arrived(r, "PRE_ACCEPT") : PreAccept(r, e)
    \/ \E e \in Arrived(r, "PRE_ACCEPT_OK") : PreAcceptOk(r, e)
    \/ \E e \in Arrived(r, "PRE_ACCEPT_REPLY") : PreAcceptReply(r, e)
    \/ \E e \in Arrived(r, "ACCEPT") : Accept(r, e)
    \/ \E e \in Arrived(r, "ACCEPT_REPLY") : AcceptReply(r, e)
    \/ \E e \in Arrived(r, "COMMIT") : Commit(r, e)
    \/ \E e \in Arrived(r, "PREPARE") : Prepare(r, e)
    \/ \E e \in Arrived(r, "PREPARE_REPLY") : PrepareReply(r, e)
    \/ \E e \in Arrived(r, "TRY_PRE_ACCEPT") : TryPreAccept(r, e)
    \/ \E e \in Arrived(r, "TRY_PRE_ACCEPT_REPLY") : TryPreAcceptReply(r, e)

Next ==
    \/ \E r \in Leaders : Propose(r)
    \/ \E r \in Replicas : Receive(r)
    \/ \E r \in Replicas, id \in Ids : FastPathTimeout(r, id)
    \/ \E r \in Replicas, id \in Ids : SlowPathTimeout(r, id)
    \/ \E r \in Executors, id \in Ids : Execute(r, id)

Spec == Init /\ [][Next]_vars

\* A replica's thread blocks in choose() until a channel has something and
\* then takes it, so a running replica with a message under way to it takes
\* one in the end.  Stated where no message is lost: it stays in net until
\* it is taken.  Weak fairness of Receive, with its ENABLED written out.
Waiting(r) == up[r] /\ \E m \in BagToSet(net) : m.to = r

Fairness == \A r \in Replicas : []<>~Waiting(r) \/ []<><<Receive(r)>>_vars

FairSpec == Spec /\ Fairness

-----------------------------------------------------------------------------

\* Every variable keeps the type of the C object it stands for.
TypeOK ==
    /\ inst \in [Replicas -> [Ids -> Instance]]
    /\ lt \in [Replicas -> [Ids -> Tracker]]
    /\ timer \in [Replicas -> [Ids -> Timer]]
    /\ BagToSet(net) \subseteq Message
    /\ io \in [Replicas -> BOOLEAN]
    /\ up \in [Replicas -> BOOLEAN]
    /\ execq \in [Replicas -> SUBSET Ids]
    /\ dh \in [Replicas -> [Ids -> Replicas \union {NoReplica}]]
    /\ proposed \in [Ids -> Command \union {NoCommand}]
    /\ decided \in [Replicas -> SUBSET Ids]
    /\ timeouts \in [Replicas -> Nat]

\* Instances hold no command but the one proposed under their id, and so does
\* what a recovery gathered and every message, through every reuse of a
\* message by a handler; the unwritten command that comes out of decoding a
\* PRE_ACCEPT_OK (message.c:59) travels on in ACCEPT, ACCEPT_REPLY and COMMIT
\* only, which no handler takes a command from.
Own(id) == {NoCommand, proposed[id]}

CommandIntegrity ==
    /\ \A r \in Replicas, id \in Ids :
          inst[r][id].cmd \in Own(id) /\ lt[r][id].ri.cmd \in Own(id)
    /\ \A m \in BagToSet(net) :
          \/ m.cmd \in Own(m.id)
          \/ m.cmd = Junk /\ m.type \in {"ACCEPT", "ACCEPT_REPLY", "COMMIT"}

\* A dependency flagged as committed, in an instance, in what a recovery
\* gathered or in a message, was committed by some replica: has_uncommitted_deps
\* (instance.c:186) may let a leader take the fast path on the flag's word.
Flagged(deps) == {deps[k].id : k \in {j \in 1..Len(deps) : deps[j].committed}}

CommittedDepsSound ==
    LET committed == UNION {decided[r] : r \in Replicas}
    IN  /\ \A r \in Replicas, id \in Ids :
              /\ Flagged(inst[r][id].deps) \subseteq committed
              /\ Flagged(lt[r][id].ri.deps) \subseteq committed
        /\ \A m \in BagToSet(net) : Flagged(m.deps) \subseteq committed

\* No instance is orphaned: one that a running replica knows has a timeout
\* pending or was committed by that replica at some time (the timer is only
\* cancelled by cancel_timeout, replica.c:36, where the instance commits, and
\* every timeout arms the next).
Supervised ==
    \A r \in Replicas, id \in Ids :
        up[r] /\ Known(r, id) /\ timer[r][id] = "none" => id \in decided[r]

\* pre_accept_ok, pre_accept_reply and accept_reply use i->lt without a
\* check: an answer they do not ignore always meets an instance with a
\* leader tracker.
RepliesFindTracker ==
    \A m \in BagToSet(net) :
        LET i == inst[m.to][m.id]
        IN  \/ m.type = "PRE_ACCEPT_OK" /\ i.status = PRE_ACCEPTED /\ IsInitialBallot(i.ballot)
            \/ m.type = "PRE_ACCEPT_REPLY" /\ i.status = PRE_ACCEPTED /\ i.ballot = m.ballot
            \/ m.type = "ACCEPT_REPLY" /\ i.status = ACCEPTED /\ i.ballot = m.ballot
            => lt[m.to][m.id].on

\* Nothing is decided on a minority's word: once a replica committed an
\* instance, more than half of the replicas hold it pre-accepted or later,
\* whichever phase, recovery or late answer led to the commit.  Of three
\* replicas the leader and one that answered are enough, so a second answer
\* of the same one does no harm; of five it would (the counters of
\* leader_tracker count messages).
MajorityKnows ==
    \A r \in Replicas : \A id \in decided[r] :
        Cardinality({q \in Replicas : inst[q][id].status >= PRE_ACCEPTED}) > N \div 2

\* A promise counts for one replica only: a PREPARE under way, and an answer
\* to one, that prepare_reply would count carries a ballot of the replica that
\* asks (larger_ballot, instance.c:67).  The PREPARE that try_pre_accept_reply
\* sends on the word of a conflict it never received (epaxos.c:404) goes out
\* under the ballot of whoever refused, but it still has the nack of the
\* refusal, prepare() leaves that as it came, and so its answers are refusals.
PromisesOwned ==
    \A m \in BagToSet(net) :
        ~m.nack => /\ m.type = "PREPARE" => m.ballot % 16 = m.from
                   /\ m.type = "PREPARE_REPLY" => m.ballot % 16 = m.to

\* An instance in the index of its leader.
Led(id) == inst[id.replica][id]

\* Two interfering commands that their leaders committed are ordered: one of
\* them depends on the other.  This is what README.md:3 promises by the word
\* "epaxos", and what simple_conflict of test/epaxos.c:118 asserts of one
\* schedule: the second leader to be answered learns of the other command and
\* commits attributes that include it.
ConflictsOrdered ==
    \A id1, id2 \in Ids :
        /\ id1 # id2
        /\ Closed(Led(id1).status) /\ Closed(Led(id2).status)
        /\ Interferes(Led(id1).cmd, Led(id2).cmd)
        => HasKey(id2, Led(id1).deps) \/ HasKey(id1, Led(id2).deps)

\* check(&r1, COMMIT, 1, 0) of test/epaxos.c:112 asserts that the COMMIT of a
\* decided instance goes out with the sequence number of that instance.
CommitCarriesSeq ==
    \A m \in BagToSet(net) :
        m.type = "COMMIT" => m.seq = inst[m.from][m.id].seq

\* Where no message is lost every proposal is decided by its leader: both
\* paths end in do_commit, whatever the order of answers and of proposals.
EventuallyDecided ==
    \A id \in Ids : proposed[id] # NoCommand ~> id \in decided[id.replica]

\* No process faults and no io thread stops.
Healthy == \A r \in Replicas : up[r] /\ io[r]

\* clear_index takes away nothing that anyone still looks for: on the store it
\* would leave, the searches for a command, the first instances pac_conflict
\* looks at, the next number and the dependency of a no-op are the same.
Swept(db) == [x \in Ids |-> IF x \in Cleared(db) THEN AbsentInstance ELSE db[x]]

ClearingUnseen ==
    \A r \in {q \in Replicas : Cleared(inst[q]) # {}} :
        LET db   == inst[r]
            rest == Swept(inst[r])
            open == {id \in Ids : db[id].status \notin {ABSENT, EXECUTED}}
        IN  /\ MaxLocal(rest, r) = MaxLocal(db, r)
            /\ \A id \in open :
                  /\ NoopDeps(rest, id) = NoopDeps(db, id)
                  /\ \A rc \in Replicas, deps \in {<<>>, db[id].deps} :
                        PacScope(rest, rc, id, deps) = PacScope(db, rc, id, deps)
            /\ \A id \in open \union {NoId}, c \in Command :
                  /\ SearchFaults(rest, c, id) = SearchFaults(db, c, id)
                  /\ ~SearchFaults(db, c, id) =>
                        SdForCommand(rest, c, id, <<>>) = SdForCommand(db, c, id, <<>>)

\* A number is handed out once: propose takes the number above the highest
\* of the replica's own index (max_local, replica.c:206), although clear_index
\* removes instances from that index.
NumberUsedOnce ==
    [][\A id \in Ids : proposed[id] # NoCommand => proposed'[id] = proposed[id]]_vars

\* The ballot a replica promised for an instance falls in three places only:
\* where the replica's own TRY_PRE_ACCEPT of that instance is refused, because
\* phase1 then takes the ballot of the refusal (epaxos.c:407); where the byte
\* wraps after the fifteenth epoch (instance.c:64); and where clear_index
\* destroys the executed instance.  No other message, however late, under
\* whatever ballot, takes a promise back.
WithdrawsOnRefusal(r, id) == lt[r][id].recovery_status = TRY_PRE_ACCEPTING

PromiseKept ==
    [][\A r \in Replicas, id \in Ids :
          \/ inst'[r][id].ballot >= inst[r][id].ballot
          \/ WithdrawsOnRefusal(r, id)
          \/ inst[r][id].ballot >= 240
          \/ inst[r][id].status = EXECUTED /\ inst'[r][id].status = ABSENT]_vars

\* An instance that a replica committed stays committed, until it is executed
\* and cleared from the index.
CommitSticks ==
    [][\A r \in Replicas, id \in Ids :
          inst[r][id].status >= COMMITTED =>
             \/ inst'[r][id].status >= COMMITTED
             \/ inst[r][id].status = EXECUTED /\ inst'[r][id].status = ABSENT]_vars

\* With recoveries running, a committed instance is reopened in two cases only:
\* the replica itself had begun to recover it before the COMMIT came
\* (prepare_reply and try_pre_accept_reply look at recovery_status, which
\* commit() leaves alone), or the COMMIT came to a replica that never saw the
\* command, and a TRY_PRE_ACCEPT brings it.  No late PRE_ACCEPT, ACCEPT, refusal
\* or timeout reopens one, nor another replica's recovery.
ReopenedByOwnRecovery ==
    [][\A r \in Replicas, id \in Ids :
          inst[r][id].status >= COMMITTED =>
             \/ inst'[r][id].status >= COMMITTED
             \/ inst[r][id].status = EXECUTED /\ inst'[r][id].status = ABSENT
             \/ lt[r][id].recovery_status # NONE
             \/ inst[r][id].cmd = NoCommand]_vars

=============================================================================
