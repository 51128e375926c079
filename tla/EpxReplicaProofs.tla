--------------------------- MODULE EpxReplicaProofs ---------------------------
(***************************************************************************)
(* What handlers leave behind, for every number of replicas, routing       *)
(* table, set of links and bound.                                          *)
(*                                                                         *)
(* No instance is orphaned (Supervised): a known instance without a        *)
(* timeout is one that its replica committed at some time.  Every handler  *)
(* ends in one of the ways Ended lists.                                    *)
(*                                                                         *)
(* A promise counts for the replica that asked for it (PromisesOwned):     *)
(* every handler sends what Spoken allows.                                 *)
(*                                                                         *)
(* No handler takes back a promise or a commit but in the cases that       *)
(* PromiseKept and ReopenedByOwnRecovery name: every handler stores what   *)
(* Stored allows.                                                          *)
(*                                                                         *)
(* Each is shown for each helper a handler can end in, then for each       *)
(* handler; that the invariant survives is shown once.                     *)
(***************************************************************************)
EXTENDS EpxReplicaDataProofs

\* The domains of the variables Supervised speaks of.
Shape ==
    /\ DOMAIN inst = Replicas
    /\ DOMAIN timer = Replicas
    /\ DOMAIN up = Replicas
    /\ DOMAIN decided = Replicas
    /\ \A r \in Replicas : DOMAIN inst[r] = Ids /\ DOMAIN timer[r] = Ids

\* The records of id change and its timer becomes tm; others may be destroyed.
Touched(r, id, tm) ==
    /\ \E i, gone :
          inst' = [inst EXCEPT ![r] = [x \in Ids |->
                      IF x \in gone THEN AbsentInstance ELSE IF x = id THEN i ELSE @[x]]]
    /\ timer' = [timer EXCEPT ![r][id] = tm]

Ended(r, id) ==
    \/ \E tm \in {"fast", "slow", Armed(r, id)} :
          Touched(r, id, tm) /\ UNCHANGED <<up, decided>>
    \/ /\ Touched(r, id, "none")
       /\ decided' = [decided EXCEPT ![r] = @ \union {id}]
       /\ DOMAIN up' = DOMAIN up
       /\ \A q \in DOMAIN up : q # r => up'[q] = up[q]
    \/ /\ up' = [up EXCEPT ![r] = FALSE]
       /\ UNCHANGED <<inst, timer, decided>>

-----------------------------------------------------------------------------

\* What Touched leaves of every instance and timer of every replica.
LEMMA TouchedEffect ==
    ASSUME Shape, NEW r \in Replicas, NEW id, NEW tm, Touched(r, id, tm)
    PROVE  /\ DOMAIN inst' = Replicas /\ DOMAIN timer' = Replicas
           /\ \A q \in Replicas : DOMAIN inst'[q] = Ids /\ DOMAIN timer'[q] = Ids
           /\ \A q \in Replicas, x \in Ids :
                ~(q = r /\ x = id) =>
                   /\ timer'[q][x] = timer[q][x]
                   /\ inst'[q][x] = inst[q][x] \/ inst'[q][x] = AbsentInstance
           /\ id \in Ids => timer'[r][id] = tm
<1>1. PICK i, gone :
          inst' = [inst EXCEPT ![r] = [x \in Ids |->
                      IF x \in gone THEN AbsentInstance ELSE IF x = id THEN i ELSE @[x]]]
  BY DEF Touched
<1>2. timer' = [timer EXCEPT ![r][id] = tm]
  BY DEF Touched
<1>3. DOMAIN inst' = Replicas /\ DOMAIN timer' = Replicas
  BY <1>1, <1>2 DEF Shape
<1>4. inst'[r] = [x \in Ids |->
          IF x \in gone THEN AbsentInstance ELSE IF x = id THEN i ELSE inst[r][x]]
  BY <1>1 DEF Shape
<1>5. \A q \in Replicas : q # r => inst'[q] = inst[q] /\ timer'[q] = timer[q]
  BY <1>1, <1>2 DEF Shape
<1>6. timer'[r] = [timer[r] EXCEPT ![id] = tm]
  BY <1>2 DEF Shape
<1>7. \A q \in Replicas : DOMAIN inst'[q] = Ids /\ DOMAIN timer'[q] = Ids
  BY <1>4, <1>5, <1>6 DEF Shape
<1>8. \A q \in Replicas, x \in Ids :
          ~(q = r /\ x = id) =>
             /\ timer'[q][x] = timer[q][x]
             /\ inst'[q][x] = inst[q][x] \/ inst'[q][x] = AbsentInstance
  BY <1>4, <1>5, <1>6 DEF Shape
<1>9. id \in Ids => timer'[r][id] = tm
  BY <1>6 DEF Shape
<1>10. QED
  BY <1>3, <1>7, <1>8, <1>9

\* Each way of Ended keeps every known instance supervised.
LEMMA EndedKeepsSupervised ==
    ASSUME Shape, Supervised, NEW r \in Replicas, up[r], NEW id, Ended(r, id)
    PROVE  Shape' /\ Supervised'
<1>0. AbsentInstance.status = ABSENT
  BY DEF AbsentInstance, NewInstance
<1>1. ASSUME NEW tm \in {"fast", "slow", Armed(r, id)},
             Touched(r, id, tm), UNCHANGED <<up, decided>>
      PROVE  Shape' /\ Supervised'
  <2>1. Shape'
    BY <1>1, TouchedEffect DEF Shape
  <2>2. ASSUME NEW q \in Replicas, NEW x \in Ids, up'[q], Known(q, x)', timer'[q][x] = "none"
        PROVE  x \in decided'[q]
    <3>1. CASE q = r /\ x = id
      <4>1. Armed(r, id) = "none"
        BY <1>1, <2>2, <3>1, TouchedEffect
      <4>2. Known(r, id) /\ timer[r][id] = "none"
        BY <4>1 DEF Armed
      <4>3. QED
        BY <1>1, <3>1, <4>2 DEF Supervised
    <3>2. CASE ~(q = r /\ x = id)
      BY <1>0, <1>1, <2>2, <3>2, TouchedEffect DEF Supervised, Known
    <3>3. QED
      BY <3>1, <3>2
  <2>3. QED
    BY <2>1, <2>2 DEF Supervised
<1>2. ASSUME Touched(r, id, "none"), decided' = [decided EXCEPT ![r] = @ \union {id}],
             DOMAIN up' = DOMAIN up, \A q \in DOMAIN up : q # r => up'[q] = up[q]
      PROVE  Shape' /\ Supervised'
  <2>1. Shape'
    BY <1>2, TouchedEffect DEF Shape
  <2>2. /\ \A q \in Replicas : decided[q] \subseteq decided'[q]
        /\ id \in decided'[r]
        /\ \A q \in Replicas : q # r => up'[q] = up[q]
    BY <1>2 DEF Shape
  <2>3. ASSUME NEW q \in Replicas, NEW x \in Ids, up'[q], Known(q, x)', timer'[q][x] = "none"
        PROVE  x \in decided'[q]
    <3>1. CASE q = r /\ x = id
      BY <2>2, <3>1
    <3>2. CASE ~(q = r /\ x = id)
      <4>1. up[q] /\ Known(q, x) /\ timer[q][x] = "none"
        BY <1>0, <1>2, <2>2, <2>3, <3>2, TouchedEffect DEF Known
      <4>2. QED
        BY <2>2, <4>1 DEF Supervised
    <3>3. QED
      BY <3>1, <3>2
  <2>4. QED
    BY <2>1, <2>3 DEF Supervised
<1>3. ASSUME up' = [up EXCEPT ![r] = FALSE], UNCHANGED <<inst, timer, decided>>
      PROVE  Shape' /\ Supervised'
  <2>1. \A q \in Replicas : up'[q] => up[q]
    BY <1>3 DEF Shape
  <2>2. Shape'
    BY <1>3 DEF Shape
  <2>3. Supervised'
    BY <1>3, <2>1 DEF Supervised, Known
  <2>4. QED
    BY <2>2, <2>3
<1>4. QED
  BY <1>1, <1>2, <1>3 DEF Ended

\* FinishClearing changes the instances and timers of r as Touched says.
LEMMA ClearingTouches ==
    ASSUME NEW r, NEW id, NEW used, NEW i, NEW t, NEW tm, NEW ms, NEW gone,
           FinishClearing(r, id, used, i, t, tm, ms, gone)
    PROVE  Touched(r, id, tm)
<1>1. inst' = [inst EXCEPT ![r] = [x \in Ids |->
          IF x \in gone THEN AbsentInstance ELSE IF x = id THEN i ELSE @[x]]]
  BY Zenon DEF FinishClearing
<1>2. timer' = [timer EXCEPT ![r][id] = tm]
  BY Zenon DEF FinishClearing
<1>3. QED
  BY <1>1, <1>2, Zenon DEF Touched

-----------------------------------------------------------------------------
(* Every helper a handler can end in ends it in one of the ways of Ended.  *)

\* A handler may clear the index as it ends.
LEMMA ClearingEnds ==
    ASSUME NEW r, NEW id, NEW used, NEW i, NEW t, NEW tm, NEW ms, NEW gone,
           tm \in {"fast", "slow", Armed(r, id)},
           FinishClearing(r, id, used, i, t, tm, ms, gone),
           UNCHANGED <<up, decided>>
    PROVE  Ended(r, id)
<1>1. Touched(r, id, tm)
  BY ClearingTouches
<1>2. QED
  BY <1>1 DEF Ended

\* A handler that stores its records and keeps, or restarts, the timer.
LEMMA FinishEnds ==
    ASSUME NEW r, NEW id, NEW used, NEW i, NEW t, NEW tm, NEW ms,
           tm \in {"fast", "slow", Armed(r, id)},
           Finish(r, id, used, i, t, tm, ms)
    PROVE  Ended(r, id)
BY ClearingEnds DEF Finish

\* A handler that returns at one of its first guards.
LEMMA IgnoreEnds ==
    ASSUME NEW r, NEW e, Ignore(r, e)
    PROVE  Ended(r, e.id)
BY FinishEnds DEF Ignore

\* A handler that only answers.
LEMMA AnswerEnds ==
    ASSUME NEW r, NEW e, NEW m, Answer(r, e, m)
    PROVE  Ended(r, e.id)
BY FinishEnds DEF Answer

\* A handler that dereferences a null command.
LEMMA CrashEnds ==
    ASSUME NEW r, NEW id, NEW used, Crash(r, used)
    PROVE  Ended(r, id)
BY Zenon DEF Crash, Ended

\* phase1 arms the fast-path timeout (epaxos.c:91) unless its search faults.
LEMMA Phase1Ends ==
    ASSUME NEW r, NEW id, NEW used, NEW t, NEW m, Phase1(r, id, used, t, m)
    PROVE  Ended(r, id)
BY FinishEnds, CrashEnds DEF Phase1

\* recover arms the slow-path timeout (epaxos.c:70).
LEMMA RecoverEnds ==
    ASSUME NEW r, NEW id, NEW used, NEW i, NEW t0, NEW m, Recover(r, id, used, i, t0, m)
    PROVE  Ended(r, id)
BY FinishEnds DEF Recover

\* do_commit cancels the timeout of an instance it commits (epaxos.c:12).
LEMMA DoCommitEnds ==
    ASSUME NEW r, NEW id, NEW used, NEW i, NEW t, NEW m, DoCommit(r, id, used, i, t, m)
    PROVE  Ended(r, id)
<1>1. Touched(r, id, "none")
  BY ClearingTouches DEF DoCommit
<1>2. decided' = [decided EXCEPT ![r] = @ \union {id}]
  BY Zenon DEF DoCommit
<1>3. DOMAIN up' = DOMAIN up /\ \A q \in DOMAIN up : q # r => up'[q] = up[q]
  BY Zenon DEF DoCommit
<1>4. QED
  BY <1>1, <1>2, <1>3, Zenon DEF Ended

\* A refusal is counted or starts recovery.
LEMMA NackedEnds ==
    ASSUME NEW r, NEW e, NEW i, NEW t, NEW m, Nacked(r, e, i, t, m)
    PROVE  Ended(r, e.id)
BY RecoverEnds, FinishEnds DEF Nacked

\* An answer to a PRE_ACCEPT is counted, or ends the first phase.
LEMMA PreacceptedEnds ==
    ASSUME NEW r, NEW e, NEW i, NEW t, NEW m, NEW fast, Preaccepted(r, e, i, t, m, fast)
    PROVE  Ended(r, e.id)
BY DoCommitEnds, FinishEnds DEF Preaccepted

\* Recovery that found no command.
LEMMA RecoverNoopEnds ==
    ASSUME NEW r, NEW e, NEW i, NEW t, NEW m, RecoverNoop(r, e, i, t, m)
    PROVE  Ended(r, e.id)
BY FinishEnds DEF RecoverNoop

\* Recovery that asks to accept what it found.
LEMMA RecoverAcceptEnds ==
    ASSUME NEW r, NEW e, NEW i, NEW t, NEW m, RecoverAccept(r, e, i, t, m)
    PROVE  Ended(r, e.id)
BY FinishEnds DEF RecoverAccept

\* Recovery that tries to pre-accept what it found.
LEMMA RecoverTryEnds ==
    ASSUME NEW r, NEW e, NEW i, NEW t0, NEW m, RecoverTry(r, e, i, t0, m)
    PROVE  Ended(r, e.id)
BY FinishEnds, CrashEnds, Phase1Ends DEF RecoverTry

\* Recovery that starts over in phase1.
LEMMA RecoverPhase1Ends ==
    ASSUME NEW r, NEW e, NEW i, NEW t, NEW m, RecoverPhase1(r, e, i, t, m)
    PROVE  Ended(r, e.id)
BY Phase1Ends DEF RecoverPhase1

\* A refused TRY_PRE_ACCEPT, with none, one or two phase1 after it.
LEMMA TryRefusedEnds ==
    ASSUME NEW r, NEW e, NEW i, NEW t, NEW m, NEW conflict,
           TryRefused(r, e, i, t, m, conflict)
    PROVE  Ended(r, e.id)
<1>1. \/ Crash(r, SetToBag({e}))
      \/ /\ \E tm \in {"fast", "slow", Armed(r, e.id)} : \E j, u, ms :
               FinishClearing(r, e.id, SetToBag({e}), j, u, tm, ms, {})
         /\ UNCHANGED <<up, decided>>
  BY Zenon DEF TryRefused
<1>2. CASE Crash(r, SetToBag({e}))
  BY <1>2, CrashEnds
<1>3. CASE /\ \E tm \in {"fast", "slow", Armed(r, e.id)} : \E j, u, ms :
                FinishClearing(r, e.id, SetToBag({e}), j, u, tm, ms, {})
           /\ UNCHANGED <<up, decided>>
  BY <1>3, ClearingEnds
<1>4. QED
  BY <1>1, <1>2, <1>3

\* A TRY_PRE_ACCEPT that was taken.
LEMMA TryTakenEnds ==
    ASSUME NEW r, NEW e, NEW i, NEW t, NEW m, TryTaken(r, e, i, t, m)
    PROVE  Ended(r, e.id)
BY FinishEnds DEF TryTaken

-----------------------------------------------------------------------------
(* Every handler ends in one of the ways of Ended.                         *)

\* pre_accept keeps the timeout step() found or armed.
LEMMA PreAcceptEnds ==
    ASSUME NEW r, NEW e, PreAccept(r, e)
    PROVE  Ended(r, e.id)
BY IgnoreEnds, AnswerEnds, CrashEnds, ClearingEnds DEF PreAccept

\* pre_accept_ok, by what it ends in.
LEMMA PreAcceptOkEnds ==
    ASSUME NEW r, NEW e, PreAcceptOk(r, e)
    PROVE  Ended(r, e.id)
BY IgnoreEnds, PreacceptedEnds DEF PreAcceptOk

\* pre_accept_reply, by what it ends in.
LEMMA PreAcceptReplyEnds ==
    ASSUME NEW r, NEW e, PreAcceptReply(r, e)
    PROVE  Ended(r, e.id)
BY IgnoreEnds, NackedEnds, PreacceptedEnds DEF PreAcceptReply

\* accept keeps the timeout step() found or armed.
LEMMA AcceptEnds ==
    ASSUME NEW r, NEW e, Accept(r, e)
    PROVE  Ended(r, e.id)
BY IgnoreEnds, AnswerEnds, ClearingEnds DEF Accept

\* accept_reply, by what it ends in.
LEMMA AcceptReplyEnds ==
    ASSUME NEW r, NEW e, AcceptReply(r, e)
    PROVE  Ended(r, e.id)
BY IgnoreEnds, NackedEnds, DoCommitEnds, FinishEnds DEF AcceptReply

\* prepare keeps the timeout step() found or armed.
LEMMA PrepareEnds ==
    ASSUME NEW r, NEW e, Prepare(r, e)
    PROVE  Ended(r, e.id)
BY AnswerEnds, FinishEnds DEF Prepare

\* prepare_reply, by what it ends in.
LEMMA PrepareReplyEnds ==
    ASSUME NEW r, NEW e, PrepareReply(r, e)
    PROVE  Ended(r, e.id)
BY IgnoreEnds, FinishEnds, DoCommitEnds, RecoverNoopEnds, RecoverAcceptEnds,
   RecoverTryEnds, RecoverPhase1Ends DEF PrepareReply

\* try_pre_accept keeps the timeout step() found or armed.
LEMMA TryPreAcceptEnds ==
    ASSUME NEW r, NEW e, TryPreAccept(r, e)
    PROVE  Ended(r, e.id)
BY AnswerEnds, CrashEnds, FinishEnds DEF TryPreAccept

\* try_pre_accept_reply, by what it ends in.
LEMMA TryPreAcceptReplyEnds ==
    ASSUME NEW r, NEW e, TryPreAcceptReply(r, e)
    PROVE  Ended(r, e.id)
BY IgnoreEnds, TryTakenEnds, FinishEnds, TryRefusedEnds DEF TryPreAcceptReply

\* commit cancels the timeout of the instance it commits (epaxos.c:447).
LEMMA CommitEnds ==
    ASSUME NEW r, NEW e, Commit(r, e)
    PROVE  Ended(r, e.id)
<1>1. Touched(r, e.id, "none")
  BY ClearingTouches DEF Commit
<1>2. decided' = [decided EXCEPT ![r] = @ \union {e.id}]
  BY Zenon DEF Commit
<1>3. DOMAIN up' = DOMAIN up /\ \A q \in DOMAIN up : q # r => up'[q] = up[q]
  BY DEF Commit
<1>4. QED
  BY <1>1, <1>2, <1>3, Zenon DEF Ended

\* One message, whichever it is.
LEMMA ReceiveEnds ==
    ASSUME NEW r, Receive(r)
    PROVE  up[r] /\ \E id : Ended(r, id)
<1>1. \E type : \E e \in Arrived(r, type) : Ended(r, e.id)
  BY PreAcceptEnds, PreAcceptOkEnds, PreAcceptReplyEnds, AcceptEnds, AcceptReplyEnds,
     CommitEnds, PrepareEnds, PrepareReplyEnds, TryPreAcceptEnds, TryPreAcceptReplyEnds,
     Zenon DEF Receive
<1>2. QED
  BY <1>1, Zenon DEF Arrived

\* propose ends in phase1.
LEMMA ProposeEnds ==
    ASSUME NEW r, Propose(r)
    PROVE  up[r] /\ \E id : Ended(r, id)
BY Phase1Ends, Zenon DEF Propose

\* Either timeout leaves the slow-path timeout armed, or reads freed memory.
LEMMA TimeoutEnds ==
    ASSUME NEW r, NEW id, FastPathTimeout(r, id) \/ SlowPathTimeout(r, id)
    PROVE  up[r] /\ Ended(r, id)
<1>1. CASE FastPathTimeout(r, id)
  <2>1. up[r]
    BY <1>1, Zenon DEF FastPathTimeout
  <2>2. \/ Crash(r, EmptyBag)
        \/ \E m : Finish(r, id, EmptyBag, inst[r][id], lt[r][id], "slow", <<m>>)
    BY <1>1, Zenon DEF FastPathTimeout
  <2>3. ASSUME NEW m, Finish(r, id, EmptyBag, inst[r][id], lt[r][id], "slow", <<m>>)
        PROVE  Ended(r, id)
    <3>1. "slow" \in {"fast", "slow", Armed(r, id)}
      OBVIOUS
    <3>2. QED
      BY <2>3, <3>1, FinishEnds, SMT
  <2>4. QED
    BY <2>1, <2>2, <2>3, CrashEnds, Zenon
<1>2. CASE SlowPathTimeout(r, id)
  BY <1>2, RecoverEnds, CrashEnds DEF SlowPathTimeout
<1>3. QED
  BY <1>1, <1>2

\* The executor changes the status of an instance that is in the index, or
\* reads freed memory.
LEMMA ExecuteKeepsSupervised ==
    ASSUME Shape, Supervised, NEW r \in Replicas, NEW id \in Ids, Execute(r, id)
    PROVE  Shape' /\ Supervised'
<1>1. CASE ~Known(r, id)
  <2>1. up[r] /\ Ended(r, id)
    BY <1>1, CrashEnds DEF Execute
  <2>2. QED
    BY <2>1, EndedKeepsSupervised
<1>2. CASE Known(r, id)
  <2>1. UNCHANGED <<timer, up, decided>> /\ inst' = [inst EXCEPT ![r][id].status = EXECUTED]
    BY <1>2 DEF Execute
  <2>2. Shape'
    BY <2>1 DEF Shape
  <2>3. \A q \in Replicas, x \in Ids : ~(q = r /\ x = id) => inst'[q][x] = inst[q][x]
    BY <2>1 DEF Shape
  <2>4. \A q \in Replicas, x \in Ids : Known(q, x)' => Known(q, x)
    BY <1>2, <2>3 DEF Known
  <2>5. Supervised'
    BY <2>1, <2>4 DEF Supervised
  <2>6. QED
    BY <2>2, <2>5
<1>3. QED
  BY <1>1, <1>2

-----------------------------------------------------------------------------

\* Supervised is inductive with the domains of the variables.
LEMMA SupervisedInit ==
    ASSUME Init
    PROVE  Shape /\ Supervised
<1>1. Shape
  BY DEF Init, Shape
<1>2. ASSUME NEW r \in Replicas, NEW id \in Ids
      PROVE  ~Known(r, id)
  <2>1. inst[r][id] = AbsentInstance
    BY DEF Init
  <2>2. AbsentInstance.status = ABSENT
    BY DEF AbsentInstance, NewInstance
  <2>3. QED
    BY <2>1, <2>2 DEF Known
<1>3. Supervised
  BY <1>2 DEF Supervised
<1>4. QED
  BY <1>1, <1>3

\* Every step of every replica keeps it.
LEMMA SupervisedStep ==
    ASSUME Shape, Supervised, [Next]_vars
    PROVE  Shape' /\ Supervised'
<1>1. ASSUME NEW r \in Leaders, Propose(r)
      PROVE  Shape' /\ Supervised'
  BY <1>1, ProposeEnds, EndedKeepsSupervised, ReplicaAssumption
<1>2. ASSUME NEW r \in Replicas, Receive(r)
      PROVE  Shape' /\ Supervised'
  BY <1>2, ReceiveEnds, EndedKeepsSupervised
<1>3. ASSUME NEW r \in Replicas, NEW id \in Ids, FastPathTimeout(r, id)
      PROVE  Shape' /\ Supervised'
  BY <1>3, TimeoutEnds, EndedKeepsSupervised
<1>4. ASSUME NEW r \in Replicas, NEW id \in Ids, SlowPathTimeout(r, id)
      PROVE  Shape' /\ Supervised'
  BY <1>4, TimeoutEnds, EndedKeepsSupervised
<1>5. ASSUME NEW r \in Executors, NEW id \in Ids, Execute(r, id)
      PROVE  Shape' /\ Supervised'
  BY <1>5, ExecuteKeepsSupervised, ReplicaAssumption
<1>6. CASE UNCHANGED vars
  BY <1>6 DEF vars, Shape, Supervised, Known
<1>7. QED
  BY <1>1, <1>2, <1>3, <1>4, <1>5, <1>6 DEF Next

\* Whatever the replicas, links, timeouts and losses: an instance a running
\* replica knows has a timeout pending or was committed by that replica, so
\* tick() (replica.c:147) always comes back to what the replica has not
\* decided.
THEOREM NeverOrphaned == Spec => []Supervised
<1>1. Init => Shape /\ Supervised
  BY SupervisedInit
<1>2. Shape /\ Supervised /\ [Next]_vars => (Shape /\ Supervised)'
  BY SupervisedStep
<1>3. QED
  BY <1>1, <1>2, PTL DEF Spec

-----------------------------------------------------------------------------
(* Whose promise is asked for.  Every handler sends what Spoken allows.    *)

\* If m is a PREPARE of r, or the answer of r to one, and no refusal, it is
\* under a ballot of the replica that asks.
OwnedBy(r, m) ==
    /\ IsMessage(m)
    /\ ~m.nack => /\ m.type = "PREPARE" => m.ballot % 16 = r
                  /\ m.type = "PREPARE_REPLY" => m.ballot % 16 = m.from

Spoken(r) ==
    \/ \E used : net' = net (-) used
    \/ \E used, ms :
          /\ Send(r, used, ms)
          /\ ms = <<>> \/ Len(ms) = 1 \/ Len(ms) = 2
          /\ \A k \in 1..Len(ms) : OwnedBy(r, ms[k])

\* larger_ballot (instance.c:67) makes a ballot of r, also where it wraps.
LEMMA LargerIsOwn ==
    ASSUME NEW r \in Replicas, NEW b \in Ballot
    PROVE  LargerBallot(b, r) % 16 = r
<1> DEFINE a == b \div 16
<1>1. a \in 0..15 /\ r \in 0..15
  BY InstanceAssumption DEF Ballot, Replicas
<1>2. LargerBallot(b, r) = ((a + 1) * 16 + r) % 256
  BY DEF LargerBallot, UniqueBallot
<1>. HIDE DEF a
<1>3. CASE a = 15
  BY <1>1, <1>2, <1>3
<1>4. CASE a # 15
  <2>1. (a + 1) * 16 + r \in 0..255
    BY <1>1, <1>4
  <2>2. LargerBallot(b, r) = (a + 1) * 16 + r
    BY <1>2, <2>1
  <2>3. QED
    BY <1>1, <2>2
<1>5. QED
  BY <1>3, <1>4

\* Whatever Spoken sends leaves every promise under way with its owner.
LEMMA SpokenKeeps ==
    ASSUME PromisesOwned, NEW r \in Replicas, Spoken(r)
    PROVE  PromisesOwned'
<1>1. SUFFICES ASSUME NEW c \in BagToSet(net'), c \notin BagToSet(net), ~c.nack
               PROVE  /\ c.type = "PREPARE" => c.ballot % 16 = c.from
                      /\ c.type = "PREPARE_REPLY" => c.ballot % 16 = c.to
  BY DEF PromisesOwned
<1>2. CASE \E used : net' = net (-) used
  BY <1>1, <1>2, BagMinus
<1>3. CASE \E used, ms :
             /\ Send(r, used, ms)
             /\ ms = <<>> \/ Len(ms) = 1 \/ Len(ms) = 2
             /\ \A k \in 1..Len(ms) : OwnedBy(r, ms[k])
  <2>1. PICK used, ms :
           /\ Send(r, used, ms)
           /\ ms = <<>> \/ Len(ms) = 1 \/ Len(ms) = 2
           /\ \A k \in 1..Len(ms) : OwnedBy(r, ms[k])
    BY <1>3
  <2>2. PICK k \in 1..Len(ms) : c \in BagToSet(Copies(r, ms[k]))
    BY <1>1, <2>1, SendAdds
  <2>3. PICK m : m = ms[k]
    OBVIOUS
  <2>4. PICK j \in 1..Len(Targets(r, m)) : c = CopyTo(r, m, Targets(r, m)[j])
    BY <2>2, <2>3, CopiesAre
  <2>5. OwnedBy(r, m)
    BY <2>1, <2>3
  <2>6. /\ c.from = r /\ c.to = Targets(r, m)[j] /\ c.type = m.type
        /\ c.ballot = m.ballot /\ c.nack = m.nack
    BY <2>4, <2>5, CopyFields DEF OwnedBy
  <2>7. m.type = "PREPARE_REPLY" => Targets(r, m)[j] = m.from
    <3>1. SUFFICES ASSUME m.type = "PREPARE_REPLY"
                   PROVE  Targets(r, m)[j] = m.from
      OBVIOUS
    <3>2. Targets(r, m) = <<m.from>>
      BY <3>1 DEF Targets
    <3>3. QED
      BY <2>4, <3>2
  <2>8. QED
    BY <1>1, <2>5, <2>6, <2>7 DEF OwnedBy
<1>4. QED
  BY <1>2, <1>3 DEF Spoken

\* A handler that hands one message to the io thread.
LEMMA OneSpoken ==
    ASSUME NEW r, NEW id, NEW used, NEW i, NEW t, NEW tm, NEW m, NEW gone,
           FinishClearing(r, id, used, i, t, tm, <<m>>, gone), OwnedBy(r, m)
    PROVE  Spoken(r)
<1>1. Send(r, used, <<m>>)
  BY Zenon DEF FinishClearing
<1>2. Len(<<m>>) = 1 /\ \A k \in 1..Len(<<m>>) : <<m>>[k] = m
  OBVIOUS
<1>3. \A k \in 1..Len(<<m>>) : OwnedBy(r, <<m>>[k])
  BY <1>2, Zenon
<1>4. QED
  BY <1>1, <1>2, <1>3, Zenon DEF Spoken

\* One that sends nothing.
LEMMA NoneSpoken ==
    ASSUME NEW r, NEW id, NEW used, NEW i, NEW t, NEW tm, NEW gone,
           FinishClearing(r, id, used, i, t, tm, <<>>, gone)
    PROVE  Spoken(r)
<1>1. Send(r, used, <<>>)
  BY Zenon DEF FinishClearing
<1>2. \A k \in 1..Len(<<>>) : OwnedBy(r, <<>>[k])
  OBVIOUS
<1>3. QED
  BY <1>1, <1>2, Zenon DEF Spoken

\* The same of Finish, which clears nothing.
LEMMA FinishSpoken ==
    ASSUME NEW r, NEW id, NEW used, NEW i, NEW t, NEW tm, NEW m, OwnedBy(r, m)
    PROVE  /\ Finish(r, id, used, i, t, tm, <<m>>) => Spoken(r)
           /\ Finish(r, id, used, i, t, tm, <<>>) => Spoken(r)
BY OneSpoken, NoneSpoken, Zenon DEF Finish

\* A handler that faults sends nothing.
LEMMA CrashSpoken ==
    ASSUME NEW r, NEW used, Crash(r, used)
    PROVE  Spoken(r)
BY Zenon DEF Crash, Spoken

\* A handler that returns early, and one that answers.
LEMMA ReturnSpoken ==
    ASSUME NEW r, NEW e
    PROVE  /\ Ignore(r, e) => Spoken(r)
           /\ \A m : OwnedBy(r, m) /\ Answer(r, e, m) => Spoken(r)
BY FinishSpoken, NoneSpoken, Zenon DEF Ignore, Answer, Finish

\* phase1 sends PRE_ACCEPT.
LEMMA Phase1MessageOwned ==
    ASSUME NEW r, NEW i, NEW m, IsMessage(m)
    PROVE  OwnedBy(r, Phase1Message(i, m))
<1>1. PICK x : x = [m EXCEPT !.type = "PRE_ACCEPT", !.seq = i.seq, !.deps = i.deps]
  OBVIOUS
<1>2. OwnedBy(r, x)
  BY <1>1 DEF OwnedBy, IsMessage
<1>3. QED
  BY <1>1, <1>2, Zenon DEF Phase1Message

\* So does a handler that ends in phase1.
LEMMA Phase1Spoken ==
    ASSUME NEW r, NEW id, NEW used, NEW t, NEW m, IsMessage(m), Phase1(r, id, used, t, m)
    PROVE  Spoken(r)
<1>1. CASE Crash(r, used)
  BY <1>1, CrashSpoken
<1>2. CASE ~Crash(r, used)
  <2>1. PICK i, t2, tm : Finish(r, id, used, i, t2, tm, <<Phase1Message(i, m)>>)
    BY <1>2, Zenon DEF Phase1
  <2>2. OwnedBy(r, Phase1Message(i, m))
    BY Phase1MessageOwned
  <2>3. QED
    BY <2>1, <2>2, FinishSpoken, Zenon
<1>3. QED
  BY <1>1, <1>2

\* recover sends the PREPARE, under a ballot of its own.
LEMMA RecoverSpoken ==
    ASSUME NEW r \in Replicas, NEW id, NEW used, NEW i, NEW t0, NEW m,
           IsMessage(m), i.ballot \in Ballot, Recover(r, id, used, i, t0, m)
    PROVE  Spoken(r)
<1> DEFINE b == LargerBallot(i.ballot, r)
<1>1. b % 16 = r
  BY LargerIsOwn
<1>2. PICK x, j, t, tm :
         /\ x = [m EXCEPT !.type = "PREPARE", !.ballot = b, !.cmd = i.cmd, !.seq = i.seq]
         /\ Finish(r, id, used, j, t, tm, <<x>>)
  BY Zenon DEF Recover
<1>. HIDE DEF b
<1>3. OwnedBy(r, x)
  BY <1>1, <1>2 DEF OwnedBy, IsMessage
<1>4. QED
  BY <1>2, <1>3, FinishSpoken, Zenon

\* do_commit sends COMMIT.
LEMMA DoCommitSpoken ==
    ASSUME NEW r, NEW id, NEW used, NEW i, NEW t, NEW m, IsMessage(m),
           DoCommit(r, id, used, i, t, m)
    PROVE  Spoken(r)
<1> DEFINE m2 == [m EXCEPT !.type = "COMMIT"]
<1>1. OwnedBy(r, m2)
  BY DEF OwnedBy, IsMessage
<1>2. \E j, tm : FinishClearing(r, id, used, j, t, tm, <<m2>>, {})
  BY Zenon DEF DoCommit
<1>. HIDE DEF m2
<1>3. QED
  BY <1>1, <1>2, OneSpoken, Zenon

\* A refusal is counted or starts recovery.
LEMMA NackedSpoken ==
    ASSUME NEW r \in Replicas, NEW e, NEW i, NEW t, NEW m, IsMessage(m),
           i.ballot \in Ballot, Nacked(r, e, i, t, m)
    PROVE  Spoken(r)
<1>1. \/ \E t2 : Recover(r, e.id, SetToBag({e}), i, t2, m)
      \/ \E t2, tm : Finish(r, e.id, SetToBag({e}), i, t2, tm, <<>>)
  BY Zenon DEF Nacked
<1>2. QED
  BY <1>1, RecoverSpoken, NoneSpoken, Zenon DEF Finish

\* The end of the first phase sends COMMIT or ACCEPT.
LEMMA PreacceptedSpoken ==
    ASSUME NEW r, NEW e, NEW i, NEW t, NEW m, NEW fast, IsMessage(m),
           Preaccepted(r, e, i, t, m, fast)
    PROVE  Spoken(r)
<1> DEFINE m2 == [m EXCEPT !.type = "ACCEPT"]
<1>1. OwnedBy(r, m2)
  BY DEF OwnedBy, IsMessage
<1>2. \/ DoCommit(r, e.id, SetToBag({e}), i, t, m)
      \/ \E j, tm : Finish(r, e.id, SetToBag({e}), j, t, tm, <<m2>>)
      \/ \E tm : Finish(r, e.id, SetToBag({e}), i, t, tm, <<>>)
  BY Zenon DEF Preaccepted
<1>. HIDE DEF m2
<1>3. QED
  BY <1>1, <1>2, DoCommitSpoken, OneSpoken, NoneSpoken, Zenon DEF Finish

\* Recovery that ends sends ACCEPT.
LEMMA RecoverNoopSpoken ==
    ASSUME NEW r, NEW e, NEW i, NEW t, NEW m, IsMessage(m), RecoverNoop(r, e, i, t, m)
    PROVE  Spoken(r)
<1> DEFINE deps == NoopDeps([inst[r] EXCEPT ![e.id] = i], e.id)
<1>1. PICK x, j, u, tm :
         /\ x = [m EXCEPT !.type = "ACCEPT", !.cmd = NoCommand, !.ballot = i.ballot,
                          !.deps = deps]
         /\ Finish(r, e.id, SetToBag({e}), j, u, tm, <<x>>)
  BY Zenon DEF RecoverNoop
<1>. HIDE DEF deps
<1>2. OwnedBy(r, x)
  BY <1>1 DEF OwnedBy, IsMessage
<1>3. QED
  BY <1>1, <1>2, FinishSpoken, Zenon

\* Recovery that asks to accept what it found.
LEMMA RecoverAcceptSpoken ==
    ASSUME NEW r, NEW e, NEW i, NEW t, NEW m, IsMessage(m), RecoverAccept(r, e, i, t, m)
    PROVE  Spoken(r)
<1>1. PICK x, j, u, tm :
         /\ x = [m EXCEPT !.type = "ACCEPT", !.ballot = i.ballot, !.seq = t.ri.seq,
                          !.deps = t.ri.deps]
         /\ Finish(r, e.id, SetToBag({e}), j, u, tm, <<x>>)
  BY Zenon DEF RecoverAccept
<1>2. OwnedBy(r, x)
  BY <1>1 DEF OwnedBy, IsMessage
<1>3. QED
  BY <1>1, <1>2, FinishSpoken, Zenon

\* Recovery that starts over sends PRE_ACCEPT.
LEMMA RecoverPhase1Spoken ==
    ASSUME NEW r, NEW e, NEW i, NEW t, NEW m, IsMessage(m), RecoverPhase1(r, e, i, t, m)
    PROVE  Spoken(r)
<1>1. PICK x, u : /\ x = [m EXCEPT !.cmd = t.ri.cmd, !.ballot = i.ballot]
                  /\ Phase1(r, e.id, SetToBag({e}), u, x)
  BY Zenon DEF RecoverPhase1
<1>2. IsMessage(x)
  BY <1>1 DEF IsMessage
<1>3. QED
  BY <1>1, <1>2, Phase1Spoken, Zenon

\* Recovery that tries to pre-accept what it found.
LEMMA RecoverTrySpoken ==
    ASSUME NEW r, NEW e, NEW i, NEW t0, NEW m, IsMessage(m), RecoverTry(r, e, i, t0, m)
    PROVE  Spoken(r)
<1>1. [t0 EXCEPT !.pre_accept_oks = 0, !.nacks = 0, !.quorum = Replicas].ri = t0.ri
  OBVIOUS
<1>2. \/ Crash(r, SetToBag({e}))
      \/ \E x, u : /\ x = [m EXCEPT !.cmd = t0.ri.cmd, !.ballot = i.ballot]
                   /\ Phase1(r, e.id, SetToBag({e}), u, x)
      \/ \E x, j, u, tm :
            /\ x = [m EXCEPT !.type = "TRY_PRE_ACCEPT", !.cmd = j.cmd, !.seq = j.seq,
                             !.deps = j.deps, !.ballot = j.ballot]
            /\ Finish(r, e.id, SetToBag({e}), j, u, tm, <<x>>)
  BY <1>1, Zenon DEF RecoverTry
<1>3. ASSUME NEW x, NEW u, x = [m EXCEPT !.cmd = t0.ri.cmd, !.ballot = i.ballot],
             Phase1(r, e.id, SetToBag({e}), u, x)
      PROVE  Spoken(r)
  <2>1. IsMessage(x)
    BY <1>3 DEF IsMessage
  <2>2. QED
    BY <1>3, <2>1, Phase1Spoken
<1>4. ASSUME NEW x, NEW j, NEW u, NEW tm,
             x = [m EXCEPT !.type = "TRY_PRE_ACCEPT", !.cmd = j.cmd, !.seq = j.seq,
                           !.deps = j.deps, !.ballot = j.ballot],
             Finish(r, e.id, SetToBag({e}), j, u, tm, <<x>>)
      PROVE  Spoken(r)
  <2>1. OwnedBy(r, x)
    BY <1>4 DEF OwnedBy, IsMessage
  <2>2. QED
    BY <1>4, <2>1, FinishSpoken
<1>5. QED
  BY <1>2, <1>3, <1>4, CrashSpoken, Zenon

\* A TRY_PRE_ACCEPT that was taken is counted, or ends in ACCEPT.
LEMMA TryTakenSpoken ==
    ASSUME NEW r, NEW e, NEW i, NEW t, NEW m, IsMessage(m), TryTaken(r, e, i, t, m)
    PROVE  Spoken(r)
<1>1. \/ \E u : Finish(r, e.id, SetToBag({e}), i, u, Armed(r, e.id), <<>>)
      \/ \E x, j, u, ri :
            /\ x = [m EXCEPT !.type = "ACCEPT", !.cmd = ri.cmd, !.seq = ri.seq,
                             !.deps = ri.deps, !.status = ACCEPTED]
            /\ Finish(r, e.id, SetToBag({e}), j, u, Armed(r, e.id), <<x>>)
  BY Zenon DEF TryTaken
<1>2. ASSUME NEW x, NEW j, NEW u, NEW ri,
             x = [m EXCEPT !.type = "ACCEPT", !.cmd = ri.cmd, !.seq = ri.seq,
                           !.deps = ri.deps, !.status = ACCEPTED],
             Finish(r, e.id, SetToBag({e}), j, u, Armed(r, e.id), <<x>>)
      PROVE  Spoken(r)
  <2>1. OwnedBy(r, x)
    BY <1>2 DEF OwnedBy, IsMessage
  <2>2. QED
    BY <1>2, <2>1, FinishSpoken
<1>3. ASSUME NEW u, Finish(r, e.id, SetToBag({e}), i, u, Armed(r, e.id), <<>>)
      PROVE  Spoken(r)
  BY <1>3, NoneSpoken DEF Finish
<1>4. QED
  BY <1>1, <1>2, <1>3, Zenon

\* A refused TRY_PRE_ACCEPT sends PRE_ACCEPT, up to twice.
LEMMA TryRefusedSpoken ==
    ASSUME NEW r, NEW e, NEW i, NEW t, NEW m, NEW conflict, IsMessage(m),
           TryRefused(r, e, i, t, m, conflict)
    PROVE  Spoken(r)
<1>1. CASE Crash(r, SetToBag({e}))
  BY <1>1, CrashSpoken
<1>2. CASE ~Crash(r, SetToBag({e}))
  <2>1. PICK first, second, b, m2, ms :
           /\ m2 = [m EXCEPT !.cmd = t.ri.cmd, !.ballot = b]
           /\ ms = (IF first THEN <<m>> ELSE <<>>) \o (IF second THEN <<m2>> ELSE <<>>)
           /\ \E j, u, tm :
                 \/ ms = <<>> /\ FinishClearing(r, e.id, SetToBag({e}), j, u, tm, <<>>, {})
                 \/ FinishClearing(r, e.id, SetToBag({e}), j, u, tm,
                        [k \in 1..Len(ms) |->
                            Phase1Message(Phase1Instance(r, e.id, ms[k]), ms[k])], {})
    BY <1>2, ZenonT(60) DEF TryRefused
  <2> DEFINE asks == [k \in 1..Len(ms) |->
                         Phase1Message(Phase1Instance(r, e.id, ms[k]), ms[k])]
  <2>2. IsMessage(m2)
    BY <2>1 DEF IsMessage
  <2>3. /\ ms = <<>> \/ Len(ms) = 1 \/ Len(ms) = 2
        /\ \A k \in 1..Len(ms) : ms[k] \in {m, m2}
        /\ ms = <<>> => Len(ms) = 0
    <3>1. ms = (IF first THEN <<m>> ELSE <<>>) \o (IF second THEN <<m2>> ELSE <<>>)
      BY <2>1
    <3>2. QED
      BY <3>1, AsksAre
  <2>4. CASE \E j, u, tm : FinishClearing(r, e.id, SetToBag({e}), j, u, tm, <<>>, {})
    BY <2>4, NoneSpoken
  <2>5. CASE \E j, u, tm : FinishClearing(r, e.id, SetToBag({e}), j, u, tm, asks, {})
    <3>1. Send(r, SetToBag({e}), asks)
      BY <2>5, Zenon DEF FinishClearing
    <3>2. Len(asks) = Len(ms)
      BY <2>3
    <3>3. \A k \in 1..Len(asks) : OwnedBy(r, asks[k])
      <4>1. ASSUME NEW k \in 1..Len(ms)
            PROVE  OwnedBy(r, asks[k])
        <5>1. IsMessage(ms[k])
          BY <2>2, <2>3
        <5>2. asks[k] = Phase1Message(Phase1Instance(r, e.id, ms[k]), ms[k])
          OBVIOUS
        <5>3. QED
          BY <5>1, <5>2, Phase1MessageOwned, Zenon
      <4>2. QED
        BY <3>2, <4>1, Zenon
    <3>4. asks = <<>> \/ Len(asks) = 1 \/ Len(asks) = 2
      BY <2>3, <3>2
    <3>. HIDE DEF asks
    <3>5. QED
      BY <3>1, <3>3, <3>4, Zenon DEF Spoken
  <2>6. QED
    BY <2>1, <2>4, <2>5, Zenon
<1>3. QED
  BY <1>1, <1>2

-----------------------------------------------------------------------------
(* The handlers.                                                           *)

\* What every handler starts from.
LEMMA ReadMessage ==
    ASSUME Inv, NEW r \in Replicas, NEW e \in BagToSet(net), NEW m \in Decode(e, inst[r])
    PROVE  /\ IsMessage(m) /\ m.type = e.type /\ e.id \in Ids
           /\ Found(r, e.id).ballot \in Ballot
<1>1. m \in Message /\ m.type = e.type /\ e.id \in Ids
  BY ReadIs
<1>2. IsMessage(m)
  BY <1>1 DEF Message, IsMessage
<1>3. inst[r][e.id] \in Instance /\ 0 \in Ballot
  BY <1>1, Counters DEF Inv, Data
<1>4. Found(r, e.id).ballot \in Ballot
  BY <1>3 DEF Found, NewInstance, Instance
<1>5. QED
  BY <1>1, <1>2, <1>4

\* pre_accept answers.
LEMMA PreAcceptSpoken ==
    ASSUME Inv, NEW r \in Replicas, NEW e \in BagToSet(net), PreAccept(r, e)
    PROVE  Spoken(r)
<1>1. PICK m \in Decode(e, inst[r]) : PreAccept(r, e)!(m)
  BY DEF PreAccept
<1> DEFINE id   == e.id
           i    == Found(r, id)
           p    == SdForCommand(inst[r], m.cmd, id, i.deps)
           nseq == Max({m.seq, p.seq + 1})
           i2   == [status |-> PreAcceptedAs(p.updated),
                    ballot |-> m.ballot, cmd |-> m.cmd, seq |-> nseq, deps |-> p.deps]
           db   == [inst[r] EXCEPT ![id] = i2]
           gone == IF m.cmd = NoCommand THEN Cleared(db) ELSE {}
           full == \/ nseq # m.seq \/ p.updated
                   \/ HasUncommittedDeps(i2.deps) \/ ~IsInitialBallot(m.ballot)
           no   == [m EXCEPT !.type = "PRE_ACCEPT_REPLY", !.ballot = i.ballot, !.cmd = i.cmd,
                             !.seq = i.seq, !.deps = i.deps, !.nack = TRUE]
           yes  == IF full THEN [m EXCEPT !.type = "PRE_ACCEPT_REPLY", !.seq = nseq,
                                          !.deps = i2.deps]
                   ELSE [m EXCEPT !.type = "PRE_ACCEPT_OK"]
<1>2. \/ Ignore(r, e)
      \/ Answer(r, e, no)
      \/ Crash(r, SetToBag({e}))
      \/ FinishClearing(r, id, SetToBag({e}), i2, lt[r][id], Armed(r, id), <<yes>>, gone)
  BY <1>1, Zenon
<1>. HIDE DEF i, nseq, i2, gone, full
<1>3. IsMessage(m)
  BY ReadMessage
<1>4. OwnedBy(r, no)
  <2>1. PICK x : x = no
    OBVIOUS
  <2>2. OwnedBy(r, x)
    BY <1>3, <2>1 DEF OwnedBy, IsMessage
  <2>3. QED
    BY <2>1, <2>2, Zenon
<1>5. OwnedBy(r, yes)
  <2>1. PICK x : x = yes
    OBVIOUS
  <2>2. OwnedBy(r, x)
    BY <1>3, <2>1 DEF OwnedBy, IsMessage
  <2>3. QED
    BY <2>1, <2>2, Zenon
<1>. HIDE DEF no, yes
<1>6. QED
  BY <1>2, <1>4, <1>5, ReturnSpoken, CrashSpoken, OneSpoken, Zenon

\* pre_accept_ok, by what it ends in.
LEMMA PreAcceptOkSpoken ==
    ASSUME Inv, NEW r \in Replicas, NEW e \in BagToSet(net), PreAcceptOk(r, e)
    PROVE  Spoken(r)
<1>1. PICK m \in Decode(e, inst[r]) :
         Ignore(r, e) \/ \E i, t, fast : Preaccepted(r, e, i, t, m, fast)
  BY Zenon DEF PreAcceptOk
<1>2. QED
  BY <1>1, ReadMessage, ReturnSpoken, PreacceptedSpoken, Zenon

\* pre_accept_reply, by what it ends in.
LEMMA PreAcceptReplySpoken ==
    ASSUME Inv, NEW r \in Replicas, NEW e \in BagToSet(net), PreAcceptReply(r, e)
    PROVE  Spoken(r)
<1>1. PICK m \in Decode(e, inst[r]) :
         \/ Ignore(r, e)
         \/ \E t : Nacked(r, e, Found(r, e.id), t, m)
         \/ \E i, t, fast : Preaccepted(r, e, i, t, m, fast)
  BY Zenon DEF PreAcceptReply
<1>2. IsMessage(m) /\ Found(r, e.id).ballot \in Ballot
  BY ReadMessage
<1>3. QED
  BY <1>1, <1>2, ReturnSpoken, NackedSpoken, PreacceptedSpoken, Zenon

\* accept answers.
LEMMA AcceptSpoken ==
    ASSUME Inv, NEW r \in Replicas, NEW e \in BagToSet(net), Accept(r, e)
    PROVE  Spoken(r)
<1>1. PICK m \in Decode(e, inst[r]) :
         \/ Ignore(r, e)
         \/ \E x, b :
               /\ x = [[m EXCEPT !.type = "ACCEPT_REPLY"] EXCEPT !.nack = TRUE, !.ballot = b]
               /\ Answer(r, e, x)
         \/ \E x, i, t, tm, gone :
               /\ x = [m EXCEPT !.type = "ACCEPT_REPLY"]
               /\ FinishClearing(r, e.id, SetToBag({e}), i, t, tm, <<x>>, gone)
  BY Zenon DEF Accept
<1>2. IsMessage(m)
  BY ReadMessage
<1>3. PICK y : y = [m EXCEPT !.type = "ACCEPT_REPLY"]
  OBVIOUS
<1>4. OwnedBy(r, y) /\ IsMessage(y) /\ y.type = "ACCEPT_REPLY"
  BY <1>2, <1>3 DEF OwnedBy, IsMessage
<1>5. ASSUME NEW x, NEW b, x = [y EXCEPT !.nack = TRUE, !.ballot = b], Answer(r, e, x)
      PROVE  Spoken(r)
  <2>1. OwnedBy(r, x)
    BY <1>4, <1>5 DEF OwnedBy, IsMessage
  <2>2. QED
    BY <1>5, <2>1, ReturnSpoken
<1>6. QED
  BY <1>1, <1>3, <1>4, <1>5, ReturnSpoken, OneSpoken, Zenon

\* accept_reply, by what it ends in.
LEMMA AcceptReplySpoken ==
    ASSUME Inv, NEW r \in Replicas, NEW e \in BagToSet(net), AcceptReply(r, e)
    PROVE  Spoken(r)
<1>1. PICK m \in Decode(e, inst[r]) :
         \/ Ignore(r, e)
         \/ \E t : Nacked(r, e, Found(r, e.id), t, m)
         \/ \E i, t : DoCommit(r, e.id, SetToBag({e}), i, t, m)
         \/ \E i, t, tm : Finish(r, e.id, SetToBag({e}), i, t, tm, <<>>)
  BY Zenon DEF AcceptReply
<1>2. IsMessage(m) /\ Found(r, e.id).ballot \in Ballot
  BY ReadMessage
<1>3. QED
  BY <1>1, <1>2, ReturnSpoken, NackedSpoken, DoCommitSpoken, NoneSpoken, Zenon DEF Finish

\* commit sends nothing.
LEMMA CommitSpoken ==
    ASSUME NEW r, NEW e, Commit(r, e)
    PROVE  Spoken(r)
BY NoneSpoken, Zenon DEF Commit

\* prepare answers under the ballot that was asked for, with the nack it came with.
LEMMA PrepareSpoken ==
    ASSUME Inv, PromisesOwned, NEW r \in Replicas, NEW e \in BagToSet(net),
           e.type = "PREPARE", Prepare(r, e)
    PROVE  Spoken(r)
<1>1. PICK m \in Decode(e, inst[r]) :
         \/ Answer(r, e, [[m EXCEPT !.type = "PREPARE_REPLY"] EXCEPT !.nack = TRUE])
         \/ \E x, c, d, s, st, i, tm :
               /\ x = [[m EXCEPT !.type = "PREPARE_REPLY"] EXCEPT
                           !.cmd = c, !.deps = d, !.seq = s, !.status = st]
               /\ Finish(r, e.id, SetToBag({e}), i, lt[r][e.id], tm, <<x>>)
  BY Zenon DEF Prepare
<1>2. PICK y : y = [m EXCEPT !.type = "PREPARE_REPLY"]
  OBVIOUS
<1>3. IsMessage(y) /\ y.type = "PREPARE_REPLY" /\ (~y.nack => y.ballot % 16 = y.from)
  <2>1. IsMessage(m)
    BY ReadMessage
  <2>2. ~m.nack => m.ballot % 16 = m.from
    BY ReadIs DEF PromisesOwned
  <2>3. QED
    BY <1>2, <2>1, <2>2 DEF IsMessage
<1>4. OwnedBy(r, [y EXCEPT !.nack = TRUE])
  <2>1. PICK x : x = [y EXCEPT !.nack = TRUE]
    OBVIOUS
  <2>2. OwnedBy(r, x)
    BY <1>3, <2>1 DEF OwnedBy, IsMessage
  <2>3. QED
    BY <2>1, <2>2, Zenon
<1>5. ASSUME NEW x, NEW c, NEW d, NEW s, NEW st, NEW i, NEW tm,
             x = [y EXCEPT !.cmd = c, !.deps = d, !.seq = s, !.status = st],
             Finish(r, e.id, SetToBag({e}), i, lt[r][e.id], tm, <<x>>)
      PROVE  Spoken(r)
  <2>1. OwnedBy(r, x)
    BY <1>3, <1>5 DEF OwnedBy, IsMessage
  <2>2. QED
    BY <1>5, <2>1, FinishSpoken
<1>6. QED
  BY <1>1, <1>2, <1>4, <1>5, ReturnSpoken, Zenon

\* prepare_reply, by what it ends in.
LEMMA PrepareReplySpoken ==
    ASSUME Inv, NEW r \in Replicas, NEW e \in BagToSet(net), PrepareReply(r, e)
    PROVE  Spoken(r)
<1>1. PICK m \in Decode(e, inst[r]) :
         \/ Ignore(r, e)
         \/ \E i, t, tm : Finish(r, e.id, SetToBag({e}), i, t, tm, <<>>)
         \/ \E x, i, t, b : /\ x = [m EXCEPT !.ballot = b]
                            /\ DoCommit(r, e.id, SetToBag({e}), i, t, x)
         \/ \E i, t : \/ RecoverNoop(r, e, i, t, m)
                      \/ RecoverAccept(r, e, i, t, m)
                      \/ RecoverTry(r, e, i, t, m)
                      \/ RecoverPhase1(r, e, i, t, m)
  BY Zenon DEF PrepareReply
<1>2. IsMessage(m)
  BY ReadMessage
<1>3. \A b : IsMessage([m EXCEPT !.ballot = b])
  BY <1>2 DEF IsMessage
<1>4. QED
  BY <1>1, <1>2, <1>3, ReturnSpoken, NoneSpoken, DoCommitSpoken, RecoverNoopSpoken,
     RecoverAcceptSpoken, RecoverTrySpoken, RecoverPhase1Spoken, Zenon DEF Finish

\* try_pre_accept answers.
LEMMA TryPreAcceptSpoken ==
    ASSUME Inv, NEW r \in Replicas, NEW e \in BagToSet(net), TryPreAccept(r, e)
    PROVE  Spoken(r)
<1>1. PICK m \in Decode(e, inst[r]) :
         \/ \E b : Answer(r, e, [[m EXCEPT !.type = "TRY_PRE_ACCEPT_REPLY"] EXCEPT
                                     !.ballot = b, !.nack = TRUE])
         \/ Crash(r, SetToBag({e}))
         \/ \E i, tm : Finish(r, e.id, SetToBag({e}), i, lt[r][e.id], tm,
                              <<[m EXCEPT !.type = "TRY_PRE_ACCEPT_REPLY"]>>)
  BY Zenon DEF TryPreAccept
<1>2. PICK y : y = [m EXCEPT !.type = "TRY_PRE_ACCEPT_REPLY"]
  OBVIOUS
<1>3. IsMessage(y) /\ y.type = "TRY_PRE_ACCEPT_REPLY" /\ OwnedBy(r, y)
  <2>1. IsMessage(m)
    BY ReadMessage
  <2>2. QED
    BY <1>2, <2>1 DEF IsMessage, OwnedBy
<1>4. ASSUME NEW b
      PROVE  OwnedBy(r, [y EXCEPT !.ballot = b, !.nack = TRUE])
  <2>1. PICK x : x = [y EXCEPT !.ballot = b, !.nack = TRUE]
    OBVIOUS
  <2>2. OwnedBy(r, x)
    BY <1>3, <2>1 DEF OwnedBy, IsMessage
  <2>3. QED
    BY <2>1, <2>2, Zenon
<1>5. QED
  BY <1>1, <1>2, <1>3, <1>4, ReturnSpoken, CrashSpoken, FinishSpoken, Zenon

\* The PREPARE that goes out on the word of a conflict that was never received
\* (epaxos.c:404) keeps the nack of the refusal.
LEMMA TryPreAcceptReplySpoken ==
    ASSUME Inv, NEW r \in Replicas, NEW e \in BagToSet(net), TryPreAcceptReply(r, e)
    PROVE  Spoken(r)
<1>1. PICK m \in Decode(e, inst[r]), conflict \in ConflictFields(r) :
         TryPreAcceptReply(r, e)!(m, conflict)
  BY DEF TryPreAcceptReply
<1>2. IsMessage(m)
  BY ReadMessage
<1>3. \/ Ignore(r, e)
      \/ \E i, t : TryTaken(r, e, i, t, m)
      \/ \E x, i, t, b, tm :
            /\ x = [m EXCEPT !.type = "TRY_PRE_ACCEPT", !.ballot = b]
            /\ Finish(r, e.id, SetToBag({e}), i, t, tm, <<x>>)
      \/ \E x, i, t, tm :
            /\ m.nack
            /\ x = [m EXCEPT !.type = "PREPARE"]
            /\ Finish(r, e.id, SetToBag({e}), i, t, tm, <<x>>)
      \/ \E i, t : TryRefused(r, e, i, t, m, conflict)
  BY <1>1, Zenon
<1>4. ASSUME NEW x, NEW i, NEW t, NEW b, NEW tm,
             x = [m EXCEPT !.type = "TRY_PRE_ACCEPT", !.ballot = b],
             Finish(r, e.id, SetToBag({e}), i, t, tm, <<x>>)
      PROVE  Spoken(r)
  <2>1. OwnedBy(r, x)
    BY <1>2, <1>4 DEF OwnedBy, IsMessage
  <2>2. QED
    BY <1>4, <2>1, FinishSpoken
<1>5. ASSUME NEW x, NEW i, NEW t, NEW tm, m.nack, x = [m EXCEPT !.type = "PREPARE"],
             Finish(r, e.id, SetToBag({e}), i, t, tm, <<x>>)
      PROVE  Spoken(r)
  <2>1. OwnedBy(r, x)
    BY <1>2, <1>5 DEF OwnedBy, IsMessage
  <2>2. QED
    BY <1>5, <2>1, FinishSpoken
<1>6. QED
  BY <1>2, <1>3, <1>4, <1>5, ReturnSpoken, TryTakenSpoken, TryRefusedSpoken, Zenon

\* A proposal sends PRE_ACCEPT.
LEMMA ProposeSpoken ==
    ASSUME NEW r, Propose(r)
    PROVE  Spoken(r)
<1>1. PICK id, c : Phase1(r, id, EmptyBag, NewTracker, ProposalOf(r, id, c))
  BY Zenon DEF Propose
<1>2. IsMessage(ProposalOf(r, id, c))
  BY DEF IsMessage, ProposalOf
<1>3. QED
  BY <1>1, <1>2, Phase1Spoken, Zenon

\* The fast-path timeout sends ACCEPT.
LEMMA FastPathTimeoutSpoken ==
    ASSUME NEW r, NEW id, FastPathTimeout(r, id)
    PROVE  Spoken(r)
<1>1. \/ Crash(r, EmptyBag)
      \/ \E i, nack : Finish(r, id, EmptyBag, i, lt[r][id], "slow",
                             <<AcceptOf(r, id, i, nack)>>)
  BY Zenon DEF FastPathTimeout
<1>2. \A i, nack : OwnedBy(r, AcceptOf(r, id, i, nack))
  BY DEF OwnedBy, IsMessage, AcceptOf
<1>3. QED
  BY <1>1, <1>2, CrashSpoken, FinishSpoken, Zenon

\* The slow-path timeout recovers.
LEMMA SlowPathTimeoutSpoken ==
    ASSUME Inv, NEW r \in Replicas, NEW id \in Ids, SlowPathTimeout(r, id)
    PROVE  Spoken(r)
<1>1. \/ Crash(r, EmptyBag)
      \/ Recover(r, id, EmptyBag, inst[r][id], lt[r][id], PrepareOf(r, id))
  BY Zenon DEF SlowPathTimeout
<1>2. IsMessage(PrepareOf(r, id))
  BY DEF IsMessage, PrepareOf
<1>3. inst[r][id].ballot \in Ballot
  BY DEF Inv, Data, Instance
<1>4. QED
  BY <1>1, <1>2, <1>3, CrashSpoken, RecoverSpoken, Zenon

\* The executor sends nothing.
LEMMA ExecuteKeepsOwned ==
    ASSUME PromisesOwned, NEW r \in Replicas, NEW id, Execute(r, id)
    PROVE  PromisesOwned'
<1>1. Crash(r, EmptyBag) \/ net' = net
  BY Zenon DEF Execute
<1>2. CASE Crash(r, EmptyBag)
  BY <1>2, CrashSpoken, SpokenKeeps
<1>3. CASE net' = net
  BY <1>3 DEF PromisesOwned
<1>4. QED
  BY <1>1, <1>2, <1>3

\* Every step leaves the promises with their owners.
LEMMA OwnedStep ==
    ASSUME Inv, PromisesOwned, [Next]_vars
    PROVE  PromisesOwned'
<1>1. ASSUME NEW r \in Replicas, Receive(r)
      PROVE  PromisesOwned'
  <2>1. Spoken(r)
    BY <1>1, PreAcceptSpoken, PreAcceptOkSpoken, PreAcceptReplySpoken, AcceptSpoken,
       AcceptReplySpoken, CommitSpoken, PrepareSpoken, PrepareReplySpoken,
       TryPreAcceptSpoken, TryPreAcceptReplySpoken, Zenon DEF Receive, Arrived
  <2>2. QED
    BY <2>1, SpokenKeeps
<1>2. ASSUME NEW r \in Leaders, Propose(r)
      PROVE  PromisesOwned'
  BY <1>2, ProposeSpoken, SpokenKeeps, ReplicaAssumption
<1>3. ASSUME NEW r \in Replicas, NEW id \in Ids, FastPathTimeout(r, id)
      PROVE  PromisesOwned'
  BY <1>3, FastPathTimeoutSpoken, SpokenKeeps
<1>4. ASSUME NEW r \in Replicas, NEW id \in Ids, SlowPathTimeout(r, id)
      PROVE  PromisesOwned'
  BY <1>4, SlowPathTimeoutSpoken, SpokenKeeps
<1>5. ASSUME NEW r \in Executors, NEW id \in Ids, Execute(r, id)
      PROVE  PromisesOwned'
  BY <1>5, ExecuteKeepsOwned, ReplicaAssumption
<1>6. CASE UNCHANGED vars
  BY <1>6 DEF vars, PromisesOwned
<1>7. QED
  BY <1>1, <1>2, <1>3, <1>4, <1>5, <1>6 DEF Next

\* No replica counts a promise that was made to another: whatever memory a
\* decoded message lies in, a PREPARE under way that is no refusal carries a
\* ballot of its sender, and the answer to it one of the replica it goes to,
\* for every ballot a byte can hold, the wrapped ones included (epaxos.c:64,
\* instance.c:67), in whatever order the handlers reuse what they received.
THEOREM PromisesToOne == Spec => []PromisesOwned
<1>1. Init => PromisesOwned
  <2>1. BagToSet(EmptyBag) = {}
    BY DEF BagToSet, EmptyBag, SetToBag
  <2>2. QED
    BY <2>1 DEF Init, PromisesOwned
<1>2. Inv /\ PromisesOwned /\ [Next]_vars => PromisesOwned'
  BY OwnedStep
<1>3. QED
  BY <1>1, <1>2, Invariance, PTL DEF Spec

-----------------------------------------------------------------------------
(* What no handler takes back.  A handler stores an instance that Stands.  *)

\* i keeps the promise and the commit of the instance that r has as id, or one
\* of the exceptions of PromiseKept and of ReopenedByOwnRecovery is met.
Stands(r, id, i) ==
    /\ \/ i.ballot >= Found(r, id).ballot
       \/ WithdrawsOnRefusal(r, id)
       \/ Found(r, id).ballot >= 240
    /\ Found(r, id).status >= COMMITTED =>
          \/ i.status >= COMMITTED
          \/ lt[r][id].recovery_status # NONE
          \/ Found(r, id).cmd = NoCommand

Stored(r, id) ==
    \/ inst' = inst
    \/ \E i, gone :
          /\ inst' = [inst EXCEPT ![r] = [x \in Ids |->
                         IF x \in gone THEN AbsentInstance ELSE IF x = id THEN i ELSE @[x]]]
          /\ Stands(r, id, i)
          /\ \A x \in gone : inst[r][x].status = EXECUTED

\* The two action properties, of one replica and one instance.
Lasts(r, id) ==
    /\ \/ inst'[r][id].ballot >= inst[r][id].ballot
       \/ WithdrawsOnRefusal(r, id)
       \/ inst[r][id].ballot >= 240
       \/ inst[r][id].status = EXECUTED /\ inst'[r][id].status = ABSENT
    /\ inst[r][id].status >= COMMITTED =>
          \/ inst'[r][id].status >= COMMITTED
          \/ inst[r][id].status = EXECUTED /\ inst'[r][id].status = ABSENT
          \/ lt[r][id].recovery_status # NONE
          \/ inst[r][id].cmd = NoCommand

\* What a handler finds for an id, and that an unknown instance promised nothing.
LEMMA FoundIs ==
    ASSUME Inv, NEW r \in Replicas, NEW id \in Ids
    PROVE  /\ Found(r, id) \in Instance
           /\ inst[r][id].ballot \in Ballot
           /\ ~Known(r, id) => inst[r][id] = AbsentInstance
           /\ ~Known(r, id) => Found(r, id).ballot = 0 /\ Found(r, id).status = NONE
<1>1. /\ inst[r][id] \in Instance
      /\ inst[r][id] \in InstanceOf(proposed, AllCommitted(decided), id) \union {AbsentInstance}
  BY DEF Inv, Data
<1>2. ~Known(r, id) => inst[r][id] = AbsentInstance
  BY <1>1 DEF Known, InstanceOf, State, ABSENT, NONE, PRE_ACCEPTED, PRE_ACCEPTED_EQ, ACCEPTED,
              COMMITTED, EXECUTED
<1>3. NewInstance \in Instance
  <2>1. NewInstance \in InstanceOf(proposed, AllCommitted(decided), id)
    BY InitialRecords
  <2>2. QED
    BY <2>1, InstanceOfType DEF Inv
<1>4. NewInstance.ballot = 0 /\ NewInstance.status = NONE
  BY DEF NewInstance
<1>5. Found(r, id) \in Instance
  BY <1>1, <1>3 DEF Found
<1>6. inst[r][id].ballot \in Ballot
  BY <1>1 DEF Instance
<1>7. ~Known(r, id) => Found(r, id).ballot = 0 /\ Found(r, id).status = NONE
  BY <1>4 DEF Found
<1>8. QED
  BY <1>2, <1>5, <1>6, <1>7

\* An instance that a handler of r stores takes nothing back.
LEMMA StoredLasts ==
    ASSUME Inv, NEW r \in Replicas, NEW id \in Ids, Stored(r, id),
           NEW q \in Replicas, NEW x \in Ids
    PROVE  Lasts(q, x)
<1>1. inst \in [Replicas -> [Ids -> Instance]]
  BY DEF Inv, Data
<1>2. inst[q][x].ballot \in Int
  <2>1. inst[q][x].ballot \in Ballot
    BY FoundIs
  <2>2. QED
    BY <2>1 DEF Ballot
<1>3. CASE inst'[q][x] = inst[q][x]
  BY <1>2, <1>3 DEF Lasts
<1>4. ASSUME NEW i, NEW gone,
             inst' = [inst EXCEPT ![r] = [y \in Ids |->
                         IF y \in gone THEN AbsentInstance ELSE IF y = id THEN i ELSE @[y]]],
             Stands(r, id, i),
             \A y \in gone : inst[r][y].status = EXECUTED
      PROVE  Lasts(q, x)
  <2>1. /\ q # r => inst'[q] = inst[q]
        /\ q = r => inst'[q][x] = IF x \in gone THEN AbsentInstance
                                  ELSE IF x = id THEN i ELSE inst[q][x]
    BY <1>1, <1>4
  <2>2. CASE q = r /\ x \in gone
    <3>1. inst[q][x].status = EXECUTED /\ inst'[q][x].status = ABSENT
      BY <1>4, <2>1, <2>2, InitialRecords
    <3>2. QED
      BY <3>1 DEF Lasts
  <2>3. CASE q = r /\ x \notin gone /\ x = id
    <3>1. inst'[q][x] = i
      BY <2>1, <2>3
    <3>2. CASE Known(r, id)
      <4>1. Found(r, id) = inst[q][x]
        BY <2>3, <3>2 DEF Found
      <4>2. QED
        BY <1>4, <2>3, <3>1, <4>1 DEF Lasts, Stands
    <3>3. CASE ~Known(r, id)
      <4>1. Found(r, id).ballot = 0 /\ inst[q][x] = AbsentInstance
        BY <2>3, <3>3, FoundIs
      <4>2. AbsentInstance.ballot = 0 /\ AbsentInstance.status = ABSENT
        BY DEF AbsentInstance, NewInstance
      <4>3. i.ballot >= 0 \/ WithdrawsOnRefusal(r, id)
        BY <1>4, <4>1 DEF Stands
      <4>4. QED
        BY <2>3, <3>1, <4>1, <4>2, <4>3 DEF Lasts, ABSENT, COMMITTED
    <3>4. QED
      BY <3>2, <3>3
  <2>4. CASE ~(q = r /\ (x \in gone \/ x = id))
    BY <1>3, <2>1, <2>4
  <2>5. QED
    BY <2>2, <2>3, <2>4
<1>5. QED
  BY <1>3, <1>4 DEF Stored

\* What stands in each state of the instance and of its recovery.
LEMMA WhatStands ==
    ASSUME NEW r, NEW id, NEW i
    PROVE  /\ WithdrawsOnRefusal(r, id) => Stands(r, id, i)
           /\ /\ i.ballot >= Found(r, id).ballot \/ Found(r, id).ballot >= 240
              /\ \/ lt[r][id].recovery_status = PREPARING
                 \/ ~(Found(r, id).status >= COMMITTED)
                 \/ i.status = Found(r, id).status
                 \/ i.status = COMMITTED
              => Stands(r, id, i)
BY DEF Stands, WithdrawsOnRefusal, PREPARING, TRY_PRE_ACCEPTING, NONE, COMMITTED

-----------------------------------------------------------------------------
(* What each helper stores.                                                *)

\* A handler that stores, whatever it sends.
LEMMA ClearingStored ==
    ASSUME NEW r, NEW id, NEW used, NEW i, NEW t, NEW tm, NEW ms, Stands(r, id, i)
    PROVE  /\ \A gone : /\ FinishClearing(r, id, used, i, t, tm, ms, gone)
                        /\ \A x \in gone : inst[r][x].status = EXECUTED
                        => Stored(r, id)
           /\ FinishClearing(r, id, used, i, t, tm, ms, {}) => Stored(r, id)
           /\ Finish(r, id, used, i, t, tm, ms) => Stored(r, id)
<1>1. ASSUME NEW gone, FinishClearing(r, id, used, i, t, tm, ms, gone),
             \A x \in gone : inst[r][x].status = EXECUTED
      PROVE  Stored(r, id)
  <2>1. inst' = [inst EXCEPT ![r] = [x \in Ids |->
                    IF x \in gone THEN AbsentInstance ELSE IF x = id THEN i ELSE @[x]]]
    BY <1>1, Zenon DEF FinishClearing
  <2>2. QED
    BY <1>1, <2>1, Zenon DEF Stored
<1>2. Finish(r, id, used, i, t, tm, ms) => FinishClearing(r, id, used, i, t, tm, ms, {})
  BY Zenon DEF Finish
<1>3. FinishClearing(r, id, used, i, t, tm, ms, {}) => Stored(r, id)
  BY <1>1
<1>4. QED
  BY <1>1, <1>2, <1>3

\* A handler that faults stores nothing.
LEMMA CrashStored ==
    ASSUME NEW r, NEW id, NEW used, Crash(r, used)
    PROVE  Stored(r, id)
BY Zenon DEF Crash, Stored

\* What a handler found, it may store.
LEMMA FoundStands ==
    ASSUME Inv, NEW r \in Replicas, NEW id \in Ids
    PROVE  Stands(r, id, Found(r, id))
<1>1. Found(r, id).ballot \in Int
  BY FoundIs DEF Instance, Ballot
<1>2. Found(r, id).ballot >= Found(r, id).ballot
  BY <1>1
<1>3. QED
  BY <1>2, WhatStands

\* A handler that returns early, and one that answers.
LEMMA ReturnStored ==
    ASSUME Inv, NEW r \in Replicas, NEW e, e.id \in Ids
    PROVE  /\ Ignore(r, e) => Stored(r, e.id)
           /\ \A m : Answer(r, e, m) => Stored(r, e.id)
BY FoundStands, ClearingStored, Zenon DEF Ignore, Answer

\* phase1 stores the command pre-accepted, under the ballot of the message.
LEMMA Phase1Stored ==
    ASSUME NEW r, NEW id, NEW used, NEW t, NEW m, Phase1(r, id, used, t, m),
           \A i : i.ballot = m.ballot => Stands(r, id, i)
    PROVE  Stored(r, id)
<1>1. CASE Crash(r, used)
  BY <1>1, CrashStored
<1>2. CASE ~Crash(r, used)
  <2>1. PICK u, tm, ms : Finish(r, id, used, Phase1Instance(r, id, m), u, tm, ms)
    BY <1>2, Zenon DEF Phase1
  <2>2. Phase1Instance(r, id, m).ballot = m.ballot
    BY DEF Phase1Instance
  <2>3. QED
    BY <2>1, <2>2, ClearingStored, Zenon
<1>3. QED
  BY <1>1, <1>2

\* The next ballot is larger until the byte wraps.
LEMMA LargerRises ==
    ASSUME NEW r \in Replicas, NEW b \in Ballot
    PROVE  LargerBallot(b, r) >= b \/ b >= 240
<1> DEFINE a == b \div 16
<1>1. a \in 0..15 /\ r \in 0..15 /\ b \in Int /\ b < (a + 1) * 16
  BY InstanceAssumption DEF Ballot, Replicas
<1>2. LargerBallot(b, r) = ((a + 1) * 16 + r) % 256
  BY DEF LargerBallot, UniqueBallot
<1>3. a = 15 => b >= 240
  BY DEF Ballot
<1>. HIDE DEF a
<1>4. CASE a # 15
  <2>1. (a + 1) * 16 + r \in 0..255
    BY <1>1, <1>4
  <2>2. LargerBallot(b, r) = (a + 1) * 16 + r
    BY <1>2, <2>1
  <2>3. QED
    BY <1>1, <2>2
<1>5. QED
  BY <1>3, <1>4

\* recover raises the ballot and leaves the status.
LEMMA RecoverStored ==
    ASSUME Inv, NEW r \in Replicas, NEW id \in Ids, NEW used, NEW t, NEW m,
           Recover(r, id, used, Found(r, id), t, m)
    PROVE  Stored(r, id)
<1> DEFINE i == Found(r, id)
           b == LargerBallot(i.ballot, r)
<1>1. PICK j, u, tm, ms : j = [i EXCEPT !.ballot = b] /\ Finish(r, id, used, j, u, tm, ms)
  BY Zenon DEF Recover
<1>2. i \in Instance
  BY FoundIs
<1>3. b >= i.ballot \/ i.ballot >= 240
  BY <1>2, LargerRises DEF Instance
<1>. HIDE DEF b
<1>4. j.ballot = b /\ j.status = i.status
  BY <1>1, <1>2 DEF Instance
<1>5. Stands(r, id, j)
  BY <1>3, <1>4, WhatStands
<1>6. QED
  BY <1>1, <1>5, ClearingStored

\* i is an instance under the ballot that r has for id.
Marked(r, id, i) ==
    /\ Found(r, id).ballot \in Int
    /\ i = [status |-> i.status, ballot |-> Found(r, id).ballot, cmd |-> i.cmd, seq |-> i.seq,
            deps |-> i.deps]

\* So is what a handler found, with any attributes.
LEMMA FoundMarked ==
    ASSUME Inv, NEW r \in Replicas, NEW id \in Ids
    PROVE  /\ Marked(r, id, Found(r, id))
           /\ \A seq, deps : Marked(r, id, [Found(r, id) EXCEPT !.seq = seq, !.deps = deps])
           /\ \A cmd, seq, deps :
                Marked(r, id, [Found(r, id) EXCEPT !.seq = seq, !.cmd = cmd, !.deps = deps])
<1>1. Found(r, id) \in Instance
  BY FoundIs
<1>2. Found(r, id).ballot \in Int
  BY <1>1 DEF Instance, Ballot
<1>3. Marked(r, id, Found(r, id))
  BY <1>1, <1>2 DEF Marked, Instance
<1>4. ASSUME NEW seq, NEW deps
      PROVE  Marked(r, id, [Found(r, id) EXCEPT !.seq = seq, !.deps = deps])
  <2>1. PICK i : i = [Found(r, id) EXCEPT !.seq = seq, !.deps = deps]
    OBVIOUS
  <2>2. Marked(r, id, i)
    BY <1>1, <1>2, <2>1 DEF Marked, Instance
  <2>3. QED
    BY <2>1, <2>2, Zenon
<1>5. ASSUME NEW cmd, NEW seq, NEW deps
      PROVE  Marked(r, id, [Found(r, id) EXCEPT !.seq = seq, !.cmd = cmd, !.deps = deps])
  <2>1. PICK i : i = [Found(r, id) EXCEPT !.seq = seq, !.cmd = cmd, !.deps = deps]
    OBVIOUS
  <2>2. Marked(r, id, i)
    BY <1>1, <1>2, <2>1 DEF Marked, Instance
  <2>3. QED
    BY <2>1, <2>2, Zenon
<1>6. QED
  BY <1>3, <1>4, <1>5, Zenon

\* do_commit commits, under the ballot of the instance it is given.
LEMMA DoCommitStored ==
    ASSUME NEW r, NEW id, NEW used, NEW i, NEW t, NEW m,
           Marked(r, id, i), DoCommit(r, id, used, i, t, m)
    PROVE  Stored(r, id)
<1>1. PICK j, u, tm, ms : /\ j = [i EXCEPT !.status = COMMITTED]
                          /\ FinishClearing(r, id, used, j, u, tm, ms, {})
  BY Zenon DEF DoCommit
<1>2. j.ballot >= Found(r, id).ballot /\ j.status = COMMITTED
  BY <1>1 DEF Marked
<1>3. Stands(r, id, j)
  BY <1>2, WhatStands
<1>4. QED
  BY <1>1, <1>3, ClearingStored

\* A refusal is counted or starts recovery.
LEMMA NackedStored ==
    ASSUME Inv, NEW r \in Replicas, NEW e, e.id \in Ids, NEW t, NEW m,
           Nacked(r, e, Found(r, e.id), t, m)
    PROVE  Stored(r, e.id)
<1>1. \/ \E u : Recover(r, e.id, SetToBag({e}), Found(r, e.id), u, m)
      \/ \E u, tm, ms : Finish(r, e.id, SetToBag({e}), Found(r, e.id), u, tm, ms)
  BY Zenon DEF Nacked
<1>2. QED
  BY <1>1, RecoverStored, FoundStands, ClearingStored, Zenon

-----------------------------------------------------------------------------
(* What each handler stores.                                               *)

\* What every handler starts from.
LEMMA ReadStored ==
    ASSUME Inv, NEW r \in Replicas, NEW e \in BagToSet(net), NEW m \in Decode(e, inst[r])
    PROVE  /\ e.id \in Ids /\ m \in Message
           /\ Found(r, e.id) \in Instance
           /\ ~Stale(m, Found(r, e.id)) => m.ballot >= Found(r, e.id).ballot
<1>1. e.id \in Ids /\ m \in Message
  BY ReadIs
<1>2. Found(r, e.id) \in Instance
  BY <1>1, FoundIs
<1>3. m.ballot \in Int /\ Found(r, e.id).ballot \in Int
  BY <1>1, <1>2 DEF Message, Instance, Ballot
<1>4. QED
  BY <1>1, <1>2, <1>3 DEF Stale

\* clear_index takes executed instances only.
LEMMA ClearedWasExecuted ==
    ASSUME NEW db, NEW id, NEW i, i.status # EXECUTED, db \in [Ids -> Instance],
           NEW gone, gone = {} \/ gone = Cleared([db EXCEPT ![id] = i]), NEW x \in gone
    PROVE  db[x].status = EXECUTED
<1> DEFINE d == [db EXCEPT ![id] = i]
<1>1. x \in Cleared(d)
  OBVIOUS
<1>2. \A y \in Ids : d[y] = db[y] \/ d[y] = i
  OBVIOUS
<1>. HIDE DEF d
<1>3. x \in Ids /\ d[x].status # ABSENT
  BY <1>1 DEF Cleared
<1>4. PICK y \in Index(d, x.replica) :
         /\ y.instance > x.instance
         /\ \A z \in Index(d, y.replica) : z.instance <= y.instance => d[z].status = EXECUTED
  BY <1>1 DEF Cleared
<1>5. y.replica = x.replica /\ y \in Ids
  BY <1>4 DEF Index
<1>6. x \in Index(d, y.replica) /\ x.instance <= y.instance
  BY <1>3, <1>4, <1>5 DEF Index, Ids
<1>7. d[x].status = EXECUTED
  BY <1>4, <1>6
<1>8. QED
  BY <1>2, <1>3, <1>7

\* pre_accept stores only over an instance that is at most pre-accepted.
LEMMA PreAcceptStored ==
    ASSUME Inv, NEW r \in Replicas, NEW e \in BagToSet(net), PreAccept(r, e)
    PROVE  Stored(r, e.id)
<1>0. PICK m \in Decode(e, inst[r]) : PreAccept(r, e)!(m)
  BY DEF PreAccept
<1>1. PICK i2, gone, t, tm, ms :
         \/ Ignore(r, e)
         \/ \E a : Answer(r, e, a)
         \/ Crash(r, SetToBag({e}))
         \/ /\ Found(r, e.id).status \in {NONE, PRE_ACCEPTED}
            /\ ~Stale(m, Found(r, e.id))
            /\ i2.ballot = m.ballot /\ i2.status \in {PRE_ACCEPTED, PRE_ACCEPTED_EQ}
            /\ gone = {} \/ gone = Cleared([inst[r] EXCEPT ![e.id] = i2])
            /\ FinishClearing(r, e.id, SetToBag({e}), i2, t, tm, ms, gone)
  <2> DEFINE i    == Found(r, e.id)
             p    == SdForCommand(inst[r], m.cmd, e.id, i.deps)
             nseq == Max({m.seq, p.seq + 1})
             st   == PreAcceptedAs(p.updated)
             i2   == [status |-> st, ballot |-> m.ballot, cmd |-> m.cmd, seq |-> nseq,
                      deps |-> p.deps]
             gone == IF m.cmd = NoCommand THEN Cleared([inst[r] EXCEPT ![e.id] = i2]) ELSE {}
  <2>1. \/ Ignore(r, e)
        \/ \E a : Answer(r, e, a)
        \/ Crash(r, SetToBag({e}))
        \/ /\ i.status \in {NONE, PRE_ACCEPTED}
           /\ ~Stale(m, i)
           /\ \E t, tm, ms : FinishClearing(r, e.id, SetToBag({e}), i2, t, tm, ms, gone)
    BY <1>0, Zenon
  <2>2. st \in {PRE_ACCEPTED, PRE_ACCEPTED_EQ}
    BY DEF PreAcceptedAs
  <2>. HIDE DEF p, nseq, st
  <2>3. i2.ballot = m.ballot /\ i2.status \in {PRE_ACCEPTED, PRE_ACCEPTED_EQ}
    BY <2>2
  <2>4. gone = {} \/ gone = Cleared([inst[r] EXCEPT ![e.id] = i2])
    OBVIOUS
  <2>. HIDE DEF i, i2, gone
  <2>5. QED
    BY <2>1, <2>3, <2>4, Zenon DEF i
<1>2. /\ e.id \in Ids /\ Found(r, e.id) \in Instance
      /\ ~Stale(m, Found(r, e.id)) => m.ballot >= Found(r, e.id).ballot
  BY ReadStored
<1>3. CASE /\ Found(r, e.id).status \in {NONE, PRE_ACCEPTED}
           /\ ~Stale(m, Found(r, e.id))
           /\ i2.ballot = m.ballot /\ i2.status \in {PRE_ACCEPTED, PRE_ACCEPTED_EQ}
           /\ gone = {} \/ gone = Cleared([inst[r] EXCEPT ![e.id] = i2])
           /\ FinishClearing(r, e.id, SetToBag({e}), i2, t, tm, ms, gone)
  <2>1. ~(Found(r, e.id).status >= COMMITTED)
    BY <1>3 DEF NONE, PRE_ACCEPTED, COMMITTED
  <2>2. Stands(r, e.id, i2)
    BY <1>2, <1>3, <2>1, WhatStands
  <2>3. inst[r] \in [Ids -> Instance]
    BY DEF Inv, Data
  <2>4. i2.status # EXECUTED
    BY <1>3 DEF PRE_ACCEPTED, PRE_ACCEPTED_EQ, EXECUTED
  <2>5. \A x \in gone : inst[r][x].status = EXECUTED
    BY <1>3, <2>3, <2>4, ClearedWasExecuted
  <2>6. QED
    BY <1>3, <2>2, <2>5, ClearingStored
<1>4. QED
  BY <1>1, <1>2, <1>3, ReturnStored, CrashStored

\* accept stores over nothing that is committed.
LEMMA AcceptStored ==
    ASSUME Inv, NEW r \in Replicas, NEW e \in BagToSet(net), Accept(r, e)
    PROVE  Stored(r, e.id)
<1>0. PICK m \in Decode(e, inst[r]) : Accept(r, e)!(m)
  BY DEF Accept
<1>1. PICK i2, gone, t, tm, ms :
         \/ Ignore(r, e)
         \/ \E a : Answer(r, e, a)
         \/ /\ ~Closed(Found(r, e.id).status)
            /\ ~Stale(m, Found(r, e.id))
            /\ i2 = [Found(r, e.id) EXCEPT !.status = ACCEPTED, !.ballot = m.ballot,
                                           !.seq = m.seq, !.deps = m.deps]
            /\ gone = {} \/ gone = Cleared([inst[r] EXCEPT ![e.id] = i2])
            /\ FinishClearing(r, e.id, SetToBag({e}), i2, t, tm, ms, gone)
  <2> DEFINE i2   == [Found(r, e.id) EXCEPT !.status = ACCEPTED, !.ballot = m.ballot,
                                            !.seq = m.seq, !.deps = m.deps]
             gone == IF m.cmd = NoCommand THEN Cleared([inst[r] EXCEPT ![e.id] = i2]) ELSE {}
  <2>1. \/ Ignore(r, e)
        \/ \E a : Answer(r, e, a)
        \/ /\ ~Closed(Found(r, e.id).status)
           /\ ~Stale(m, Found(r, e.id))
           /\ \E t, tm, ms : FinishClearing(r, e.id, SetToBag({e}), i2, t, tm, ms, gone)
    BY <1>0, Zenon
  <2>2. gone = {} \/ gone = Cleared([inst[r] EXCEPT ![e.id] = i2])
    OBVIOUS
  <2>. HIDE DEF gone
  <2>3. QED
    BY <2>1, <2>2, Zenon
<1>2. /\ e.id \in Ids /\ Found(r, e.id) \in Instance
      /\ ~Stale(m, Found(r, e.id)) => m.ballot >= Found(r, e.id).ballot
  BY ReadStored
<1>3. CASE /\ ~Closed(Found(r, e.id).status)
           /\ ~Stale(m, Found(r, e.id))
           /\ i2 = [Found(r, e.id) EXCEPT !.status = ACCEPTED, !.ballot = m.ballot,
                                          !.seq = m.seq, !.deps = m.deps]
           /\ gone = {} \/ gone = Cleared([inst[r] EXCEPT ![e.id] = i2])
           /\ FinishClearing(r, e.id, SetToBag({e}), i2, t, tm, ms, gone)
  <2>1. ~(Found(r, e.id).status >= COMMITTED)
    BY <1>2, <1>3 DEF Instance, State, Closed, ABSENT, NONE, PRE_ACCEPTED, PRE_ACCEPTED_EQ,
                      ACCEPTED, COMMITTED, EXECUTED
  <2>2. i2.ballot = m.ballot /\ i2.status = ACCEPTED
    BY <1>2, <1>3 DEF Instance
  <2>3. Stands(r, e.id, i2)
    BY <1>2, <1>3, <2>1, <2>2, WhatStands
  <2>4. inst[r] \in [Ids -> Instance]
    BY DEF Inv, Data
  <2>5. i2.status # EXECUTED
    BY <2>2 DEF ACCEPTED, EXECUTED
  <2>6. gone = {} \/ gone = Cleared([inst[r] EXCEPT ![e.id] = i2])
    BY <1>3
  <2>7. \A x \in gone : inst[r][x].status = EXECUTED
    BY <2>4, <2>5, <2>6, ClearedWasExecuted
  <2>8. QED
    BY <1>3, <2>3, <2>7, ClearingStored
<1>4. QED
  BY <1>1, <1>2, <1>3, ReturnStored

\* The end of the first phase changes an instance that was pre-accepted.
LEMMA PreacceptedStored ==
    ASSUME NEW r, NEW e, NEW i, NEW t, NEW m, NEW fast,
           Marked(r, e.id, i), Found(r, e.id).status = PRE_ACCEPTED,
           Preaccepted(r, e, i, t, m, fast)
    PROVE  Stored(r, e.id)
<1>1. \/ DoCommit(r, e.id, SetToBag({e}), i, t, m)
      \/ \E j, u, tm, ms : /\ j = [i EXCEPT !.status = ACCEPTED]
                           /\ Finish(r, e.id, SetToBag({e}), j, u, tm, ms)
      \/ \E u, tm, ms : Finish(r, e.id, SetToBag({e}), i, u, tm, ms)
  BY Zenon DEF Preaccepted
<1>2. ~(Found(r, e.id).status >= COMMITTED)
  BY DEF PRE_ACCEPTED, COMMITTED
<1>3. ASSUME NEW j, j = i \/ j = [i EXCEPT !.status = ACCEPTED]
      PROVE  Stands(r, e.id, j)
  <2>1. j.ballot >= Found(r, e.id).ballot
    BY <1>3 DEF Marked
  <2>2. QED
    BY <1>2, <2>1, WhatStands
<1>4. QED
  BY <1>1, <1>3, DoCommitStored, ClearingStored

\* pre_accept_ok, by what it ends in.
LEMMA PreAcceptOkStored ==
    ASSUME Inv, NEW r \in Replicas, NEW e \in BagToSet(net), PreAcceptOk(r, e)
    PROVE  Stored(r, e.id)
<1>1. PICK m \in Decode(e, inst[r]) :
         \/ Ignore(r, e)
         \/ /\ Found(r, e.id).status = PRE_ACCEPTED
            /\ \E t, fast : Preaccepted(r, e, Found(r, e.id), t, m, fast)
  BY Zenon DEF PreAcceptOk
<1>2. e.id \in Ids /\ Found(r, e.id) \in Instance
  BY ReadStored
<1>3. QED
  BY <1>1, <1>2, ReturnStored, PreacceptedStored, FoundMarked

\* pre_accept_reply merges attributes, or counts a refusal.
LEMMA PreAcceptReplyStored ==
    ASSUME Inv, NEW r \in Replicas, NEW e \in BagToSet(net), PreAcceptReply(r, e)
    PROVE  Stored(r, e.id)
<1>1. PICK m \in Decode(e, inst[r]) :
         \/ Ignore(r, e)
         \/ \E t : Nacked(r, e, Found(r, e.id), t, m)
         \/ /\ Found(r, e.id).status = PRE_ACCEPTED
            /\ \E t, fast : Preaccepted(r, e,
                  [Found(r, e.id) EXCEPT !.seq = Max({@, m.seq}),
                                         !.deps = UpdateAll(Found(r, e.id).deps, m.deps).deps],
                  t, m, fast)
  BY Zenon DEF PreAcceptReply
<1>2. e.id \in Ids /\ Found(r, e.id) \in Instance
  BY ReadStored
<1>3. QED
  BY <1>1, <1>2, ReturnStored, NackedStored, PreacceptedStored, FoundMarked

\* accept_reply, by what it ends in.
LEMMA AcceptReplyStored ==
    ASSUME Inv, NEW r \in Replicas, NEW e \in BagToSet(net), AcceptReply(r, e)
    PROVE  Stored(r, e.id)
<1>1. PICK m \in Decode(e, inst[r]) :
         \/ Ignore(r, e)
         \/ \E t : Nacked(r, e, Found(r, e.id), t, m)
         \/ \E t : DoCommit(r, e.id, SetToBag({e}), Found(r, e.id), t, m)
         \/ \E t, tm, ms : Finish(r, e.id, SetToBag({e}), Found(r, e.id), t, tm, ms)
  BY Zenon DEF AcceptReply
<1>2. e.id \in Ids /\ Found(r, e.id) \in Instance
  BY ReadStored
<1>3. QED
  BY <1>1, <1>2, ReturnStored, NackedStored, DoCommitStored, FoundMarked, FoundStands,
     ClearingStored

\* commit overwrites the status with COMMITTED and keeps the ballot.
LEMMA CommitStored ==
    ASSUME Inv, NEW r \in Replicas, NEW e \in BagToSet(net), Commit(r, e)
    PROVE  Stored(r, e.id)
<1>0. PICK m \in Decode(e, inst[r]) : Commit(r, e)!(m)
  BY DEF Commit
<1>1. PICK i, t, tm, ms :
         /\ i = [Found(r, e.id) EXCEPT !.status = COMMITTED, !.seq = m.seq, !.deps = m.deps]
         /\ FinishClearing(r, e.id, SetToBag({e}), i, t, tm, ms, {})
  BY <1>0, Zenon
<1>2. Found(r, e.id) \in Instance
  BY ReadStored
<1>3. i.ballot >= Found(r, e.id).ballot /\ i.status = COMMITTED
  BY <1>1, <1>2 DEF Instance, Ballot
<1>4. Stands(r, e.id, i)
  BY <1>3, WhatStands
<1>5. QED
  BY <1>1, <1>4, ClearingStored

\* prepare promises a ballot that is no lower.
LEMMA PrepareStored ==
    ASSUME Inv, NEW r \in Replicas, NEW e \in BagToSet(net), Prepare(r, e)
    PROVE  Stored(r, e.id)
<1>0. PICK m \in Decode(e, inst[r]) : Prepare(r, e)!(m)
  BY DEF Prepare
<1>1. PICK i, t, tm, ms :
         \/ \E a : Answer(r, e, a)
         \/ /\ ~Stale(m, Found(r, e.id))
            /\ i = [Found(r, e.id) EXCEPT !.ballot = m.ballot]
            /\ Finish(r, e.id, SetToBag({e}), i, t, tm, ms)
  BY <1>0, Zenon
<1>2. /\ e.id \in Ids /\ Found(r, e.id) \in Instance
      /\ ~Stale(m, Found(r, e.id)) => m.ballot >= Found(r, e.id).ballot
  BY ReadStored
<1>3. CASE /\ ~Stale(m, Found(r, e.id))
           /\ i = [Found(r, e.id) EXCEPT !.ballot = m.ballot]
           /\ Finish(r, e.id, SetToBag({e}), i, t, tm, ms)
  <2>1. i.ballot = m.ballot /\ i.status = Found(r, e.id).status
    BY <1>2, <1>3 DEF Instance
  <2>2. Stands(r, e.id, i)
    BY <1>2, <1>3, <2>1, WhatStands
  <2>3. QED
    BY <1>3, <2>2, ClearingStored
<1>4. QED
  BY <1>1, <1>2, <1>3, ReturnStored

\* Recovery that ends asks to accept, under the ballot it prepared.
LEMMA RecoveringStored ==
    ASSUME Inv, NEW r \in Replicas, NEW e, e.id \in Ids, NEW t, NEW m \in Message,
           lt[r][e.id].recovery_status = PREPARING
    PROVE  LET i == Found(r, e.id)
           IN  /\ RecoverNoop(r, e, i, t, m) => Stored(r, e.id)
               /\ RecoverAccept(r, e, i, t, m) => Stored(r, e.id)
               /\ RecoverPhase1(r, e, i, t, m) => Stored(r, e.id)
               /\ RecoverTry(r, e, i, t, m) => Stored(r, e.id)
<1> DEFINE i == Found(r, e.id)
<1>1. i \in Instance /\ i.ballot \in Int
  BY FoundIs DEF Instance, Ballot
<1>2. ASSUME NEW j, j.ballot = i.ballot
      PROVE  Stands(r, e.id, j)
  BY <1>1, <1>2, WhatStands
<1>3. ASSUME NEW c, NEW u, NEW x, x = [m EXCEPT !.cmd = c, !.ballot = i.ballot],
             Phase1(r, e.id, SetToBag({e}), u, x)
      PROVE  Stored(r, e.id)
  <2>1. x.ballot = i.ballot
    BY <1>3 DEF Message
  <2>2. QED
    BY <1>2, <1>3, <2>1, Phase1Stored
<1>4. ASSUME RecoverNoop(r, e, i, t, m)
      PROVE  Stored(r, e.id)
  <2>1. PICK deps, j, u, tm, ms : /\ j = [i EXCEPT !.status = ACCEPTED, !.deps = deps]
                                  /\ Finish(r, e.id, SetToBag({e}), j, u, tm, ms)
    BY <1>4, Zenon DEF RecoverNoop
  <2>2. j.ballot = i.ballot
    BY <1>1, <2>1 DEF Instance
  <2>3. QED
    BY <1>2, <2>1, <2>2, ClearingStored
<1>5. ASSUME RecoverAccept(r, e, i, t, m)
      PROVE  Stored(r, e.id)
  <2>1. PICK j, u, tm, ms : /\ j = [i EXCEPT !.status = ACCEPTED, !.cmd = t.ri.cmd,
                                             !.seq = t.ri.seq, !.deps = t.ri.deps]
                            /\ Finish(r, e.id, SetToBag({e}), j, u, tm, ms)
    BY <1>5, Zenon DEF RecoverAccept
  <2>2. j.ballot = i.ballot
    BY <1>1, <2>1 DEF Instance
  <2>3. QED
    BY <1>2, <2>1, <2>2, ClearingStored
<1>6. ASSUME RecoverPhase1(r, e, i, t, m)
      PROVE  Stored(r, e.id)
  <2>1. PICK u, x : /\ x = [m EXCEPT !.cmd = t.ri.cmd, !.ballot = i.ballot]
                    /\ Phase1(r, e.id, SetToBag({e}), u, x)
    BY <1>6, Zenon DEF RecoverPhase1
  <2>2. QED
    BY <1>3, <2>1
<1>7. ASSUME RecoverTry(r, e, i, t, m)
      PROVE  Stored(r, e.id)
  <2>1. PICK u, x, j, tm, ms, c, seq, deps :
           \/ Crash(r, SetToBag({e}))
           \/ /\ x = [m EXCEPT !.cmd = c, !.ballot = i.ballot]
              /\ Phase1(r, e.id, SetToBag({e}), u, x)
           \/ /\ j = i \/ j = [i EXCEPT !.cmd = c, !.seq = seq, !.deps = deps,
                                        !.status = PRE_ACCEPTED]
              /\ Finish(r, e.id, SetToBag({e}), j, u, tm, ms)
    BY <1>7, Zenon DEF RecoverTry
  <2>2. CASE j = i \/ j = [i EXCEPT !.cmd = c, !.seq = seq, !.deps = deps,
                                     !.status = PRE_ACCEPTED]
    <3>1. j.ballot = i.ballot
      BY <1>1, <2>2 DEF Instance
    <3>2. Stands(r, e.id, j)
      BY <1>2, <3>1
    <3>3. QED
      BY <1>3, <2>1, <3>2, CrashStored, ClearingStored
  <2>3. CASE ~(j = i \/ j = [i EXCEPT !.cmd = c, !.seq = seq, !.deps = deps,
                                       !.status = PRE_ACCEPTED])
    BY <1>3, <2>1, <2>3, CrashStored, Zenon
  <2>4. QED
    BY <2>2, <2>3
<1>8. QED
  BY <1>4, <1>5, <1>6, <1>7

\* prepare_reply does something only while r recovers the instance.
LEMMA PrepareReplyStored ==
    ASSUME Inv, NEW r \in Replicas, NEW e \in BagToSet(net), PrepareReply(r, e)
    PROVE  Stored(r, e.id)
<1>1. PICK m \in Decode(e, inst[r]) :
         \/ Ignore(r, e)
         \/ \E t, tm, ms : Finish(r, e.id, SetToBag({e}), Found(r, e.id), t, tm, ms)
         \/ \E t, x : DoCommit(r, e.id, SetToBag({e}),
                         [Found(r, e.id) EXCEPT !.seq = m.seq, !.cmd = m.cmd, !.deps = m.deps],
                         t, x)
         \/ /\ lt[r][e.id].recovery_status = PREPARING
            /\ \E t : \/ RecoverNoop(r, e, Found(r, e.id), t, m)
                      \/ RecoverAccept(r, e, Found(r, e.id), t, m)
                      \/ RecoverTry(r, e, Found(r, e.id), t, m)
                      \/ RecoverPhase1(r, e, Found(r, e.id), t, m)
  BY Zenon DEF PrepareReply
<1>2. e.id \in Ids /\ m \in Message
  BY ReadStored
<1>3. ASSUME NEW t, NEW x,
             DoCommit(r, e.id, SetToBag({e}),
                [Found(r, e.id) EXCEPT !.seq = m.seq, !.cmd = m.cmd, !.deps = m.deps], t, x)
      PROVE  Stored(r, e.id)
  BY <1>2, <1>3, FoundMarked, DoCommitStored, Zenon
<1>4. QED
  BY <1>1, <1>2, <1>3, ReturnStored, FoundStands, ClearingStored, RecoveringStored, Zenon

\* try_pre_accept stores over a committed instance only if it has no command.
LEMMA TryPreAcceptStored ==
    ASSUME Inv, NEW r \in Replicas, NEW e \in BagToSet(net), TryPreAccept(r, e)
    PROVE  Stored(r, e.id)
<1> DEFINE i  == Found(r, e.id)
           db == [inst[r] EXCEPT ![e.id] = i]
<1>0. PICK m \in Decode(e, inst[r]) : TryPreAccept(r, e)!(m)
  BY DEF TryPreAccept
<1>1. PICK j, t, tm, ms :
         \/ \E a : Answer(r, e, a)
         \/ Crash(r, SetToBag({e}))
         \/ /\ ~Stale(m, i)
            /\ FindConflict(db, e.id, m.cmd, m.seq, m.deps) = {}
            /\ j = [status |-> PRE_ACCEPTED, ballot |-> m.ballot, cmd |-> m.cmd,
                    seq |-> m.seq, deps |-> m.deps]
            /\ Finish(r, e.id, SetToBag({e}), j, t, tm, ms)
  BY <1>0, Zenon
<1>2. /\ e.id \in Ids /\ i \in Instance
      /\ ~Stale(m, i) => m.ballot >= i.ballot
  BY ReadStored
<1>3. CASE /\ ~Stale(m, i)
           /\ FindConflict(db, e.id, m.cmd, m.seq, m.deps) = {}
           /\ j = [status |-> PRE_ACCEPTED, ballot |-> m.ballot, cmd |-> m.cmd,
                   seq |-> m.seq, deps |-> m.deps]
           /\ Finish(r, e.id, SetToBag({e}), j, t, tm, ms)
  <2>1. db[e.id] = i
    BY <1>2 DEF Inv, Data
  <2>2. i.cmd # NoCommand /\ i.status >= ACCEPTED
        => FindConflict(db, e.id, m.cmd, m.seq, m.deps) = {e.id}
    BY <2>1, Zenon DEF FindConflict
  <2>3. i.status >= COMMITTED => i.status >= ACCEPTED
    BY <1>2 DEF Instance, State, ABSENT, NONE, PRE_ACCEPTED, PRE_ACCEPTED_EQ, ACCEPTED,
                COMMITTED, EXECUTED
  <2>4. i.status >= COMMITTED => i.cmd = NoCommand
    BY <1>3, <2>2, <2>3
  <2>5. j.ballot >= i.ballot
    BY <1>2, <1>3
  <2>6. Stands(r, e.id, j)
    BY <2>4, <2>5 DEF Stands
  <2>7. QED
    BY <1>3, <2>6, ClearingStored
<1>4. QED
  BY <1>1, <1>2, <1>3, ReturnStored, CrashStored

\* try_pre_accept_reply does something only while r tries to pre-accept.
LEMMA TryPreAcceptReplyStored ==
    ASSUME Inv, NEW r \in Replicas, NEW e \in BagToSet(net), TryPreAcceptReply(r, e)
    PROVE  Stored(r, e.id)
<1>1. \/ Ignore(r, e)
      \/ /\ WithdrawsOnRefusal(r, e.id)
         /\ \E i, t, m, conflict :
               \/ TryTaken(r, e, i, t, m)
               \/ TryRefused(r, e, i, t, m, conflict)
               \/ \E tm, ms : Finish(r, e.id, SetToBag({e}), i, t, tm, ms)
  BY Zenon DEF TryPreAcceptReply, WithdrawsOnRefusal
<1>2. e.id \in Ids
  BY DEF Inv, Data, SoundMessage, Message
<1>3. ASSUME NEW i, NEW t, NEW m, NEW conflict, WithdrawsOnRefusal(r, e.id),
             \/ TryTaken(r, e, i, t, m)
             \/ TryRefused(r, e, i, t, m, conflict)
             \/ \E tm, ms : Finish(r, e.id, SetToBag({e}), i, t, tm, ms)
      PROVE  Stored(r, e.id)
  <2>1. \/ Crash(r, SetToBag({e}))
        \/ \E j, u, tm, ms : \/ Finish(r, e.id, SetToBag({e}), j, u, tm, ms)
                             \/ FinishClearing(r, e.id, SetToBag({e}), j, u, tm, ms, {})
    BY <1>3, Zenon DEF TryTaken, TryRefused
  <2>2. \A j : Stands(r, e.id, j)
    BY <1>3, WhatStands
  <2>3. QED
    BY <2>1, <2>2, CrashStored, ClearingStored, Zenon
<1>4. QED
  BY <1>1, <1>2, <1>3, ReturnStored, Zenon

\* One message, whichever it is.
LEMMA ReceiveLasts ==
    ASSUME Inv, NEW r \in Replicas, Receive(r), NEW q \in Replicas, NEW x \in Ids
    PROVE  Lasts(q, x)
<1>1. \E e \in BagToSet(net) : Stored(r, e.id)
  BY PreAcceptStored, PreAcceptOkStored, PreAcceptReplyStored, AcceptStored,
     AcceptReplyStored, CommitStored, PrepareStored, PrepareReplyStored, TryPreAcceptStored,
     TryPreAcceptReplyStored, Zenon DEF Receive, Arrived
<1>2. PICK e \in BagToSet(net) : Stored(r, e.id)
  BY <1>1
<1>3. e.id \in Ids
  BY DEF Inv, Data, SoundMessage, Message
<1>4. QED
  BY <1>2, <1>3, StoredLasts

\* A proposal takes a number that no instance of the index has.
LEMMA ProposeLasts ==
    ASSUME Inv, NEW r \in Replicas, Propose(r), NEW q \in Replicas, NEW x \in Ids
    PROVE  Lasts(q, x)
<1>1. PICK c \in Command, n \in 1..MaxInst :
         /\ up[r] /\ n = MaxLocal(inst[r], r) + 1
         /\ Phase1(r, [replica |-> r, instance |-> n], EmptyBag, NewTracker,
                   ProposalOf(r, [replica |-> r, instance |-> n], c))
  BY Zenon DEF Propose
<1>2. PICK id \in Ids : id = [replica |-> r, instance |-> n] /\ ~Known(r, id)
  BY <1>1, NextIsNew DEF Known
<1>3. Found(r, id).ballot = 0 /\ Found(r, id).status = NONE
  BY <1>2, FoundIs
<1>4. ASSUME NEW i, i.ballot = ProposalOf(r, id, c).ballot
      PROVE  Stands(r, id, i)
  <2>1. i.ballot = 0
    BY <1>4 DEF ProposalOf
  <2>2. i.ballot >= Found(r, id).ballot /\ ~(Found(r, id).status >= COMMITTED)
    BY <1>3, <2>1 DEF NONE, COMMITTED
  <2>3. QED
    BY <2>2, WhatStands
<1>5. Stored(r, id)
  BY <1>1, <1>2, <1>4, Phase1Stored
<1>6. QED
  BY <1>5, StoredLasts

\* fast_path_timeout leaves the instance, slow_path_timeout recovers it.
LEMMA TimeoutLasts ==
    ASSUME Inv, NEW r \in Replicas, NEW id \in Ids,
           FastPathTimeout(r, id) \/ SlowPathTimeout(r, id),
           NEW q \in Replicas, NEW x \in Ids
    PROVE  Lasts(q, x)
<1>1. \/ Crash(r, EmptyBag)
      \/ /\ Known(r, id)
         /\ \/ \E m : Finish(r, id, EmptyBag, inst[r][id], lt[r][id], "slow", <<m>>)
            \/ Recover(r, id, EmptyBag, inst[r][id], lt[r][id], PrepareOf(r, id))
  BY Zenon DEF FastPathTimeout, SlowPathTimeout
<1>2. Known(r, id) => Found(r, id) = inst[r][id]
  BY DEF Found
<1>3. Stored(r, id)
  <2>1. CASE Crash(r, EmptyBag)
    BY <2>1, CrashStored
  <2>2. ASSUME NEW m, Finish(r, id, EmptyBag, Found(r, id), lt[r][id], "slow", <<m>>)
        PROVE  Stored(r, id)
    BY <2>2, FoundStands, ClearingStored
  <2>3. ASSUME Recover(r, id, EmptyBag, Found(r, id), lt[r][id], PrepareOf(r, id))
        PROVE  Stored(r, id)
    BY <2>3, RecoverStored
  <2>4. QED
    BY <1>1, <1>2, <2>1, <2>2, <2>3, Zenon
<1>4. QED
  BY <1>3, StoredLasts

\* The executor leaves an instance EXECUTED and its ballot as it is.
LEMMA ExecuteLasts ==
    ASSUME Inv, NEW r \in Replicas, NEW id \in Ids, Execute(r, id),
           NEW q \in Replicas, NEW x \in Ids
    PROVE  Lasts(q, x)
<1>1. inst' = inst \/ inst' = [inst EXCEPT ![r][id].status = EXECUTED]
  BY Zenon DEF Execute, Crash
<1>2. CASE inst' = inst
  BY <1>2, StoredLasts DEF Stored
<1>3. CASE inst' = [inst EXCEPT ![r][id].status = EXECUTED]
  <2>1. inst \in [Replicas -> [Ids -> Instance]]
    BY DEF Inv, Data
  <2>2. inst[q][x] \in Instance /\ inst[q][x].ballot \in Int
    BY <2>1 DEF Instance, Ballot
  <2>3. inst'[q][x] = inst[q][x] \/ inst'[q][x] = [inst[q][x] EXCEPT !.status = EXECUTED]
    BY <1>3, <2>1
  <2>4. inst'[q][x].ballot = inst[q][x].ballot
    BY <2>2, <2>3 DEF Instance
  <2>5. inst'[q][x].status \in {inst[q][x].status, EXECUTED}
    BY <2>2, <2>3 DEF Instance
  <2>6. QED
    BY <2>2, <2>4, <2>5 DEF Lasts, EXECUTED, COMMITTED
<1>4. QED
  BY <1>1, <1>2, <1>3

\* Every step of every replica.
LEMMA StepLasts ==
    ASSUME Inv, [Next]_vars, NEW q \in Replicas, NEW x \in Ids
    PROVE  Lasts(q, x)
<1>1. CASE \E r \in Leaders : Propose(r)
  BY <1>1, ProposeLasts, ReplicaAssumption
<1>2. CASE \E r \in Replicas : Receive(r)
  BY <1>2, ReceiveLasts
<1>3. CASE \E r \in Replicas, id \in Ids : FastPathTimeout(r, id) \/ SlowPathTimeout(r, id)
  BY <1>3, TimeoutLasts
<1>4. CASE \E r \in Executors, id \in Ids : Execute(r, id)
  BY <1>4, ExecuteLasts, ReplicaAssumption
<1>5. CASE UNCHANGED vars
  <2>1. inst' = inst
    BY <1>5 DEF vars
  <2>2. \A r, id : Stored(r, id)
    BY <2>1 DEF Stored
  <2>3. QED
    BY <2>2, StoredLasts
<1>6. QED
  BY <1>1, <1>2, <1>3, <1>4, <1>5 DEF Next

\* A replica never takes back a promise but where phase1 follows a refusal of
\* its own TRY_PRE_ACCEPT (epaxos.c:407), where the byte of the ballot wraps
\* (instance.c:64) and where the executed instance is cleared: no PREPARE,
\* ACCEPT, COMMIT or timeout does, however late, with whatever memory a
\* message was decoded into.
THEOREM PromisesStand == Spec => PromiseKept
<1>1. Inv /\ [Next]_vars =>
        [\A r \in Replicas, id \in Ids :
            \/ inst'[r][id].ballot >= inst[r][id].ballot
            \/ WithdrawsOnRefusal(r, id)
            \/ inst[r][id].ballot >= 240
            \/ inst[r][id].status = EXECUTED /\ inst'[r][id].status = ABSENT]_vars
  BY StepLasts DEF Lasts
<1>2. QED
  BY <1>1, Invariance, PTL DEF Spec, PromiseKept

\* With any number of recoveries and timeouts, a committed instance is
\* reopened only by the recovery that its own replica began before the COMMIT
\* came (commit() leaves recovery_status alone, epaxos.c:447), or by a
\* TRY_PRE_ACCEPT that brings a command to a replica that committed without one.
THEOREM CommitsReopened == Spec => ReopenedByOwnRecovery
<1>1. Inv /\ [Next]_vars =>
        [\A r \in Replicas, id \in Ids :
            inst[r][id].status >= COMMITTED =>
               \/ inst'[r][id].status >= COMMITTED
               \/ inst[r][id].status = EXECUTED /\ inst'[r][id].status = ABSENT
               \/ lt[r][id].recovery_status # NONE
               \/ inst[r][id].cmd = NoCommand]_vars
  BY StepLasts DEF Lasts
<1>2. QED
  BY <1>1, Invariance, PTL DEF Spec, ReopenedByOwnRecovery

=============================================================================
