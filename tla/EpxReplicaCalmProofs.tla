-------------------------- MODULE EpxReplicaCalmProofs --------------------------
(***************************************************************************)
(* The protocol as long as no timeout has fired: the fast path and the     *)
(* accept phase, in any order of proposals, messages and executions, with  *)
(* any message lost.  A reply finds the leader's tracker, a commit stays,  *)
(* and a decision is known beside its leader (so, of three nodes, to a     *)
(* majority), whatever the routing.  With the routing of the program, a    *)
(* process faults only after a timeout, and before one an io thread stops  *)
(* only at node 0, where it leads.                                         *)
(***************************************************************************)
EXTENDS EpxReplicaDataProofs, FiniteSetTheorems

\* No timeout has fired.
Calm == \A q \in Replicas : timeouts[q] = 0

Request == {"PRE_ACCEPT", "ACCEPT", "COMMIT"}
Reply   == {"PRE_ACCEPT_OK", "PRE_ACCEPT_REPLY", "ACCEPT_REPLY"}

\* Replica q accepted id in some way.
Holds(q, id) == inst[q][id].status >= PRE_ACCEPTED

\* So did one that is not its leader.
HeldElsewhere(id) == \E q \in Replicas : q # id.replica /\ Holds(q, id)

\* A message under way in a calm state: a leader's to others, or an answer
\* of one that holds the instance.  Only PRE_ACCEPT_OK comes without a command.
CalmMessage(m) ==
    /\ m.ballot = 0
    /\ m.nack = FALSE
    /\ m.type # "PRE_ACCEPT_OK" => m.cmd # NoCommand
    /\ Holds(m.id.replica, m.id)
    /\ \/ m.type \in Request /\ m.from = m.id.replica /\ m.to # m.id.replica
       \/ m.type \in Reply /\ m.to = m.id.replica /\ m.from # m.id.replica /\ Holds(m.from, m.id)
    /\ m.type \in {"ACCEPT", "COMMIT"} => HeldElsewhere(m.id)

\* What holds of a calm state.
Calmed ==
    /\ \A m \in BagToSet(net) : CalmMessage(m)
    /\ \A q \in Replicas, x \in Ids : inst[q][x].ballot = 0
    /\ \A x \in Ids :
          Led(x).status \in {PRE_ACCEPTED, ACCEPTED} => lt[x.replica][x].on
    /\ \A q \in Replicas : \A x \in decided[q] :
          /\ inst[q][x].status >= COMMITTED
          /\ Holds(x.replica, x)
          /\ HeldElsewhere(x)

\* The routing of the program: requests go to node 0, whoever leads (the
\* zeros in quorum never pass the test of io.c:94), and node 0 and the other
\* leaders are connected.
Routed ==
    \A r \in Leaders :
        /\ \A s \in 1..N : Quorum[r][s] = 0
        /\ r # 0 => 0 \in Linked[r] /\ r \in Linked[0]

\* Replica r knows an instance of its own.
Leads(r) == \E id \in Ids : id.replica = r /\ Known(r, id)

\* No process faulted, and no io thread stopped but that of a leading node 0.
Alive == \A q \in Replicas : up[q] /\ (io[q] \/ (q = 0 /\ Leads(0)))

\* What holds then, beside Calmed.
Safe ==
    /\ Alive
    /\ \A q \in Replicas, x \in Ids : Known(q, x) =>
          /\ inst[q][x].cmd # NoCommand
          /\ x.replica \in Leaders
          /\ q \in {0, x.replica}
    /\ \A m \in BagToSet(net) : m.type \in Request =>
          m.to = 0 /\ (m.type # "PRE_ACCEPT" => Known(0, m.id))

-----------------------------------------------------------------------------
(* What the handlers do in a calm state.                                   *)

\* r was told of id before.
NotFirst(r, id) ==
    \/ Known(r, id)
    \/ \E m \in BagToSet(net) : m.to = r /\ m.id = id /\ m.type # "PRE_ACCEPT"

\* What a handler of r leaves in the instance id and in its tracker: nothing
\* accepted is taken back, and a command stays.
Grown(r, id, i, t) ==
    /\ i.status \in State
    /\ i.ballot = 0
    /\ r = id.replica /\ i.status \in {PRE_ACCEPTED, ACCEPTED} => t.on
    /\ Holds(r, id) => i.status >= PRE_ACCEPTED
    /\ inst[r][id].status >= COMMITTED => i.status >= COMMITTED
    /\ i.cmd # NoCommand \/ (i.cmd = Found(r, id).cmd /\ NotFirst(r, id))

\* What it sends when it leaves i.
Sendable(r, id, i, m) ==
    /\ IsMessage(m)
    /\ m.id = id /\ m.ballot = 0 /\ m.nack = FALSE /\ m.cmd # NoCommand
    /\ i.status >= PRE_ACCEPTED
    /\ \/ r = id.replica /\ m.type \in Request
       \/ r # id.replica /\ m.type \in Reply /\ m.from = id.replica /\ Holds(id.replica, id)
    /\ m.type \in {"ACCEPT", "COMMIT"} => HeldElsewhere(id)

\* What it may record as committed then.
Decidable(r, id, i) ==
    /\ i.status >= COMMITTED
    /\ r # id.replica => Holds(id.replica, id)
    /\ HeldElsewhere(id)

Ends(r, id, used, i, t, tm, ms) ==
    /\ FinishClearing(r, id, used, i, t, tm, ms, {})
    /\ Grown(r, id, i, t)
    /\ ms = <<>> \/ \E m : ms = <<m>> /\ Sendable(r, id, i, m)
    /\ \/ decided' = decided
       \/ decided' = [decided EXCEPT ![r] = @ \union {id}] /\ Decidable(r, id, i)
    /\ up' = up \/ up' = [up EXCEPT ![r] = i.cmd # NoCommand]

\* How a handler ends, on instance id of r.
CalmEnd(r, id) == \E used, i, t, tm, ms : Ends(r, id, used, i, t, tm, ms)

\* How it faults: searching for a command.
CalmCrash(r, id) ==
    \E used, c : c # NoCommand /\ SearchFaults(inst[r], c, id) /\ Crash(r, used)

\* Nothing that was accepted or committed is taken back.
Rising ==
    \A q \in Replicas, x \in Ids :
        /\ Holds(q, x) => inst'[q][x].status >= PRE_ACCEPTED
        /\ inst[q][x].status >= COMMITTED => inst'[q][x].status >= COMMITTED

\* What a handler changes of the two tables, and what it adds to the network.
LEMMA EndIs ==
    ASSUME Inv, NEW r \in Replicas, NEW id \in Ids,
           NEW used, NEW i, NEW t, NEW tm, NEW ms, Ends(r, id, used, i, t, tm, ms)
    PROVE  /\ inst'[r][id] = i /\ lt'[r][id] = t
           /\ \A q \in Replicas, x \in Ids : ~(q = r /\ x = id) =>
                 inst'[q][x] = inst[q][x] /\ lt'[q][x] = lt[q][x]
           /\ \A c \in BagToSet(net') :
                 \/ c \in BagToSet(net)
                 \/ \E m : ms = <<m>> /\ c \in BagToSet(Copies(r, m))
<1>1. /\ inst' = [inst EXCEPT ![r] = [x \in Ids |->
                    IF x \in {} THEN AbsentInstance ELSE IF x = id THEN i ELSE inst[r][x]]]
      /\ lt' = [lt EXCEPT ![r] = [x \in Ids |->
                    IF x \in {} THEN NoTracker ELSE IF x = id THEN t ELSE lt[r][x]]]
      /\ Send(r, used, ms)
  BY DEF Ends, FinishClearing
<1>2. inst \in [Replicas -> [Ids -> Instance]] /\ lt \in [Replicas -> [Ids -> Tracker]]
  BY DEF Inv, Data
<1>3. /\ inst'[r][id] = i /\ lt'[r][id] = t
      /\ \A q \in Replicas, x \in Ids : ~(q = r /\ x = id) =>
            inst'[q][x] = inst[q][x] /\ lt'[q][x] = lt[q][x]
  BY <1>1, <1>2
<1>4. ASSUME NEW c \in BagToSet(net')
      PROVE  \/ c \in BagToSet(net)
             \/ \E m : ms = <<m>> /\ c \in BagToSet(Copies(r, m))
  <2>1. CASE ms = <<>>
    <3>1. Len(ms) = 0
      BY <2>1
    <3>2. QED
      BY <1>1, <1>4, <2>1, <3>1, SendAdds
  <2>2. CASE \E m : ms = <<m>>
    <3>1. PICK m : ms = <<m>>
      BY <2>2
    <3>2. Len(ms) = 1 /\ ms[1] = m
      BY <3>1
    <3>3. \A k \in 1..Len(ms) : ms[k] = m
      BY <3>2
    <3>4. QED
      BY <1>1, <1>4, <3>1, <3>2, <3>3, SendAdds
  <2>3. QED
    BY <2>1, <2>2 DEF Ends
<1>5. QED
  BY <1>3, <1>4

\* States are numbers, in the order of progress.
LEMMA StateOrder ==
    /\ State \union {ABSENT} \subseteq Nat
    /\ \A s \in State : s # ABSENT
    /\ ~(ABSENT >= PRE_ACCEPTED) /\ ~(NONE >= PRE_ACCEPTED) /\ ~(ABSENT >= COMMITTED)
    /\ \A s \in State : s >= COMMITTED => s >= PRE_ACCEPTED
BY DEF State, ABSENT, NONE, PRE_ACCEPTED, PRE_ACCEPTED_EQ, ACCEPTED, COMMITTED, EXECUTED

\* What is sent is a message of a calm state.
LEMMA SentIsCalm ==
    ASSUME NEW r \in Replicas, NEW id \in Ids, NEW i, NEW m, Sendable(r, id, i, m),
           NEW c \in BagToSet(Copies(r, m)),
           inst'[r][id] = i, Rising
    PROVE  CalmMessage(c)'
<1>1. PICK k \in 1..Len(Targets(r, m)) :
          /\ Targets(r, m)[k] \in Linked[r] /\ Targets(r, m)[k] \in Replicas
          /\ c = CopyTo(r, m, Targets(r, m)[k])
  BY CopiesAre
<1> DEFINE q == Targets(r, m)[k]
<1>2. q \in Replicas /\ q # r
  BY <1>1, MessageAssumption
<1>3. /\ IsMessage(m) /\ m.id = id /\ m.ballot = 0 /\ m.nack = FALSE /\ m.cmd # NoCommand
      /\ i.status >= PRE_ACCEPTED
      /\ \/ r = id.replica /\ m.type \in Request
         \/ r # id.replica /\ m.type \in Reply /\ m.from = id.replica /\ Holds(id.replica, id)
      /\ m.type \in {"ACCEPT", "COMMIT"} => HeldElsewhere(id)
  BY DEF Sendable
<1>4. m.type \in Reply => q = m.from
  <2>1. SUFFICES ASSUME m.type \in Reply PROVE q = m.from
    OBVIOUS
  <2>2. Targets(r, m) = <<m.from>>
    BY <2>1 DEF Reply, Targets
  <2>3. Len(<<m.from>>) = 1 /\ <<m.from>>[1] = m.from
    OBVIOUS
  <2>4. k = 1
    BY <2>2, <2>3
  <2>5. QED
    BY <2>2, <2>3, <2>4
<1>5. /\ c.from = r /\ c.to = q /\ c.type = m.type /\ c.id = id
      /\ c.ballot = 0 /\ c.nack = FALSE
      /\ c.type # "PRE_ACCEPT_OK" => c.cmd # NoCommand
  <2>1. c = CopyTo(r, m, q)
    BY <1>1
  <2>. HIDE DEF q
  <2>2. QED
    BY <1>3, <2>1, CopyFields
<1>. HIDE DEF q
<1>6. id.replica \in Replicas
  BY DEF Ids
<1>7. inst'[r][id].status >= PRE_ACCEPTED
  BY <1>3
<1>8. inst'[id.replica][id].status >= PRE_ACCEPTED
  BY <1>3, <1>6, <1>7 DEF Rising
<1>9. HeldElsewhere(id) => \E p \in Replicas : p # id.replica /\ inst'[p][id].status >= PRE_ACCEPTED
  BY DEF HeldElsewhere, Rising
<1>10. c.type \in {"ACCEPT", "COMMIT"} => HeldElsewhere(id)
  BY <1>3, <1>5
<1>11. \/ c.type \in Request /\ c.from = id.replica /\ c.to # id.replica
       \/ /\ c.type \in Reply /\ c.to = id.replica /\ c.from # id.replica
          /\ inst'[c.from][id].status >= PRE_ACCEPTED
  BY <1>2, <1>3, <1>4, <1>5, <1>7
<1>12. QED
  BY <1>5, <1>8, <1>9, <1>10, <1>11 DEF CalmMessage, Holds, HeldElsewhere

\* What is under way stays a message of a calm state.
LEMMA UnderWayStays ==
    ASSUME Inv, NEW c \in BagToSet(net), CalmMessage(c), Rising
    PROVE  CalmMessage(c)'
<1>1. c.id \in Ids /\ c.id.replica \in Replicas /\ c.from \in Replicas
  BY DEF Inv, Data, SoundMessage, Message, Ids
<1>2. /\ Holds(c.id.replica, c.id) => inst'[c.id.replica][c.id].status >= PRE_ACCEPTED
      /\ Holds(c.from, c.id) => inst'[c.from][c.id].status >= PRE_ACCEPTED
      /\ HeldElsewhere(c.id) => \E p \in Replicas :
            p # c.id.replica /\ inst'[p][c.id].status >= PRE_ACCEPTED
  BY <1>1 DEF Rising, HeldElsewhere
<1>3. QED
  BY <1>2 DEF CalmMessage, Holds, HeldElsewhere

\* Ending so, a handler keeps what holds in calm states.
LEMMA EndKeeps ==
    ASSUME Inv, Calmed, NEW r \in Replicas, NEW id \in Ids, CalmEnd(r, id)
    PROVE  Calmed' /\ Rising
<1>1. PICK used, i, t, tm, ms : Ends(r, id, used, i, t, tm, ms)
  BY DEF CalmEnd
<1>2. /\ inst'[r][id] = i /\ lt'[r][id] = t
      /\ \A q \in Replicas, x \in Ids : ~(q = r /\ x = id) =>
            inst'[q][x] = inst[q][x] /\ lt'[q][x] = lt[q][x]
      /\ \A c \in BagToSet(net') :
            \/ c \in BagToSet(net)
            \/ \E m : ms = <<m>> /\ c \in BagToSet(Copies(r, m))
  BY <1>1, EndIs
<1>3. Grown(r, id, i, t)
  BY <1>1 DEF Ends
<1>4. Rising
  BY <1>2, <1>3 DEF Rising, Holds, Grown
<1>5. \A c \in BagToSet(net') : CalmMessage(c)'
  <2>1. TAKE c \in BagToSet(net')
  <2>2. CASE c \in BagToSet(net)
    BY <1>4, <2>2, UnderWayStays DEF Calmed
  <2>3. CASE \E m : ms = <<m>> /\ c \in BagToSet(Copies(r, m))
    <3>1. PICK m : ms = <<m>> /\ c \in BagToSet(Copies(r, m))
      BY <2>3
    <3>2. ms # <<>>
      BY <3>1
    <3>3. PICK m2 : ms = <<m2>> /\ Sendable(r, id, i, m2)
      BY <1>1, <3>2 DEF Ends
    <3>4. m = m2
      BY <3>1, <3>3
    <3>5. QED
      BY <1>2, <1>4, <3>1, <3>3, <3>4, SentIsCalm
  <2>4. QED
    BY <1>2, <2>2, <2>3
<1>6. \A q \in Replicas, x \in Ids : inst'[q][x].ballot = 0
  BY <1>2, <1>3 DEF Calmed, Grown
<1>7. \A x \in Ids : inst'[x.replica][x].status \in {PRE_ACCEPTED, ACCEPTED} =>
                        lt'[x.replica][x].on
  <2>1. TAKE x \in Ids
  <2>2. x.replica \in Replicas
    BY DEF Ids
  <2>3. QED
    BY <1>2, <1>3, <2>2 DEF Calmed, Led, Grown
<1>8. ASSUME NEW q \in Replicas, NEW x \in decided'[q]
      PROVE  /\ inst'[q][x].status >= COMMITTED
             /\ inst'[x.replica][x].status >= PRE_ACCEPTED
             /\ \E p \in Replicas : p # x.replica /\ inst'[p][x].status >= PRE_ACCEPTED
  <2>1. decided \in [Replicas -> SUBSET Ids]
    BY DEF Inv, Control
  <2>2. \/ x \in decided[q]
        \/ q = r /\ x = id /\ Decidable(r, id, i)
    BY <1>1, <1>8, <2>1 DEF Ends
  <2>3. x \in Ids /\ x.replica \in Replicas
    BY <2>1, <2>2 DEF Ids
  <2>4. CASE x \in decided[q]
    <3>1. inst[q][x].status >= COMMITTED /\ Holds(x.replica, x) /\ HeldElsewhere(x)
      BY <2>4 DEF Calmed
    <3>2. QED
      BY <1>4, <2>3, <3>1 DEF Rising, HeldElsewhere
  <2>5. CASE q = r /\ x = id /\ Decidable(r, id, i)
    <3>1. i.status >= COMMITTED /\ HeldElsewhere(x) /\ (r # x.replica => Holds(x.replica, x))
      BY <2>5 DEF Decidable
    <3>2. i.status >= PRE_ACCEPTED
      BY <1>3, <3>1, StateOrder DEF Grown
    <3>3. inst'[x.replica][x].status >= PRE_ACCEPTED
      BY <1>2, <1>4, <2>3, <2>5, <3>1, <3>2 DEF Rising
    <3>4. QED
      BY <1>2, <1>4, <2>3, <2>5, <3>1, <3>3 DEF Rising, HeldElsewhere
  <2>6. QED
    BY <2>2, <2>4, <2>5
<1>9. Calmed'
  BY <1>5, <1>6, <1>7, <1>8 DEF Calmed, Led, Holds, HeldElsewhere
<1>10. QED
  BY <1>4, <1>9


-----------------------------------------------------------------------------
(* The handlers.                                                           *)

\* What step() finds for id, and what it armed.
LEMMA FoundGrown ==
    ASSUME Inv, Calmed, NEW r \in Replicas, NEW id \in Ids, NotFirst(r, id)
    PROVE  Grown(r, id, Found(r, id), lt[r][id])
<1> DEFINE i == Found(r, id)
<1>1. /\ inst[r][id] \in InstanceOf(proposed, AllCommitted(decided), id) \union {AbsentInstance}
      /\ AbsentInstance.status = ABSENT /\ NewInstance.status = NONE
      /\ NewInstance.ballot = 0 /\ NONE \in State
  BY DEF Inv, Data, AbsentInstance, NewInstance, State
<1>2. i.status \in State /\ i.ballot = 0
  BY <1>1 DEF Calmed, Found, Known, InstanceOf
<1>3. r = id.replica /\ i.status \in {PRE_ACCEPTED, ACCEPTED} => lt[r][id].on
  <2>1. i.status \in {PRE_ACCEPTED, ACCEPTED} => i.status = inst[r][id].status
    BY <1>1 DEF Found, NONE, PRE_ACCEPTED, ACCEPTED
  <2>2. QED
    BY <2>1 DEF Calmed, Led
<1>4. /\ Holds(r, id) => i.status >= PRE_ACCEPTED
      /\ inst[r][id].status >= COMMITTED => i.status >= COMMITTED
  BY <1>1, StateOrder DEF Found, Known, Holds
<1>5. QED
  BY <1>2, <1>3, <1>4 DEF Grown

\* What a calm replica reads of a message.
CalmReceipt(r, e, m) ==
    /\ e.id \in Ids
    /\ IsMessage(m)
    /\ m.id = e.id /\ m.type = e.type /\ m.from = e.from
    /\ m.ballot = 0 /\ m.nack = FALSE /\ m.cmd # NoCommand
    /\ Holds(e.id.replica, e.id)
    /\ e.type \in Request => r # e.id.replica /\ e.from = e.id.replica
    /\ e.type \in Reply => r = e.id.replica /\ HeldElsewhere(e.id)
    /\ e.type \in {"ACCEPT", "COMMIT"} => HeldElsewhere(e.id)
    /\ e.type # "PRE_ACCEPT" => NotFirst(r, e.id)
    /\ Found(r, e.id).ballot = 0

\* Every message read in a calm state is like that.
LEMMA CalmlyReceived ==
    ASSUME Inv, Calmed, NEW r \in Replicas, up[r], NEW e \in BagToSet(net), e.to = r,
           NEW m \in Decode(e, inst[r])
    PROVE  CalmReceipt(r, e, m)
<1>1. CalmMessage(e)
  BY DEF Calmed
<1>2. e.id \in Ids /\ e.from \in Replicas
  BY ReadIs
<1>3. /\ m \in Message /\ m.type = e.type /\ m.from = e.from /\ m.id = e.id
      /\ m.ballot = e.ballot /\ m.nack = e.nack
      /\ m.cmd = IF e.type = "PRE_ACCEPT_OK" THEN Junk ELSE e.cmd
  BY ReadIs
<1>4. IsMessage(m)
  BY <1>3 DEF Message, IsMessage
<1>5. m.cmd # NoCommand
  BY <1>1, <1>3, IndexAssumption DEF CalmMessage
<1>6. e.type \in Request <=> e.type \notin Reply
  BY <1>1 DEF CalmMessage, Request, Reply
<1>7. /\ e.type \in Request => r # e.id.replica /\ e.from = e.id.replica
      /\ e.type \in Reply => r = e.id.replica /\ HeldElsewhere(e.id)
  BY <1>1, <1>2, <1>6 DEF CalmMessage, HeldElsewhere
<1>8. e.type # "PRE_ACCEPT" => NotFirst(r, e.id)
  BY DEF NotFirst
<1>9. Found(r, e.id).ballot = 0
  BY <1>2 DEF Calmed, Found, NewInstance
<1>10. QED
  BY <1>1, <1>2, <1>3, <1>4, <1>5, <1>7, <1>8, <1>9 DEF CalmReceipt, CalmMessage

\* A handler that stores and sends nothing else.
LEMMA FinishEnds ==
    ASSUME NEW r, NEW id, NEW used, NEW i, NEW t, NEW tm, NEW ms,
           Finish(r, id, used, i, t, tm, ms), Grown(r, id, i, t),
           ms = <<>> \/ \E m : ms = <<m>> /\ Sendable(r, id, i, m)
    PROVE  CalmEnd(r, id)
<1>1. Ends(r, id, used, i, t, tm, ms)
  BY DEF Finish, Ends
<1>2. QED
  BY <1>1, Zenon DEF CalmEnd

\* A handler that returns early.
LEMMA IgnoreEnds ==
    ASSUME Inv, Calmed, NEW r \in Replicas, NEW e, e.id \in Ids, NotFirst(r, e.id),
           Ignore(r, e)
    PROVE  CalmEnd(r, e.id)
BY FoundGrown, FinishEnds DEF Ignore

\* do_commit, of what the leader pre-accepted or accepted.
LEMMA DoCommitEnds ==
    ASSUME NEW r \in Replicas, NEW id \in Ids, NEW used, NEW i, NEW t, NEW m,
           DoCommit(r, id, used, i, t, m), Grown(r, id, i, t),
           r = id.replica, HeldElsewhere(id),
           IsMessage(m), m.id = id, m.ballot = 0, m.nack = FALSE, m.cmd # NoCommand
    PROVE  CalmEnd(r, id)
<1> DEFINE i2 == [i EXCEPT !.status = COMMITTED]
           m2 == [m EXCEPT !.type = "COMMIT"]
<1>1. /\ FinishClearing(r, id, used, i2, t, "none", <<m2>>, {})
      /\ decided' = [decided EXCEPT ![r] = @ \union {id}]
      /\ up' = [up EXCEPT ![r] = i.cmd # NoCommand]
  BY DEF DoCommit
<1>2. i2.status = COMMITTED /\ i2.ballot = i.ballot /\ i2.cmd = i.cmd
  OBVIOUS
<1>3. Sendable(r, id, i2, m2)
  BY DEF IsMessage, Sendable, Request, COMMITTED, PRE_ACCEPTED
<1>. HIDE DEF i2, m2
<1>4. COMMITTED \in State /\ COMMITTED \notin {PRE_ACCEPTED, ACCEPTED}
      /\ COMMITTED >= PRE_ACCEPTED /\ COMMITTED >= COMMITTED
  BY DEF State, COMMITTED, PRE_ACCEPTED, ACCEPTED
<1>5. Grown(r, id, i2, t) /\ Decidable(r, id, i2)
  BY <1>2, <1>4 DEF Grown, Decidable
<1>6. Ends(r, id, used, i2, t, "none", <<m2>>)
  BY <1>1, <1>2, <1>3, <1>5 DEF Ends
<1>7. QED
  BY <1>6, Zenon DEF CalmEnd


\* propose: a new instance and its PRE_ACCEPTs, or a search that faults.
LEMMA ProposeEnds ==
    ASSUME Inv, Calmed, NEW r \in Replicas, Propose(r)
    PROVE  \E id \in Ids : id.replica = r /\ (CalmEnd(r, id) \/ CalmCrash(r, id))
<1>1. PICK c \in Command, n \in 1..MaxInst :
        LET id == [replica |-> r, instance |-> n]
        IN  /\ up[r]
            /\ n = MaxLocal(inst[r], r) + 1
            /\ Phase1(r, id, EmptyBag, NewTracker, ProposalOf(r, id, c))
  BY Zenon DEF Propose
<1> DEFINE id == [replica |-> r, instance |-> n]
           m  == ProposalOf(r, id, c)
           i  == Phase1Instance(r, id, m)
           t  == Phase1Tracker(r, id, NewTracker, m)
           m2 == Phase1Message(i, m)
<1>2. id \in Ids /\ id.replica = r /\ inst[r][id].status = ABSENT
  BY <1>1, NextIsNew
<1>3. /\ m.ballot = 0 /\ m.nack = FALSE /\ m.cmd = c /\ m.id = id /\ IsMessage(m)
  BY DEF ProposalOf, IsMessage
<1>4. \/ SearchFaults(inst[r], m.cmd, id) /\ Crash(r, EmptyBag)
      \/ Finish(r, id, EmptyBag, i, t, "fast", <<m2>>)
  BY <1>1, Zenon DEF Phase1
<1>5. c # NoCommand
  BY IndexAssumption
<1>. HIDE DEF id, m
<1>6. /\ i.status = PRE_ACCEPTED /\ i.ballot = 0 /\ i.cmd = c
  BY <1>3 DEF Phase1Instance
<1>7. t.on
  BY DEF Phase1Tracker, NewTracker, NoTracker
<1>8. PRE_ACCEPTED \in State /\ PRE_ACCEPTED >= PRE_ACCEPTED
  BY DEF PRE_ACCEPTED, State
<1>9. Grown(r, id, i, t)
  BY <1>2, <1>5, <1>6, <1>7, <1>8, StateOrder DEF Grown, Holds
<1>10. Sendable(r, id, i, m2)
  <2>1. m2 = [m EXCEPT !.type = "PRE_ACCEPT", !.seq = i.seq, !.deps = i.deps]
    BY DEF Phase1Message
  <2>. HIDE DEF i, m2
  <2>2. IsMessage(m2) /\ m2.type = "PRE_ACCEPT" /\ m2.id = id /\ m2.ballot = 0
        /\ m2.nack = FALSE /\ m2.cmd = c
    BY <1>3, <2>1 DEF IsMessage
  <2>3. QED
    BY <1>2, <1>5, <1>6, <1>8, <2>2 DEF Sendable, Request
<1>. HIDE DEF i, t, m2
<1>11. CASE Finish(r, id, EmptyBag, i, t, "fast", <<m2>>)
  BY <1>2, <1>9, <1>10, <1>11, FinishEnds
<1>12. CASE SearchFaults(inst[r], m.cmd, id) /\ Crash(r, EmptyBag)
  <2>1. CalmCrash(r, id)
    BY <1>3, <1>5, <1>12 DEF CalmCrash
  <2>2. QED
    BY <1>2, <2>1
<1>13. QED
  BY <1>4, <1>11, <1>12

\* pre_accept: the instance holds the leader's command, and the leader hears it.
LEMMA PreAcceptEnds ==
    ASSUME Inv, Calmed, NEW r \in Replicas, up[r], NEW e \in BagToSet(net), e.to = r,
           e.type = "PRE_ACCEPT", PreAccept(r, e)
    PROVE  CalmEnd(r, e.id) \/ CalmCrash(r, e.id)
<1>1. PICK m \in Decode(e, inst[r]) : PreAccept(r, e)!(m)
  BY DEF PreAccept
<1>2. CalmReceipt(r, e, m)
  BY CalmlyReceived
<1> DEFINE id   == e.id
           i    == Found(r, id)
           p    == SdForCommand(inst[r], m.cmd, id, i.deps)
           nseq == Max({m.seq, p.seq + 1})
           i2   == [status |-> PreAcceptedAs(p.updated),
                    ballot |-> m.ballot, cmd |-> m.cmd, seq |-> nseq, deps |-> p.deps]
           full == \/ nseq # m.seq \/ p.updated
                   \/ HasUncommittedDeps(i2.deps) \/ ~IsInitialBallot(m.ballot)
           yes  == [m EXCEPT !.type = "PRE_ACCEPT_REPLY", !.seq = nseq, !.deps = i2.deps]
           ok   == [m EXCEPT !.type = "PRE_ACCEPT_OK"]
           ans  == IF full THEN yes ELSE ok
<1>3. m.cmd # NoCommand /\ ~Stale(m, i)
  BY <1>2 DEF CalmReceipt, Stale
<1>4. \/ i.status \notin {NONE, PRE_ACCEPTED} /\ Ignore(r, e)
      \/ SearchFaults(inst[r], m.cmd, id) /\ Crash(r, SetToBag({e}))
      \/ /\ i.status \in {NONE, PRE_ACCEPTED}
         /\ FinishClearing(r, id, SetToBag({e}), i2, lt[r][id], Armed(r, id), <<ans>>, {})
         /\ UNCHANGED <<up, execq, dh, decided>>
  BY <1>1, <1>3, Zenon
<1>5. CASE i.status \notin {NONE, PRE_ACCEPTED} /\ Ignore(r, e)
  <2>1. NotFirst(r, id)
    BY <1>5 DEF Found, NotFirst, NewInstance
  <2>2. QED
    BY <1>2, <1>5, <2>1, IgnoreEnds DEF CalmReceipt
<1>6. CASE SearchFaults(inst[r], m.cmd, id) /\ Crash(r, SetToBag({e}))
  BY <1>3, <1>6 DEF CalmCrash
<1>7. CASE /\ i.status \in {NONE, PRE_ACCEPTED}
           /\ FinishClearing(r, id, SetToBag({e}), i2, lt[r][id], Armed(r, id), <<ans>>, {})
           /\ UNCHANGED <<up, execq, dh, decided>>
  <2>1. PreAcceptedAs(p.updated) \in {PRE_ACCEPTED, PRE_ACCEPTED_EQ}
    BY DEF PreAcceptedAs
  <2>2. i2.status \in State /\ i2.status >= PRE_ACCEPTED
    BY <2>1 DEF State, PRE_ACCEPTED, PRE_ACCEPTED_EQ
  <2>3. ~(inst[r][id].status >= COMMITTED)
    <3>1. ~(NONE >= COMMITTED) /\ ~(PRE_ACCEPTED >= COMMITTED) /\ ~(ABSENT >= COMMITTED)
      BY StateOrder DEF NONE, PRE_ACCEPTED, COMMITTED
    <3>2. inst[r][id].status \in {NONE, PRE_ACCEPTED, ABSENT}
      BY <1>7, Zenon DEF Found, Known
    <3>3. QED
      BY <3>1, <3>2, Zenon
  <2>4. i2.ballot = 0 /\ i2.cmd # NoCommand
    BY <1>2 DEF CalmReceipt
  <2>. HIDE DEF p, nseq, full
  <2>5. r # id.replica /\ m.from = id.replica /\ Holds(id.replica, id)
    BY <1>2 DEF CalmReceipt, Request
  <2>6. Grown(r, id, i2, lt[r][id])
    <3>. HIDE DEF i2
    <3>1. QED
      BY <2>2, <2>3, <2>4, <2>5 DEF Grown
  <2>7. /\ IsMessage(ans) /\ ans.type \in {"PRE_ACCEPT_REPLY", "PRE_ACCEPT_OK"}
        /\ ans.id = id /\ ans.ballot = 0 /\ ans.nack = FALSE /\ ans.cmd = m.cmd
        /\ ans.from = m.from
    <3>1. /\ IsMessage(m) /\ m.id = id /\ m.ballot = 0 /\ m.nack = FALSE
      BY <1>2 DEF CalmReceipt
    <3>2. CASE full
      BY <3>1, <3>2 DEF IsMessage
    <3>3. CASE ~full
      BY <3>1, <3>3 DEF IsMessage
    <3>4. QED
      BY <3>2, <3>3
  <2>. HIDE DEF i2, ans
  <2>8. Sendable(r, id, i2, ans)
    BY <1>3, <2>2, <2>5, <2>7 DEF Sendable, Reply
  <2>9. Ends(r, id, SetToBag({e}), i2, lt[r][id], Armed(r, id), <<ans>>)
    BY <1>7, <2>6, <2>8 DEF Ends
  <2>10. QED
    BY <2>9, Zenon DEF CalmEnd
<1>8. QED
  BY <1>4, <1>5, <1>6, <1>7

\* The leader counts an answer of one that holds the instance.
LEMMA PreacceptedEnds ==
    ASSUME Inv, Calmed, NEW r \in Replicas, NEW e, NEW m, CalmReceipt(r, e, m),
           e.type \in Reply, NEW i, NEW t, NEW fast, i.status = PRE_ACCEPTED,
           Grown(r, e.id, i, t), Preaccepted(r, e, i, t, m, fast)
    PROVE  CalmEnd(r, e.id)
<1> DEFINE id == e.id
           i2 == [i EXCEPT !.status = ACCEPTED]
           m2 == [m EXCEPT !.type = "ACCEPT"]
<1>1. /\ id \in Ids /\ r = id.replica /\ HeldElsewhere(id)
      /\ IsMessage(m) /\ m.id = id /\ m.ballot = 0 /\ m.nack = FALSE /\ m.cmd # NoCommand
  BY DEF CalmReceipt
<1>2. \/ DoCommit(r, id, SetToBag({e}), i, t, m)
      \/ Finish(r, id, SetToBag({e}), i2, t, Armed(r, id), <<m2>>)
      \/ Finish(r, id, SetToBag({e}), i, t, Armed(r, id), <<>>)
  BY Zenon DEF Preaccepted
<1>3. i2.status = ACCEPTED /\ i2.ballot = i.ballot /\ i2.cmd = i.cmd
  OBVIOUS
<1>4. /\ IsMessage(m2) /\ m2.type = "ACCEPT" /\ m2.id = id /\ m2.ballot = 0
      /\ m2.nack = FALSE /\ m2.cmd # NoCommand
  BY <1>1 DEF IsMessage
<1>. HIDE DEF i2, m2
<1>5. /\ ACCEPTED \in State /\ ACCEPTED >= PRE_ACCEPTED /\ ~(PRE_ACCEPTED >= COMMITTED)
  BY DEF State, ACCEPTED, PRE_ACCEPTED, COMMITTED
<1>6. t.on
  BY <1>1 DEF Grown
<1>7. Grown(r, id, i2, t)
  BY <1>3, <1>5, <1>6 DEF Grown
<1>8. Sendable(r, id, i2, m2)
  BY <1>1, <1>3, <1>4, <1>5 DEF Sendable, Request
<1>9. QED
  BY <1>1, <1>2, <1>7, <1>8, DoCommitEnds, FinishEnds


\* pre_accept_ok: the leader counts, whatever decoding left in the message.
LEMMA PreAcceptOkEnds ==
    ASSUME Inv, Calmed, NEW r \in Replicas, up[r], NEW e \in BagToSet(net), e.to = r,
           e.type = "PRE_ACCEPT_OK", PreAcceptOk(r, e)
    PROVE  CalmEnd(r, e.id)
<1>1. PICK m \in Decode(e, inst[r]) : PreAcceptOk(r, e)!(m)
  BY DEF PreAcceptOk
<1>2. CalmReceipt(r, e, m)
  BY CalmlyReceived
<1> DEFINE i == Found(r, e.id)
           t == [lt[r][e.id] EXCEPT !.pre_accept_oks = Inc(@)]
<1>3. \/ Ignore(r, e)
      \/ i.status = PRE_ACCEPTED
         /\ Preaccepted(r, e, i, t, m, t.equal /\ ~HasUncommittedDeps(i.deps))
  BY <1>1, Zenon
<1>4. e.id \in Ids /\ NotFirst(r, e.id) /\ e.type \in Reply
  BY <1>2 DEF CalmReceipt, Reply
<1>5. Grown(r, e.id, i, lt[r][e.id])
  BY <1>4, FoundGrown
<1>6. t.on = lt[r][e.id].on
  BY <1>4 DEF Inv, Data, Tracker
<1>7. Grown(r, e.id, i, t)
  <2>. HIDE DEF i, t
  <2>1. QED
    BY <1>5, <1>6 DEF Grown
<1>. HIDE DEF i, t
<1>8. QED
  BY <1>2, <1>3, <1>4, <1>7, IgnoreEnds, PreacceptedEnds

\* pre_accept_reply: no answer of a calm state is a refusal.
LEMMA PreAcceptReplyEnds ==
    ASSUME Inv, Calmed, NEW r \in Replicas, up[r], NEW e \in BagToSet(net), e.to = r,
           e.type = "PRE_ACCEPT_REPLY", PreAcceptReply(r, e)
    PROVE  CalmEnd(r, e.id)
<1>1. PICK m \in Decode(e, inst[r]) : PreAcceptReply(r, e)!(m)
  BY DEF PreAcceptReply
<1>2. CalmReceipt(r, e, m)
  BY CalmlyReceived
<1> DEFINE i      == Found(r, e.id)
           t      == lt[r][e.id]
           merged == UpdateAll(i.deps, m.deps)
           i2     == [i EXCEPT !.seq = Max({@, m.seq}), !.deps = merged.deps]
           t2     == [t EXCEPT !.pre_accept_oks = Inc(@),
                               !.equal = (@ \/ m.seq > i.seq) /\ ~merged.updated]
           fast   == t2.equal /\ IsInitialBallot(i.ballot) /\ ~HasUncommittedDeps(i2.deps)
<1>3. m.nack = FALSE
  BY <1>2 DEF CalmReceipt
<1>4. \/ Ignore(r, e)
      \/ i.status = PRE_ACCEPTED /\ Preaccepted(r, e, i2, t2, m, fast)
  BY <1>1, <1>3, Zenon
<1>5. e.id \in Ids /\ NotFirst(r, e.id) /\ e.type \in Reply
  BY <1>2 DEF CalmReceipt, Reply
<1>6. Grown(r, e.id, i, lt[r][e.id])
  BY <1>5, FoundGrown
<1>7. t2.on = lt[r][e.id].on
  BY <1>5 DEF Inv, Data, Tracker
<1>8. i2.status = i.status /\ i2.ballot = i.ballot /\ i2.cmd = i.cmd
  OBVIOUS
<1>9. Grown(r, e.id, i2, t2)
  <2>. HIDE DEF i2, t2, t
  <2>1. QED
    BY <1>6, <1>7, <1>8 DEF Grown
<1>. HIDE DEF i, i2, t2, fast
<1>10. QED
  BY <1>2, <1>4, <1>5, <1>8, <1>9, IgnoreEnds, PreacceptedEnds

\* accept: the instance is accepted, with the command it had.
LEMMA AcceptEnds ==
    ASSUME Inv, Calmed, NEW r \in Replicas, up[r], NEW e \in BagToSet(net), e.to = r,
           e.type = "ACCEPT", Accept(r, e)
    PROVE  CalmEnd(r, e.id)
<1>1. PICK m \in Decode(e, inst[r]) : Accept(r, e)!(m)
  BY DEF Accept
<1>2. CalmReceipt(r, e, m)
  BY CalmlyReceived
<1> DEFINE id  == e.id
           i   == Found(r, id)
           i2  == [i EXCEPT !.status = ACCEPTED, !.ballot = m.ballot,
                            !.seq = m.seq, !.deps = m.deps]
           ans == [m EXCEPT !.type = "ACCEPT_REPLY"]
<1>3. m.cmd # NoCommand /\ ~Stale(m, i) /\ NotFirst(r, id) /\ id \in Ids
  BY <1>2 DEF CalmReceipt, Stale
<1>4. \/ Ignore(r, e)
      \/ /\ ~Closed(i.status)
         /\ FinishClearing(r, id, SetToBag({e}), i2, lt[r][id], Armed(r, id), <<ans>>, {})
         /\ UNCHANGED <<up, execq, dh, decided>>
  BY <1>1, <1>3, Zenon
<1>5. CASE Ignore(r, e)
  BY <1>3, <1>5, IgnoreEnds
<1>6. CASE /\ ~Closed(i.status)
           /\ FinishClearing(r, id, SetToBag({e}), i2, lt[r][id], Armed(r, id), <<ans>>, {})
           /\ UNCHANGED <<up, execq, dh, decided>>
  <2>1. /\ r # id.replica /\ m.from = id.replica /\ Holds(id.replica, id) /\ HeldElsewhere(id)
        /\ m.ballot = 0 /\ m.nack = FALSE /\ m.id = id /\ IsMessage(m)
    BY <1>2 DEF CalmReceipt, Request
  <2>2. Grown(r, id, i, lt[r][id])
    BY <1>3, FoundGrown
  <2>3. ~(i.status >= COMMITTED)
    BY <1>6, <2>2 DEF Grown, Closed, State, NONE, PRE_ACCEPTED, PRE_ACCEPTED_EQ, ACCEPTED,
                      COMMITTED, EXECUTED
  <2>4. i2.status = ACCEPTED /\ i2.ballot = 0 /\ i2.cmd = i.cmd
    BY <2>1
  <2>5. /\ IsMessage(ans) /\ ans.type = "ACCEPT_REPLY" /\ ans.id = id /\ ans.ballot = 0
        /\ ans.nack = FALSE /\ ans.cmd # NoCommand /\ ans.from = m.from
    BY <1>3, <2>1 DEF IsMessage
  <2>. HIDE DEF i, i2, ans
  <2>6. ACCEPTED \in State /\ ACCEPTED >= PRE_ACCEPTED
    BY DEF State, ACCEPTED, PRE_ACCEPTED
  <2>7. Grown(r, id, i2, lt[r][id])
    BY <2>1, <2>2, <2>3, <2>4, <2>6, <1>3 DEF Grown, i
  <2>8. Sendable(r, id, i2, ans)
    BY <2>1, <2>4, <2>5, <2>6 DEF Sendable, Reply
  <2>9. Ends(r, id, SetToBag({e}), i2, lt[r][id], Armed(r, id), <<ans>>)
    BY <1>6, <2>7, <2>8 DEF Ends
  <2>10. QED
    BY <2>9, Zenon DEF CalmEnd
<1>7. QED
  BY <1>4, <1>5, <1>6

\* accept_reply: the leader counts, and commits.
LEMMA AcceptReplyEnds ==
    ASSUME Inv, Calmed, NEW r \in Replicas, up[r], NEW e \in BagToSet(net), e.to = r,
           e.type = "ACCEPT_REPLY", AcceptReply(r, e)
    PROVE  CalmEnd(r, e.id)
<1>1. PICK m \in Decode(e, inst[r]) : AcceptReply(r, e)!(m)
  BY DEF AcceptReply
<1>2. CalmReceipt(r, e, m)
  BY CalmlyReceived
<1> DEFINE i == Found(r, e.id)
           t == [lt[r][e.id] EXCEPT !.accept_oks = Inc(@)]
<1>3. /\ e.id \in Ids /\ NotFirst(r, e.id) /\ r = e.id.replica /\ HeldElsewhere(e.id)
      /\ IsMessage(m) /\ m.id = e.id /\ m.ballot = 0 /\ m.nack = FALSE /\ m.cmd # NoCommand
  BY <1>2 DEF CalmReceipt, Reply
<1>4. \/ Ignore(r, e)
      \/ DoCommit(r, e.id, SetToBag({e}), i, t, m)
      \/ Finish(r, e.id, SetToBag({e}), i, t, Armed(r, e.id), <<>>)
  BY <1>1, <1>3, Zenon
<1>5. Grown(r, e.id, i, lt[r][e.id])
  BY <1>3, FoundGrown
<1>6. t.on = lt[r][e.id].on
  BY <1>3 DEF Inv, Data, Tracker
<1>7. Grown(r, e.id, i, t)
  <2>. HIDE DEF i, t
  <2>1. QED
    BY <1>5, <1>6 DEF Grown
<1>. HIDE DEF i, t
<1>8. QED
  BY <1>3, <1>4, <1>7, IgnoreEnds, DoCommitEnds, FinishEnds

\* commit: committed whatever it was.
LEMMA CommitEnds ==
    ASSUME Inv, Calmed, NEW r \in Replicas, up[r], NEW e \in BagToSet(net), e.to = r,
           e.type = "COMMIT", Commit(r, e)
    PROVE  CalmEnd(r, e.id)
<1>1. PICK m \in Decode(e, inst[r]) : Commit(r, e)!(m)
  BY DEF Commit
<1>2. CalmReceipt(r, e, m)
  BY CalmlyReceived
<1> DEFINE id == e.id
           i  == Found(r, id)
           i2 == [i EXCEPT !.status = COMMITTED, !.seq = m.seq, !.deps = m.deps]
<1>3. /\ FinishClearing(r, id, SetToBag({e}), i2, lt[r][id], "none", <<>>, {})
      /\ decided' = [decided EXCEPT ![r] = @ \union {id}] /\ up' = up
  BY <1>1, Zenon
<1>4. /\ id \in Ids /\ NotFirst(r, id) /\ r # id.replica /\ Holds(id.replica, id)
      /\ HeldElsewhere(id)
  BY <1>2 DEF CalmReceipt, Request
<1>5. Grown(r, id, i, lt[r][id])
  BY <1>4, FoundGrown
<1>6. i2.status = COMMITTED /\ i2.ballot = i.ballot /\ i2.cmd = i.cmd
  OBVIOUS
<1>7. COMMITTED \in State /\ COMMITTED >= PRE_ACCEPTED /\ COMMITTED >= COMMITTED
  BY DEF State, COMMITTED, PRE_ACCEPTED
<1>. HIDE DEF i2
<1>8. Grown(r, id, i2, lt[r][id])
  BY <1>4, <1>5, <1>6, <1>7 DEF Grown
<1>9. Decidable(r, id, i2)
  BY <1>4, <1>6, <1>7 DEF Decidable
<1>10. Ends(r, id, SetToBag({e}), i2, lt[r][id], "none", <<>>)
  BY <1>3, <1>8, <1>9 DEF Ends
<1>11. QED
  BY <1>10, Zenon DEF CalmEnd

\* One message, whichever it is: the types of a recovery are not under way.
LEMMA ReceiveEnds ==
    ASSUME Inv, Calmed, NEW r \in Replicas, Receive(r)
    PROVE  \E e \in BagToSet(net) :
              /\ up[r] /\ e.to = r
              /\ CalmEnd(r, e.id) \/ CalmCrash(r, e.id)
<1>1. PICK e \in BagToSet(net) :
        /\ up[r] /\ e.to = r
        /\ \/ e.type = "PRE_ACCEPT" /\ PreAccept(r, e)
           \/ e.type = "PRE_ACCEPT_OK" /\ PreAcceptOk(r, e)
           \/ e.type = "PRE_ACCEPT_REPLY" /\ PreAcceptReply(r, e)
           \/ e.type = "ACCEPT" /\ Accept(r, e)
           \/ e.type = "ACCEPT_REPLY" /\ AcceptReply(r, e)
           \/ e.type = "COMMIT" /\ Commit(r, e)
           \/ e.type \in {"PREPARE", "PREPARE_REPLY", "TRY_PRE_ACCEPT", "TRY_PRE_ACCEPT_REPLY"}
  BY Zenon DEF Receive, Arrived
<1>2. e.type \in Request \union Reply
  BY DEF Calmed, CalmMessage
<1>3. e.type \notin {"PREPARE", "PREPARE_REPLY", "TRY_PRE_ACCEPT", "TRY_PRE_ACCEPT_REPLY"}
  BY <1>2 DEF Request, Reply
<1>4. QED
  BY <1>1, <1>3, PreAcceptEnds, PreAcceptOkEnds, PreAcceptReplyEnds, AcceptEnds,
     AcceptReplyEnds, CommitEnds, Zenon


-----------------------------------------------------------------------------
(* Every step of a calm behaviour.                                         *)

\* A fault changes no instance.
LEMMA FaultKeeps ==
    ASSUME Inv, Calmed, NEW r, NEW used, Crash(r, used)
    PROVE  Calmed' /\ Rising
<1>1. inst' = inst /\ lt' = lt /\ decided' = decided /\ net' = net (-) used
  BY DEF Crash
<1>2. BagToSet(net') \subseteq BagToSet(net)
  BY <1>1, BagMinus
<1>3. Rising
  BY <1>1 DEF Rising, Holds
<1>4. \A c \in BagToSet(net') : CalmMessage(c)'
  BY <1>2, <1>3, UnderWayStays DEF Calmed
<1>5. QED
  BY <1>1, <1>3, <1>4 DEF Calmed, Led, Holds, HeldElsewhere

\* The executor runs what was committed.
LEMMA ExecuteRises ==
    ASSUME Inv, Calmed, NEW r \in Replicas, NEW id \in Ids, Execute(r, id)
    PROVE  Calmed' /\ Rising
<1>1. \/ Crash(r, EmptyBag)
      \/ /\ inst' = [inst EXCEPT ![r][id].status = EXECUTED]
         /\ UNCHANGED <<lt, net, decided>>
  BY Zenon DEF Execute
<1>2. CASE Crash(r, EmptyBag)
  BY <1>2, FaultKeeps
<1>3. CASE /\ inst' = [inst EXCEPT ![r][id].status = EXECUTED]
           /\ UNCHANGED <<lt, net, decided>>
  <2>1. inst \in [Replicas -> [Ids -> Instance]]
    BY DEF Inv, Data
  <2>2. /\ inst'[r][id].status = EXECUTED
        /\ inst'[r][id].ballot = inst[r][id].ballot
        /\ \A q \in Replicas, x \in Ids : ~(q = r /\ x = id) => inst'[q][x] = inst[q][x]
    BY <1>3, <2>1 DEF Instance
  <2>3. EXECUTED >= PRE_ACCEPTED /\ EXECUTED >= COMMITTED
        /\ EXECUTED \notin {PRE_ACCEPTED, ACCEPTED}
    BY DEF EXECUTED, PRE_ACCEPTED, ACCEPTED, COMMITTED
  <2>4. Rising
    BY <2>2, <2>3 DEF Rising, Holds
  <2>5. \A c \in BagToSet(net') : CalmMessage(c)'
    BY <1>3, <2>4, UnderWayStays DEF Calmed
  <2>6. \A q \in Replicas, x \in Ids : inst'[q][x].ballot = 0
    BY <2>2 DEF Calmed
  <2>7. \A x \in Ids : inst'[x.replica][x].status \in {PRE_ACCEPTED, ACCEPTED} =>
                          lt'[x.replica][x].on
    <3>1. \A x \in Ids : x.replica \in Replicas
      BY DEF Ids
    <3>2. QED
      BY <1>3, <2>2, <2>3, <3>1 DEF Calmed, Led
  <2>8. ASSUME NEW q \in Replicas, NEW x \in decided'[q]
        PROVE  /\ inst'[q][x].status >= COMMITTED
               /\ inst'[x.replica][x].status >= PRE_ACCEPTED
               /\ \E p \in Replicas : p # x.replica /\ inst'[p][x].status >= PRE_ACCEPTED
    <3>1. x \in decided[q] /\ x \in Ids /\ x.replica \in Replicas
      BY <1>3, <2>8 DEF Inv, Control, Ids
    <3>2. inst[q][x].status >= COMMITTED /\ Holds(x.replica, x) /\ HeldElsewhere(x)
      BY <3>1 DEF Calmed
    <3>3. QED
      BY <2>4, <3>1, <3>2 DEF Rising, HeldElsewhere
  <2>9. QED
    BY <2>4, <2>5, <2>6, <2>7, <2>8 DEF Calmed, Led, Holds, HeldElsewhere
<1>4. QED
  BY <1>1, <1>2, <1>3

\* Nothing is under way when the replicas start, and nothing is committed.
LEMMA CalmInit ==
    ASSUME Init
    PROVE  Calmed
<1>1. BagToSet(net) = {}
  BY DEF Init, EmptyBag, SetToBag, BagToSet
<1>2. \A q \in Replicas, x \in Ids : inst[q][x] = AbsentInstance
  BY DEF Init
<1>3. AbsentInstance.ballot = 0 /\ AbsentInstance.status \notin {PRE_ACCEPTED, ACCEPTED}
  BY DEF AbsentInstance, NewInstance, ABSENT, PRE_ACCEPTED, ACCEPTED
<1>4. \A x \in Ids : x.replica \in Replicas
  BY DEF Ids
<1>5. \A q \in Replicas : decided[q] = {}
  BY DEF Init
<1>6. QED
  BY <1>1, <1>2, <1>3, <1>4, <1>5 DEF Calmed, Led

\* A timeout is not forgotten, so a calm state comes from a calm one, by a
\* step other than a timeout.
LEMMA CalmBefore ==
    ASSUME Inv, [Next]_vars, Calm'
    PROVE  /\ Calm
           /\ \/ \E r \in Leaders : Propose(r)
              \/ \E r \in Replicas : Receive(r)
              \/ \E r \in Executors, id \in Ids : Execute(r, id)
              \/ UNCHANGED vars
<1>1. timeouts \in [Replicas -> Nat] /\ \A q \in Replicas : timeouts'[q] = 0
  BY DEF Inv, Calm
<1>2. ASSUME NEW r \in Replicas, timeouts' = [timeouts EXCEPT ![r] = @ + 1]
      PROVE  FALSE
  BY <1>1, <1>2
<1>3. ~(\E r \in Replicas, id \in Ids : FastPathTimeout(r, id) \/ SlowPathTimeout(r, id))
  BY <1>2 DEF FastPathTimeout, SlowPathTimeout
<1>4. \/ \E r \in Leaders : Propose(r)
      \/ \E r \in Replicas : Receive(r)
      \/ \E r \in Executors, id \in Ids : Execute(r, id)
      \/ UNCHANGED vars
  BY <1>3 DEF Next
<1>5. ASSUME NEW r \in Replicas, Receive(r)
      PROVE  timeouts' = timeouts
  BY <1>5, ReceiveKeeps
<1>6. timeouts' = timeouts
  BY <1>4, <1>5 DEF Propose, Execute, history, vars
<1>7. QED
  BY <1>1, <1>4, <1>6 DEF Calm

\* Every step of a calm behaviour keeps what holds, and takes nothing back.
LEMMA CalmStep ==
    ASSUME Inv, Calm => Calmed, [Next]_vars, Calm'
    PROVE  Calmed' /\ Rising
<1>1. Calmed
  BY CalmBefore
<1>2. ASSUME NEW r \in Leaders, Propose(r)
      PROVE  Calmed' /\ Rising
  <2>1. r \in Replicas
    BY ReplicaAssumption
  <2>2. PICK id \in Ids : CalmEnd(r, id) \/ CalmCrash(r, id)
    BY <1>1, <1>2, <2>1, ProposeEnds
  <2>3. QED
    BY <1>1, <2>1, <2>2, EndKeeps, FaultKeeps DEF CalmCrash
<1>3. ASSUME NEW r \in Replicas, Receive(r)
      PROVE  Calmed' /\ Rising
  <2>1. PICK e \in BagToSet(net) : CalmEnd(r, e.id) \/ CalmCrash(r, e.id)
    BY <1>1, <1>3, ReceiveEnds
  <2>2. e.id \in Ids
    BY DEF Inv, Data, SoundMessage, Message
  <2>3. QED
    BY <1>1, <2>1, <2>2, EndKeeps, FaultKeeps DEF CalmCrash
<1>4. ASSUME NEW r \in Executors, NEW id \in Ids, Execute(r, id)
      PROVE  Calmed' /\ Rising
  BY <1>1, <1>4, ExecuteRises, ReplicaAssumption
<1>5. CASE UNCHANGED vars
  <2>1. inst' = inst /\ lt' = lt /\ net' = net /\ decided' = decided
    BY <1>5 DEF vars
  <2>2. Rising
    BY <2>1 DEF Rising, Holds
  <2>3. Calmed'
    BY <1>1, <2>1 DEF Calmed, CalmMessage, Holds, HeldElsewhere, Led
  <2>4. QED
    BY <2>2, <2>3
<1>6. QED
  BY <1>2, <1>3, <1>4, <1>5, CalmBefore

\* So it holds as long as no timeout has fired.
LEMMA CalmInvariance == Spec => [](Inv /\ (Calm => Calmed))
<1>1. Init => (Calm => Calmed)
  BY CalmInit
<1>2. Inv /\ (Calm => Calmed) /\ [Next]_vars => (Calm => Calmed)'
  BY CalmStep
<1>3. QED
  BY <1>1, <1>2, Invariance, PTL DEF Spec

\* As long as no timeout has fired, no reply that its receiver would act on
\* (pre_accept_ok, pre_accept_reply, accept_reply of epaxos.c use i->lt
\* unchecked) meets an instance without a leader tracker.
THEOREM TrackersFound == Spec /\ []Calm => []RepliesFindTracker
<1>1. Inv /\ Calmed => RepliesFindTracker
  <2>1. SUFFICES ASSUME Inv, Calmed, NEW m \in BagToSet(net),
                        m.type \in Reply, inst[m.to][m.id].status \in {PRE_ACCEPTED, ACCEPTED}
                 PROVE  lt[m.to][m.id].on
    BY Zenon DEF RepliesFindTracker, Reply
  <2>2. CalmMessage(m) /\ m.id \in Ids
    BY <2>1 DEF Calmed, Inv, Data, SoundMessage, Message
  <2>3. m.to = m.id.replica
    BY <2>1, <2>2 DEF CalmMessage, Request, Reply
  <2>4. QED
    BY <2>1, <2>2, <2>3 DEF Calmed, Led
<1>2. QED
  BY <1>1, CalmInvariance, PTL

\* As long as no timeout has fired, no late or second message takes a commit
\* back: commit (epaxos.c:447), the guards of the other handlers and the
\* executor leave a committed instance committed.
THEOREM CommitsStick == Spec /\ []Calm => CommitSticks
<1>1. Inv /\ (Calm => Calmed) /\ Calm' /\ [Next]_vars =>
        [\A r \in Replicas, id \in Ids :
            inst[r][id].status >= COMMITTED =>
               \/ inst'[r][id].status >= COMMITTED
               \/ inst[r][id].status = EXECUTED /\ inst'[r][id].status = ABSENT]_vars
  BY CalmStep DEF Rising
<1>2. QED
  BY <1>1, CalmInvariance, PTL DEF Spec, CommitSticks


\* As long as no timeout has fired, what is decided is held by its leader and
\* by another node, though one node is sent and answers several copies of a
\* request and the counters of leader_tracker (epaxos.c:145,220) count
\* messages.  Of the three nodes of epx.h those two are a majority; of five
\* they are not.
THEOREM MajoritiesKnow ==
    ASSUME N <= 3
    PROVE  Spec /\ []Calm => []MajorityKnows
<1>1. Inv /\ Calmed => MajorityKnows
  <2>1. SUFFICES ASSUME Inv, Calmed, NEW r \in Replicas, NEW id \in decided[r]
                 PROVE  Cardinality({q \in Replicas : inst[q][id].status >= PRE_ACCEPTED})
                           > N \div 2
    BY DEF MajorityKnows
  <2> DEFINE S == {q \in Replicas : inst[q][id].status >= PRE_ACCEPTED}
  <2>2. id.replica \in Replicas
    BY <2>1 DEF Inv, Control, Ids
  <2>3. PICK q \in S : q # id.replica /\ id.replica \in S
    BY <2>1, <2>2 DEF Calmed, HeldElsewhere, Holds
  <2>4. IsFiniteSet(S)
    <3>1. IsFiniteSet(0..(N - 1))
      BY InstanceAssumption, FS_Interval
    <3>2. QED
      BY <3>1, FS_Subset DEF Replicas
  <2>. HIDE DEF S
  <2>5. Cardinality({q, id.replica}) = 2
    <3>1. IsFiniteSet({id.replica}) /\ Cardinality({id.replica}) = 1
      BY FS_Singleton
    <3>2. IsFiniteSet({id.replica} \union {q})
          /\ Cardinality({id.replica} \union {q}) = Cardinality({id.replica}) + 1
      BY <2>3, <3>1, FS_AddElement
    <3>3. {id.replica} \union {q} = {q, id.replica}
      OBVIOUS
    <3>4. QED
      BY <3>1, <3>2, <3>3
  <2>6. Cardinality({q, id.replica}) <= Cardinality(S)
    <3>1. {q, id.replica} \subseteq S
      BY <2>3
    <3>2. QED
      BY <2>4, <3>1, FS_Subset
  <2>7. N \div 2 \in Int /\ N \div 2 <= 1
    BY InstanceAssumption
  <2>8. Cardinality(S) \in Nat
    BY <2>4, FS_CardinalityType
  <2>9. Cardinality(S) > N \div 2
    BY <2>5, <2>6, <2>7, <2>8
  <2>10. QED
    BY <2>9, Zenon DEF S
<1>2. QED
  BY <1>1, CalmInvariance, PTL

-----------------------------------------------------------------------------
(* With the routing of the program.                                        *)

\* A search meets no instance without a command.
LEMMA NoSearchFaults ==
    ASSUME Safe, NEW r \in Replicas, NEW c, c # NoCommand, NEW id
    PROVE  ~SearchFaults(inst[r], c, id)
<1>1. SUFFICES ASSUME NEW rc \in Replicas, NEW x,
                      x \in Visited(inst[r], Candidates(inst[r], rc, id), c),
                      inst[r][x].cmd = NoCommand
               PROVE  FALSE
  BY DEF SearchFaults
<1>2. x \in Ids /\ Known(r, x)
  BY <1>1 DEF Visited, Live, Candidates, Index, Known
<1>3. QED
  BY <1>1, <1>2 DEF Safe

\* What a handler sends reaches connected nodes, requests node 0 alone, which
\* is not connected to itself.
LEMMA SentIsSafe ==
    ASSUME Routed, NEW r \in Replicas, NEW id \in Ids, id.replica \in Leaders,
           r \in {0, id.replica}, NEW i, NEW m, Sendable(r, id, i, m)
    PROVE  /\ IoSurvives(r, m) \/ (r = 0 /\ id.replica = 0)
           /\ \A c \in BagToSet(Copies(r, m)) :
                 /\ c.type = m.type /\ c.id = id
                 /\ c.type \in Request => c.to = 0
<1> DEFINE to == Targets(r, m)
<1>1. IsMessage(m) /\ m.id = id
      /\ \/ r = id.replica /\ m.type \in Request
         \/ r # id.replica /\ m.type \in Reply /\ m.from = id.replica
  BY DEF Sendable
<1>2. m.type \in Request => \A k \in 1..Len(to) : to[k] = 0
  <2>1. CASE m.type \in {"PRE_ACCEPT", "ACCEPT"}
    <3>1. to = [s \in 1..(N - 1) |-> Quorum[r][s]] /\ r = id.replica
      BY <1>1, <2>1 DEF Targets, Reply
    <3>2. Len(to) = N - 1 /\ N - 1 \in Nat
      BY <3>1, InstanceAssumption
    <3>3. \A s \in 1..(N - 1) : s \in 1..N
      BY InstanceAssumption
    <3>4. QED
      BY <3>1, <3>2, <3>3 DEF Routed
  <2>2. CASE m.type = "COMMIT"
    <3>1. to = [s \in 1..N |-> Quorum[r][s]] /\ r = id.replica
      BY <1>1, <2>2 DEF Targets, Reply
    <3>2. Len(to) = N /\ N \in Nat
      BY <3>1, InstanceAssumption
    <3>3. QED
      BY <3>1, <3>2 DEF Routed
  <2>3. QED
    BY <2>1, <2>2 DEF Request
<1>3. IoSurvives(r, m) \/ (r = 0 /\ id.replica = 0)
  <2>1. SUFFICES ASSUME ~(r = 0 /\ id.replica = 0)
                 PROVE  IoSurvives(r, m)
    OBVIOUS
  <2>2. \A k \in 1..Len(to) : to[k] \in Linked[r]
    <3>1. CASE m.type \in Request /\ r = id.replica
      BY <1>2, <2>1, <3>1 DEF Routed
    <3>2. CASE m.type \in Reply /\ m.from = id.replica /\ r # id.replica
      <4>1. to = <<m.from>>
        BY <3>2 DEF Reply, Targets
      <4>2. Len(<<m.from>>) = 1 /\ <<m.from>>[1] = m.from
        OBVIOUS
      <4>3. m.from \in Linked[r]
        BY <3>2 DEF Routed
      <4>4. QED
        BY <4>1, <4>2, <4>3
    <3>3. QED
      BY <1>1, <3>1, <3>2
  <2>3. \A k \in 1..Len(to) : \A j \in 1..k : j \in 1..Len(to)
    <3>1. Len(to) \in Int \/ 1..Len(to) = {}
      BY <2>2
    <3>2. QED
      BY <3>1
  <2>4. QED
    BY <2>2, <2>3 DEF IoSurvives, Written
<1>4. ASSUME NEW c \in BagToSet(Copies(r, m))
      PROVE  c.type = m.type /\ c.id = id /\ (c.type \in Request => c.to = 0)
  <2>1. PICK k \in 1..Len(to) : c = CopyTo(r, m, to[k])
    BY CopiesAre
  <2>. HIDE DEF to
  <2>2. c.type = m.type /\ c.id = id /\ c.to = to[k]
    BY <1>1, <2>1, CopyFields
  <2>3. QED
    BY <1>2, <2>2
<1>5. QED
  BY <1>3, <1>4

\* A handler that ends keeps node and io thread running.
LEMMA EndSafe ==
    ASSUME Inv, Calmed, Routed, Safe, NEW r \in Replicas, NEW id \in Ids,
           id.replica \in Leaders, r \in {0, id.replica}, CalmEnd(r, id)
    PROVE  Safe'
<1>1. PICK used, i, t, tm, ms : Ends(r, id, used, i, t, tm, ms)
  BY DEF CalmEnd
<1>2. /\ inst'[r][id] = i
      /\ \A q \in Replicas, x \in Ids : ~(q = r /\ x = id) => inst'[q][x] = inst[q][x]
      /\ \A c \in BagToSet(net') :
            \/ c \in BagToSet(net)
            \/ \E m : ms = <<m>> /\ c \in BagToSet(Copies(r, m))
  BY <1>1, EndIs
<1>3. Grown(r, id, i, t) /\ (ms = <<>> \/ \E m : ms = <<m>> /\ Sendable(r, id, i, m))
  BY <1>1 DEF Ends
<1>4. 0 \in Replicas /\ i.status # ABSENT
  BY <1>3, InstanceAssumption, StateOrder DEF Grown, Replicas
<1>5. i.cmd # NoCommand
  <2>1. ASSUME NotFirst(r, id)
        PROVE  Known(r, id)
    <3>1. SUFFICES ASSUME NEW m \in BagToSet(net), m.to = r, m.id = id, m.type # "PRE_ACCEPT"
                   PROVE  Known(r, id)
      BY <2>1 DEF NotFirst
    <3>2. CalmMessage(m)
      BY DEF Calmed
    <3>3. CASE m.type \in Request
      BY <3>1, <3>3 DEF Safe
    <3>4. CASE m.type \in Reply /\ m.to = id.replica /\ Holds(id.replica, id)
      BY <3>1, <3>4, StateOrder DEF Holds, Known
    <3>5. QED
      BY <3>1, <3>2, <3>3, <3>4 DEF CalmMessage
  <2>2. Known(r, id) => inst[r][id].cmd # NoCommand /\ Found(r, id) = inst[r][id]
    BY DEF Safe, Found
  <2>3. QED
    BY <1>3, <2>1, <2>2 DEF Grown
<1>6. \A q \in Replicas : up'[q]
  <2>1. up \in [Replicas -> BOOLEAN] /\ \A q \in Replicas : up[q]
    BY DEF Inv, Control, Safe, Alive
  <2>2. up' = up \/ up' = [up EXCEPT ![r] = TRUE]
    BY <1>1, <1>5 DEF Ends
  <2>3. QED
    BY <2>1, <2>2
<1>7. \A q \in Replicas : io'[q] \/ (q = 0 /\ Leads(0)')
  <2>1. io \in [Replicas -> BOOLEAN] /\ \A q \in Replicas : io[q] \/ (q = 0 /\ Leads(0))
    BY DEF Inv, Control, Safe, Alive
  <2>2. Send(r, used, ms)
    BY <1>1 DEF Ends, FinishClearing
  <2>3. Leads(0) => Leads(0)'
    BY <1>2, <1>4 DEF Leads, Known
  <2>4. CASE io' = io
    BY <2>1, <2>3, <2>4
  <2>5. CASE io' # io
    <3>1. PICK m : ms = <<m>> /\ Sendable(r, id, i, m)
      <4>1. ms = <<>> => io' = io
        BY <2>2 DEF Send
      <4>2. QED
        BY <1>3, <2>5, <4>1
    <3>2. Len(ms) = 1 /\ ms # <<>> /\ ms[1] = m
      BY <3>1
    <3>3. io' = [io EXCEPT ![r] = IoSurvives(r, m)]
      BY <2>2, <2>5, <3>2 DEF Send
    <3>4. IoSurvives(r, m) \in BOOLEAN /\ (IoSurvives(r, m) \/ (r = 0 /\ id.replica = 0))
      <4>1. IoSurvives(r, m) \in BOOLEAN
        BY DEF IoSurvives
      <4>2. QED
        BY <3>1, <4>1, SentIsSafe
    <3>5. r = 0 /\ id.replica = 0 => Leads(0)'
      BY <1>2, <1>4 DEF Leads, Known
    <3>6. ASSUME NEW q \in Replicas
          PROVE  io'[q] \/ (q = 0 /\ Leads(0)')
      <4>1. CASE q = r
        <5>1. io'[q] = IoSurvives(r, m)
          BY <2>1, <3>3, <4>1
        <5>2. QED
          BY <3>4, <3>5, <4>1, <5>1
      <4>2. CASE q # r
        <5>1. io'[q] = io[q]
          BY <2>1, <3>3, <4>2
        <5>2. QED
          BY <2>1, <2>3, <5>1
      <4>3. QED
        BY <4>1, <4>2
    <3>7. QED
      BY <3>6
  <2>6. QED
    BY <2>4, <2>5
<1>8. \A q \in Replicas, x \in Ids : inst'[q][x].status # ABSENT =>
          inst'[q][x].cmd # NoCommand /\ x.replica \in Leaders /\ q \in {0, x.replica}
  BY <1>2, <1>5 DEF Safe, Known
<1>9. \A x \in Ids : Known(0, x) => inst'[0][x].status # ABSENT
  BY <1>2, <1>4 DEF Known
<1>10. ASSUME NEW c \in BagToSet(net'), c.type \in Request
       PROVE  c.to = 0 /\ (c.type # "PRE_ACCEPT" => inst'[0][c.id].status # ABSENT)
  <2>1. CASE c \in BagToSet(net)
    <3>1. c.id \in Ids
      BY <2>1 DEF Inv, Data, SoundMessage, Message
    <3>2. c.to = 0 /\ (c.type # "PRE_ACCEPT" => Known(0, c.id))
      BY <1>10, <2>1 DEF Safe
    <3>3. QED
      BY <1>9, <3>1, <3>2
  <2>2. CASE \E m : ms = <<m>> /\ c \in BagToSet(Copies(r, m))
    <3>1. PICK m : ms = <<m>> /\ c \in BagToSet(Copies(r, m))
      BY <2>2
    <3>2. ms # <<>>
      BY <3>1
    <3>3. PICK m2 : ms = <<m2>> /\ Sendable(r, id, i, m2)
      BY <1>3, <3>2
    <3>4. m = m2
      BY <3>1, <3>3
    <3>5. c.type = m.type /\ c.id = id /\ c.to = 0
      BY <1>10, <3>1, <3>3, <3>4, SentIsSafe
    <3>6. c.type # "PRE_ACCEPT" => HeldElsewhere(id)
      BY <1>10, <3>3, <3>4, <3>5 DEF Request, Sendable
    <3>7. HeldElsewhere(id) => Known(0, id)
      <4>1. SUFFICES ASSUME NEW q \in Replicas, q # id.replica, Holds(q, id)
                     PROVE  Known(0, id)
        BY DEF HeldElsewhere
      <4>2. Known(q, id)
        BY <4>1, StateOrder DEF Holds, Known
      <4>3. q = 0
        BY <4>1, <4>2 DEF Safe
      <4>4. QED
        BY <4>2, <4>3
    <3>8. QED
      BY <1>9, <3>5, <3>6, <3>7
  <2>3. QED
    BY <1>2, <2>1, <2>2
<1>11. QED
  BY <1>6, <1>7, <1>8, <1>10 DEF Safe, Alive, Known

\* An executor is not handed what was cleared.
LEMMA ExecuteSafe ==
    ASSUME Inv, Calmed, Safe, NEW r \in Replicas, NEW id \in Ids, Execute(r, id)
    PROVE  Safe'
<1>1. Known(r, id)
  <2>1. id \in decided[r]
    BY DEF Execute, Inv, Control
  <2>2. QED
    BY <2>1, StateOrder DEF Calmed, Known
<1>2. /\ inst' = [inst EXCEPT ![r][id].status = EXECUTED]
      /\ UNCHANGED <<net, io, up>>
  BY <1>1, Zenon DEF Execute
<1>3. inst \in [Replicas -> [Ids -> Instance]]
  BY DEF Inv, Data
<1>4. \A q \in Replicas, x \in Ids :
        /\ inst'[q][x].cmd = inst[q][x].cmd
        /\ inst'[q][x].status # ABSENT <=> inst[q][x].status # ABSENT
  <2>1. \A q \in Replicas, x \in Ids : ~(q = r /\ x = id) => inst'[q][x] = inst[q][x]
    BY <1>2, <1>3
  <2>2. inst'[r][id].status = EXECUTED /\ inst'[r][id].cmd = inst[r][id].cmd
    BY <1>2, <1>3 DEF Instance
  <2>3. QED
    BY <1>1, <2>1, <2>2 DEF EXECUTED, ABSENT, Known
<1>5. 0 \in Replicas
  BY InstanceAssumption DEF Replicas
<1>6. \A m \in BagToSet(net) : m.id \in Ids
  BY DEF Inv, Data, SoundMessage, Message
<1>7. QED
  BY <1>2, <1>4, <1>5, <1>6 DEF Safe, Alive, Leads, Known

\* Every step of a calm behaviour.
LEMMA SafeStep ==
    ASSUME Routed, Inv, Calm => Calmed /\ Safe, [Next]_vars, Calm'
    PROVE  Safe'
<1>1. Calmed /\ Safe
  BY CalmBefore
<1>2. ASSUME NEW r \in Leaders, Propose(r)
      PROVE  Safe'
  <2>1. r \in Replicas
    BY ReplicaAssumption
  <2>2. PICK id \in Ids : id.replica = r /\ (CalmEnd(r, id) \/ CalmCrash(r, id))
    BY <1>1, <1>2, <2>1, ProposeEnds
  <2>3. ~CalmCrash(r, id)
    BY <1>1, <2>1, NoSearchFaults DEF CalmCrash
  <2>4. QED
    BY <1>1, <1>2, <2>1, <2>2, <2>3, EndSafe
<1>3. ASSUME NEW r \in Replicas, Receive(r)
      PROVE  Safe'
  <2>1. PICK e \in BagToSet(net) : e.to = r /\ (CalmEnd(r, e.id) \/ CalmCrash(r, e.id))
    BY <1>1, <1>3, ReceiveEnds
  <2>2. e.id \in Ids /\ e.id.replica \in Replicas
    BY DEF Inv, Data, SoundMessage, Message, Ids
  <2>3. ~CalmCrash(r, e.id)
    BY <1>1, NoSearchFaults DEF CalmCrash
  <2>4. CalmMessage(e)
    BY <1>1 DEF Calmed
  <2>5. e.id.replica \in Leaders
    BY <1>1, <2>2, <2>4, StateOrder DEF CalmMessage, Holds, Safe, Known
  <2>6. r \in {0, e.id.replica}
    BY <1>1, <2>1, <2>4 DEF CalmMessage, Safe
  <2>7. QED
    BY <1>1, <2>1, <2>2, <2>3, <2>5, <2>6, EndSafe
<1>4. ASSUME NEW r \in Executors, NEW id \in Ids, Execute(r, id)
      PROVE  Safe'
  BY <1>1, <1>4, ExecuteSafe, ReplicaAssumption
<1>5. CASE UNCHANGED vars
  BY <1>1, <1>5 DEF vars, Safe, Alive, Leads, Known
<1>6. QED
  BY <1>2, <1>3, <1>4, <1>5, CalmBefore

\* With the routing of the program and whichever nodes lead, no process faults
\* before the first timeout: no search meets an instance without a command
\* (index.c:84), no handler dereferences a null command (epaxos.c:20) and the
\* executor meets no freed instance, of any number of nodes.  No io_reader
\* ends on a peer that is not connected either (io.c:410), but that of node 0
\* once node 0 knows an instance of its own: it sends the requests for it to
\* itself.
THEOREM FaultsNeedTimeouts ==
    Routed /\ Spec => [](Calm => /\ \A q \in Replicas : up[q] /\ (q # 0 => io[q])
                                 /\ ~Leads(0) => Healthy)
<1>1. Init => Safe
  <2>1. SUFFICES ASSUME Init PROVE Safe
    OBVIOUS
  <2>2. BagToSet(net) = {}
    BY <2>1 DEF Init, EmptyBag, SetToBag, BagToSet
  <2>3. \A q \in Replicas, x \in Ids : ~Known(q, x)
    BY <2>1 DEF Init, Known, AbsentInstance, NewInstance
  <2>4. Alive
    BY <2>1 DEF Init, Alive
  <2>5. QED
    BY <2>2, <2>3, <2>4 DEF Safe
<1>2. Routed /\ Inv /\ (Calm => Calmed) /\ (Calm => Safe) /\ [Next]_vars => (Calm => Safe)'
  <2>1. SUFFICES ASSUME Routed, Inv, Calm => Calmed, Calm => Safe, [Next]_vars, Calm'
                 PROVE  Safe'
    OBVIOUS
  <2>2. QED
    BY <2>1, SafeStep
<1>3. Routed => Routed'
  BY DEF Routed
<1>4. Safe => /\ \A q \in Replicas : up[q] /\ (q # 0 => io[q])
              /\ ~Leads(0) => Healthy
  BY DEF Safe, Alive, Healthy
<1>5. QED
  BY <1>1, <1>2, <1>3, <1>4, CalmInvariance, PTL DEF Spec


=============================================================================
