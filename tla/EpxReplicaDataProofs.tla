------------------------- MODULE EpxReplicaDataProofs -------------------------
(***************************************************************************)
(* What the records of the protocol hold, for every number of replicas,    *)
(* routing table, set of links and bound: types (TypeOK), commands         *)
(* (CommandIntegrity) and the flags of dependencies (CommittedDepsSound);  *)
(* and that no instance number is handed out twice (NumberUsedOnce).       *)
(*                                                                         *)
(* The three are proved together, because a handler stores what decoding   *)
(* left in a message and sends what it finds in the store.  Every set of   *)
(* records takes the proposals P and the committed ids C as parameters, so *)
(* that one formula speaks of a state and of its successor.                *)
(***************************************************************************)
EXTENDS EpxReplica, EpxInstanceProofs, SequenceTheorems

-----------------------------------------------------------------------------
(* What the index searches and the wire return, for every value of the     *)
(* constants: arrays of the right size, whose committed flags are raised   *)
(* for instances that a store, an array or a message already named as      *)
(* committed.  C stands for such a set of instances throughout.            *)

\* Max of a bounded set of numbers (FiniteSetsExt) is its greatest member.
LEMMA MaxIsGreatest ==
    ASSUME NEW b \in Nat, NEW S \in SUBSET (0..b), S # {}
    PROVE  Max(S) \in S /\ \A y \in S : y <= Max(S)
<1> DEFINE T == {k \in 1..(b + 1) : b + 1 - k \in S}
<1>1. T \in SUBSET (1..(b + 1)) /\ b + 1 \in Nat
  OBVIOUS
<1>2. \A y \in S : b + 1 - y \in T
  <2>1. TAKE y \in S
  <2>2. b + 1 - y \in 1..(b + 1) /\ b + 1 - (b + 1 - y) = y
    OBVIOUS
  <2>3. QED
    BY <2>2
<1>3. T # {}
  BY <1>2
<1>4. First(T) \in T /\ \A j \in T : First(T) <= j
  <2>. HIDE DEF T
  <2>1. QED
    BY <1>1, <1>3, FirstIsLeast
<1> DEFINE x == b + 1 - First(T)
<1>5. x \in S
  BY <1>4
<1>6. \A y \in S : x >= y
  <2>1. TAKE y \in S
  <2>2. First(T) <= b + 1 - y
    BY <1>2, <1>4
  <2>3. First(T) \in 1..(b + 1) /\ y \in 0..b
    BY <1>4
  <2>4. QED
    BY <2>2, <2>3
<1>7. \A y \in S : Max(S) >= y /\ Max(S) \in S
  <2>. HIDE DEF x
  <2>1. QED
    BY <1>5, <1>6 DEF Max
<1>8. QED
  BY <1>7

-----------------------------------------------------------------------------
(* The store of a replica.                                                 *)

\* Every instance of db has its type, its own flags are sound, and it is in
\* C if it is committed.
SoundStore(db, C) ==
    \A x \in Ids :
        /\ db[x].status \in State \union {ABSENT}
        /\ db[x].seq \in Seqs
        /\ db[x].deps \in SoundList(C)
        /\ IsCommitted(db[x].status) => x \in C

\* A dependency on an instance of the store (add_dep, instance.c:179).
LEMMA DepOfSound ==
    ASSUME NEW db, NEW C, SoundStore(db, C), NEW x \in Ids
    PROVE  /\ DepOf(db, x) \in Dependency
           /\ DepOf(db, x).committed => DepOf(db, x).id \in C
<1>1. db[x].status \in Nat
  BY DEF SoundStore, State, ABSENT, NONE, PRE_ACCEPTED, PRE_ACCEPTED_EQ, ACCEPTED,
         COMMITTED, EXECUTED
<1>2. IsCommitted(db[x].status) \in BOOLEAN
  BY <1>1 DEF IsCommitted, COMMITTED
<1>3. QED
  BY <1>2 DEF DepOf, Dependency, SoundStore

\* The walk of seq_deps_for_command over all indexes.
LEMMA WalkedSound ==
    ASSUME NEW db, NEW C, SoundStore(db, C), NEW found \in SUBSET Ids,
           NEW deps1 \in SoundList(C)
    PROVE  Walked(db, found, deps1) \in Probe(C)
<1> DEFINE n == N * MaxInst
           S == Probe(C)
           Next1(p, k) == IF WalkId(k) \in found THEN Probed(p, DepOf(db, WalkId(k))) ELSE p
           step == [x \in (1..n) \X S |-> Next1(x[2], x[1])]
           Body(f) == [k \in 0..n |->
                          IF k = 0 THEN NewProbe(deps1)
                          ELSE IF WalkId(k) \in found
                               THEN Probed(f[k - 1], DepOf(db, WalkId(k)))
                          ELSE f[k - 1]]
<1>0. n \in Nat
  BY InstanceAssumption
<1>1. NewProbe(deps1) \in S
  BY DEF NewProbe, Probe
<1>2. \A k \in 1..n : \A p \in S : Next1(p, k) \in S
  <2>1. TAKE k \in 1..n
  <2>2. TAKE p \in S
  <2>3. CASE WalkId(k) \in found
    BY <2>3, DepOfSound, ProbedSound
  <2>4. CASE WalkId(k) \notin found
    BY <2>4
  <2>5. QED
    BY <2>3, <2>4
<1>3. \A k \in 1..n : \A p \in S : step[<<k, p>>] = Next1(p, k)
  <2>. HIDE DEF Next1, S, n
  <2>1. QED
    OBVIOUS
<1>4. \E f : f = Body(f)
  <2>1. PICK f : Looped(f, n, NewProbe(deps1), step)
    <3>. HIDE DEF n, step
    <3>1. QED
      BY <1>0, LoopExists
  <2>2. \A k \in 0..n : f[k] \in S
    <3>1. \A k \in 1..n : \A p \in S : step[<<k, p>>] \in S
      BY <1>2, <1>3
    <3>. HIDE DEF step, n, S
    <3>2. QED
      BY <1>0, <1>1, <2>1, <3>1, LoopStays
  <2>3. \A k \in 1..n : f[k] = Next1(f[k - 1], k)
    <3>1. \A k \in 1..n : f[k - 1] \in S
      BY <1>0, <2>2
    <3>. HIDE DEF step, n, S, Next1
    <3>2. QED
      BY <1>3, <2>1, <3>1 DEF Looped
  <2>4. f[0] = NewProbe(deps1)
    BY <2>1 DEF Looped
  <2>5. f = [k \in 0..n |-> f[k]]
    BY <2>1 DEF Looped
  <2>6. \A k \in 0..n : f[k] = IF k = 0 THEN NewProbe(deps1)
                               ELSE IF WalkId(k) \in found
                                    THEN Probed(f[k - 1], DepOf(db, WalkId(k)))
                               ELSE f[k - 1]
    <3>1. \A k \in 1..n : f[k] = IF WalkId(k) \in found
                                 THEN Probed(f[k - 1], DepOf(db, WalkId(k)))
                                 ELSE f[k - 1]
      BY <2>3
    <3>. HIDE DEF n
    <3>2. QED
      BY <1>0, <2>4, <3>1
  <2>7. QED
    BY <2>5, <2>6, Zenon
<1> DEFINE probe == CHOOSE f : f = Body(f)
<1>5. probe = Body(probe)
  <2>. HIDE DEF Body
  <2>1. QED
    BY <1>4
<1>6. /\ probe[0] = NewProbe(deps1)
      /\ \A k \in 1..n : probe[k] = Next1(probe[k - 1], k)
  <2>. HIDE DEF probe, n
  <2>1. \A k \in 0..n : probe[k] = IF k = 0 THEN NewProbe(deps1) ELSE Next1(probe[k - 1], k)
    BY <1>5, Zenon
  <2>. HIDE DEF Next1
  <2>2. QED
    BY <1>0, <2>1
<1>7. Walked(db, found, deps1) = probe[n]
  BY DEF Walked
<1> HIDE DEF probe, S, n, Next1
<1> DEFINE X == {k \in 0..n : probe[k] \in S}
<1>8. 0 \in X
  BY <1>0, <1>1, <1>6
<1>9. ASSUME NEW k \in 1..n, k - 1 \in X
      PROVE  k \in X
  BY <1>0, <1>2, <1>6, <1>9
<1>10. n \in X
  <2>. HIDE DEF X
  <2>1. \A k \in 0..n : k \in X
    BY <1>0, <1>8, <1>9, UpTo
  <2>2. QED
    BY <1>0, <2>1
<1>11. QED
  BY <1>7, <1>10 DEF S

\* sd_for_command: its sequence number, its array and its signal.
LEMMA SdForCommandSound ==
    ASSUME NEW db, NEW C, SoundStore(db, C), NEW cmd, NEW ignore,
           NEW deps1 \in SoundList(C)
    PROVE  /\ SdForCommand(db, cmd, ignore, deps1).seq \in Seqs
           /\ SdForCommand(db, cmd, ignore, deps1).deps \in SoundList(C)
           /\ SdForCommand(db, cmd, ignore, deps1).updated \in BOOLEAN
<1> DEFINE conflicts == UNION {Conflicts(db, rc, cmd, ignore) : rc \in Replicas}
           found == {x \in conflicts :
                        Uncovered(db, Candidates(db, x.replica, ignore), cmd, x)}
           seqs == {0} \union {db[x].seq : x \in conflicts}
<1>1. \A rc : Conflicts(db, rc, cmd, ignore) \subseteq Ids
  BY DEF Conflicts, Visited, Live, Candidates, Index
<1>2. conflicts \subseteq Ids
  BY <1>1
<1>3. Walked(db, found, deps1) \in Probe(C)
  <2>1. found \in SUBSET Ids
    BY <1>2
  <2>. HIDE DEF found
  <2>2. QED
    BY <2>1, WalkedSound
<1>4. Max(seqs) \in Seqs
  <2>1. seqs \in SUBSET (0..MaxSeq) /\ seqs # {}
    BY <1>2, MessageAssumption DEF SoundStore, Seqs
  <2>. HIDE DEF seqs
  <2>2. QED
    BY <2>1, MaxIsGreatest, MessageAssumption DEF Seqs
<1>5. /\ SdForCommand(db, cmd, ignore, deps1).seq = Max(seqs)
      /\ SdForCommand(db, cmd, ignore, deps1).deps = Walked(db, found, deps1).deps
      /\ SdForCommand(db, cmd, ignore, deps1).updated = Walked(db, found, deps1).updated
  BY DEF SdForCommand
<1>6. QED
  BY <1>3, <1>4, <1>5 DEF Probe

\* noop_dep: no dependency, or one on the instance before.
LEMMA NoopDepsSound ==
    ASSUME NEW db, NEW C, SoundStore(db, C), NEW id \in Ids
    PROVE  NoopDeps(db, id) \in SoundList(C)
<1> DEFINE below == {x \in Index(db, id.replica) : x.instance < id.instance}
           last == CHOOSE x \in below : \A y \in below : y.instance <= x.instance
<1>1. CASE below = {}
  <2>1. NoopDeps(db, id) = <<>>
    BY <1>1 DEF NoopDeps
  <2>2. <<>> \in Seq(Dependency) /\ Len(<<>>) = 0
    OBVIOUS
  <2>3. QED
    BY <2>1, <2>2, InstanceAssumption DEF SoundList, DepList
<1>2. CASE below # {}
  <2> DEFINE S == {x.instance : x \in below}
  <2>1. S \in SUBSET (0..MaxInst) /\ S # {} /\ MaxInst \in Nat
    BY <1>2, InstanceAssumption DEF Index, Ids
  <2>2. PICK k \in S : \A y \in S : y <= k
    <3>. HIDE DEF S
    <3>1. QED
      BY <2>1, MaxIsGreatest
  <2>3. \E x \in below : \A y \in below : y.instance <= x.instance
    BY <2>2
  <2>4. last \in below
    <3>. HIDE DEF below
    <3>1. QED
      BY <2>3
  <2>5. last \in Ids
    <3>. HIDE DEF last
    <3>1. QED
      BY <2>4 DEF Index
  <2>6. NoopDeps(db, id) = <<DepOf(db, last)>>
    BY <1>2 DEF NoopDeps
  <2>. HIDE DEF last
  <2> DEFINE d == DepOf(db, last)
  <2>7. d \in Dependency /\ (d.committed => d.id \in C)
    BY <2>5, DepOfSound
  <2>. HIDE DEF d
  <2>8. <<d>> \in Seq(Dependency) /\ Len(<<d>>) = 1 /\ <<d>>[1] = d
    BY <2>7
  <2>9. <<d>> \in SoundList(C)
    BY <2>7, <2>8, InstanceAssumption DEF SoundList, DepList
  <2>10. QED
    BY <2>6, <2>9 DEF d
<1>3. QED
  BY <1>1, <1>2

-----------------------------------------------------------------------------
(* The wire.                                                               *)

\* Leaving dependencies out keeps an array sound.
LEMMA WireDepsSound ==
    ASSUME NEW C, NEW deps1 \in SoundList(C)
    PROVE  WireDeps(deps1) \in SoundList(C)
<1> DEFINE n == Len(deps1)
           S == Seq(Dependency)
           Next1(p, k) == IF deps1[k].id.replica > 0 THEN Append(p, deps1[k]) ELSE p
           step == [x \in (1..n) \X S |-> Next1(x[2], x[1])]
           Body(f) == [k \in 0..n |->
                          IF k = 0 THEN <<>>
                          ELSE IF deps1[k].id.replica > 0 THEN Append(f[k - 1], deps1[k])
                          ELSE f[k - 1]]
<1>0. /\ n \in Nat /\ n <= MAX_DEPS
      /\ \A k \in 1..n : deps1[k] \in Dependency /\ (deps1[k].committed => deps1[k].id \in C)
  BY DepListTypes DEF SoundList
<1>1. <<>> \in S
  OBVIOUS
<1>2. \A k \in 1..n : \A p \in S : Next1(p, k) \in S
  <2>. HIDE DEF n
  <2>1. QED
    BY <1>0
<1>3. \A k \in 1..n : \A p \in S : step[<<k, p>>] = Next1(p, k)
  <2>. HIDE DEF Next1, S, n
  <2>1. QED
    OBVIOUS
<1>4. \E f : f = Body(f)
  <2>1. PICK f : Looped(f, n, <<>>, step)
    <3>. HIDE DEF n, step
    <3>1. QED
      BY <1>0, LoopExists
  <2>2. \A k \in 0..n : f[k] \in S
    <3>1. \A k \in 1..n : \A p \in S : step[<<k, p>>] \in S
      <4>. HIDE DEF step, n, S, Next1
      <4>1. QED
        BY <1>2, <1>3
    <3>. HIDE DEF step, n, S
    <3>2. QED
      BY <1>0, <1>1, <2>1, <3>1, LoopStays
  <2>3. \A k \in 1..n : f[k] = Next1(f[k - 1], k)
    <3>1. \A k \in 1..n : f[k - 1] \in S
      <4>. HIDE DEF S, n
      <4>1. QED
        BY <1>0, <2>2
    <3>. HIDE DEF step, n, S, Next1
    <3>2. QED
      BY <1>3, <2>1, <3>1 DEF Looped
  <2>4. f[0] = <<>>
    BY <2>1 DEF Looped
  <2>5. f = [k \in 0..n |-> f[k]]
    BY <2>1 DEF Looped
  <2>6. \A k \in 0..n : f[k] = IF k = 0 THEN <<>>
                               ELSE IF deps1[k].id.replica > 0
                                    THEN Append(f[k - 1], deps1[k])
                               ELSE f[k - 1]
    BY <1>0, <2>3, <2>4
  <2>7. QED
    BY <2>5, <2>6, Zenon
<1> DEFINE sent == CHOOSE f : f = Body(f)
<1>5. sent = Body(sent)
  <2>. HIDE DEF Body
  <2>1. QED
    BY <1>4
<1>6. /\ sent[0] = <<>>
      /\ \A k \in 1..n : sent[k] = Next1(sent[k - 1], k)
  <2>. HIDE DEF sent, n
  <2>1. \A k \in 0..n : sent[k] = IF k = 0 THEN <<>> ELSE Next1(sent[k - 1], k)
    BY <1>5, Zenon
  <2>. HIDE DEF Next1
  <2>2. QED
    BY <1>0, <2>1
<1>7. WireDeps(deps1) = sent[n]
  BY DEF WireDeps
<1> HIDE DEF sent, n
<1> DEFINE X == {k \in 0..n :
                    /\ sent[k] \in Seq(Dependency) /\ Len(sent[k]) <= k
                    /\ \A j \in 1..Len(sent[k]) : sent[k][j].committed => sent[k][j].id \in C}
<1>8. 0 \in X
  <2>1. sent[0] \in Seq(Dependency) /\ Len(sent[0]) = 0
    BY <1>6
  <2>2. 0 \in 0..n
    BY <1>0
  <2>3. QED
    BY <2>1, <2>2
<1>9. ASSUME NEW k \in 1..n, k - 1 \in X
      PROVE  k \in X
  <2> DEFINE p == sent[k - 1]
  <2>1. /\ p \in Seq(Dependency) /\ Len(p) <= k - 1
        /\ \A j \in 1..Len(p) : p[j].committed => p[j].id \in C
    BY <1>9
  <2>2. sent[k] = Next1(p, k)
    BY <1>6
  <2>. HIDE DEF p
  <2>3. CASE deps1[k].id.replica > 0
    <3>1. sent[k] = Append(p, deps1[k])
      BY <2>2, <2>3
    <3>2. /\ Append(p, deps1[k]) \in Seq(Dependency)
          /\ Len(Append(p, deps1[k])) = Len(p) + 1
          /\ Append(p, deps1[k])[Len(p) + 1] = deps1[k]
          /\ \A j \in 1..Len(p) : Append(p, deps1[k])[j] = p[j]
      BY <1>0, <2>1
    <3>3. Len(p) \in Nat
      BY <2>1
    <3>4. Len(sent[k]) <= k
      BY <1>0, <2>1, <3>1, <3>2, <3>3
    <3>5. ASSUME NEW j \in 1..Len(sent[k]), sent[k][j].committed
          PROVE  sent[k][j].id \in C
      <4>1. j \in 1..Len(p) \/ j = Len(p) + 1
        BY <3>1, <3>2, <3>3
      <4>2. QED
        BY <1>0, <2>1, <3>1, <3>2, <3>5, <4>1
    <3>6. sent[k] \in Seq(Dependency)
      BY <3>1, <3>2
    <3>7. \A j \in 1..Len(sent[k]) : sent[k][j].committed => sent[k][j].id \in C
      BY <3>5
    <3>8. QED
      BY <3>4, <3>6, <3>7
  <2>4. CASE ~(deps1[k].id.replica > 0)
    <3>1. sent[k] = p
      BY <2>2, <2>4
    <3>2. Len(p) <= k
      BY <1>0, <2>1
    <3>3. QED
      BY <1>0, <2>1, <3>1, <3>2
  <2>5. QED
    BY <2>3, <2>4
<1>10. n \in X
  <2>. HIDE DEF X
  <2>1. \A k \in 0..n : k \in X
    BY <1>0, <1>8, <1>9, UpTo
  <2>2. QED
    BY <1>0, <2>1
<1>11. Len(sent[n]) <= MAX_DEPS
  BY <1>0, <1>10, InstanceAssumption
<1>12. QED
  BY <1>7, <1>10, <1>11 DEF SoundList, DepList

\* A part of a sound array, and two sound arrays one after the other.
LEMMA SubListSound ==
    ASSUME NEW C, NEW ds \in SoundList(C), NEW a \in Nat \ {0}, NEW b \in 0..Len(ds)
    PROVE  /\ SubSeq(ds, a, b) \in Seq(Dependency)
           /\ Len(SubSeq(ds, a, b)) = IF a <= b THEN b - a + 1 ELSE 0
           /\ \A k \in 1..Len(SubSeq(ds, a, b)) :
                 SubSeq(ds, a, b)[k].committed => SubSeq(ds, a, b)[k].id \in C
<1>1. /\ ds \in Seq(Dependency) /\ Len(ds) \in Nat
      /\ \A k \in 1..Len(ds) : ds[k].committed => ds[k].id \in C
  BY DepListTypes DEF SoundList, DepList
<1>2. CASE a <= b
  <2>0. \A k \in a..b : ds[k] \in Dependency
    BY <1>1, <1>2
  <2>1. /\ SubSeq(ds, a, b) \in Seq(Dependency)
        /\ Len(SubSeq(ds, a, b)) = b - a + 1
        /\ \A k \in 1..(b - a + 1) : SubSeq(ds, a, b)[k] = ds[a + k - 1]
    BY <1>1, <1>2, <2>0, SubSeqProperties
  <2>2. \A k \in 1..(b - a + 1) : a + k - 1 \in 1..Len(ds)
    BY <1>1, <1>2
  <2>3. QED
    BY <1>1, <1>2, <2>1, <2>2
<1>3. CASE b < a
  <2>1. SubSeq(ds, a, b) = <<>>
    BY <1>1, <1>3, SubSeqEmpty
  <2>2. <<>> \in Seq(Dependency) /\ Len(<<>>) = 0
    OBVIOUS
  <2>3. Len(SubSeq(ds, a, b)) = 0 /\ ~(a <= b)
    BY <1>1, <1>3, <2>1, <2>2
  <2>4. QED
    BY <2>1, <2>2, <2>3
<1>4. QED
  BY <1>1, <1>2, <1>3

\* The slots that decoding leaves alone hold sound dependencies if the memory
\* did.
LEMMA OverlaySound ==
    ASSUME NEW C, NEW deps1 \in SoundList(C), NEW old \in SoundList(C)
    PROVE  Overlay(deps1, old) \in SoundList(C)
<1> DEFINE b == IF Len(deps1) > N THEN N ELSE Len(deps1)
           read == SubSeq(deps1, 1, b)
           rest == SubSeq(old, Len(read) + 1, Len(old))
<1>1. /\ Len(deps1) \in Nat /\ Len(deps1) <= MAX_DEPS
      /\ Len(old) \in Nat /\ Len(old) <= MAX_DEPS
      /\ MAX_DEPS \in Nat /\ N \in Nat
  BY DepListTypes, InstanceAssumption DEF SoundList
<1>2. b \in 0..Len(deps1)
  BY <1>1
<1>3. /\ read \in Seq(Dependency) /\ Len(read) = b
      /\ \A k \in 1..Len(read) : read[k].committed => read[k].id \in C
  <2>. HIDE DEF b
  <2>1. /\ read \in Seq(Dependency)
        /\ Len(read) = IF 1 <= b THEN b - 1 + 1 ELSE 0
        /\ \A k \in 1..Len(read) : read[k].committed => read[k].id \in C
    <3>1. 1 \in Nat \ {0}
      OBVIOUS
    <3>2. QED
      BY <1>2, <3>1, SubListSound, Zenon
  <2>2. QED
    BY <1>1, <1>2, <2>1
<1>. HIDE DEF read, b
<1>4. /\ rest \in Seq(Dependency)
      /\ Len(rest) = IF Len(read) + 1 <= Len(old) THEN Len(old) - (Len(read) + 1) + 1 ELSE 0
      /\ \A k \in 1..Len(rest) : rest[k].committed => rest[k].id \in C
  <2>1. Len(read) + 1 \in Nat \ {0} /\ Len(old) \in 0..Len(old)
    BY <1>1, <1>2, <1>3
  <2>2. QED
    BY <2>1, SubListSound
<1>. HIDE DEF rest
<1>5. /\ read \o rest \in Seq(Dependency)
      /\ Len(read \o rest) = Len(read) + Len(rest)
      /\ \A k \in 1..(Len(read) + Len(rest)) :
            (read \o rest)[k] = IF k <= Len(read) THEN read[k] ELSE rest[k - Len(read)]
  BY <1>3, <1>4, ConcatProperties
<1>6. Len(read \o rest) <= MAX_DEPS
  BY <1>1, <1>2, <1>3, <1>4, <1>5
<1>7. ASSUME NEW k \in 1..Len(read \o rest), (read \o rest)[k].committed
      PROVE  (read \o rest)[k].id \in C
  <2>1. CASE k <= Len(read)
    BY <1>1, <1>3, <1>5, <1>7, <2>1
  <2>2. CASE ~(k <= Len(read))
    <3>1. k - Len(read) \in 1..Len(rest)
      BY <1>1, <1>2, <1>3, <1>4, <1>5, <2>2
    <3>2. QED
      BY <1>4, <1>5, <1>7, <2>2, <3>1
  <2>3. QED
    BY <2>1, <2>2
<1>8. Overlay(deps1, old) = read \o rest
  BY DEF Overlay, read, rest, b
<1>9. QED
  BY <1>5, <1>6, <1>7, <1>8 DEF SoundList, DepList

-----------------------------------------------------------------------------
(* Messages.                                                               *)

\* m has its type, its flags are sound, and it carries no command but the one
\* that P gives its id; only what no handler takes a command from may carry
\* the unwritten one.
SoundMessage(P, C) ==
    {m \in Message :
        /\ m.deps \in SoundList(C)
        /\ \/ m.cmd \in {NoCommand, P[m.id]}
           \/ m.cmd = Junk /\ m.type \in {"ACCEPT", "ACCEPT_REPLY", "COMMIT"}}

\* What the receiver reads of a message e.
LEMMA DecodeSound ==
    ASSUME NEW P, NEW C, NEW e \in SoundMessage(P, C), NEW db, SoundStore(db, C),
           NEW m \in Decode(e, db)
    PROVE  /\ m \in Message /\ m.deps \in SoundList(C)
           /\ m.type = e.type /\ m.from = e.from /\ m.to = e.to /\ m.id = e.id
           /\ m.ballot = e.ballot /\ m.nack = e.nack /\ m.status = e.status
           /\ m.cmd = IF e.type = "PRE_ACCEPT_OK" THEN Junk ELSE e.cmd
<1>1. \A old \in Heap(e.to, db) : old.seq \in Seqs /\ old.deps \in SoundList(C)
  <2>1. <<>> \in SoundList(C)
    <3>1. <<>> \in Seq(Dependency) /\ Len(<<>>) = 0
      OBVIOUS
    <3>2. QED
      BY <3>1, InstanceAssumption DEF SoundList, DepList
  <2>2. 0 \in Seqs
    BY MessageAssumption DEF Seqs
  <2>3. QED
    BY <2>1, <2>2 DEF Heap, SoundStore
<1>2. PICK old \in Heap(e.to, db) :
          m = IF e.type = "PRE_ACCEPT_OK"
              THEN [e EXCEPT !.cmd = Junk, !.seq = old.seq, !.deps = old.deps]
              ELSE [e EXCEPT !.deps = Overlay(e.deps, old.deps)]
  BY DEF Decode
<1>3. e \in Message /\ e.deps \in SoundList(C)
  BY DEF SoundMessage
<1>4. Overlay(e.deps, old.deps) \in SoundList(C)
  BY <1>1, <1>3, OverlaySound
<1>5. \A ds \in SoundList(C) : ds \in DepList
  BY DEF SoundList
<1>6. Junk \in Payload
  BY DEF Payload
<1>7. CASE e.type = "PRE_ACCEPT_OK"
  BY <1>1, <1>2, <1>3, <1>5, <1>6, <1>7 DEF Message
<1>8. CASE e.type # "PRE_ACCEPT_OK"
  BY <1>2, <1>3, <1>4, <1>5, <1>8 DEF Message
<1>9. QED
  BY <1>7, <1>8

\* A copy of what the wire keeps of m, from r to q.
CopyTo(r, m, q) == [Encode(m) EXCEPT !.from = r, !.to = q]

\* What the io thread sends of a message m: copies to targets that a
\* connection leads to.
LEMMA CopiesAre ==
    ASSUME NEW r \in Replicas, NEW m, NEW c \in BagToSet(Copies(r, m))
    PROVE  \E k \in 1..Len(Targets(r, m)) :
              /\ Targets(r, m)[k] \in Linked[r] /\ Targets(r, m)[k] \in Replicas
              /\ c = CopyTo(r, m, Targets(r, m)[k])
<1> DEFINE to == Targets(r, m)
<1>1. PICK k \in Written(r, m) : c = CopyTo(r, m, to[k])
  BY DEF BagToSet, Copies, CopyTo
<1>2. k \in 1..Len(to) /\ \A j \in 1..k : to[j] \in Linked[r]
  BY DEF Written
<1>3. k \in Int /\ k >= 1
  BY <1>2
<1>4. to[k] \in Linked[r]
  BY <1>2, <1>3
<1>5. Linked[r] \subseteq Replicas
  BY MessageAssumption
<1>6. QED
  BY <1>1, <1>2, <1>4, <1>5

\* m has the fields of a message.
IsMessage(m) ==
    m = [type |-> m.type, from |-> m.from, to |-> m.to, id |-> m.id,
         ballot |-> m.ballot, nack |-> m.nack, cmd |-> m.cmd, seq |-> m.seq,
         deps |-> m.deps, status |-> m.status]

\* A copy of a message has its fields; only PRE_ACCEPT_OK loses the command.
LEMMA CopyFields ==
    ASSUME NEW r, NEW m, IsMessage(m), NEW q
    PROVE  LET c == CopyTo(r, m, q)
           IN  /\ c.from = r /\ c.to = q /\ c.type = m.type /\ c.id = m.id
               /\ c.ballot = m.ballot /\ c.nack = m.nack
               /\ m.type # "PRE_ACCEPT_OK" => c.cmd = m.cmd
<1>1. CASE m.type = "PRE_ACCEPT_OK"
  BY <1>1 DEF IsMessage, CopyTo, Encode
<1>2. CASE m.type # "PRE_ACCEPT_OK"
  BY <1>2 DEF IsMessage, CopyTo, Encode
<1>3. QED
  BY <1>1, <1>2

\* Encoding keeps what it sends sound.
LEMMA CopiesSound ==
    ASSUME NEW P, NEW C, NEW r \in Replicas, NEW m \in SoundMessage(P, C)
    PROVE  BagToSet(Copies(r, m)) \subseteq SoundMessage(P, C)
<1>1. SUFFICES ASSUME NEW c \in BagToSet(Copies(r, m)) PROVE c \in SoundMessage(P, C)
  OBVIOUS
<1>2. PICK q \in Replicas : c = CopyTo(r, m, q)
  BY CopiesAre
<1>3. m \in Message /\ m.deps \in SoundList(C)
  BY DEF SoundMessage
<1>4. Encode(m) \in SoundMessage(P, C)
  <2>1. CASE m.type = "PRE_ACCEPT_OK"
    <3>1. <<>> \in SoundList(C) /\ <<>> \in DepList
      <4>1. <<>> \in Seq(Dependency) /\ Len(<<>>) = 0
        OBVIOUS
      <4>2. QED
        BY <4>1, InstanceAssumption DEF SoundList, DepList
    <3>2. 0 \in Seqs /\ NoCommand \in Payload
      BY MessageAssumption DEF Seqs, Payload
    <3>3. Encode(m) = [m EXCEPT !.cmd = NoCommand, !.seq = 0, !.deps = <<>>]
      BY <2>1 DEF Encode
    <3>4. QED
      BY <1>3, <3>1, <3>2, <3>3 DEF SoundMessage, Message
  <2>2. CASE m.type # "PRE_ACCEPT_OK"
    <3>1. WireDeps(m.deps) \in SoundList(C) /\ WireDeps(m.deps) \in DepList
      BY <1>3, WireDepsSound DEF SoundList
    <3>2. Encode(m) = [m EXCEPT !.deps = WireDeps(m.deps)]
      BY <2>2 DEF Encode
    <3>3. QED
      BY <1>3, <3>1, <3>2 DEF SoundMessage, Message
  <2>3. QED
    BY <2>1, <2>2
<1>5. QED
  BY <1>2, <1>4 DEF CopyTo, SoundMessage, Message

-----------------------------------------------------------------------------
(* The records of a state.                                                 *)

\* What an instance, a tracker and a message of id may hold.
InstanceOf(P, C, id) ==
    [status : State, ballot : Ballot, cmd : {NoCommand, P[id]}, seq : Seqs,
     deps : SoundList(C)]

RecoveryOf(P, C, id) ==
    [status : State, cmd : {NoCommand, P[id]}, seq : Seqs, deps : SoundList(C),
     pre_accept_count : Ballot, leader_replied : BOOLEAN]

TrackerOf(P, C, id) ==
    [on : BOOLEAN, pre_accept_oks : Ballot, accept_oks : Ballot,
     prepare_oks : Ballot, try_pre_accept_oks : Ballot, nacks : Ballot,
     equal : BOOLEAN, max_ballot : Ballot, recovery_status : RecoveryState,
     quorum : SUBSET Replicas, ri : RecoveryOf(P, C, id)]

MessageOf(cmds, C, id) ==
    [type : MessageType, from : Replicas, to : Replicas, id : {id},
     ballot : Ballot, nack : BOOLEAN, cmd : cmds, seq : Seqs,
     deps : SoundList(C), status : State]

\* A message that carries the command of its id, or one that may also carry
\* the unwritten command.
OwnMessage(P, C, id)   == MessageOf({NoCommand, P[id]}, C, id)
LooseMessage(P, C, id) == MessageOf({NoCommand, P[id], Junk}, C, id)

\* The instances is, the trackers ls and the messages n hold what they may.
Data(is, ls, n, P, C) ==
    /\ is \in [Replicas -> [Ids -> Instance]]
    /\ ls \in [Replicas -> [Ids -> Tracker]]
    /\ \A q \in Replicas, x \in Ids :
          /\ is[q][x] \in InstanceOf(P, C, x) \union {AbsentInstance}
          /\ ls[q][x] \in TrackerOf(P, C, x)
    /\ BagToSet(n) \subseteq SoundMessage(P, C)

\* What some replica committed, by the record D of each.
AllCommitted(D) == UNION {D[q] : q \in Replicas}

\* A committed instance was recorded as such where it is.
Recorded(is, D) ==
    \A q \in Replicas, x \in Ids : is[q][x].status >= COMMITTED => x \in D[q]

\* At a replica that runs, the numbers of its proposals that are in S do not
\* exceed the highest number of its own index.
Numbered(is, u, P, S) ==
    \A x \in S : P[x] # NoCommand /\ u[x.replica] =>
        \E y \in Ids : /\ y.replica = x.replica /\ y.instance >= x.instance
                       /\ is[x.replica][y].status # ABSENT

\* The types of the rest of the state, and what the executor waits for.
Control ==
    /\ timer \in [Replicas -> [Ids -> Timer]]
    /\ io \in [Replicas -> BOOLEAN]
    /\ up \in [Replicas -> BOOLEAN]
    /\ execq \in [Replicas -> SUBSET Ids]
    /\ dh \in [Replicas -> [Ids -> Replicas \union {NoReplica}]]
    /\ decided \in [Replicas -> SUBSET Ids]
    /\ \A q \in Replicas : execq[q] \subseteq decided[q]

\* The inductive invariant.
Inv ==
    /\ Control
    /\ proposed \in [Ids -> Command \union {NoCommand}]
    /\ timeouts \in [Replicas -> Nat]
    /\ Data(inst, lt, net, proposed, AllCommitted(decided))
    /\ Recorded(inst, decided)
    /\ Numbered(inst, up, proposed, Ids)

\* The state a handler of r starts from, by the proposals of the state it
\* ends in: only the number that r may be handing out is not yet in its index.
Ready(r, id) ==
    /\ Control
    /\ up[r]
    /\ proposed' \in [Ids -> Command \union {NoCommand}]
    /\ Data(inst, lt, net, proposed', AllCommitted(decided))
    /\ Recorded(inst, decided)
    /\ Numbered(inst, up, proposed', {x \in Ids : ~(x = id /\ x.replica = r)})

\* The state it ends in.
Kept ==
    /\ Control'
    /\ Data(inst', lt', net', proposed', AllCommitted(decided'))
    /\ Recorded(inst', decided')
    /\ Numbered(inst', up', proposed', Ids)

-----------------------------------------------------------------------------
(* Lemmas about the sets.                                                  *)

\* A longer record of what is committed admits more.
LEMMA SoundListGrows ==
    ASSUME NEW C, NEW C2, C \subseteq C2
    PROVE  SoundList(C) \subseteq SoundList(C2)
BY DEF SoundList

\* An instance stays sound when more is committed.
LEMMA InstanceOfGrows ==
    ASSUME NEW P, NEW C, NEW C2, C \subseteq C2, NEW x
    PROVE  InstanceOf(P, C, x) \subseteq InstanceOf(P, C2, x)
BY SoundListGrows DEF InstanceOf

\* So does a tracker, with the recovery instance inside it.
LEMMA TrackerOfGrows ==
    ASSUME NEW P, NEW C, NEW C2, C \subseteq C2, NEW x
    PROVE  TrackerOf(P, C, x) \subseteq TrackerOf(P, C2, x)
<1>1. RecoveryOf(P, C, x) \subseteq RecoveryOf(P, C2, x)
  BY SoundListGrows DEF RecoveryOf
<1>2. QED
  BY <1>1 DEF TrackerOf

\* So does a message under way.
LEMMA SoundMessageGrows ==
    ASSUME NEW P, NEW C, NEW C2, C \subseteq C2
    PROVE  SoundMessage(P, C) \subseteq SoundMessage(P, C2)
BY SoundListGrows DEF SoundMessage

\* What a replica may send.
LEMMA OwnIsSound ==
    ASSUME NEW P \in [Ids -> Command \union {NoCommand}], NEW C, NEW id \in Ids,
           NEW m \in OwnMessage(P, C, id)
    PROVE  m \in SoundMessage(P, C)
<1>1. m.deps \in SoundList(C) /\ m.deps \in DepList
  BY DEF OwnMessage, MessageOf, SoundList
<1>2. m.cmd \in {NoCommand, P[m.id]} /\ m.cmd \in Payload
  BY DEF OwnMessage, MessageOf, Payload
<1>3. m \in Message
  BY <1>1, <1>2 DEF OwnMessage, MessageOf, Message
<1>4. QED
  BY <1>1, <1>2, <1>3 DEF SoundMessage

\* ACCEPT, its reply and COMMIT may carry the command a decoded message held.
LEMMA LooseIsSound ==
    ASSUME NEW P \in [Ids -> Command \union {NoCommand}], NEW C, NEW id \in Ids,
           NEW m \in LooseMessage(P, C, id),
           m.type \in {"ACCEPT", "ACCEPT_REPLY", "COMMIT"}
    PROVE  m \in SoundMessage(P, C)
<1>1. m.deps \in SoundList(C) /\ m.deps \in DepList
  BY DEF LooseMessage, MessageOf, SoundList
<1>2. m.cmd \in {NoCommand, P[m.id], Junk} /\ m.cmd \in Payload
  BY DEF LooseMessage, MessageOf, Payload
<1>3. m \in Message
  BY <1>1, <1>2 DEF LooseMessage, MessageOf, Message
<1>4. QED
  BY <1>1, <1>2, <1>3 DEF SoundMessage

\* The members of the sets have the types of TypeOK.
LEMMA InstanceOfType ==
    ASSUME NEW P \in [Ids -> Command \union {NoCommand}], NEW C, NEW id \in Ids
    PROVE  /\ InstanceOf(P, C, id) \subseteq Instance
           /\ TrackerOf(P, C, id) \subseteq Tracker
<1>1. SoundList(C) \subseteq DepList
  BY DEF SoundList
<1>2. {NoCommand, P[id]} \subseteq Command \union {NoCommand}
  OBVIOUS
<1>3. InstanceOf(P, C, id) \subseteq Instance
  BY <1>1, <1>2 DEF InstanceOf, Instance
<1>4. RecoveryOf(P, C, id) \subseteq RecoveryInstance
  BY <1>1, <1>2 DEF RecoveryOf, RecoveryInstance
<1>5. TrackerOf(P, C, id) \subseteq Tracker
  BY <1>4 DEF TrackerOf, Tracker
<1>6. QED
  BY <1>3, <1>5

\* The records of an instance that step() registers, and of none.
LEMMA InitialRecords ==
    ASSUME NEW P, NEW C, NEW id
    PROVE  /\ NewInstance \in InstanceOf(P, C, id)
           /\ NoTracker \in TrackerOf(P, C, id)
           /\ NewTracker \in TrackerOf(P, C, id)
           /\ AbsentInstance.status = ABSENT
           /\ AbsentInstance.seq = 0 /\ AbsentInstance.deps = <<>>
           /\ <<>> \in SoundList(C)
           /\ AbsentInstance \in Instance
<1>1. <<>> \in SoundList(C) /\ <<>> \in DepList
  <2>1. <<>> \in Seq(Dependency) /\ Len(<<>>) = 0
    OBVIOUS
  <2>2. QED
    BY <2>1, InstanceAssumption DEF SoundList, DepList
<1>2. 0 \in Seqs
  BY MessageAssumption DEF Seqs
<1>3. NewInstance \in InstanceOf(P, C, id) /\ AbsentInstance \in Instance
  BY <1>1, <1>2 DEF NewInstance, AbsentInstance, InstanceOf, Instance, State, Ballot
<1>4. NoTracker.ri \in RecoveryOf(P, C, id)
  BY <1>1, <1>2 DEF NoTracker, RecoveryOf, State, Ballot
<1>5. NoTracker \in TrackerOf(P, C, id)
  <2>. DEFINE ri == NoTracker.ri
  <2>1. NoTracker =
          [on |-> FALSE, pre_accept_oks |-> 0, accept_oks |-> 0, prepare_oks |-> 0,
           try_pre_accept_oks |-> 0, nacks |-> 0, equal |-> FALSE, max_ballot |-> 0,
           recovery_status |-> NONE, quorum |-> {}, ri |-> ri]
    BY DEF NoTracker
  <2>2. ri \in RecoveryOf(P, C, id)
    BY <1>4
  <2>. HIDE DEF ri
  <2>3. QED
    BY <2>1, <2>2 DEF TrackerOf, RecoveryState, Ballot
<1>6. NewTracker \in TrackerOf(P, C, id)
  BY <1>5 DEF NewTracker, TrackerOf
<1>7. QED
  BY <1>1, <1>3, <1>5, <1>6 DEF AbsentInstance, NewInstance

-----------------------------------------------------------------------------
(* How a handler ends.                                                     *)

\* Taking messages from a bag and adding some.
LEMMA BagMinus ==
    ASSUME NEW B1, NEW B2
    PROVE  BagToSet(B1 (-) B2) \subseteq BagToSet(B1)
BY DEF BagToSet, (-)

\* What two bags of messages hold together.
LEMMA BagPlus ==
    ASSUME NEW B1, NEW B2
    PROVE  BagToSet(B1 (+) B2) = BagToSet(B1) \union BagToSet(B2)
BY DEF BagToSet, (+)

\* What is under way once a handler has sent ms, and what became of the thread
\* that sends it.
LEMMA SendAdds ==
    ASSUME NEW r \in Replicas, NEW used, NEW ms,
           ms = <<>> \/ Len(ms) = 1 \/ Len(ms) = 2,
           Send(r, used, ms)
    PROVE  /\ \A c \in BagToSet(net') :
                 \/ c \in BagToSet(net)
                 \/ \E k \in 1..Len(ms) : c \in BagToSet(Copies(r, ms[k]))
           /\ io' = io \/ \E b \in BOOLEAN : io' = [io EXCEPT ![r] = b]
<1> DEFINE kept == net (-) used
           A(m) == Copies(r, m)
<1>1. BagToSet(kept) \subseteq BagToSet(net)
  BY BagMinus
<1>2. \A m : IoSurvives(r, m) \in BOOLEAN
  BY DEF IoSurvives
<1>3. CASE ms = <<>>
  <2>1. net' = kept /\ io' = io
    BY <1>3 DEF Send
  <2>2. QED
    BY <1>1, <2>1
<1>4. CASE Len(ms) = 1
  <2>1. ms # <<>> /\ 1 \in 1..Len(ms)
    BY <1>4
  <2>2. \/ net' = kept /\ io' = io
        \/ net' = kept (+) A(ms[1]) /\ io' = [io EXCEPT ![r] = IoSurvives(r, ms[1])]
    BY <1>4, <2>1 DEF Send
  <2>. HIDE DEF A, kept
  <2>3. BagToSet(kept (+) A(ms[1])) = BagToSet(kept) \union BagToSet(A(ms[1]))
    BY BagPlus
  <2>4. QED
    BY <1>1, <1>2, <2>1, <2>2, <2>3 DEF A
<1>5. CASE Len(ms) = 2
  <2>1. ms # <<>> /\ 1 \in 1..Len(ms) /\ 2 \in 1..Len(ms)
    BY <1>5
  <2>2. \/ net' = kept /\ io' = io
        \/ /\ net' = (kept (+) A(ms[1])) (+) A(ms[2])
           /\ io' = [io EXCEPT ![r] = IoSurvives(r, ms[2])]
        \/ /\ net' = kept (+) A(ms[1])
           /\ io' = [io EXCEPT ![r] = FALSE]
    <3>1. CASE ~io[r]
      BY <3>1 DEF Send
    <3>2. CASE io[r] /\ IoSurvives(r, ms[1])
      BY <1>5, <2>1, <3>2 DEF Send
    <3>3. CASE io[r] /\ ~IoSurvives(r, ms[1])
      BY <1>5, <2>1, <3>3 DEF Send
    <3>4. QED
      BY <3>1, <3>2, <3>3
  <2>. HIDE DEF A, kept
  <2>3. BagToSet(kept (+) A(ms[1])) = BagToSet(kept) \union BagToSet(A(ms[1]))
    BY BagPlus
  <2>4. BagToSet((kept (+) A(ms[1])) (+) A(ms[2])) =
            BagToSet(kept (+) A(ms[1])) \union BagToSet(A(ms[2]))
    BY BagPlus
  <2>5. QED
    BY <1>1, <1>2, <2>1, <2>2, <2>3, <2>4 DEF A
<1>6. QED
  BY <1>3, <1>4, <1>5

\* Only sound messages are sent.
LEMMA SendKeeps ==
    ASSUME NEW P, NEW C, NEW r \in Replicas, NEW used, NEW ms,
           BagToSet(net) \subseteq SoundMessage(P, C),
           io \in [Replicas -> BOOLEAN],
           ms = <<>> \/ Len(ms) = 1 \/ Len(ms) = 2,
           \A k \in 1..Len(ms) : ms[k] \in SoundMessage(P, C),
           Send(r, used, ms)
    PROVE  /\ BagToSet(net') \subseteq SoundMessage(P, C)
           /\ io' \in [Replicas -> BOOLEAN]
<1>1. \A k \in 1..Len(ms) : BagToSet(Copies(r, ms[k])) \subseteq SoundMessage(P, C)
  BY CopiesSound
<1>2. QED
  BY <1>1, SendAdds

\* clear (index.c:131) never takes the highest instance of an index.
LEMMA HighestStays ==
    ASSUME NEW db, NEW y \in Ids, db[y].status # ABSENT
    PROVE  \E z \in Ids : /\ z.replica = y.replica /\ z.instance >= y.instance
                         /\ db[z].status # ABSENT
                         /\ z \notin Cleared(db)
<1> DEFINE S == {z.instance : z \in Index(db, y.replica)}
<1>1. y \in Index(db, y.replica) /\ Index(db, y.replica) \subseteq Ids
  BY DEF Index
<1>2. S \in SUBSET (0..MaxInst) /\ S # {} /\ y.instance \in S /\ MaxInst \in Nat
  BY <1>1, InstanceAssumption DEF Ids
<1>3. Max(S) \in S /\ \A n \in S : n <= Max(S)
  <2>. HIDE DEF S
  <2>1. QED
    BY <1>2, MaxIsGreatest
<1>4. PICK z \in Index(db, y.replica) : z.instance = Max(S)
  BY <1>3
<1>5. z \in Ids /\ z.replica = y.replica /\ db[z].status # ABSENT
  BY <1>4 DEF Index
<1>6. z.instance >= y.instance
  <2>1. z.instance \in Int /\ y.instance \in Int
    BY <1>5 DEF Ids
  <2>2. QED
    BY <1>2, <1>3, <1>4, <2>1
<1>7. ASSUME NEW w \in Index(db, z.replica), w.instance > z.instance
      PROVE  FALSE
  <2>1. w.instance \in S
    BY <1>5, <1>7
  <2>2. w.instance \in Int /\ z.instance \in Int
    BY <1>5, <1>7 DEF Index, Ids
  <2>3. w.instance <= z.instance
    <3>. HIDE DEF S
    <3>1. QED
      BY <1>3, <1>4, <2>1
  <2>4. QED
    BY <1>7, <2>2, <2>3
<1>8. z \notin Cleared(db)
  BY <1>7 DEF Cleared
<1>9. QED
  BY <1>5, <1>6, <1>8

\* The rest of the state, at the end of a handler that leaves i in the index.
Advanced(r, id, i) ==
    /\ decided' \in [Replicas -> SUBSET Ids]
    /\ \A q \in Replicas : decided[q] \subseteq decided'[q]
    /\ i.status >= COMMITTED => id \in decided'[r]
    /\ execq' \in [Replicas -> SUBSET Ids]
    /\ \A q \in Replicas : execq'[q] \subseteq decided'[q]
    /\ up' \in [Replicas -> BOOLEAN]
    /\ \A q \in Replicas : up'[q] => up[q]
    /\ dh' \in [Replicas -> [Ids -> Replicas \union {NoReplica}]]

\* What a handler has to show of the records it ends with.
LEMMA ClearingKeeps ==
    ASSUME NEW r \in Replicas, NEW id \in Ids, Ready(r, id),
           NEW used, NEW i, NEW t, NEW tm \in Timer, NEW ms, NEW gone,
           FinishClearing(r, id, used, i, t, tm, ms, gone),
           i.seq \in Seqs => i \in InstanceOf(proposed', AllCommitted(decided), id),
           t \in TrackerOf(proposed', AllCommitted(decided), id),
           ms = <<>> \/ Len(ms) = 1 \/ Len(ms) = 2,
           \A k \in 1..Len(ms) :
              ms[k].seq \in Seqs => ms[k] \in SoundMessage(proposed', AllCommitted(decided)),
           gone = {} \/ gone = Cleared([inst[r] EXCEPT ![id] = i]),
           Advanced(r, id, i)
    PROVE  Kept
<1> DEFINE P  == proposed'
           C  == AllCommitted(decided)
           C2 == AllCommitted(decided')
           db == [inst[r] EXCEPT ![id] = i]
<1>0. /\ inst \in [Replicas -> [Ids -> Instance]]
      /\ lt \in [Replicas -> [Ids -> Tracker]]
      /\ P \in [Ids -> Command \union {NoCommand}]
  BY DEF Ready, Data
<1>1. C \subseteq C2
  BY DEF Advanced, AllCommitted
<1>2. /\ i.seq \in Seqs
      /\ \A k \in 1..Len(ms) : ms[k].seq \in Seqs
      /\ inst' = [inst EXCEPT ![r] = [x \in Ids |->
                    IF x \in gone THEN AbsentInstance ELSE IF x = id THEN i ELSE inst[r][x]]]
      /\ lt' = [lt EXCEPT ![r] = [x \in Ids |->
                    IF x \in gone THEN NoTracker ELSE IF x = id THEN t ELSE lt[r][x]]]
      /\ timer' = [timer EXCEPT ![r][id] = tm]
      /\ Send(r, used, ms)
  BY DEF FinishClearing
<1>3. i \in InstanceOf(P, C, id) /\ i.status \in State /\ i.status # ABSENT
  BY <1>2 DEF InstanceOf, State, NONE, PRE_ACCEPTED, PRE_ACCEPTED_EQ, ACCEPTED, COMMITTED,
              EXECUTED, ABSENT
<1>4. /\ inst'[r] = [x \in Ids |->
            IF x \in gone THEN AbsentInstance ELSE IF x = id THEN i ELSE inst[r][x]]
      /\ lt'[r] = [x \in Ids |->
            IF x \in gone THEN NoTracker ELSE IF x = id THEN t ELSE lt[r][x]]
      /\ \A q \in Replicas : q # r => inst'[q] = inst[q] /\ lt'[q] = lt[q]
      /\ DOMAIN inst' = Replicas /\ DOMAIN lt' = Replicas
  BY <1>0, <1>2
<1>. HIDE DEF P, C, C2
<1>5. ASSUME NEW q \in Replicas, NEW x \in Ids
      PROVE  /\ inst'[q][x] \in InstanceOf(P, C2, x) \union {AbsentInstance}
             /\ lt'[q][x] \in TrackerOf(P, C2, x)
             /\ inst'[q][x].status >= COMMITTED => x \in decided'[q]
  <2>1. /\ inst[q][x] \in InstanceOf(P, C, x) \union {AbsentInstance}
        /\ lt[q][x] \in TrackerOf(P, C, x)
        /\ inst[q][x].status >= COMMITTED => x \in decided[q]
    BY DEF Ready, Data, Recorded, P, C
  <2>2. /\ InstanceOf(P, C, x) \subseteq InstanceOf(P, C2, x)
        /\ TrackerOf(P, C, x) \subseteq TrackerOf(P, C2, x)
    BY <1>1, InstanceOfGrows, TrackerOfGrows
  <2>3. NoTracker \in TrackerOf(P, C2, x) /\ ~(AbsentInstance.status >= COMMITTED)
    BY InitialRecords DEF ABSENT, COMMITTED
  <2>4. CASE q # r
    BY <1>4, <2>1, <2>2, <2>4 DEF Advanced
  <2>5. CASE q = r /\ x \in gone
    BY <1>4, <2>3, <2>5
  <2>6. CASE q = r /\ x \notin gone /\ x = id
    <3>1. inst'[q][x] = i /\ lt'[q][x] = t
      BY <1>4, <2>6
    <3>2. t \in TrackerOf(P, C, id)
      BY DEF P, C
    <3>3. QED
      BY <1>3, <2>2, <2>6, <3>1, <3>2 DEF Advanced
  <2>7. CASE q = r /\ x \notin gone /\ x # id
    <3>1. inst'[q][x] = inst[q][x] /\ lt'[q][x] = lt[q][x]
      BY <1>4, <2>7
    <3>2. QED
      BY <2>1, <2>2, <3>1 DEF Advanced
  <2>8. QED
    BY <2>4, <2>5, <2>6, <2>7
<1>6. inst' \in [Replicas -> [Ids -> Instance]] /\ lt' \in [Replicas -> [Ids -> Tracker]]
  <2>1. \A q \in Replicas : inst'[q] \in [Ids -> Instance] /\ lt'[q] \in [Ids -> Tracker]
    <3>1. ASSUME NEW q \in Replicas, NEW x \in Ids
          PROVE  inst'[q][x] \in Instance /\ lt'[q][x] \in Tracker
      <4>1. AbsentInstance \in Instance
        BY InitialRecords
      <4>2. InstanceOf(P, C2, x) \subseteq Instance /\ TrackerOf(P, C2, x) \subseteq Tracker
        BY <1>0, InstanceOfType
      <4>3. QED
        BY <1>5, <4>1, <4>2
    <3>2. \A q \in Replicas : /\ inst'[q] = [x \in Ids |-> inst'[q][x]]
                              /\ lt'[q] = [x \in Ids |-> lt'[q][x]]
      BY <1>0, <1>4
    <3>3. QED
      BY <3>1, <3>2
  <2>2. QED
    BY <1>0, <1>2, <2>1
<1>7. BagToSet(net') \subseteq SoundMessage(P, C2) /\ io' \in [Replicas -> BOOLEAN]
  <2>1. BagToSet(net) \subseteq SoundMessage(P, C) /\ io \in [Replicas -> BOOLEAN]
    BY DEF Ready, Data, Control, P, C
  <2>2. \A k \in 1..Len(ms) : ms[k] \in SoundMessage(P, C)
    BY <1>2 DEF P, C
  <2>3. BagToSet(net') \subseteq SoundMessage(P, C) /\ io' \in [Replicas -> BOOLEAN]
    BY <1>2, <2>1, <2>2, SendKeeps
  <2>4. QED
    BY <1>1, <2>3, SoundMessageGrows
<1>8. Numbered(inst', up', P, Ids)
  <2>1. SUFFICES ASSUME NEW x \in Ids, P[x] # NoCommand, up'[x.replica]
                 PROVE  \E y \in Ids : /\ y.replica = x.replica /\ y.instance >= x.instance
                                       /\ inst'[x.replica][y].status # ABSENT
    BY DEF Numbered
  <2>2. x.replica \in Replicas /\ x.instance \in Int /\ up[x.replica]
    BY <2>1 DEF Ids, Advanced
  <2>3. ~(x = id /\ x.replica = r) =>
            \E y \in Ids : /\ y.replica = x.replica /\ y.instance >= x.instance
                           /\ inst[x.replica][y].status # ABSENT
    BY <2>1, <2>2 DEF Ready, Numbered, P
  <2>4. CASE x.replica # r
    BY <1>4, <2>2, <2>3, <2>4
  <2>5. CASE x.replica = r
    <3>1. /\ \A y \in Ids : inst'[r][y] = IF y \in gone THEN AbsentInstance ELSE db[y]
          /\ db[id] = i
          /\ \A y \in Ids : y # id => db[y] = inst[r][y]
      BY <1>0, <1>4
    <3>2. \E y \in Ids : /\ y.replica = r /\ y.instance >= x.instance
                         /\ db[y].status # ABSENT
      <4>1. CASE x = id
        BY <1>3, <2>2, <2>5, <3>1, <4>1
      <4>2. CASE x # id
        <5>1. PICK y \in Ids : /\ y.replica = r /\ y.instance >= x.instance
                               /\ inst[r][y].status # ABSENT
          BY <2>3, <2>5, <4>2
        <5>2. QED
          BY <1>3, <3>1, <5>1
      <4>3. QED
        BY <4>1, <4>2
    <3>3. PICK y \in Ids : /\ y.replica = r /\ y.instance >= x.instance
                           /\ db[y].status # ABSENT
      BY <3>2
    <3>. HIDE DEF db
    <3>4. PICK z \in Ids : /\ z.replica = y.replica /\ z.instance >= y.instance
                           /\ db[z].status # ABSENT /\ z \notin Cleared(db)
      BY <3>3, HighestStays
    <3>5. z \notin gone
      BY <3>4 DEF db
    <3>6. inst'[r][z].status # ABSENT
      BY <3>1, <3>4, <3>5
    <3>7. z.instance >= x.instance
      BY <2>2, <3>3, <3>4 DEF Ids
    <3>8. QED
      BY <2>5, <3>3, <3>4, <3>6, <3>7
  <2>6. QED
    BY <2>4, <2>5
<1>9. timer' \in [Replicas -> [Ids -> Timer]]
  BY <1>2 DEF Ready, Control
<1>10. Control'
  BY <1>7, <1>9 DEF Advanced, Control
<1>11. Data(inst', lt', net', P, C2) /\ Recorded(inst', decided')
  BY <1>5, <1>6, <1>7 DEF Data, Recorded
<1>12. QED
  BY <1>8, <1>10, <1>11 DEF Kept, P, C2

\* The records a handler computes with, by the proposals of the state it ends
\* in and what was committed in the state it starts from.
FitInstance(id) == InstanceOf(proposed', AllCommitted(decided), id)
FitTracker(id)  == TrackerOf(proposed', AllCommitted(decided), id)
FitMessage(id)  == OwnMessage(proposed', AllCommitted(decided), id)
FitLoose(id)    == LooseMessage(proposed', AllCommitted(decided), id)
FitSent         == SoundMessage(proposed', AllCommitted(decided))

\* An instance whose status is committed is one that r recorded.
Honest(r, id, i) == i.status >= COMMITTED => id \in decided[r]

\* A status below COMMITTED claims no commit.
LEMMA OpenIsHonest ==
    ASSUME NEW r, NEW id, NEW i, i.status \in {NONE, PRE_ACCEPTED, PRE_ACCEPTED_EQ, ACCEPTED}
    PROVE  Honest(r, id, i)
BY DEF Honest, NONE, PRE_ACCEPTED, PRE_ACCEPTED_EQ, ACCEPTED, COMMITTED

\* A handler that clears the index, and one that does not, as they end.
LEMMA ClearedKeeps ==
    ASSUME NEW r \in Replicas, NEW id \in Ids, Ready(r, id),
           NEW used, NEW i, NEW t \in FitTracker(id), NEW tm \in Timer, NEW m, NEW gone,
           FinishClearing(r, id, used, i, t, tm, <<m>>, gone),
           UNCHANGED <<up, execq, dh, decided>>,
           i.seq \in Seqs => i \in FitInstance(id),
           Honest(r, id, i),
           m.seq \in Seqs => m \in FitSent,
           gone = {} \/ gone = Cleared([inst[r] EXCEPT ![id] = i])
    PROVE  Kept
<1>1. Len(<<m>>) = 1 /\ <<m>>[1] = m
  OBVIOUS
<1>2. \A k \in 1..Len(<<m>>) :
          <<m>>[k].seq \in Seqs => <<m>>[k] \in SoundMessage(proposed', AllCommitted(decided))
  BY <1>1 DEF FitSent
<1>3. Advanced(r, id, i)
  BY DEF Advanced, Ready, Control, Honest
<1>4. /\ i.seq \in Seqs => i \in InstanceOf(proposed', AllCommitted(decided), id)
      /\ t \in TrackerOf(proposed', AllCommitted(decided), id)
  BY DEF FitInstance, FitTracker
<1>5. QED
  BY <1>1, <1>2, <1>3, <1>4, ClearingKeeps

\* A handler that stores and sends one message to the nodes.
LEMMA SendsKeeps ==
    ASSUME NEW r \in Replicas, NEW id \in Ids, Ready(r, id),
           NEW used, NEW i, NEW t \in FitTracker(id), NEW tm \in Timer, NEW m,
           Finish(r, id, used, i, t, tm, <<m>>),
           i.seq \in Seqs => i \in FitInstance(id),
           Honest(r, id, i),
           m.seq \in Seqs => m \in FitSent
    PROVE  Kept
BY ClearedKeeps DEF Finish

\* A handler that stores and sends nothing.
LEMMA SilentKeeps ==
    ASSUME NEW r \in Replicas, NEW id \in Ids, Ready(r, id),
           NEW used, NEW i \in FitInstance(id), NEW t \in FitTracker(id), NEW tm \in Timer,
           Finish(r, id, used, i, t, tm, <<>>),
           Honest(r, id, i)
    PROVE  Kept
<1>1. Len(<<>>) = 0
  OBVIOUS
<1>2. \A k \in 1..Len(<<>>) :
          <<>>[k].seq \in Seqs => <<>>[k] \in SoundMessage(proposed', AllCommitted(decided))
  BY <1>1
<1>3. FinishClearing(r, id, used, i, t, tm, <<>>, {}) /\ UNCHANGED <<up, execq, dh, decided>>
  BY DEF Finish
<1>4. Advanced(r, id, i)
  BY <1>3 DEF Advanced, Ready, Control, Honest
<1>5. /\ i \in InstanceOf(proposed', AllCommitted(decided), id)
      /\ t \in TrackerOf(proposed', AllCommitted(decided), id)
  BY DEF FitInstance, FitTracker
<1>6. QED
  BY <1>2, <1>3, <1>4, <1>5, ClearingKeeps

\* A handler that faults.
LEMMA CrashKeeps ==
    ASSUME NEW r \in Replicas, NEW id, Ready(r, id), NEW used, Crash(r, used)
    PROVE  Kept
<1>1. /\ up' = [up EXCEPT ![r] = FALSE] /\ net' = net (-) used
      /\ inst' = inst /\ lt' = lt /\ timer' = timer /\ io' = io /\ execq' = execq
      /\ dh' = dh /\ decided' = decided
  BY DEF Crash
<1>2. up' \in [Replicas -> BOOLEAN] /\ up'[r] = FALSE
      /\ \A q \in Replicas : q # r => up'[q] = up[q]
  BY <1>1 DEF Ready, Control
<1>3. Control'
  BY <1>1, <1>2 DEF Ready, Control
<1>4. BagToSet(net') \subseteq BagToSet(net)
  BY <1>1, BagMinus
<1>5. Data(inst', lt', net', proposed', AllCommitted(decided'))
  BY <1>1, <1>4 DEF Ready, Data
<1>6. Recorded(inst', decided')
  BY <1>1 DEF Ready
<1>7. Numbered(inst', up', proposed', Ids)
  <2>1. \A x \in Ids : up'[x.replica] => x.replica # r /\ up[x.replica]
    BY <1>2 DEF Ids
  <2>2. QED
    BY <1>1, <2>1 DEF Ready, Numbered
<1>8. QED
  BY <1>3, <1>5, <1>6, <1>7 DEF Kept

-----------------------------------------------------------------------------
(* What step() finds for the id of a message.                              *)

\* find_instance or a new instance: what every handler starts from is sound.
LEMMA FoundFits ==
    ASSUME NEW r \in Replicas, NEW id \in Ids, Ready(r, id)
    PROVE  /\ Found(r, id) \in FitInstance(id)
           /\ Honest(r, id, Found(r, id))
           /\ lt[r][id] \in FitTracker(id)
           /\ Armed(r, id) \in Timer
<1>1. /\ inst[r][id] \in FitInstance(id) \union {AbsentInstance}
      /\ lt[r][id] \in FitTracker(id)
      /\ inst[r][id].status >= COMMITTED => id \in decided[r]
      /\ timer[r][id] \in Timer
  BY DEF Ready, Data, Recorded, Control, FitInstance, FitTracker
<1>2. NewInstance \in FitInstance(id) /\ AbsentInstance.status = ABSENT
  BY InitialRecords DEF FitInstance
<1>3. NewInstance.status = NONE
  BY DEF NewInstance
<1>4. Armed(r, id) \in Timer
  BY <1>1 DEF Armed, Timer
<1>5. CASE Known(r, id)
  BY <1>1, <1>2, <1>4, <1>5 DEF Found, Known, Honest
<1>6. CASE ~Known(r, id)
  BY <1>1, <1>2, <1>3, <1>4, <1>6 DEF Found, Honest, NONE, COMMITTED
<1>7. QED
  BY <1>5, <1>6

\* The store of a replica, and with an instance of its own put into it.
LEMMA StoreSound ==
    ASSUME NEW r \in Replicas, NEW id \in Ids, Ready(r, id)
    PROVE  SoundStore(inst[r], AllCommitted(decided))
<1>1. SUFFICES ASSUME NEW x \in Ids
               PROVE  /\ inst[r][x].status \in State \union {ABSENT}
                      /\ inst[r][x].seq \in Seqs
                      /\ inst[r][x].deps \in SoundList(AllCommitted(decided))
                      /\ IsCommitted(inst[r][x].status) => x \in AllCommitted(decided)
  BY DEF SoundStore
<1>2. /\ inst[r][x] \in InstanceOf(proposed', AllCommitted(decided), x) \union {AbsentInstance}
      /\ inst[r][x].status >= COMMITTED => x \in decided[r]
  BY DEF Ready, Data, Recorded
<1>3. /\ AbsentInstance.status = ABSENT /\ AbsentInstance.seq = 0
      /\ AbsentInstance.deps \in SoundList(AllCommitted(decided)) /\ 0 \in Seqs
  BY InitialRecords, MessageAssumption DEF Seqs
<1>4. IsCommitted(inst[r][x].status) => x \in AllCommitted(decided)
  BY <1>2 DEF IsCommitted, AllCommitted
<1>5. QED
  BY <1>2, <1>3, <1>4 DEF InstanceOf

\* The index as a search sees it once the handler's own instance is stored.
LEMMA StoreWithSound ==
    ASSUME NEW r \in Replicas, NEW id \in Ids, Ready(r, id),
           NEW i \in FitInstance(id), Honest(r, id, i)
    PROVE  SoundStore([inst[r] EXCEPT ![id] = i], AllCommitted(decided))
<1>1. SoundStore(inst[r], AllCommitted(decided)) /\ inst[r] \in [Ids -> Instance]
  BY StoreSound DEF Ready, Data
<1>2. IsCommitted(i.status) => id \in AllCommitted(decided)
  BY DEF Honest, IsCommitted, AllCommitted
<1>3. QED
  BY <1>1, <1>2 DEF SoundStore, FitInstance, InstanceOf

\* A message that is under way, and what its receiver reads of it.
LEMMA ReceivedFits ==
    ASSUME NEW r \in Replicas, NEW e \in BagToSet(net), Ready(r, e.id),
           NEW m \in Decode(e, inst[r])
    PROVE  /\ e.id \in Ids
           /\ m \in FitLoose(e.id)
           /\ e.type \notin {"PRE_ACCEPT_OK", "ACCEPT", "ACCEPT_REPLY", "COMMIT"} =>
                 m \in FitMessage(e.id)
<1>1. e \in FitSent /\ e.id \in Ids
  BY DEF Ready, Data, FitSent, SoundMessage, Message
<1>2. SoundStore(inst[r], AllCommitted(decided))
  BY <1>1, StoreSound
<1>3. /\ m \in Message /\ m.deps \in SoundList(AllCommitted(decided))
      /\ m.id = e.id
      /\ m.cmd = IF e.type = "PRE_ACCEPT_OK" THEN Junk ELSE e.cmd
  BY <1>1, <1>2, DecodeSound DEF FitSent
<1>4. /\ e.cmd \in {NoCommand, proposed'[e.id], Junk}
      /\ e.type \notin {"ACCEPT", "ACCEPT_REPLY", "COMMIT"} =>
            e.cmd \in {NoCommand, proposed'[e.id]}
  BY <1>1 DEF FitSent, SoundMessage
<1>5. m \in FitLoose(e.id)
  BY <1>3, <1>4 DEF FitLoose, LooseMessage, MessageOf, Message
<1>6. ASSUME e.type \notin {"PRE_ACCEPT_OK", "ACCEPT", "ACCEPT_REPLY", "COMMIT"}
      PROVE  m \in FitMessage(e.id)
  BY <1>3, <1>4, <1>6 DEF FitMessage, OwnMessage, MessageOf, Message
<1>7. QED
  BY <1>1, <1>5, <1>6

\* What may be sent: any message with the command of its id, and where no
\* handler takes a command from it, one with the unwritten command.
LEMMA FitIsSent ==
    ASSUME NEW r, NEW id \in Ids, Ready(r, id), NEW m
    PROVE  /\ m \in FitMessage(id) => m \in FitSent
           /\ m \in FitLoose(id) /\ m.type \in {"ACCEPT", "ACCEPT_REPLY", "COMMIT"} =>
                 m \in FitSent
           /\ m \in FitMessage(id) => m \in FitLoose(id)
<1>1. proposed' \in [Ids -> Command \union {NoCommand}]
  BY DEF Ready
<1>2. m \in FitMessage(id) => m \in FitSent
  BY <1>1, OwnIsSound DEF FitMessage, FitSent
<1>3. m \in FitLoose(id) /\ m.type \in {"ACCEPT", "ACCEPT_REPLY", "COMMIT"} => m \in FitSent
  BY <1>1, LooseIsSound DEF FitLoose, FitSent
<1>4. m \in FitMessage(id) => m \in FitLoose(id)
  BY DEF FitMessage, FitLoose, OwnMessage, LooseMessage, MessageOf
<1>5. QED
  BY <1>2, <1>3, <1>4

\* Counters wrap, ballots stay a byte.
LEMMA Counters ==
    /\ \A n \in Ballot : Inc(n) \in Ballot
    /\ \A b \in Ballot, r \in Replicas : LargerBallot(b, r) \in Ballot
    /\ 0 \in Ballot /\ 1 \in Ballot
<1>1. \A n \in Ballot : Inc(n) \in Ballot
  BY DEF Inc, Ballot
<1>2. \A b \in Ballot, r \in Replicas : LargerBallot(b, r) \in Ballot
  <2>1. SUFFICES ASSUME NEW b \in Ballot, NEW r \in Replicas
                 PROVE  LargerBallot(b, r) \in Ballot
    OBVIOUS
  <2>2. b \div 16 \in Int /\ r \in Int
    BY InstanceAssumption DEF Ballot, Replicas
  <2>3. ((b \div 16) + 1) * 16 + r \in Int
    BY <2>2
  <2>4. \A n \in Int : n % 256 \in 0..255
    OBVIOUS
  <2>5. QED
    BY <2>3, <2>4 DEF LargerBallot, UniqueBallot, Ballot
<1>3. 0 \in Ballot /\ 1 \in Ballot
  BY DEF Ballot
<1>4. QED
  BY <1>1, <1>2, <1>3

\* The greater of two numbers is one of them.
LEMMA MaxOfTwo ==
    ASSUME NEW a \in Nat, NEW b \in Nat
    PROVE  Max({a, b}) \in {a, b}
<1>1. {a, b} \in SUBSET (0..(a + b)) /\ {a, b} # {} /\ a + b \in Nat
  OBVIOUS
<1>2. QED
  BY <1>1, MaxIsGreatest

-----------------------------------------------------------------------------
(* The helpers a handler can end in.                                       *)

\* A handler that returns at one of its first guards, and one that answers.
LEMMA IgnoreKeeps ==
    ASSUME NEW r \in Replicas, NEW e, e.id \in Ids, Ready(r, e.id), Ignore(r, e)
    PROVE  Kept
BY FoundFits, SilentKeeps DEF Ignore

\* A handler that sends an answer and stores nothing.
LEMMA AnswerKeeps ==
    ASSUME NEW r \in Replicas, NEW e, e.id \in Ids, Ready(r, e.id),
           NEW m \in FitSent, Answer(r, e, m)
    PROVE  Kept
BY FoundFits, SendsKeeps DEF Answer

\* phase1 stores what its search found, within the bound of numbers.
LEMMA Phase1Fits ==
    ASSUME NEW r \in Replicas, NEW id \in Ids, Ready(r, id),
           NEW t \in FitTracker(id), NEW m \in FitMessage(id)
    PROVE  /\ Phase1Instance(r, id, m).seq \in Seqs =>
                 /\ Phase1Instance(r, id, m) \in FitInstance(id)
                 /\ Phase1Message(Phase1Instance(r, id, m), m) \in FitMessage(id)
           /\ Phase1Message(Phase1Instance(r, id, m), m).seq = Phase1Instance(r, id, m).seq
           /\ Phase1Tracker(r, id, t, m) \in FitTracker(id)
           /\ Honest(r, id, Phase1Instance(r, id, m))
<1> DEFINE p == SdForCommand(inst[r], m.cmd, id, <<>>)
           i == [status |-> PRE_ACCEPTED, ballot |-> m.ballot, cmd |-> m.cmd,
                 seq |-> p.seq + 1, deps |-> p.deps]
<1>1. p.deps \in SoundList(AllCommitted(decided)) /\ p.updated \in BOOLEAN
  BY StoreSound, InitialRecords, SdForCommandSound
<1>2. Phase1Instance(r, id, m) = i
  BY DEF Phase1Instance
<1>3. Phase1Tracker(r, id, t, m) = [t EXCEPT !.ri = [t.ri EXCEPT !.status = NONE],
                                             !.equal = ~p.updated]
  BY DEF Phase1Tracker
<1>. HIDE DEF p
<1>4. i.seq \in Seqs => i \in FitInstance(id)
  BY <1>1 DEF FitInstance, InstanceOf, State, FitMessage, OwnMessage, MessageOf
<1>5. i.seq \in Seqs => [m EXCEPT !.type = "PRE_ACCEPT", !.seq = i.seq, !.deps = i.deps] \in FitMessage(id)
  BY <1>1 DEF FitMessage, OwnMessage, MessageOf, MessageType
<1>6. Phase1Message(i, m) = [m EXCEPT !.type = "PRE_ACCEPT", !.seq = i.seq, !.deps = i.deps]
  BY DEF Phase1Message
<1>7. Phase1Message(i, m).seq = i.seq
  BY <1>6 DEF FitMessage, OwnMessage, MessageOf
<1>8. Phase1Tracker(r, id, t, m) \in FitTracker(id)
  <2>1. [t.ri EXCEPT !.status = NONE] \in RecoveryOf(proposed', AllCommitted(decided), id)
    BY DEF FitTracker, TrackerOf, RecoveryOf, State
  <2>2. QED
    BY <1>1, <1>3, <2>1 DEF FitTracker, TrackerOf
<1>9. Honest(r, id, i)
  BY DEF Honest, PRE_ACCEPTED, COMMITTED
<1>10. QED
  BY <1>2, <1>4, <1>5, <1>6, <1>7, <1>8, <1>9

\* phase1, whether its search faults or not.
LEMMA Phase1Keeps ==
    ASSUME NEW r \in Replicas, NEW id \in Ids, Ready(r, id), NEW used,
           NEW t \in FitTracker(id), NEW m \in FitMessage(id), Phase1(r, id, used, t, m)
    PROVE  Kept
<1> DEFINE i == Phase1Instance(r, id, m)
<1>1. CASE Crash(r, used)
  BY <1>1, CrashKeeps
<1>2. CASE Finish(r, id, used, i, Phase1Tracker(r, id, t, m), "fast", <<Phase1Message(i, m)>>)
  <2>1. /\ i.seq \in Seqs => i \in FitInstance(id)
        /\ Phase1Message(i, m).seq \in Seqs => Phase1Message(i, m) \in FitSent
        /\ Phase1Tracker(r, id, t, m) \in FitTracker(id)
        /\ Honest(r, id, i)
    BY Phase1Fits, FitIsSent
  <2>2. "fast" \in Timer
    BY DEF Timer
  <2>. HIDE DEF i
  <2>3. QED
    BY <1>2, <2>1, <2>2, SendsKeeps
<1>3. QED
  BY <1>1, <1>2 DEF Phase1

\* recover copies the instance into the tracker and asks for promises.
LEMMA RecoverKeeps ==
    ASSUME NEW r \in Replicas, NEW id \in Ids, Ready(r, id), NEW used,
           NEW i \in FitInstance(id), Honest(r, id, i), NEW t0 \in FitTracker(id),
           NEW m \in FitLoose(id), Recover(r, id, used, i, t0, m)
    PROVE  Kept
<1> DEFINE t1 == IF t0.on THEN t0 ELSE NewTracker
           t2 == IF i.status = ACCEPTED THEN [t1 EXCEPT !.max_ballot = i.ballot]
                 ELSE IF i.status = PRE_ACCEPTED
                      THEN [t1 EXCEPT !.ri.pre_accept_count = 1,
                                      !.ri.leader_replied = (r = id.replica)]
                 ELSE t1
           t3 == [t2 EXCEPT !.recovery_status = PREPARING,
                            !.ri.status = i.status, !.ri.cmd = i.cmd,
                            !.ri.seq = i.seq, !.ri.deps = i.deps]
           b  == LargerBallot(i.ballot, r)
           i2 == [i EXCEPT !.ballot = b]
           m2 == [m EXCEPT !.type = "PREPARE", !.ballot = b, !.cmd = i.cmd, !.seq = i.seq]
<1>1. Finish(r, id, used, i2, t3, "slow", <<m2>>)
  BY DEF Recover
<1>2. t1 \in FitTracker(id)
  BY InitialRecords DEF FitTracker
<1>3. t2 \in FitTracker(id)
  <2>. HIDE DEF t1
  <2>1. CASE i.status = ACCEPTED
    BY <1>2, <2>1 DEF FitTracker, TrackerOf, FitInstance, InstanceOf
  <2>2. CASE i.status # ACCEPTED /\ i.status = PRE_ACCEPTED
    <3> DEFINE own == r = id.replica
               ri  == [t1.ri EXCEPT !.pre_accept_count = 1, !.leader_replied = own]
    <3>1. ri \in RecoveryOf(proposed', AllCommitted(decided), id)
      <4>1. own \in BOOLEAN /\ 1 \in Ballot
        BY DEF Ballot
      <4>2. t1.ri \in RecoveryOf(proposed', AllCommitted(decided), id)
        BY <1>2 DEF FitTracker, TrackerOf
      <4>. HIDE DEF own
      <4>3. QED
        BY <4>1, <4>2 DEF RecoveryOf
    <3>2. t2 = [t1 EXCEPT !.ri = ri]
      <4>1. t2 = [t1 EXCEPT !.ri.pre_accept_count = 1, !.ri.leader_replied = (r = id.replica)]
        BY <2>2, Zenon
      <4>. HIDE DEF t2
      <4>2. QED
        BY <1>2, <4>1 DEF FitTracker, TrackerOf
    <3>. HIDE DEF ri, t2
    <3>3. QED
      BY <1>2, <3>1, <3>2 DEF FitTracker, TrackerOf
  <2>3. CASE i.status # ACCEPTED /\ i.status # PRE_ACCEPTED
    BY <1>2, <2>3
  <2>4. QED
    BY <2>1, <2>2, <2>3
<1>. HIDE DEF t2
<1>4. t3 \in FitTracker(id)
  <2> DEFINE ri == [t2.ri EXCEPT !.status = i.status, !.cmd = i.cmd, !.seq = i.seq,
                                 !.deps = i.deps]
  <2>1. ri \in RecoveryOf(proposed', AllCommitted(decided), id)
    BY <1>3 DEF FitTracker, TrackerOf, RecoveryOf, FitInstance, InstanceOf
  <2>2. t3 = [t2 EXCEPT !.recovery_status = PREPARING, !.ri = ri]
    BY <1>3 DEF FitTracker, TrackerOf
  <2>. HIDE DEF ri, t3
  <2>3. QED
    BY <1>3, <2>1, <2>2 DEF FitTracker, TrackerOf, RecoveryState
<1>5. b \in Ballot
  BY Counters DEF FitInstance, InstanceOf
<1>. HIDE DEF t3, b
<1>6. i2 \in FitInstance(id) /\ Honest(r, id, i2)
  BY <1>5 DEF FitInstance, InstanceOf, Honest
<1>7. m2 \in FitMessage(id)
  BY <1>5 DEF FitInstance, InstanceOf, FitMessage, FitLoose, OwnMessage, LooseMessage,
              MessageOf, MessageType
<1>. HIDE DEF i2, m2
<1>8. m2 \in FitSent
  BY <1>7, FitIsSent
<1>9. "slow" \in Timer
  BY DEF Timer
<1>10. QED
  BY <1>1, <1>4, <1>6, <1>8, <1>9, SendsKeeps

\* do_commit records the instance it commits and tells the others.
LEMMA DoCommitKeeps ==
    ASSUME NEW r \in Replicas, NEW id \in Ids, Ready(r, id), NEW used,
           NEW i \in FitInstance(id), NEW t \in FitTracker(id), NEW m \in FitLoose(id),
           DoCommit(r, id, used, i, t, m)
    PROVE  Kept
<1> DEFINE i2 == [i EXCEPT !.status = COMMITTED]
           m2 == [m EXCEPT !.type = "COMMIT"]
<1>1. /\ FinishClearing(r, id, used, i2, t, "none", <<m2>>, {})
      /\ execq' = [execq EXCEPT ![r] = @ \union {id}]
      /\ decided' = [decided EXCEPT ![r] = @ \union {id}]
      /\ up' = [up EXCEPT ![r] = i.cmd # NoCommand]
      /\ dh' = dh
  BY DEF DoCommit
<1>2. i2 \in FitInstance(id)
  BY DEF FitInstance, InstanceOf, State
<1>3. m2 \in FitLoose(id) /\ m2.type = "COMMIT"
  BY DEF FitLoose, LooseMessage, MessageOf, MessageType
<1>. HIDE DEF m2
<1>4. m2 \in FitSent
  BY <1>3, FitIsSent
<1>5. Advanced(r, id, i2)
  <2>1. /\ decided' \in [Replicas -> SUBSET Ids]
        /\ \A q \in Replicas : decided[q] \subseteq decided'[q]
        /\ id \in decided'[r]
        /\ execq' \in [Replicas -> SUBSET Ids]
        /\ \A q \in Replicas : execq'[q] \subseteq decided'[q]
    BY <1>1 DEF Ready, Control
  <2>2. DOMAIN up' = Replicas /\ \A q \in Replicas : up'[q] \in BOOLEAN
    <3> DEFINE has == i.cmd # NoCommand
    <3>1. has \in BOOLEAN
      OBVIOUS
    <3>2. up' = [up EXCEPT ![r] = has]
      BY <1>1
    <3>. HIDE DEF has
    <3>3. QED
      BY <3>1, <3>2 DEF Ready, Control
  <2>3. \A q \in Replicas : up'[q] => up[q]
    BY <1>1 DEF Ready, Control
  <2>4. QED
    BY <1>1, <2>1, <2>2, <2>3 DEF Advanced, Ready, Control
<1>6. QED
  <2>1. Len(<<m2>>) = 1 /\ <<m2>>[1] = m2
    OBVIOUS
  <2>2. \A k \in 1..Len(<<m2>>) :
          <<m2>>[k].seq \in Seqs => <<m2>>[k] \in SoundMessage(proposed', AllCommitted(decided))
    BY <1>4, <2>1 DEF FitSent
  <2>3. i2 \in InstanceOf(proposed', AllCommitted(decided), id)
        /\ t \in TrackerOf(proposed', AllCommitted(decided), id)
    BY <1>2 DEF FitInstance, FitTracker
  <2>4. "none" \in Timer
    BY DEF Timer
  <2>. HIDE DEF i2
  <2>5. QED
    BY <1>1, <1>5, <2>1, <2>2, <2>3, <2>4, ClearingKeeps

\* A refusal is counted or starts recovery.
LEMMA NackedKeeps ==
    ASSUME NEW r \in Replicas, NEW e, e.id \in Ids, Ready(r, e.id),
           NEW i \in FitInstance(e.id), Honest(r, e.id, i), NEW t \in FitTracker(e.id),
           NEW m \in FitLoose(e.id), Nacked(r, e, i, t, m)
    PROVE  Kept
<1> DEFINE b  == Max({t.max_ballot, m.ballot})
           t2 == [t EXCEPT !.nacks = Inc(t.nacks), !.max_ballot = b]
<1>1. \/ Recover(r, e.id, SetToBag({e}), i, t2, m)
      \/ Finish(r, e.id, SetToBag({e}), i, t2, Armed(r, e.id), <<>>)
  BY DEF Nacked
<1>2. b \in Ballot
  <2>1. t.max_ballot \in Ballot /\ m.ballot \in Ballot
    BY DEF FitTracker, TrackerOf, FitLoose, LooseMessage, MessageOf
  <2>2. t.max_ballot \in Nat /\ m.ballot \in Nat
    BY <2>1 DEF Ballot
  <2>3. b \in {t.max_ballot, m.ballot}
    BY <2>2, MaxOfTwo
  <2>4. QED
    BY <2>1, <2>3
<1>. HIDE DEF b
<1>3. t2 \in FitTracker(e.id)
  BY <1>2, Counters DEF FitTracker, TrackerOf
<1>. HIDE DEF t2
<1>4. QED
  BY <1>1, <1>3, RecoverKeeps, SilentKeeps, FoundFits

\* An answer to a PRE_ACCEPT is counted, or ends the first phase.
LEMMA PreacceptedKeeps ==
    ASSUME NEW r \in Replicas, NEW e, e.id \in Ids, Ready(r, e.id),
           NEW i \in FitInstance(e.id), Honest(r, e.id, i), NEW t \in FitTracker(e.id),
           NEW m \in FitLoose(e.id), NEW fast, Preaccepted(r, e, i, t, m, fast)
    PROVE  Kept
<1> DEFINE i2 == [i EXCEPT !.status = ACCEPTED]
           m2 == [m EXCEPT !.type = "ACCEPT"]
<1>1. \/ DoCommit(r, e.id, SetToBag({e}), i, t, m)
      \/ Finish(r, e.id, SetToBag({e}), i2, t, Armed(r, e.id), <<m2>>)
      \/ Finish(r, e.id, SetToBag({e}), i, t, Armed(r, e.id), <<>>)
  BY DEF Preaccepted
<1>2. i2 \in FitInstance(e.id) /\ Honest(r, e.id, i2)
  BY DEF FitInstance, InstanceOf, State, Honest, ACCEPTED, COMMITTED
<1>3. m2 \in FitLoose(e.id) /\ m2.type = "ACCEPT"
  BY DEF FitLoose, LooseMessage, MessageOf, MessageType
<1>. HIDE DEF i2, m2
<1>4. m2 \in FitSent
  BY <1>3, FitIsSent
<1>5. QED
  BY <1>1, <1>2, <1>4, DoCommitKeeps, SendsKeeps, SilentKeeps, FoundFits

\* Recovery that found no command.
LEMMA RecoverNoopKeeps ==
    ASSUME NEW r \in Replicas, NEW e, e.id \in Ids, Ready(r, e.id),
           NEW i \in FitInstance(e.id), Honest(r, e.id, i), NEW t \in FitTracker(e.id),
           NEW m \in FitMessage(e.id), RecoverNoop(r, e, i, t, m)
    PROVE  Kept
<1> DEFINE ds == NoopDeps([inst[r] EXCEPT ![e.id] = i], e.id)
           i2 == [i EXCEPT !.status = ACCEPTED, !.deps = ds]
           t2 == [t EXCEPT !.recovery_status = NONE]
           m2 == [m EXCEPT !.type = "ACCEPT", !.cmd = NoCommand, !.ballot = i.ballot,
                           !.deps = ds]
<1>1. Finish(r, e.id, SetToBag({e}), i2, t2, Armed(r, e.id), <<m2>>)
  BY DEF RecoverNoop
<1>2. ds \in SoundList(AllCommitted(decided))
  BY StoreWithSound, NoopDepsSound
<1>. HIDE DEF ds
<1>3. i2 \in FitInstance(e.id) /\ Honest(r, e.id, i2)
  <2>1. ACCEPTED \in State
    BY DEF State
  <2>2. i2 \in FitInstance(e.id)
    BY <1>2, <2>1 DEF FitInstance, InstanceOf
  <2>3. i2.status = ACCEPTED
    BY DEF FitInstance, InstanceOf
  <2>. HIDE DEF i2
  <2>4. QED
    BY <2>2, <2>3, OpenIsHonest
<1>4. t2 \in FitTracker(e.id)
  BY DEF FitTracker, TrackerOf, RecoveryState
<1>5. m2 \in FitMessage(e.id)
  BY <1>2 DEF FitInstance, InstanceOf, FitMessage, OwnMessage, MessageOf, MessageType
<1>. HIDE DEF i2, t2, m2
<1>6. QED
  BY <1>1, <1>3, <1>4, <1>5, FitIsSent, SendsKeeps, FoundFits

\* What a recovery gathered, as a whole.
LEMMA GatheredIs ==
    ASSUME NEW id, NEW t \in FitTracker(id)
    PROVE  /\ t.ri.status \in State /\ t.ri.seq \in Seqs
           /\ t.ri.cmd \in {NoCommand, proposed'[id]}
           /\ t.ri.deps \in SoundList(AllCommitted(decided))
           /\ t.ri \in RecoveryOf(proposed', AllCommitted(decided), id)
<1>1. t.ri \in RecoveryOf(proposed', AllCommitted(decided), id)
  BY DEF FitTracker, TrackerOf
<1>2. QED
  BY <1>1 DEF RecoveryOf

\* Recovery that asks to accept what it found.
LEMMA RecoverAcceptKeeps ==
    ASSUME NEW r \in Replicas, NEW e, e.id \in Ids, Ready(r, e.id),
           NEW i \in FitInstance(e.id), Honest(r, e.id, i), NEW t \in FitTracker(e.id),
           NEW m \in FitMessage(e.id), RecoverAccept(r, e, i, t, m)
    PROVE  Kept
<1> DEFINE i2 == [i EXCEPT !.status = ACCEPTED, !.cmd = t.ri.cmd, !.seq = t.ri.seq,
                           !.deps = t.ri.deps]
           t2 == [t EXCEPT !.recovery_status = NONE]
           m2 == [m EXCEPT !.type = "ACCEPT", !.ballot = i.ballot, !.seq = t.ri.seq,
                           !.deps = t.ri.deps]
<1>1. Finish(r, e.id, SetToBag({e}), i2, t2, Armed(r, e.id), <<m2>>)
  BY DEF RecoverAccept
<1>2. /\ t.ri.seq \in Seqs /\ t.ri.cmd \in {NoCommand, proposed'[e.id]}
      /\ t.ri.deps \in SoundList(AllCommitted(decided))
  BY GatheredIs
<1>3. i2 \in FitInstance(e.id) /\ Honest(r, e.id, i2)
  <2>1. ACCEPTED \in State
    BY DEF State
  <2>2. i2 \in FitInstance(e.id)
    BY <1>2, <2>1 DEF FitInstance, InstanceOf
  <2>3. i2.status = ACCEPTED
    BY DEF FitInstance, InstanceOf
  <2>. HIDE DEF i2
  <2>4. QED
    BY <2>2, <2>3, OpenIsHonest
<1>4. t2 \in FitTracker(e.id)
  BY DEF FitTracker, TrackerOf, RecoveryState
<1>5. m2 \in FitMessage(e.id)
  BY <1>2 DEF FitInstance, InstanceOf, FitMessage, OwnMessage, MessageOf, MessageType
<1>. HIDE DEF i2, t2, m2
<1>6. QED
  BY <1>1, <1>3, <1>4, <1>5, FitIsSent, SendsKeeps, FoundFits

\* Recovery that starts over in phase1.
LEMMA RecoverPhase1Keeps ==
    ASSUME NEW r \in Replicas, NEW e, e.id \in Ids, Ready(r, e.id),
           NEW i \in FitInstance(e.id), NEW t \in FitTracker(e.id),
           NEW m \in FitMessage(e.id), RecoverPhase1(r, e, i, t, m)
    PROVE  Kept
<1> DEFINE t2 == [t EXCEPT !.recovery_status = NONE]
           m2 == [m EXCEPT !.cmd = t.ri.cmd, !.ballot = i.ballot]
<1>1. Phase1(r, e.id, SetToBag({e}), t2, m2)
  BY DEF RecoverPhase1
<1>2. t.ri.cmd \in {NoCommand, proposed'[e.id]}
  BY GatheredIs
<1>3. t2 \in FitTracker(e.id)
  BY DEF FitTracker, TrackerOf, RecoveryState
<1>4. m2 \in FitMessage(e.id)
  BY <1>2 DEF FitInstance, InstanceOf, FitMessage, OwnMessage, MessageOf
<1>. HIDE DEF t2, m2
<1>5. QED
  BY <1>1, <1>3, <1>4, Phase1Keeps

\* A TRY_PRE_ACCEPT with what i2 holds.
LEMMA TryKeeps ==
    ASSUME NEW r \in Replicas, NEW e, e.id \in Ids, Ready(r, e.id),
           NEW i2 \in FitInstance(e.id), Honest(r, e.id, i2), NEW t2 \in FitTracker(e.id),
           NEW m \in FitMessage(e.id),
           Finish(r, e.id, SetToBag({e}), i2,
                  [t2 EXCEPT !.recovery_status = TRY_PRE_ACCEPTING], Armed(r, e.id),
                  <<[m EXCEPT !.type = "TRY_PRE_ACCEPT", !.cmd = i2.cmd, !.seq = i2.seq,
                              !.deps = i2.deps, !.ballot = i2.ballot]>>)
    PROVE  Kept
<1> DEFINE t3 == [t2 EXCEPT !.recovery_status = TRY_PRE_ACCEPTING]
           m2 == [m EXCEPT !.type = "TRY_PRE_ACCEPT", !.cmd = i2.cmd, !.seq = i2.seq,
                           !.deps = i2.deps, !.ballot = i2.ballot]
<1>1. Finish(r, e.id, SetToBag({e}), i2, t3, Armed(r, e.id), <<m2>>)
  OBVIOUS
<1>2. t3 \in FitTracker(e.id)
  BY DEF FitTracker, TrackerOf, RecoveryState
<1>3. m2 \in FitMessage(e.id)
  BY DEF FitInstance, InstanceOf, FitMessage, OwnMessage, MessageOf, MessageType
<1>. HIDE DEF t3, m2
<1>4. QED
  BY <1>1, <1>2, <1>3, FitIsSent, SendsKeeps, FoundFits

\* Recovery that tries to pre-accept what it found.
LEMMA RecoverTryKeeps ==
    ASSUME NEW r \in Replicas, NEW e, e.id \in Ids, Ready(r, e.id),
           NEW i \in FitInstance(e.id), Honest(r, e.id, i), NEW t0 \in FitTracker(e.id),
           NEW m \in FitMessage(e.id), RecoverTry(r, e, i, t0, m)
    PROVE  Kept
<1> DEFINE t   == [t0 EXCEPT !.pre_accept_oks = 0, !.nacks = 0, !.quorum = Replicas]
           i2  == [i EXCEPT !.cmd = t.ri.cmd, !.seq = t.ri.seq, !.deps = t.ri.deps,
                            !.status = PRE_ACCEPTED]
           m2  == [m EXCEPT !.cmd = t.ri.cmd, !.ballot = i.ballot]
           ta  == [t EXCEPT !.pre_accept_oks = 1]
           tb  == [t EXCEPT !.quorum = Replicas \ {r}]
           Try(x, y) ==
              Finish(r, e.id, SetToBag({e}), x,
                     [y EXCEPT !.recovery_status = TRY_PRE_ACCEPTING], Armed(r, e.id),
                     <<[m EXCEPT !.type = "TRY_PRE_ACCEPT", !.cmd = x.cmd, !.seq = x.seq,
                                 !.deps = x.deps, !.ballot = x.ballot]>>)
<1>1. \/ Crash(r, SetToBag({e}))
      \/ Try(i2, ta)
      \/ Phase1(r, e.id, SetToBag({e}), t, m2)
      \/ Try(i, tb)
  BY Zenon DEF RecoverTry
<1>2. t \in FitTracker(e.id)
  BY Counters DEF FitTracker, TrackerOf
<1>. HIDE DEF t
<1>3. /\ t.ri.seq \in Seqs /\ t.ri.cmd \in {NoCommand, proposed'[e.id]}
      /\ t.ri.deps \in SoundList(AllCommitted(decided))
  BY <1>2, GatheredIs
<1>4. i2 \in FitInstance(e.id) /\ Honest(r, e.id, i2)
  <2>1. PRE_ACCEPTED \in State
    BY DEF State
  <2>2. i2 \in FitInstance(e.id)
    BY <1>3, <2>1 DEF FitInstance, InstanceOf
  <2>3. i2.status = PRE_ACCEPTED
    BY DEF FitInstance, InstanceOf
  <2>. HIDE DEF i2
  <2>4. QED
    BY <2>2, <2>3, OpenIsHonest
<1>5. m2 \in FitMessage(e.id)
  BY <1>3 DEF FitInstance, InstanceOf, FitMessage, OwnMessage, MessageOf
<1>6. ta \in FitTracker(e.id) /\ tb \in FitTracker(e.id)
  BY <1>2, Counters DEF FitTracker, TrackerOf
<1>. HIDE DEF i2, m2, ta, tb
<1>7. CASE Try(i2, ta)
  BY <1>4, <1>6, <1>7, TryKeeps
<1>8. CASE Try(i, tb)
  BY <1>6, <1>8, TryKeeps
<1>9. CASE Phase1(r, e.id, SetToBag({e}), t, m2)
  BY <1>2, <1>5, <1>9, Phase1Keeps
<1>. HIDE DEF Try
<1>10. QED
  BY <1>1, <1>7, <1>8, <1>9, CrashKeeps

\* A TRY_PRE_ACCEPT that was taken.
LEMMA TryTakenKeeps ==
    ASSUME NEW r \in Replicas, NEW e, e.id \in Ids, Ready(r, e.id),
           NEW i \in FitInstance(e.id), Honest(r, e.id, i), NEW t \in FitTracker(e.id),
           NEW m \in FitMessage(e.id), TryTaken(r, e, i, t, m)
    PROVE  Kept
<1> DEFINE t2 == [t EXCEPT !.pre_accept_oks = Inc(@), !.try_pre_accept_oks = Inc(@)]
           i2 == [i EXCEPT !.status = ACCEPTED, !.cmd = t.ri.cmd, !.seq = t.ri.seq,
                           !.deps = t.ri.deps]
           t3 == [t2 EXCEPT !.accept_oks = 0, !.recovery_status = NONE]
           m2 == [m EXCEPT !.type = "ACCEPT", !.cmd = t.ri.cmd, !.seq = t.ri.seq,
                           !.deps = t.ri.deps, !.status = ACCEPTED]
<1>1. \/ Finish(r, e.id, SetToBag({e}), i, t2, Armed(r, e.id), <<>>)
      \/ Finish(r, e.id, SetToBag({e}), i2, t3, Armed(r, e.id), <<m2>>)
  BY Zenon DEF TryTaken
<1>2. /\ t.ri.seq \in Seqs /\ t.ri.cmd \in {NoCommand, proposed'[e.id]}
      /\ t.ri.deps \in SoundList(AllCommitted(decided))
  BY GatheredIs
<1>3. t2 \in FitTracker(e.id)
  BY Counters DEF FitTracker, TrackerOf
<1>. HIDE DEF t2
<1>4. t3 \in FitTracker(e.id)
  BY <1>3, Counters DEF FitTracker, TrackerOf, RecoveryState
<1>5. ACCEPTED \in State
  BY DEF State
<1>6. i2 \in FitInstance(e.id) /\ Honest(r, e.id, i2)
  <2>1. i2 \in FitInstance(e.id)
    BY <1>2, <1>5 DEF FitInstance, InstanceOf
  <2>2. i2.status = ACCEPTED
    BY DEF FitInstance, InstanceOf
  <2>. HIDE DEF i2
  <2>3. QED
    BY <2>1, <2>2, OpenIsHonest
<1>7. m2 \in FitMessage(e.id)
  BY <1>2, <1>5 DEF FitMessage, OwnMessage, MessageOf, MessageType
<1>. HIDE DEF i2, t3, m2
<1>8. QED
  BY <1>1, <1>3, <1>4, <1>6, <1>7, FitIsSent, SendsKeeps, SilentKeeps, FoundFits

\* The none, one or two messages that a refused TRY_PRE_ACCEPT is asked again
\* with.
LEMMA AsksAre ==
    ASSUME NEW m, NEW m2, NEW first, NEW second, NEW ms,
           ms = (IF first THEN <<m>> ELSE <<>>) \o (IF second THEN <<m2>> ELSE <<>>)
    PROVE  /\ ms = <<>> \/ Len(ms) = 1 \/ Len(ms) = 2
           /\ ms # <<>> => Len(ms) \in 1..Len(ms)
           /\ \A k \in 1..Len(ms) : ms[k] \in {m, m2}
           /\ ms = <<>> => Len(ms) = 0
<1>1. CASE first /\ second
  <2> DEFINE a == <<m>>
             b == <<m2>>
             S == {m, m2}
  <2>1. ms = a \o b
    BY <1>1
  <2>2. a \in Seq(S) /\ b \in Seq(S) /\ Len(a) = 1 /\ Len(b) = 1
    OBVIOUS
  <2>. HIDE DEF a, b, S
  <2>3. ms \in Seq(S) /\ Len(ms) = 2
    <3>1. a \o b \in Seq(S) /\ Len(a \o b) = Len(a) + Len(b)
      BY <2>2, ConcatProperties, Zenon
    <3>2. ms \in Seq(S) /\ Len(ms) = 1 + 1
      BY <2>1, <2>2, <3>1, Zenon
    <3>3. QED
      BY <3>2
  <2>4. \A k \in 1..2 : ms[k] \in S
    BY <2>3
  <2>5. ms # <<>>
    BY <2>3
  <2>6. QED
    BY <2>3, <2>4, <2>5 DEF S
<1>2. CASE first /\ ~second
  <2>1. ms = <<m>>
    BY <1>2
  <2>2. QED
    BY <2>1
<1>3. CASE ~first /\ second
  <2>1. ms = <<m2>>
    BY <1>3
  <2>2. QED
    BY <2>1
<1>4. CASE ~first /\ ~second
  <2>1. ms = <<>>
    BY <1>4
  <2>2. QED
    BY <2>1
<1>5. QED
  BY <1>1, <1>2, <1>3, <1>4

\* A refused TRY_PRE_ACCEPT, with none, one or two phase1 after it.
LEMMA TryRefusedKeeps ==
    ASSUME NEW r \in Replicas, NEW e, e.id \in Ids, Ready(r, e.id),
           NEW i \in FitInstance(e.id), Honest(r, e.id, i), NEW t \in FitTracker(e.id),
           NEW m \in FitMessage(e.id), NEW conflict, TryRefused(r, e, i, t, m, conflict)
    PROVE  Kept
<1> DEFINE nq     == Cardinality(Replicas \ t.quorum)
           first  == conflict.committed \/ nq > N \div 2
           second == nq = N \div 2 /\ dh[r][e.id] # NoReplica /\ dh[r][e.id] \in t.quorum
           third  == t.try_pre_accept_oks > N \div 2
           m2     == [m EXCEPT !.cmd = t.ri.cmd,
                               !.ballot = IF first THEN m.ballot ELSE i.ballot]
           ms     == (IF first THEN <<m>> ELSE <<>>) \o (IF second THEN <<m2>> ELSE <<>>)
           last   == ms[Len(ms)]
           asks   == [k \in 1..Len(ms) |->
                         Phase1Message(Phase1Instance(r, e.id, ms[k]), ms[k])]
           tm     == IF third THEN "slow" ELSE IF ms # <<>> THEN "fast" ELSE Armed(r, e.id)
           t2     == [t EXCEPT !.recovery_status = NONE]
           deferred == IF third /\ conflict.id \in Ids
                       THEN [dh EXCEPT ![r][conflict.id] = e.id.replica] ELSE dh
<1>1. \/ Crash(r, SetToBag({e}))
      \/ /\ \/ /\ ms = <<>>
               /\ FinishClearing(r, e.id, SetToBag({e}), i, t, tm, <<>>, {})
            \/ /\ ms # <<>>
               /\ FinishClearing(r, e.id, SetToBag({e}), Phase1Instance(r, e.id, last),
                                 Phase1Tracker(r, e.id, t2, last), tm, asks, {})
         /\ dh' = deferred
         /\ UNCHANGED <<up, execq, decided>>
  BY Zenon DEF TryRefused
<1>2. m2 \in FitMessage(e.id)
  <2>1. t.ri.cmd \in {NoCommand, proposed'[e.id]}
    BY GatheredIs
  <2>2. (IF first THEN m.ballot ELSE i.ballot) \in Ballot
    BY DEF FitInstance, InstanceOf, FitMessage, OwnMessage, MessageOf
  <2>. HIDE DEF first
  <2>3. QED
    BY <2>1, <2>2 DEF FitMessage, OwnMessage, MessageOf
<1>3. t2 \in FitTracker(e.id)
  BY DEF FitTracker, TrackerOf, RecoveryState
<1>. HIDE DEF m2, first, second, t2
<1>4. /\ ms = <<>> \/ Len(ms) = 1 \/ Len(ms) = 2
      /\ ms # <<>> => Len(ms) \in 1..Len(ms)
      /\ \A k \in 1..Len(ms) : ms[k] \in {m, m2}
      /\ ms = <<>> => Len(ms) = 0
  BY AsksAre
<1>. HIDE DEF ms
<1>5. \A k \in 1..Len(ms) : ms[k] \in FitMessage(e.id)
  BY <1>2, <1>4
<1>6. deferred \in [Replicas -> [Ids -> Replicas \union {NoReplica}]]
  <2>1. e.id.replica \in Replicas
    BY DEF Ids
  <2>2. dh \in [Replicas -> [Ids -> Replicas \union {NoReplica}]]
    BY DEF Ready, Control
  <2>. HIDE DEF third
  <2>3. QED
    BY <2>1, <2>2
<1>7. tm \in Timer
  BY FoundFits DEF Timer
<1>. HIDE DEF tm, deferred
<1>8. ASSUME NEW i2, Honest(r, e.id, i2), dh' = deferred, UNCHANGED <<up, execq, decided>>
      PROVE  Advanced(r, e.id, i2)
  BY <1>6, <1>8 DEF Advanced, Ready, Control, Honest
<1>9. CASE Crash(r, SetToBag({e}))
  BY <1>9, CrashKeeps
<1>10. CASE /\ FinishClearing(r, e.id, SetToBag({e}), i, t, tm, <<>>, {})
            /\ dh' = deferred /\ UNCHANGED <<up, execq, decided>>
  <2>1. Advanced(r, e.id, i)
    BY <1>8, <1>10
  <2>2. /\ i \in InstanceOf(proposed', AllCommitted(decided), e.id)
        /\ t \in TrackerOf(proposed', AllCommitted(decided), e.id)
    BY DEF FitInstance, FitTracker
  <2>3. \A k \in 1..Len(<<>>) :
          <<>>[k].seq \in Seqs => <<>>[k] \in SoundMessage(proposed', AllCommitted(decided))
    <3>1. Len(<<>>) = 0
      OBVIOUS
    <3>2. QED
      BY <3>1
  <2>4. QED
    BY <1>7, <1>10, <2>1, <2>2, <2>3, ClearingKeeps
<1>11. CASE /\ ms # <<>>
            /\ FinishClearing(r, e.id, SetToBag({e}), Phase1Instance(r, e.id, last),
                              Phase1Tracker(r, e.id, t2, last), tm, asks, {})
            /\ dh' = deferred /\ UNCHANGED <<up, execq, decided>>
  <2> DEFINE i2 == Phase1Instance(r, e.id, last)
             t3 == Phase1Tracker(r, e.id, t2, last)
  <2>1. last \in FitMessage(e.id)
    BY <1>4, <1>5, <1>11
  <2>. HIDE DEF last
  <2>2. /\ i2.seq \in Seqs => i2 \in FitInstance(e.id)
        /\ t3 \in FitTracker(e.id)
        /\ Honest(r, e.id, i2)
    BY <1>3, <2>1, Phase1Fits
  <2>3. Advanced(r, e.id, i2)
    BY <1>8, <1>11, <2>2
  <2>4. Len(asks) = Len(ms) /\ (Len(asks) = 1 \/ Len(asks) = 2)
    BY <1>4, <1>11
  <2>5. ASSUME NEW k \in 1..Len(asks), asks[k].seq \in Seqs
        PROVE  asks[k] \in SoundMessage(proposed', AllCommitted(decided))
    <3>1. /\ ms[k] \in FitMessage(e.id)
          /\ asks[k] = Phase1Message(Phase1Instance(r, e.id, ms[k]), ms[k])
      BY <1>5, <2>4
    <3>2. asks[k] \in FitMessage(e.id)
      BY <1>3, <2>5, <3>1, Phase1Fits
    <3>3. asks[k] \in FitSent
      BY <3>2, FitIsSent
    <3>4. QED
      BY <3>3 DEF FitSent
  <2>6. /\ i2.seq \in Seqs => i2 \in InstanceOf(proposed', AllCommitted(decided), e.id)
        /\ t3 \in TrackerOf(proposed', AllCommitted(decided), e.id)
    BY <2>2 DEF FitInstance, FitTracker
  <2>7. FinishClearing(r, e.id, SetToBag({e}), i2, t3, tm, asks, {})
    BY <1>11
  <2>. HIDE DEF i2, t3, asks
  <2>8. QED
    BY <1>7, <2>3, <2>4, <2>5, <2>6, <2>7, ClearingKeeps
<1>12. QED
  BY <1>1, <1>9, <1>10, <1>11

-----------------------------------------------------------------------------
(* The handlers.                                                           *)

\* pre_accept stores the attributes it merged, of the command it was sent.
LEMMA PreAcceptKeeps ==
    ASSUME NEW r \in Replicas, NEW e \in BagToSet(net), e.type = "PRE_ACCEPT",
           Ready(r, e.id), PreAccept(r, e)
    PROVE  Kept
<1>1. PICK m \in Decode(e, inst[r]) : PreAccept(r, e)!(m)
  BY DEF PreAccept
<1> DEFINE id   == e.id
           i    == Found(r, id)
           p    == SdForCommand(inst[r], m.cmd, id, i.deps)
           nseq == Max({m.seq, p.seq + 1})
           i2   == [status |-> PreAcceptedAs(p.updated),
                    ballot |-> m.ballot, cmd |-> m.cmd, seq |-> nseq, deps |-> p.deps]
           db   == [inst[r] EXCEPT ![id] = i2]
           gone == IF m.cmd = NoCommand THEN Cleared(db) ELSE {}
           full == \/ nseq # m.seq \/ p.updated
                   \/ HasUncommittedDeps(i2.deps) \/ ~IsInitialBallot(m.ballot)
           no   == [m EXCEPT !.type = "PRE_ACCEPT_REPLY", !.ballot = i.ballot, !.cmd = i.cmd,
                             !.seq = i.seq, !.deps = i.deps, !.nack = TRUE]
           yes  == [m EXCEPT !.type = "PRE_ACCEPT_REPLY", !.seq = nseq, !.deps = i2.deps]
           ok   == [m EXCEPT !.type = "PRE_ACCEPT_OK"]
           ans  == IF full THEN yes ELSE ok
<1>2. \/ Ignore(r, e)
      \/ Answer(r, e, no)
      \/ Crash(r, SetToBag({e}))
      \/ /\ FinishClearing(r, id, SetToBag({e}), i2, lt[r][id], Armed(r, id), <<ans>>, gone)
         /\ UNCHANGED <<up, execq, dh, decided>>
  BY <1>1, Zenon
<1>3. id \in Ids /\ m \in FitMessage(id)
  BY ReceivedFits
<1>4. i \in FitInstance(id) /\ lt[r][id] \in FitTracker(id) /\ Armed(r, id) \in Timer
  BY <1>3, FoundFits
<1>. HIDE DEF i
<1>5. p.deps \in SoundList(AllCommitted(decided)) /\ p.updated \in BOOLEAN
  BY <1>3, <1>4, StoreSound, SdForCommandSound DEF FitInstance, InstanceOf
<1>. HIDE DEF p, nseq, full
<1>6. no \in FitMessage(id)
  BY <1>3, <1>4 DEF FitInstance, InstanceOf, FitMessage, OwnMessage, MessageOf, MessageType
<1>7. PreAcceptedAs(p.updated) \in {PRE_ACCEPTED, PRE_ACCEPTED_EQ}
  BY DEF PreAcceptedAs
<1>8. nseq \in Seqs => i2 \in FitInstance(id) /\ yes \in FitMessage(id)
  BY <1>3, <1>5, <1>7 DEF FitInstance, InstanceOf, State, FitMessage, OwnMessage, MessageOf,
                          MessageType
<1>9. ok \in FitMessage(id) /\ yes.seq = nseq
  BY <1>3 DEF FitMessage, OwnMessage, MessageOf, MessageType
<1>10. Honest(r, id, i2)
  BY <1>7, OpenIsHonest
<1>11. i2.seq = nseq
  OBVIOUS
<1>. HIDE DEF no, yes, ok
<1>12. ans.seq \in Seqs => ans \in FitSent
  BY <1>3, <1>8, <1>9, FitIsSent
<1>13. gone = {} \/ gone = Cleared([inst[r] EXCEPT ![id] = i2])
  OBVIOUS
<1>14. no \in FitSent
  BY <1>3, <1>6, FitIsSent
<1>. HIDE DEF ans, i2, gone
<1>15. QED
  BY <1>2, <1>3, <1>4, <1>8, <1>10, <1>11, <1>12, <1>13, <1>14, IgnoreKeeps, AnswerKeeps,
     CrashKeeps, ClearedKeeps

\* pre_accept_ok sends on what decoding left of the message.
LEMMA PreAcceptOkKeeps ==
    ASSUME NEW r \in Replicas, NEW e \in BagToSet(net), Ready(r, e.id), PreAcceptOk(r, e)
    PROVE  Kept
<1>1. PICK m \in Decode(e, inst[r]) : PreAcceptOk(r, e)!(m)
  BY DEF PreAcceptOk
<1> DEFINE i == Found(r, e.id)
           t == [lt[r][e.id] EXCEPT !.pre_accept_oks = Inc(@)]
<1>2. \/ Ignore(r, e)
      \/ Preaccepted(r, e, i, t, m, t.equal /\ ~HasUncommittedDeps(i.deps))
  BY <1>1, Zenon
<1>3. e.id \in Ids /\ m \in FitLoose(e.id)
  BY ReceivedFits
<1>4. i \in FitInstance(e.id) /\ Honest(r, e.id, i) /\ lt[r][e.id] \in FitTracker(e.id)
  BY <1>3, FoundFits
<1>5. t \in FitTracker(e.id)
  BY <1>4, Counters DEF FitTracker, TrackerOf
<1>. HIDE DEF i, t
<1>6. QED
  BY <1>2, <1>3, <1>4, <1>5, IgnoreKeeps, PreacceptedKeeps

\* pre_accept_reply merges the attributes of the answer into the instance.
LEMMA PreAcceptReplyKeeps ==
    ASSUME NEW r \in Replicas, NEW e \in BagToSet(net), Ready(r, e.id), PreAcceptReply(r, e)
    PROVE  Kept
<1>1. PICK m \in Decode(e, inst[r]) : PreAcceptReply(r, e)!(m)
  BY DEF PreAcceptReply
<1> DEFINE i  == Found(r, e.id)
           t  == lt[r][e.id]
           u  == UpdateAll(i.deps, m.deps)
           s  == Max({i.seq, m.seq})
           eq == (t.equal \/ m.seq > i.seq) /\ ~u.updated
           i2 == [i EXCEPT !.seq = s, !.deps = u.deps]
           t2 == [t EXCEPT !.pre_accept_oks = Inc(t.pre_accept_oks), !.equal = eq]
<1>2. \/ Ignore(r, e)
      \/ Nacked(r, e, i, t, m)
      \/ Preaccepted(r, e, i2, t2, m,
            t2.equal /\ IsInitialBallot(i.ballot) /\ ~HasUncommittedDeps(i2.deps))
  BY <1>1, Zenon
<1>3. e.id \in Ids /\ m \in FitLoose(e.id)
  BY ReceivedFits
<1>4. i \in FitInstance(e.id) /\ Honest(r, e.id, i) /\ t \in FitTracker(e.id)
  BY <1>3, FoundFits
<1>. HIDE DEF i, t
<1>5. u.deps \in SoundList(AllCommitted(decided))
  <2>1. /\ i.deps \in SoundList(AllCommitted(decided))
        /\ m.deps \in SoundList(AllCommitted(decided))
    BY <1>3, <1>4 DEF FitInstance, InstanceOf, FitLoose, LooseMessage, MessageOf
  <2>2. u \in Probe(AllCommitted(decided))
    BY <2>1, UpdateAllSound
  <2>3. QED
    BY <2>2 DEF Probe
<1>6. s \in Seqs
  <2>1. i.seq \in Seqs /\ m.seq \in Seqs
    BY <1>3, <1>4 DEF FitInstance, InstanceOf, FitLoose, LooseMessage, MessageOf
  <2>2. i.seq \in Nat /\ m.seq \in Nat
    BY <2>1, MessageAssumption DEF Seqs
  <2>3. s \in {i.seq, m.seq}
    BY <2>2, MaxOfTwo
  <2>4. QED
    BY <2>1, <2>3
<1>7. eq \in BOOLEAN
  OBVIOUS
<1>. HIDE DEF u, s, eq
<1>8. i2 \in FitInstance(e.id) /\ i2.status = i.status
  BY <1>4, <1>5, <1>6 DEF FitInstance, InstanceOf
<1>9. t2 \in FitTracker(e.id)
  BY <1>4, <1>7, Counters DEF FitTracker, TrackerOf
<1>. HIDE DEF i2, t2
<1>10. Honest(r, e.id, i2)
  BY <1>4, <1>8 DEF Honest
<1>11. QED
  BY <1>2, <1>3, <1>4, <1>8, <1>9, <1>10, IgnoreKeeps, NackedKeeps, PreacceptedKeeps

\* accept stores the attributes and keeps the command it has.
LEMMA AcceptKeeps ==
    ASSUME NEW r \in Replicas, NEW e \in BagToSet(net), Ready(r, e.id), Accept(r, e)
    PROVE  Kept
<1>1. PICK m \in Decode(e, inst[r]) : Accept(r, e)!(m)
  BY DEF Accept
<1> DEFINE id   == e.id
           i    == Found(r, id)
           i2   == [i EXCEPT !.status = ACCEPTED, !.ballot = m.ballot,
                             !.seq = m.seq, !.deps = m.deps]
           db   == [inst[r] EXCEPT ![id] = i2]
           gone == IF m.cmd = NoCommand THEN Cleared(db) ELSE {}
           ans  == [m EXCEPT !.type = "ACCEPT_REPLY"]
           no   == [ans EXCEPT !.nack = TRUE, !.ballot = i.ballot]
<1>2. \/ Ignore(r, e)
      \/ Answer(r, e, no)
      \/ /\ FinishClearing(r, id, SetToBag({e}), i2, lt[r][id], Armed(r, id), <<ans>>, gone)
         /\ UNCHANGED <<up, execq, dh, decided>>
  BY <1>1, Zenon
<1>3. id \in Ids /\ m \in FitLoose(id)
  BY ReceivedFits
<1>4. i \in FitInstance(id) /\ lt[r][id] \in FitTracker(id) /\ Armed(r, id) \in Timer
  BY <1>3, FoundFits
<1>. HIDE DEF i
<1>5. i2 \in FitInstance(id) /\ i2.status = ACCEPTED
  <2>1. ACCEPTED \in State
    BY DEF State
  <2>2. /\ m.ballot \in Ballot /\ m.seq \in Seqs
        /\ m.deps \in SoundList(AllCommitted(decided))
    BY <1>3 DEF FitLoose, LooseMessage, MessageOf
  <2>3. QED
    BY <1>4, <2>1, <2>2 DEF FitInstance, InstanceOf
<1>6. ans \in FitLoose(id) /\ ans.type = "ACCEPT_REPLY"
  BY <1>3 DEF FitLoose, LooseMessage, MessageOf, MessageType
<1>. HIDE DEF ans
<1>7. no \in FitLoose(id) /\ no.type = "ACCEPT_REPLY"
  BY <1>4, <1>6 DEF FitLoose, LooseMessage, MessageOf, FitInstance, InstanceOf
<1>8. gone = {} \/ gone = Cleared([inst[r] EXCEPT ![id] = i2])
  OBVIOUS
<1>. HIDE DEF i2, no, gone
<1>9. Honest(r, id, i2)
  BY <1>5, OpenIsHonest
<1>10. ans \in FitSent /\ no \in FitSent
  BY <1>3, <1>6, <1>7, FitIsSent
<1>11. QED
  BY <1>2, <1>3, <1>4, <1>5, <1>8, <1>9, <1>10, IgnoreKeeps, AnswerKeeps, ClearedKeeps

\* accept_reply, by what it ends in.
LEMMA AcceptReplyKeeps ==
    ASSUME NEW r \in Replicas, NEW e \in BagToSet(net), Ready(r, e.id), AcceptReply(r, e)
    PROVE  Kept
<1>1. PICK m \in Decode(e, inst[r]) : AcceptReply(r, e)!(m)
  BY DEF AcceptReply
<1> DEFINE i  == Found(r, e.id)
           t  == lt[r][e.id]
           t2 == [t EXCEPT !.accept_oks = Inc(@)]
<1>2. \/ Ignore(r, e)
      \/ Nacked(r, e, i, t, m)
      \/ DoCommit(r, e.id, SetToBag({e}), i, t2, m)
      \/ Finish(r, e.id, SetToBag({e}), i, t2, Armed(r, e.id), <<>>)
  BY <1>1, Zenon
<1>3. e.id \in Ids /\ m \in FitLoose(e.id)
  BY ReceivedFits
<1>4. /\ i \in FitInstance(e.id) /\ Honest(r, e.id, i) /\ t \in FitTracker(e.id)
      /\ Armed(r, e.id) \in Timer
  BY <1>3, FoundFits
<1>. HIDE DEF i, t
<1>5. t2 \in FitTracker(e.id)
  BY <1>4, Counters DEF FitTracker, TrackerOf
<1>. HIDE DEF t2
<1>6. QED
  BY <1>2, <1>3, <1>4, <1>5, IgnoreKeeps, NackedKeeps, DoCommitKeeps, SilentKeeps

\* commit stores the attributes it was sent and records the instance.
LEMMA CommitKeeps ==
    ASSUME NEW r \in Replicas, NEW e \in BagToSet(net), Ready(r, e.id), Commit(r, e)
    PROVE  Kept
<1>1. PICK m \in Decode(e, inst[r]) : Commit(r, e)!(m)
  BY DEF Commit
<1> DEFINE id == e.id
           i  == Found(r, id)
           i2 == [i EXCEPT !.status = COMMITTED, !.seq = m.seq, !.deps = m.deps]
<1>2. /\ FinishClearing(r, id, SetToBag({e}), i2, lt[r][id], "none", <<>>, {})
      /\ execq' = [execq EXCEPT ![r] = @ \union {id}]
      /\ decided' = [decided EXCEPT ![r] = @ \union {id}]
      /\ up' = up /\ dh' = dh
  BY <1>1
<1>3. id \in Ids /\ m \in FitLoose(id)
  BY ReceivedFits
<1>4. i \in FitInstance(id) /\ lt[r][id] \in FitTracker(id)
  BY <1>3, FoundFits
<1>. HIDE DEF i
<1>5. i2 \in FitInstance(id)
  <2>1. m.seq \in Seqs /\ m.deps \in SoundList(AllCommitted(decided)) /\ COMMITTED \in State
    BY <1>3 DEF FitLoose, LooseMessage, MessageOf, State
  <2>2. QED
    BY <1>4, <2>1 DEF FitInstance, InstanceOf
<1>. HIDE DEF i2
<1>6. Advanced(r, id, i2)
  BY <1>2, <1>3 DEF Advanced, Ready, Control
<1>7. /\ i2 \in InstanceOf(proposed', AllCommitted(decided), id)
      /\ lt[r][id] \in TrackerOf(proposed', AllCommitted(decided), id)
  BY <1>4, <1>5 DEF FitInstance, FitTracker
<1>8. \A k \in 1..Len(<<>>) :
        <<>>[k].seq \in Seqs => <<>>[k] \in SoundMessage(proposed', AllCommitted(decided))
  <2>1. Len(<<>>) = 0
    OBVIOUS
  <2>2. QED
    BY <2>1
<1>9. "none" \in Timer
  BY DEF Timer
<1>10. QED
  BY <1>2, <1>3, <1>6, <1>7, <1>8, <1>9, ClearingKeeps

\* prepare promises and reports.
LEMMA PrepareKeeps ==
    ASSUME NEW r \in Replicas, NEW e \in BagToSet(net), e.type = "PREPARE",
           Ready(r, e.id), Prepare(r, e)
    PROVE  Kept
<1>1. PICK m \in Decode(e, inst[r]) : Prepare(r, e)!(m)
  BY DEF Prepare
<1> DEFINE i   == Found(r, e.id)
           i2  == [i EXCEPT !.ballot = m.ballot]
           ans == [m EXCEPT !.type = "PREPARE_REPLY"]
           no  == [ans EXCEPT !.nack = TRUE]
           yes == [ans EXCEPT !.cmd = i.cmd, !.deps = i.deps, !.seq = i.seq, !.status = i.status]
<1>2. \/ Answer(r, e, no)
      \/ Finish(r, e.id, SetToBag({e}), i2, lt[r][e.id], Armed(r, e.id), <<yes>>)
  BY <1>1, Zenon
<1>3. e.id \in Ids /\ m \in FitMessage(e.id)
  BY ReceivedFits
<1>4. /\ i \in FitInstance(e.id) /\ Honest(r, e.id, i) /\ lt[r][e.id] \in FitTracker(e.id)
      /\ Armed(r, e.id) \in Timer
  BY <1>3, FoundFits
<1>. HIDE DEF i
<1>5. i2 \in FitInstance(e.id) /\ i2.status = i.status
  BY <1>3, <1>4 DEF FitInstance, InstanceOf, FitMessage, OwnMessage, MessageOf
<1>6. ans \in FitMessage(e.id)
  BY <1>3 DEF FitMessage, OwnMessage, MessageOf, MessageType
<1>. HIDE DEF ans
<1>7. no \in FitMessage(e.id) /\ yes \in FitMessage(e.id)
  BY <1>4, <1>6 DEF FitInstance, InstanceOf, FitMessage, OwnMessage, MessageOf
<1>. HIDE DEF i2, no, yes
<1>8. Honest(r, e.id, i2)
  BY <1>4, <1>5 DEF Honest
<1>9. QED
  BY <1>2, <1>3, <1>4, <1>5, <1>7, <1>8, FitIsSent, AnswerKeeps, SendsKeeps

\* What a PREPARE_REPLY adds to the tracker.
LEMMA CollectedFits ==
    ASSUME NEW id, NEW i, NEW t \in FitTracker(id), NEW m \in FitMessage(id)
    PROVE  Collected(i, t, m) \in FitTracker(id)
<1> DEFINE R      == RecoveryOf(proposed', AllCommitted(decided), id)
           ri     == t.ri
           copied == [UpdateRecoveryInstance(ri, m) EXCEPT !.pre_accept_count = Inc(@)]
           preaccepted == m.status \in {PRE_ACCEPTED, PRE_ACCEPTED_EQ} /\ ri.status < ACCEPTED
           replied == IF preaccepted /\ m.from = m.id.replica THEN TRUE ELSE ri.leader_replied
           count == IF m.seq = i.seq /\ m.deps = i.deps THEN Inc(ri.pre_accept_count)
                    ELSE ri.pre_accept_count
           G == Gathered(i, t, m)
<1>1. ri \in R /\ ri.pre_accept_count \in Ballot /\ ri.leader_replied \in BOOLEAN
  <2>1. ri \in R
    BY GatheredIs
  <2>2. QED
    BY <2>1 DEF RecoveryOf
<1>2. replied \in BOOLEAN /\ count \in Ballot
  BY <1>1, Counters
<1>3. G \in {copied, [copied EXCEPT !.leader_replied = replied],
             [ri EXCEPT !.pre_accept_count = count, !.leader_replied = replied], ri}
  <2>1. CASE m.status = ACCEPTED /\ (t.max_ballot < m.ballot \/ ri.status = NONE)
    <3>1. ~preaccepted
      BY <2>1 DEF ACCEPTED, PRE_ACCEPTED, PRE_ACCEPTED_EQ
    <3>2. QED
      BY <2>1, <3>1 DEF Gathered
  <2>2. CASE ~(m.status = ACCEPTED /\ (t.max_ballot < m.ballot \/ ri.status = NONE))
    BY <2>2, Zenon DEF Gathered
  <2>3. QED
    BY <2>1, <2>2
<1>. HIDE DEF ri, replied, count, G, preaccepted
<1>4. UpdateRecoveryInstance(ri, m) \in R
  BY <1>1 DEF UpdateRecoveryInstance, RecoveryOf, FitMessage, OwnMessage, MessageOf
<1>5. copied \in R
  BY <1>4, Counters DEF RecoveryOf
<1>. HIDE DEF copied
<1>6. /\ [copied EXCEPT !.leader_replied = replied] \in R
      /\ [ri EXCEPT !.pre_accept_count = count, !.leader_replied = replied] \in R
  BY <1>1, <1>2, <1>5 DEF RecoveryOf
<1>7. G \in R
  BY <1>1, <1>3, <1>5, <1>6
<1> DEFINE b == IF m.status = ACCEPTED /\ (t.max_ballot < m.ballot \/ t.ri.status = NONE)
                THEN m.ballot ELSE t.max_ballot
<1>8. b \in Ballot
  BY DEF FitTracker, TrackerOf, FitMessage, OwnMessage, MessageOf
<1>9. Collected(i, t, m) = [t EXCEPT !.ri = G, !.max_ballot = b]
  BY Zenon DEF Collected, G
<1>. HIDE DEF b
<1>10. QED
  BY <1>7, <1>8, <1>9 DEF FitTracker, TrackerOf

\* prepare_reply, by what it ends in.
LEMMA PrepareReplyKeeps ==
    ASSUME NEW r \in Replicas, NEW e \in BagToSet(net), e.type = "PREPARE_REPLY",
           Ready(r, e.id), PrepareReply(r, e)
    PROVE  Kept
<1>1. PICK m \in Decode(e, inst[r]) : PrepareReply(r, e)!(m)
  BY DEF PrepareReply
<1> DEFINE id == e.id
           i  == Found(r, id)
           t0 == lt[r][id]
           t1 == [t0 EXCEPT !.prepare_oks = Inc(@)]
           t  == Collected(i, t1, m)
           tn == [t0 EXCEPT !.nacks = Inc(@)]
           i2 == [i EXCEPT !.seq = m.seq, !.cmd = m.cmd, !.deps = m.deps]
           m2 == [m EXCEPT !.ballot = i.ballot]
<1>2. \/ Ignore(r, e)
      \/ Finish(r, id, SetToBag({e}), i, tn, Armed(r, id), <<>>)
      \/ DoCommit(r, id, SetToBag({e}), i2, t1, m2)
      \/ Finish(r, id, SetToBag({e}), i, t, Armed(r, id), <<>>)
      \/ RecoverNoop(r, e, i, t, m)
      \/ RecoverAccept(r, e, i, t, m)
      \/ RecoverTry(r, e, i, t, m)
      \/ RecoverPhase1(r, e, i, t, m)
  BY <1>1, Zenon
<1>3. id \in Ids /\ m \in FitMessage(id)
  BY ReceivedFits
<1>4. /\ i \in FitInstance(id) /\ Honest(r, id, i) /\ t0 \in FitTracker(id)
      /\ Armed(r, id) \in Timer
  BY <1>3, FoundFits
<1>. HIDE DEF i, t0
<1>5. t1 \in FitTracker(id) /\ tn \in FitTracker(id)
  BY <1>4, Counters DEF FitTracker, TrackerOf
<1>. HIDE DEF t1, tn
<1>6. t \in FitTracker(id)
  BY <1>3, <1>5, CollectedFits
<1>7. i2 \in FitInstance(id)
  BY <1>3, <1>4 DEF FitInstance, InstanceOf, FitMessage, OwnMessage, MessageOf
<1>8. m2 \in FitMessage(id)
  BY <1>3, <1>4 DEF FitInstance, InstanceOf, FitMessage, OwnMessage, MessageOf
<1>. HIDE DEF t, i2, m2
<1>9. m2 \in FitLoose(id)
  BY <1>3, <1>8, FitIsSent
<1>10. QED
  BY <1>2, <1>3, <1>4, <1>5, <1>6, <1>7, <1>9, IgnoreKeeps, SilentKeeps, DoCommitKeeps,
     RecoverNoopKeeps, RecoverAcceptKeeps, RecoverTryKeeps, RecoverPhase1Keeps

\* try_pre_accept stores what it was sent, command included.
LEMMA TryPreAcceptKeeps ==
    ASSUME NEW r \in Replicas, NEW e \in BagToSet(net), e.type = "TRY_PRE_ACCEPT",
           Ready(r, e.id), TryPreAccept(r, e)
    PROVE  Kept
<1>1. PICK m \in Decode(e, inst[r]) : TryPreAccept(r, e)!(m)
  BY DEF TryPreAccept
<1> DEFINE id  == e.id
           i   == Found(r, id)
           ans == [m EXCEPT !.type = "TRY_PRE_ACCEPT_REPLY"]
           no  == [ans EXCEPT !.ballot = i.ballot, !.nack = TRUE]
           i2  == [status |-> PRE_ACCEPTED, ballot |-> m.ballot, cmd |-> m.cmd,
                   seq |-> m.seq, deps |-> m.deps]
<1>2. \/ Answer(r, e, no)
      \/ Crash(r, SetToBag({e}))
      \/ Finish(r, id, SetToBag({e}), i2, lt[r][id], Armed(r, id), <<ans>>)
  BY <1>1, Zenon
<1>3. id \in Ids /\ m \in FitMessage(id)
  BY ReceivedFits
<1>4. /\ i \in FitInstance(id) /\ lt[r][id] \in FitTracker(id) /\ Armed(r, id) \in Timer
  BY <1>3, FoundFits
<1>. HIDE DEF i
<1>5. i2 \in FitInstance(id) /\ i2.status = PRE_ACCEPTED
  BY <1>3 DEF FitInstance, InstanceOf, State, FitMessage, OwnMessage, MessageOf
<1>6. ans \in FitMessage(id)
  BY <1>3 DEF FitMessage, OwnMessage, MessageOf, MessageType
<1>. HIDE DEF ans
<1>7. no \in FitMessage(id)
  BY <1>4, <1>6 DEF FitInstance, InstanceOf, FitMessage, OwnMessage, MessageOf
<1>. HIDE DEF i2, no
<1>8. Honest(r, id, i2)
  BY <1>5, OpenIsHonest
<1>9. ans \in FitSent /\ no \in FitSent
  BY <1>3, <1>6, <1>7, FitIsSent
<1>10. QED
  BY <1>2, <1>3, <1>4, <1>5, <1>8, <1>9, AnswerKeeps, CrashKeeps, SendsKeeps

\* try_pre_accept_reply, by what it ends in.
LEMMA TryPreAcceptReplyKeeps ==
    ASSUME NEW r \in Replicas, NEW e \in BagToSet(net), e.type = "TRY_PRE_ACCEPT_REPLY",
           Ready(r, e.id), TryPreAcceptReply(r, e)
    PROVE  Kept
<1>1. PICK m \in Decode(e, inst[r]), conflict \in ConflictFields(r) :
          TryPreAcceptReply(r, e)!(m, conflict)
  BY DEF TryPreAcceptReply
<1> DEFINE id == e.id
           i  == Found(r, id)
           t  == lt[r][id]
           b  == LargerBallot(m.ballot, r)
           t1 == [t EXCEPT !.nacks = Inc(@)]
           t2 == [t1 EXCEPT !.try_pre_accept_oks = Inc(@)]
           t3 == [t2 EXCEPT !.quorum = @ \ {m.from, id.replica}]
           i2 == [i EXCEPT !.ballot = b]
           again == [m EXCEPT !.type = "TRY_PRE_ACCEPT", !.ballot = b]
           ask == [m EXCEPT !.type = "PREPARE"]
<1>2. \/ Ignore(r, e)
      \/ TryTaken(r, e, i, t, m)
      \/ Finish(r, id, SetToBag({e}), i2, t1, Armed(r, id), <<again>>)
      \/ Finish(r, id, SetToBag({e}), i, t3, Armed(r, id), <<ask>>)
      \/ TryRefused(r, e, i, t2, m, conflict)
  BY <1>1, Zenon
<1>3. id \in Ids /\ m \in FitMessage(id)
  BY ReceivedFits
<1>4. /\ i \in FitInstance(id) /\ Honest(r, id, i) /\ t \in FitTracker(id)
      /\ Armed(r, id) \in Timer
  BY <1>3, FoundFits
<1>. HIDE DEF i, t
<1>5. b \in Ballot
  BY <1>3, Counters DEF FitMessage, OwnMessage, MessageOf
<1>6. t1 \in FitTracker(id)
  BY <1>4, Counters DEF FitTracker, TrackerOf
<1>. HIDE DEF b, t1
<1>7. t2 \in FitTracker(id)
  BY <1>6, Counters DEF FitTracker, TrackerOf
<1>. HIDE DEF t2
<1>8. t3 \in FitTracker(id)
  BY <1>7 DEF FitTracker, TrackerOf
<1>9. i2 \in FitInstance(id) /\ i2.status = i.status
  BY <1>4, <1>5 DEF FitInstance, InstanceOf
<1>10. again \in FitMessage(id) /\ ask \in FitMessage(id)
  BY <1>3, <1>5 DEF FitMessage, OwnMessage, MessageOf, MessageType
<1>. HIDE DEF t3, i2, again, ask
<1>11. Honest(r, id, i2)
  BY <1>4, <1>9 DEF Honest
<1>12. again \in FitSent /\ ask \in FitSent
  BY <1>3, <1>10, FitIsSent
<1>13. QED
  BY <1>2, <1>3, <1>4, <1>6, <1>7, <1>8, <1>9, <1>11, <1>12, IgnoreKeeps, TryTakenKeeps,
     SendsKeeps, TryRefusedKeeps

-----------------------------------------------------------------------------
(* The steps of a replica.                                                 *)

\* What a handler starts from, where nothing is proposed.
LEMMA InvReady ==
    ASSUME Inv, NEW r \in Replicas, up[r], UNCHANGED proposed, NEW id
    PROVE  Ready(r, id)
BY DEF Inv, Ready, Numbered

\* What a handler ends in.
LEMMA KeptInv ==
    ASSUME Kept, proposed' \in [Ids -> Command \union {NoCommand}],
           timeouts' \in [Replicas -> Nat]
    PROVE  Inv'
BY DEF Kept, Inv

\* One message, whichever it is.
LEMMA ReceiveKeeps ==
    ASSUME Inv, NEW r \in Replicas, Receive(r)
    PROVE  Inv' /\ proposed' = proposed /\ timeouts' = timeouts
<1>1. PICK e \in BagToSet(net) :
        /\ up[r]
        /\ \/ e.type = "PRE_ACCEPT" /\ PreAccept(r, e)
           \/ PreAcceptOk(r, e)
           \/ PreAcceptReply(r, e)
           \/ Accept(r, e)
           \/ AcceptReply(r, e)
           \/ Commit(r, e)
           \/ e.type = "PREPARE" /\ Prepare(r, e)
           \/ e.type = "PREPARE_REPLY" /\ PrepareReply(r, e)
           \/ e.type = "TRY_PRE_ACCEPT" /\ TryPreAccept(r, e)
           \/ e.type = "TRY_PRE_ACCEPT_REPLY" /\ TryPreAcceptReply(r, e)
  BY Zenon DEF Receive, Arrived
<1>2. UNCHANGED <<proposed, timeouts>>
  BY <1>1, Zenon DEF PreAccept, PreAcceptOk, PreAcceptReply, Accept, AcceptReply, Commit,
     Prepare, PrepareReply, TryPreAccept, TryPreAcceptReply, history
<1>3. Ready(r, e.id)
  BY <1>1, <1>2, InvReady
<1>4. Kept
  BY <1>1, <1>3, PreAcceptKeeps, PreAcceptOkKeeps, PreAcceptReplyKeeps, AcceptKeeps,
     AcceptReplyKeeps, CommitKeeps, PrepareKeeps, PrepareReplyKeeps, TryPreAcceptKeeps,
     TryPreAcceptReplyKeeps, Zenon
<1>5. QED
  BY <1>2, <1>4, KeptInv DEF Inv

\* A command that an id did not have before belongs wherever none did.
LEMMA DataGrows ==
    ASSUME NEW is, NEW ls, NEW n, NEW P, NEW P2, NEW C, Data(is, ls, n, P, C),
           \A x \in Ids : P[x] \in {NoCommand, P2[x]}
    PROVE  Data(is, ls, n, P2, C)
<1>1. \A x \in Ids : {NoCommand, P[x]} \subseteq {NoCommand, P2[x]}
  OBVIOUS
<1>2. \A x \in Ids : InstanceOf(P, C, x) \subseteq InstanceOf(P2, C, x)
  BY <1>1 DEF InstanceOf
<1>3. \A x \in Ids : TrackerOf(P, C, x) \subseteq TrackerOf(P2, C, x)
  <2>1. \A x \in Ids : RecoveryOf(P, C, x) \subseteq RecoveryOf(P2, C, x)
    BY <1>1 DEF RecoveryOf
  <2>2. QED
    BY <2>1 DEF TrackerOf
<1>4. SoundMessage(P, C) \subseteq SoundMessage(P2, C)
  BY <1>1 DEF SoundMessage, Message
<1>5. QED
  BY <1>2, <1>3, <1>4 DEF Data

\* The number above the highest of r's own index was never handed out.
LEMMA NextIsNew ==
    ASSUME Inv, NEW r \in Replicas, up[r], NEW n \in 1..MaxInst,
           n = MaxLocal(inst[r], r) + 1
    PROVE  /\ [replica |-> r, instance |-> n] \in Ids
           /\ proposed[[replica |-> r, instance |-> n]] = NoCommand
           /\ inst[r][[replica |-> r, instance |-> n]].status = ABSENT
<1> DEFINE id == [replica |-> r, instance |-> n]
           S  == {0} \union {x.instance : x \in Index(inst[r], r)}
<1>1. id \in Ids /\ id.replica = r /\ id.instance = n
  BY DEF Ids
<1>2. S \in SUBSET (0..MaxInst) /\ S # {} /\ MaxInst \in Nat
  BY InstanceAssumption DEF Index, Ids
<1>3. \A k \in S : k <= Max(S)
  <2>. HIDE DEF S
  <2>1. QED
    BY <1>2, MaxIsGreatest
<1>4. n = Max(S) + 1
  BY DEF MaxLocal
<1>5. Max(S) \in Int
  <2>. HIDE DEF S
  <2>1. Max(S) \in S
    BY <1>2, MaxIsGreatest
  <2>2. QED
    BY <1>2, <2>1
<1>6. ASSUME NEW y \in Ids, y.replica = r, y.instance >= n, inst[r][y].status # ABSENT
      PROVE  FALSE
  <2>1. y.instance \in S
    BY <1>6 DEF Index
  <2>2. y.instance <= Max(S) /\ y.instance \in Int
    <3>1. y.instance <= Max(S)
      <4>. HIDE DEF S
      <4>1. QED
        BY <1>3, <2>1
    <3>2. QED
      BY <1>6, <3>1 DEF Ids
  <2>. HIDE DEF S
  <2>3. QED
    BY <1>4, <1>5, <1>6, <2>2
<1>7. proposed[id] = NoCommand
  <2>1. SUFFICES ASSUME proposed[id] # NoCommand PROVE FALSE
    OBVIOUS
  <2>. HIDE DEF id
  <2>2. \E y \in Ids : y.replica = r /\ y.instance >= n /\ inst[r][y].status # ABSENT
    BY <1>1, <2>1 DEF Inv, Numbered
  <2>3. QED
    BY <1>6, <2>2
<1>8. inst[r][id].status = ABSENT
  <2>1. n >= n
    OBVIOUS
  <2>2. QED
    BY <1>1, <1>6, <2>1
<1>9. QED
  BY <1>1, <1>7, <1>8

\* propose gives a new number a command and ends in phase1.
LEMMA ProposeKeeps ==
    ASSUME Inv, NEW r \in Replicas, Propose(r)
    PROVE  Inv' /\ \A x \in Ids : proposed[x] # NoCommand => proposed'[x] = proposed[x]
<1>1. PICK c \in Command, n \in 1..MaxInst :
        LET id == [replica |-> r, instance |-> n]
        IN  /\ up[r]
            /\ n = MaxLocal(inst[r], r) + 1
            /\ proposed' = [proposed EXCEPT ![id] = c]
            /\ Phase1(r, id, EmptyBag, NewTracker, ProposalOf(r, id, c))
            /\ UNCHANGED timeouts
  BY Zenon DEF Propose
<1> DEFINE id == [replica |-> r, instance |-> n]
           m  == ProposalOf(r, id, c)
<1>2. id \in Ids /\ id.replica = r /\ proposed[id] = NoCommand
  BY <1>1, NextIsNew
<1>3. /\ up[r] /\ proposed' = [proposed EXCEPT ![id] = c]
      /\ Phase1(r, id, EmptyBag, NewTracker, m) /\ UNCHANGED timeouts
  BY <1>1, Zenon
<1>. HIDE DEF id
<1>4. /\ proposed' \in [Ids -> Command \union {NoCommand}] /\ proposed'[id] = c
      /\ \A x \in Ids : x # id => proposed'[x] = proposed[x]
  BY <1>2, <1>3 DEF Inv
<1>5. Data(inst, lt, net, proposed', AllCommitted(decided))
  <2>1. \A x \in Ids : proposed[x] \in {NoCommand, proposed'[x]}
    BY <1>2, <1>4
  <2>2. Data(inst, lt, net, proposed, AllCommitted(decided))
    BY DEF Inv
  <2>3. QED
    BY <2>1, <2>2, DataGrows
<1>6. Ready(r, id)
  <2>1. Numbered(inst, up, proposed', {x \in Ids : ~(x = id /\ x.replica = r)})
    BY <1>2, <1>4 DEF Inv, Numbered
  <2>2. QED
    BY <1>3, <1>4, <1>5, <2>1 DEF Inv, Ready
<1>7. NewTracker \in FitTracker(id)
  BY InitialRecords DEF FitTracker
<1>8. m \in FitMessage(id)
  <2>1. <<>> \in SoundList(AllCommitted(decided)) /\ 0 \in Seqs /\ 0 \in Ballot /\ NONE \in State
    BY InitialRecords, Counters, MessageAssumption DEF Seqs, State
  <2>2. QED
    BY <1>4, <2>1 DEF ProposalOf, FitMessage, OwnMessage, MessageOf, MessageType
<1>. HIDE DEF m
<1>9. Kept
  BY <1>2, <1>3, <1>6, <1>7, <1>8, Phase1Keeps
<1>10. Inv'
  BY <1>3, <1>4, <1>9, KeptInv DEF Inv
<1>11. QED
  BY <1>2, <1>4, <1>10

\* fast_path_timeout sends what the instance holds.
LEMMA FastPathTimeoutKeeps ==
    ASSUME Inv, NEW r \in Replicas, NEW id \in Ids, FastPathTimeout(r, id)
    PROVE  Inv'
<1>1. /\ up[r] /\ UNCHANGED proposed
      /\ timeouts' = [timeouts EXCEPT ![r] = @ + 1]
      /\ \/ ~Known(r, id) /\ Crash(r, EmptyBag)
         \/ /\ Known(r, id)
            /\ \E nack \in BOOLEAN :
                  Finish(r, id, EmptyBag, inst[r][id], lt[r][id], "slow",
                         <<AcceptOf(r, id, inst[r][id], nack)>>)
  <2>1. (IF r \in HeapReuse THEN BOOLEAN ELSE {FALSE}) \subseteq BOOLEAN
    OBVIOUS
  <2>2. QED
    BY <2>1, Zenon DEF FastPathTimeout
<1>2. Ready(r, id)
  BY <1>1, InvReady
<1>3. ASSUME NEW nack \in BOOLEAN, Known(r, id),
             Finish(r, id, EmptyBag, inst[r][id], lt[r][id], "slow",
                    <<AcceptOf(r, id, inst[r][id], nack)>>)
      PROVE  Kept
  <2> DEFINE i == inst[r][id]
             m == AcceptOf(r, id, i, nack)
  <2>1. i \in FitInstance(id) /\ Honest(r, id, i) /\ lt[r][id] \in FitTracker(id)
    BY <1>2, <1>3, FoundFits DEF Found
  <2>2. Finish(r, id, EmptyBag, i, lt[r][id], "slow", <<m>>)
    BY <1>3
  <2>. HIDE DEF i
  <2>3. m \in FitMessage(id)
    <3>1. NONE \in State
      BY DEF State
    <3>2. QED
      BY <1>3, <2>1, <3>1 DEF AcceptOf, FitInstance, InstanceOf, FitMessage, OwnMessage,
                              MessageOf, MessageType
  <2>. HIDE DEF m
  <2>4. "slow" \in Timer
    BY DEF Timer
  <2>5. QED
    BY <1>2, <2>1, <2>2, <2>3, <2>4, FitIsSent, SendsKeeps
<1>4. Kept
  BY <1>1, <1>2, <1>3, CrashKeeps
<1>5. QED
  <2>1. timeouts' \in [Replicas -> Nat] /\ proposed' \in [Ids -> Command \union {NoCommand}]
    BY <1>1 DEF Inv
  <2>2. QED
    BY <1>4, <2>1, KeptInv

\* slow_path_timeout recovers the instance.
LEMMA SlowPathTimeoutKeeps ==
    ASSUME Inv, NEW r \in Replicas, NEW id \in Ids, SlowPathTimeout(r, id)
    PROVE  Inv'
<1>1. /\ up[r] /\ UNCHANGED proposed
      /\ timeouts' = [timeouts EXCEPT ![r] = @ + 1]
      /\ \/ ~Known(r, id) /\ Crash(r, EmptyBag)
         \/ /\ Known(r, id)
            /\ Recover(r, id, EmptyBag, inst[r][id], lt[r][id], PrepareOf(r, id))
  BY Zenon DEF SlowPathTimeout
<1>2. Ready(r, id)
  BY <1>1, InvReady
<1>3. PrepareOf(r, id) \in FitLoose(id)
  <2>1. <<>> \in SoundList(AllCommitted(decided)) /\ 0 \in Seqs /\ 0 \in Ballot /\ NONE \in State
    BY InitialRecords, Counters, MessageAssumption DEF Seqs, State
  <2>2. QED
    BY <2>1 DEF PrepareOf, FitLoose, LooseMessage, MessageOf, MessageType
<1>4. ASSUME Known(r, id)
      PROVE  inst[r][id] \in FitInstance(id) /\ Honest(r, id, inst[r][id])
             /\ lt[r][id] \in FitTracker(id)
  BY <1>2, <1>4, FoundFits DEF Found
<1>5. Kept
  BY <1>1, <1>2, <1>3, <1>4, CrashKeeps, RecoverKeeps
<1>6. QED
  <2>1. timeouts' \in [Replicas -> Nat] /\ proposed' \in [Ids -> Command \union {NoCommand}]
    BY <1>1 DEF Inv
  <2>2. QED
    BY <1>5, <2>1, KeptInv

\* The executor marks an instance that r recorded as committed.
LEMMA ExecuteKeeps ==
    ASSUME Inv, NEW r \in Replicas, NEW id \in Ids, Execute(r, id)
    PROVE  Inv'
<1>1. /\ up[r] /\ id \in execq[r] /\ UNCHANGED <<proposed, timeouts>>
      /\ \/ ~Known(r, id) /\ Crash(r, EmptyBag)
         \/ /\ Known(r, id)
            /\ inst' = [inst EXCEPT ![r][id].status = EXECUTED]
            /\ execq' = [execq EXCEPT ![r] = @ \ {id}]
            /\ UNCHANGED <<lt, timer, net, io, up, dh, decided>>
  BY Zenon DEF Execute, history
<1>2. CASE ~Known(r, id) /\ Crash(r, EmptyBag)
  <2>1. Kept
    BY <1>1, <1>2, InvReady, CrashKeeps
  <2>2. QED
    BY <1>1, <2>1, KeptInv DEF Inv
<1>3. CASE /\ Known(r, id)
           /\ inst' = [inst EXCEPT ![r][id].status = EXECUTED]
           /\ execq' = [execq EXCEPT ![r] = @ \ {id}]
           /\ UNCHANGED <<lt, timer, net, io, up, dh, decided>>
  <2> DEFINE P  == proposed
             C  == AllCommitted(decided)
             i2 == [inst[r][id] EXCEPT !.status = EXECUTED]
  <2>1. /\ inst \in [Replicas -> [Ids -> Instance]]
        /\ \A q \in Replicas, x \in Ids :
              /\ inst[q][x] \in InstanceOf(P, C, x) \union {AbsentInstance}
              /\ inst[q][x].status >= COMMITTED => x \in decided[q]
    BY DEF Inv, Data, Recorded
  <2>2. inst[r][id] \in InstanceOf(P, C, id)
    BY <1>3, <2>1, InitialRecords DEF Known
  <2>3. i2 \in InstanceOf(P, C, id) /\ i2.status = EXECUTED
    BY <2>2 DEF InstanceOf, State
  <2>4. /\ DOMAIN inst' = Replicas
        /\ \A q \in Replicas : DOMAIN inst'[q] = Ids
        /\ inst'[r][id] = i2
        /\ \A q \in Replicas, x \in Ids : ~(q = r /\ x = id) => inst'[q][x] = inst[q][x]
    BY <1>3, <2>1
  <2>. HIDE DEF i2
  <2>5. i2 \in Instance
    <3>1. InstanceOf(P, C, id) \subseteq Instance
      BY InstanceOfType DEF Inv
    <3>2. QED
      BY <2>3, <3>1
  <2>6. inst' \in [Replicas -> [Ids -> Instance]]
    <3>1. inst' = [inst EXCEPT ![r] = [inst[r] EXCEPT ![id] = i2]]
      BY <1>3 DEF i2
    <3>2. QED
      BY <2>1, <2>5, <3>1
  <2>7. Data(inst', lt', net', proposed', AllCommitted(decided'))
    <3>1. /\ lt \in [Replicas -> [Ids -> Tracker]]
          /\ \A q \in Replicas, x \in Ids : lt[q][x] \in TrackerOf(P, C, x)
          /\ BagToSet(net) \subseteq SoundMessage(P, C)
      BY DEF Inv, Data
    <3>2. \A q \in Replicas, x \in Ids : inst'[q][x] \in InstanceOf(P, C, x) \union {AbsentInstance}
      BY <2>1, <2>3, <2>4
    <3>3. Data(inst', lt, net, P, C)
      BY <2>6, <3>1, <3>2 DEF Data
    <3>4. lt' = lt /\ net' = net /\ proposed' = proposed /\ decided' = decided
      BY <1>1, <1>3
    <3>5. QED
      BY <3>3, <3>4
  <2>8. Recorded(inst', decided')
    <3>1. id \in decided[r]
      BY <1>1 DEF Inv, Control
    <3>2. QED
      BY <1>3, <2>1, <2>4, <3>1 DEF Recorded
  <2>9. Numbered(inst', up', proposed', Ids)
    <3>1. \A q \in Replicas, x \in Ids : inst[q][x].status # ABSENT => inst'[q][x].status # ABSENT
      BY <2>3, <2>4 DEF EXECUTED, ABSENT
    <3>2. \A x \in Ids : x.replica \in Replicas
      BY DEF Ids
    <3>3. QED
      BY <1>1, <1>3, <3>1, <3>2 DEF Inv, Numbered
  <2>10. Control'
    BY <1>3 DEF Inv, Control
  <2>11. QED
    BY <1>1, <2>7, <2>8, <2>9, <2>10, KeptInv DEF Kept, Inv
<1>4. QED
  BY <1>1, <1>2, <1>3

-----------------------------------------------------------------------------

\* The inductive invariant holds when the replicas start.
LEMMA InvInit ==
    ASSUME Init
    PROVE  Inv
<1>1. Control
  BY DEF Init, Control, Timer
<1>2. /\ \A q \in Replicas, x \in Ids : inst[q][x] = AbsentInstance /\ lt[q][x] = NoTracker
      /\ BagToSet(net) = {}
  BY DEF Init, EmptyBag, SetToBag, BagToSet
<1>3. proposed \in [Ids -> Command \union {NoCommand}] /\ timeouts \in [Replicas -> Nat]
  BY DEF Init
<1>4. \A P, C : \A x \in Ids : NoTracker \in TrackerOf(P, C, x)
  BY InitialRecords
<1>5. AbsentInstance \in Instance /\ NoTracker \in Tracker
  <2>1. AbsentInstance \in Instance
    BY InitialRecords
  <2>2. ASSUME NEW x \in Ids
        PROVE  NoTracker \in Tracker
    BY <1>3, <1>4, InstanceOfType
  <2>3. [replica |-> 0, instance |-> 1] \in Ids
    BY InstanceAssumption DEF Ids, Replicas
  <2>4. QED
    BY <2>1, <2>2, <2>3
<1>6. inst \in [Replicas -> [Ids -> Instance]] /\ lt \in [Replicas -> [Ids -> Tracker]]
  BY <1>5 DEF Init
<1>7. Data(inst, lt, net, proposed, AllCommitted(decided))
  BY <1>2, <1>4, <1>6 DEF Data
<1>8. Recorded(inst, decided)
  BY <1>2, InitialRecords DEF Recorded, ABSENT, COMMITTED
<1>9. Numbered(inst, up, proposed, Ids)
  BY DEF Init, Numbered
<1>10. QED
  BY <1>1, <1>3, <1>7, <1>8, <1>9 DEF Inv

\* Every step keeps the inductive invariant and every proposed command.
LEMMA InvStep ==
    ASSUME Inv, [Next]_vars
    PROVE  Inv' /\ \A x \in Ids : proposed[x] # NoCommand => proposed'[x] = proposed[x]
<1>1. ASSUME NEW r \in Leaders, Propose(r)
      PROVE  Inv' /\ \A x \in Ids : proposed[x] # NoCommand => proposed'[x] = proposed[x]
  BY <1>1, ProposeKeeps, ReplicaAssumption
<1>2. ASSUME NEW r \in Replicas, Receive(r)
      PROVE  Inv' /\ proposed' = proposed
  BY <1>2, ReceiveKeeps
<1>3. ASSUME NEW r \in Replicas, NEW id \in Ids, FastPathTimeout(r, id)
      PROVE  Inv' /\ proposed' = proposed
  BY <1>3, FastPathTimeoutKeeps DEF FastPathTimeout
<1>4. ASSUME NEW r \in Replicas, NEW id \in Ids, SlowPathTimeout(r, id)
      PROVE  Inv' /\ proposed' = proposed
  BY <1>4, SlowPathTimeoutKeeps DEF SlowPathTimeout
<1>5. ASSUME NEW r \in Executors, NEW id \in Ids, Execute(r, id)
      PROVE  Inv' /\ proposed' = proposed
  BY <1>5, ExecuteKeeps, ReplicaAssumption DEF Execute, history
<1>6. CASE UNCHANGED vars
  BY <1>6 DEF vars, Inv, Control
<1>7. QED
  BY <1>1, <1>2, <1>3, <1>4, <1>5, <1>6 DEF Next

\* What a handler reads of a message that is under way.
LEMMA ReadIs ==
    ASSUME Inv, NEW r \in Replicas, NEW e \in BagToSet(net), NEW m \in Decode(e, inst[r])
    PROVE  /\ e.id \in Ids /\ e.from \in Replicas
           /\ m \in Message /\ m.type = e.type /\ m.from = e.from /\ m.id = e.id
           /\ m.ballot = e.ballot /\ m.nack = e.nack
           /\ m.cmd = IF e.type = "PRE_ACCEPT_OK" THEN Junk ELSE e.cmd
<1>1. e \in SoundMessage(proposed, AllCommitted(decided))
  BY DEF Inv, Data
<1>2. e.id \in Ids /\ e.from \in Replicas
  BY <1>1 DEF SoundMessage, Message
<1>3. SoundStore(inst[r], AllCommitted(decided))
  <2>1. SUFFICES ASSUME NEW x \in Ids
                 PROVE  /\ inst[r][x].status \in State \union {ABSENT}
                        /\ inst[r][x].seq \in Seqs
                        /\ inst[r][x].deps \in SoundList(AllCommitted(decided))
                        /\ IsCommitted(inst[r][x].status) => x \in AllCommitted(decided)
    BY DEF SoundStore
  <2>2. /\ inst[r][x] \in InstanceOf(proposed, AllCommitted(decided), x) \union {AbsentInstance}
        /\ inst[r][x].status >= COMMITTED => x \in decided[r]
    BY DEF Inv, Data, Recorded
  <2>3. /\ AbsentInstance.status = ABSENT /\ AbsentInstance.seq = 0
        /\ AbsentInstance.deps \in SoundList(AllCommitted(decided)) /\ 0 \in Seqs
    BY InitialRecords, MessageAssumption DEF Seqs
  <2>4. IsCommitted(inst[r][x].status) => x \in AllCommitted(decided)
    BY <2>2 DEF IsCommitted, AllCommitted
  <2>5. QED
    BY <2>2, <2>3, <2>4 DEF InstanceOf
<1>4. QED
  BY <1>1, <1>2, <1>3, DecodeSound

\* Inv holds in every reachable state.
LEMMA Invariance == Spec => []Inv
<1>1. Init => Inv
  BY InvInit
<1>2. Inv /\ [Next]_vars => Inv'
  BY InvStep
<1>3. QED
  BY <1>1, <1>2, PTL DEF Spec

\* Every variable keeps its type, the bounded dependency arrays included: no
\* merge, decoding or search of a handler (epaxos.c) makes one longer than
\* MAX_DEPS or puts anything but a dependency into it.
THEOREM ReplicaTypes == Spec => []TypeOK
<1>1. Inv => TypeOK
  BY DEF Inv, Control, Data, SoundMessage, TypeOK
<1>2. QED
  BY <1>1, Invariance, PTL

\* No instance, recovery or message holds a command that was not proposed
\* under its id, whatever handlers reuse a message for (epaxos.c) and decoding
\* leaves unwritten (message.c:59).
THEOREM CommandsKept == Spec => []CommandIntegrity
<1>1. Inv => CommandIntegrity
  <2>1. SUFFICES ASSUME Inv PROVE CommandIntegrity
    OBVIOUS
  <2>2. ASSUME NEW q \in Replicas, NEW x \in Ids
        PROVE  inst[q][x].cmd \in Own(x) /\ lt[q][x].ri.cmd \in Own(x)
    <3>1. /\ inst[q][x] \in InstanceOf(proposed, AllCommitted(decided), x) \union {AbsentInstance}
          /\ lt[q][x] \in TrackerOf(proposed, AllCommitted(decided), x)
      BY <2>1 DEF Inv, Data
    <3>2. AbsentInstance.cmd = NoCommand
      BY DEF AbsentInstance, NewInstance
    <3>3. lt[q][x].ri \in RecoveryOf(proposed, AllCommitted(decided), x)
      BY <3>1 DEF TrackerOf
    <3>4. QED
      BY <3>1, <3>2, <3>3 DEF InstanceOf, RecoveryOf, Own
  <2>3. BagToSet(net) \subseteq SoundMessage(proposed, AllCommitted(decided))
    BY <2>1 DEF Inv, Data
  <2>4. QED
    BY <2>2, <2>3 DEF CommandIntegrity, Own, SoundMessage
<1>2. QED
  BY <1>1, Invariance, PTL

\* A dependency that carries the committed flag, anywhere, was committed by
\* some replica: has_uncommitted_deps (instance.c:186) can be believed.
THEOREM FlagsSound == Spec => []CommittedDepsSound
<1>1. Inv => CommittedDepsSound
  <2>1. SUFFICES ASSUME Inv PROVE CommittedDepsSound
    OBVIOUS
  <2> DEFINE C == AllCommitted(decided)
  <2>2. \A ds \in SoundList(C) : Flagged(ds) \subseteq C
    BY DEF SoundList, Flagged
  <2>3. ASSUME NEW q \in Replicas, NEW x \in Ids
        PROVE  inst[q][x].deps \in SoundList(C) /\ lt[q][x].ri.deps \in SoundList(C)
    <3>1. /\ inst[q][x] \in InstanceOf(proposed, C, x) \union {AbsentInstance}
          /\ lt[q][x] \in TrackerOf(proposed, C, x)
      BY <2>1 DEF Inv, Data
    <3>2. AbsentInstance.deps \in SoundList(C)
      BY InitialRecords
    <3>3. lt[q][x].ri \in RecoveryOf(proposed, C, x)
      BY <3>1 DEF TrackerOf
    <3>. HIDE DEF C
    <3>4. QED
      BY <3>1, <3>2, <3>3 DEF InstanceOf, RecoveryOf
  <2>4. \A m \in BagToSet(net) : m.deps \in SoundList(C)
    BY <2>1 DEF Inv, Data, SoundMessage
  <2>5. C = UNION {decided[r] : r \in Replicas}
    BY DEF AllCommitted
  <2>. HIDE DEF C
  <2>6. QED
    BY <2>2, <2>3, <2>4, <2>5 DEF CommittedDepsSound
<1>2. QED
  BY <1>1, Invariance, PTL

\* No number is handed out twice, although max_local (replica.c:206) asks an
\* index that clear_index empties: clear leaves the highest instance.
THEOREM NumbersUsedOnce == Spec => NumberUsedOnce
<1>1. Inv /\ [Next]_vars =>
        [\A id \in Ids : proposed[id] # NoCommand => proposed'[id] = proposed[id]]_vars
  BY InvStep
<1>2. QED
  BY <1>1, Invariance, PTL DEF Spec, NumberUsedOnce

=============================================================================
