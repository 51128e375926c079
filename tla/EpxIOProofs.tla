----------------------------- MODULE EpxIOProofs -----------------------------
(***************************************************************************)
(* EpxIO keeps its types, and accounts for every reference of every        *)
(* message, for each number of nodes, size of the rings, table of targets  *)
(* and number of threads.                                                  *)
(*                                                                         *)
(* The invariant adds to RefsAccounted what its steps rest on: a message   *)
(* the replica or io_reader has yet to look at is on one channel, once,    *)
(* with one reference, and in no ring or hand (Accounted, Once); memory    *)
(* that was never allocated is nowhere (Fresh); and the room connection_-  *)
(* write saw on a ring is still there when it stores the entry, for only   *)
(* io_reader puts messages on it (Control).                                *)
(***************************************************************************)
EXTENDS EpxIO, FiniteSetTheorems, TLAPS

Copies(c) == Outstanding(c) + lost[c]

Control ==
    /\ io \in [at : {"idle", "push", "store", "look", "stopped"},
               m : Cell \union {NoCell}, to : Seq(Replicas)]
    /\ io.at \in {"push", "store", "look"} => io.m \in Cell /\ io.to # <<>>
    /\ io.at \in {"idle", "stopped"} => io.m = NoCell
    /\ io.at = "store" => Len(conn[Head(io.to)].q) < Capacity - 1
    /\ \A t \in Thread : thr[t].at = "open" => thr[t].tries < MaxTries

Types ==
    /\ made \in 0..Cells
    /\ ref \in [Cell -> Nat]
    /\ lost \in [Cell -> Nat]
    /\ chan_step \in Seq([m : Cell, from : Replicas])
    /\ chan_io \in Seq([m : Cell, type : Requests \union Answers, from : Replicas])
    /\ conn \in [Replicas -> [status : {"DEAD", "CONNECTING", "ALIVE"}, init : BOOLEAN,
                              q : Seq(Cell), tid : Thread \union {NoThread}]]
    /\ \A p \in Replicas : Len(conn[p].q) < Capacity
    /\ thr \in [Thread -> [peer : Replicas, at : At, tries : 0..MaxTries,
                           m : Cell \union {NoCell}, cancelled : BOOLEAN]]
    /\ \A t \in Thread : thr[t].m # NoCell <=> thr[t].at \in {"send", "sent", "fail"}
    /\ faults \in 0..MaxFaults
    /\ accepts \in 0..MaxAccepts
    /\ undefined \in BOOLEAN

Distinct(q) == \A j, k \in DOMAIN q : q[j].m = q[k].m => j = k

Once ==
    /\ Distinct(chan_step)
    /\ Distinct(chan_io)
    /\ CellsIn(chan_step) \intersect CellsIn(chan_io) = {}

Accounted ==
    \A c \in Cell :
        /\ c \in Waiting => ref[c] = 1 /\ Copies(c) = 0
        /\ c \notin Waiting => ref[c] = Copies(c)
        /\ ref[c] <= N

Fresh == \A c \in Cell : c > made => c \notin Waiting /\ ref[c] = 0

IoInv == Types /\ Control /\ Once /\ Accounted /\ Fresh

-----------------------------------------------------------------------------
(* Channels.                                                               *)

\* What is sent on a channel is on it, unless the ring is full.
LEMMA EnqueueCells ==
    ASSUME NEW S, NEW q \in Seq(S), Distinct(q), NEW e \in S, e.m \notin CellsIn(q)
    PROVE  /\ Enqueue(q, e) \in Seq(S)
           /\ Distinct(Enqueue(q, e))
           /\ CellsIn(Enqueue(q, e)) =
                 IF Len(q) < Capacity - 1 THEN CellsIn(q) \union {e.m} ELSE CellsIn(q)
<1>1. CASE Len(q) < Capacity - 1
  <2>1. /\ Append(q, e) \in Seq(S)
        /\ DOMAIN Append(q, e) = 1..(Len(q) + 1)
        /\ DOMAIN q = 1..Len(q) /\ Len(q) \in Nat
        /\ \A k \in 1..Len(q) : Append(q, e)[k] = q[k]
        /\ Append(q, e)[Len(q) + 1] = e
    OBVIOUS
  <2>2. \A k \in DOMAIN q : q[k].m # e.m
    BY DEF CellsIn
  <2>3. Distinct(Append(q, e))
    BY <2>1, <2>2 DEF Distinct
  <2>4. CellsIn(Append(q, e)) = CellsIn(q) \union {e.m}
    BY <2>1 DEF CellsIn
  <2>5. QED
    BY <1>1, <2>1, <2>3, <2>4 DEF Enqueue
<1>2. CASE ~(Len(q) < Capacity - 1)
  BY <1>2 DEF Enqueue
<1>3. QED
  BY <1>1, <1>2

\* What is received is off it.
LEMMA TailCells ==
    ASSUME NEW S, NEW q \in Seq(S), Distinct(q), q # <<>>
    PROVE  /\ Head(q) \in S
           /\ Tail(q) \in Seq(S)
           /\ Distinct(Tail(q))
           /\ Head(q).m \in CellsIn(q)
           /\ CellsIn(Tail(q)) = CellsIn(q) \ {Head(q).m}
<1>1. /\ Head(q) \in S /\ Head(q) = q[1]
      /\ Tail(q) \in Seq(S)
      /\ DOMAIN Tail(q) = 1..(Len(q) - 1)
      /\ DOMAIN q = 1..Len(q) /\ Len(q) \in Nat \ {0}
      /\ \A k \in 1..(Len(q) - 1) : Tail(q)[k] = q[k + 1]
  OBVIOUS
<1>2. Distinct(Tail(q))
  <2>1. \A j, k \in 1..(Len(q) - 1) : q[j + 1].m = q[k + 1].m => j + 1 = k + 1
    BY <1>1 DEF Distinct
  <2>2. QED
    BY <1>1, <2>1 DEF Distinct
<1>3. Head(q).m \in CellsIn(q)
  BY <1>1 DEF CellsIn
<1>4. ASSUME NEW c \in CellsIn(Tail(q))
      PROVE  c \in CellsIn(q) /\ c # Head(q).m
  <2>1. PICK k \in 1..(Len(q) - 1) : c = q[k + 1].m
    BY <1>1 DEF CellsIn
  <2>2. k + 1 \in DOMAIN q /\ 1 \in DOMAIN q /\ k + 1 # 1
    BY <1>1
  <2>3. QED
    BY <1>1, <2>1, <2>2 DEF CellsIn, Distinct
<1>5. ASSUME NEW c \in CellsIn(q), c # Head(q).m
      PROVE  c \in CellsIn(Tail(q))
  <2>1. PICK k \in 1..Len(q) : c = q[k].m
    BY <1>1 DEF CellsIn
  <2>2. k - 1 \in 1..(Len(q) - 1) /\ (k - 1) + 1 = k
    BY <1>1, <1>5, <2>1
  <2>3. Tail(q)[k - 1] = q[k]
    BY <1>1, <2>2
  <2>4. QED
    BY <1>1, <2>1, <2>2, <2>3 DEF CellsIn
<1>6. QED
  BY <1>1, <1>2, <1>3, <1>4, <1>5

-----------------------------------------------------------------------------
(* Rings.                                                                  *)

\* The slots of a table cn of rings that hold c, those of one ring q of p, and
\* those of the rings of the others.
SlotsOf(cn, c) == {s \in Replicas \X (1..Capacity) :
                      s[2] \in DOMAIN cn[s[1]].q /\ cn[s[1]].q[s[2]] = c}
Held(p, q, c) == {s \in {p} \X (1..Capacity) : s[2] \in DOMAIN q /\ q[s[2]] = c}
Elsewhere(cn, p, c) == {s \in (Replicas \ {p}) \X (1..Capacity) :
                           s[2] \in DOMAIN cn[s[1]].q /\ cn[s[1]].q[s[2]] = c}

\* One ring and the others add up.
LEMMA SlotsAdd ==
    ASSUME NEW cn, NEW p \in Replicas, NEW c
    PROVE  /\ IsFiniteSet(Held(p, cn[p].q, c))
           /\ Cardinality(Held(p, cn[p].q, c)) \in Nat
           /\ Cardinality(Elsewhere(cn, p, c)) \in Nat
           /\ Cardinality(SlotsOf(cn, c)) =
                 Cardinality(Held(p, cn[p].q, c)) + Cardinality(Elsewhere(cn, p, c))
<1> DEFINE A == Held(p, cn[p].q, c)
           B == Elsewhere(cn, p, c)
<1>1. IsFiniteSet(Replicas \X (1..Capacity))
  <2>1. IsFiniteSet(Replicas) /\ IsFiniteSet(1..Capacity)
    BY FS_Interval, IoAssumption, InstanceAssumption DEF Replicas
  <2>2. QED
    BY <2>1, FS_Product
<1>2. /\ A \in SUBSET (Replicas \X (1..Capacity))
      /\ B \in SUBSET (Replicas \X (1..Capacity))
  BY DEF Held, Elsewhere
<1>3. IsFiniteSet(A) /\ IsFiniteSet(B)
  <2>. HIDE DEF A, B
  <2>1. QED
    BY <1>1, <1>2, FS_Subset
<1>4. SlotsOf(cn, c) = A \union B /\ A \intersect B = {}
  BY DEF Held, Elsewhere, SlotsOf
<1>5. /\ Cardinality(A) \in Nat /\ Cardinality(B) \in Nat
      /\ Cardinality(A \intersect B) = 0
      /\ Cardinality(A \union B) = Cardinality(A) + Cardinality(B) - Cardinality(A \intersect B)
  <2>. HIDE DEF A, B
  <2>1. QED
    BY <1>3, <1>4, FS_Union, FS_CardinalityType, FS_EmptySet
<1>6. QED
  BY <1>3, <1>4, <1>5

\* A finite set is as large as one it is the image of, one to one.
LEMMA BijectionBack ==
    ASSUME NEW A, NEW B, NEW f \in Bijection(A, B), IsFiniteSet(B)
    PROVE  IsFiniteSet(A) /\ Cardinality(A) = Cardinality(B)
BY FS_Injection DEF Bijection

\* What a ring gains from an entry stored at its end.
LEMMA HeldAppend ==
    ASSUME NEW p \in Replicas, NEW q \in Seq(Cell), Len(q) < Capacity, NEW e \in Cell, NEW c,
           IsFiniteSet(Held(p, q, c))
    PROVE  Cardinality(Held(p, Append(q, e), c)) =
               Cardinality(Held(p, q, c)) + (IF c = e THEN 1 ELSE 0)
<1> DEFINE n == Len(q) + 1
<1>1. /\ n \in 1..Capacity /\ Len(q) \in Nat
      /\ DOMAIN q = 1..Len(q) /\ DOMAIN Append(q, e) = 1..n
      /\ \A k \in 1..Len(q) : Append(q, e)[k] = q[k]
      /\ Append(q, e)[n] = e
  BY IoAssumption
<1>2. <<p, n>> \notin Held(p, q, c)
  BY <1>1 DEF Held
<1>3. CASE c = e
  <2>1. Held(p, Append(q, e), c) = Held(p, q, c) \union {<<p, n>>}
    BY <1>1, <1>3 DEF Held
  <2>2. Cardinality(Held(p, q, c) \union {<<p, n>>}) = Cardinality(Held(p, q, c)) + 1
    <3>. HIDE DEF n
    <3>1. QED
      BY <1>2, FS_AddElement
  <2>3. QED
    BY <1>3, <2>1, <2>2
<1>4. CASE c # e
  <2>1. Held(p, Append(q, e), c) = Held(p, q, c)
    BY <1>1, <1>4 DEF Held
  <2>2. Cardinality(Held(p, q, c)) \in Nat
    BY FS_CardinalityType
  <2>3. QED
    BY <1>4, <2>1, <2>2
<1>5. QED
  BY <1>3, <1>4

\* What it loses with the entry at its head.
LEMMA HeldTail ==
    ASSUME NEW p \in Replicas, NEW q \in Seq(Cell), q # <<>>, Len(q) < Capacity, NEW c,
           IsFiniteSet(Held(p, q, c))
    PROVE  Cardinality(Held(p, Tail(q), c)) =
               Cardinality(Held(p, q, c)) - (IF c = Head(q) THEN 1 ELSE 0)
<1> DEFINE A == Held(p, Tail(q), c)
           B == Held(p, q, c) \ {<<p, 1>>}
           f == [s \in A |-> <<p, s[2] + 1>>]
<1>1. /\ Len(q) \in Nat /\ Len(q) > 0
      /\ DOMAIN q = 1..Len(q) /\ DOMAIN Tail(q) = 1..(Len(q) - 1)
      /\ \A k \in 1..(Len(q) - 1) : Tail(q)[k] = q[k + 1]
      /\ Head(q) = q[1]
  OBVIOUS
<1>2. f \in Bijection(A, B)
  <2>1. \A s \in A : s = <<p, s[2]>> /\ s[2] \in 1..(Len(q) - 1) /\ q[s[2] + 1] = c
    BY <1>1 DEF Held
  <2>2. \A s \in A : f[s] \in B
    BY <1>1, <2>1, IoAssumption DEF Held
  <2>3. \A s, t \in A : f[s] = f[t] => s = t
    BY <2>1
  <2>4. ASSUME NEW u \in B
        PROVE  \E s \in A : f[s] = u
    <3>1. u = <<p, u[2]>> /\ u[2] \in 2..Len(q) /\ q[u[2]] = c
      BY <1>1 DEF Held
    <3>2. <<p, u[2] - 1>> \in A
      BY <1>1, <3>1, IoAssumption DEF Held
    <3>3. f[<<p, u[2] - 1>>] = u
      BY <3>1, <3>2
    <3>4. QED
      BY <3>2, <3>3
  <2>5. QED
    <3>. HIDE DEF A, B
    <3>1. f \in [A -> B] /\ IsInjective(f)
      BY <2>2, <2>3 DEF IsInjective
    <3>2. QED
      BY <2>4, <3>1 DEF Bijection, Injection, Surjection
<1>3. /\ IsFiniteSet(B)
      /\ Cardinality(B) = IF <<p, 1>> \in Held(p, q, c) THEN Cardinality(Held(p, q, c)) - 1
                          ELSE Cardinality(Held(p, q, c))
  BY FS_RemoveElement
<1>4. Cardinality(A) = Cardinality(B)
  BY <1>2, <1>3, BijectionBack
<1>5. <<p, 1>> \in Held(p, q, c) <=> c = Head(q)
  BY <1>1, IoAssumption DEF Held
<1>6. Cardinality(Held(p, q, c)) \in Nat
  BY FS_CardinalityType
<1>7. QED
  BY <1>3, <1>4, <1>5, <1>6

\* The entries of a ring q that are c.
Entries(q, c) == {k \in DOMAIN q : q[k] = c}

\* The entries of a ring that is initialised are the ones Drop counts.
LEMMA HeldDropped ==
    ASSUME NEW p \in Replicas, NEW q \in Seq(Cell), Len(q) < Capacity, NEW c,
           IsFiniteSet(Held(p, q, c))
    PROVE  Cardinality(Entries(q, c)) = Cardinality(Held(p, q, c))
<1> DEFINE A == Entries(q, c)
           B == Held(p, q, c)
           f == [k \in A |-> <<p, k>>]
<1>1. /\ Len(q) \in Nat /\ DOMAIN q = 1..Len(q) /\ Capacity \in Nat
  BY IoAssumption
<1>2. \A k \in A : f[k] \in B
  BY <1>1 DEF Held, Entries
<1>3. \A j, k \in A : f[j] = f[k] => j = k
  OBVIOUS
<1>4. ASSUME NEW u \in B
      PROVE  \E k \in A : f[k] = u
  <2>1. u = <<p, u[2]>> /\ u[2] \in A
    BY DEF Held, Entries
  <2>2. QED
    BY <2>1
<1>5. f \in Bijection(A, B)
  <2>. HIDE DEF A, B
  <2>1. f \in [A -> B] /\ IsInjective(f)
    BY <1>2, <1>3 DEF IsInjective
  <2>2. QED
    BY <1>4, <2>1 DEF Bijection, Injection, Surjection
<1>6. QED
  BY <1>5, BijectionBack

\* io_reader stores an entry.
LEMMA SlotsAppend ==
    ASSUME NEW cn, NEW cn2, NEW p \in Replicas, NEW c,
           Elsewhere(cn2, p, c) = Elsewhere(cn, p, c),
           cn[p].q \in Seq(Cell), Len(cn[p].q) < Capacity, NEW e \in Cell,
           cn2[p].q = Append(cn[p].q, e)
    PROVE  Cardinality(SlotsOf(cn2, c)) = Cardinality(SlotsOf(cn, c)) + (IF c = e THEN 1 ELSE 0)
<1>1. Cardinality(Held(p, cn2[p].q, c)) =
          Cardinality(Held(p, cn[p].q, c)) + (IF c = e THEN 1 ELSE 0)
  <2>1. IsFiniteSet(Held(p, cn[p].q, c))
    BY SlotsAdd
  <2>2. QED
    BY <2>1, HeldAppend
<1>3. /\ Cardinality(Held(p, cn[p].q, c)) \in Nat /\ Cardinality(Elsewhere(cn, p, c)) \in Nat
      /\ Cardinality(SlotsOf(cn, c)) =
            Cardinality(Held(p, cn[p].q, c)) + Cardinality(Elsewhere(cn, p, c))
      /\ Cardinality(SlotsOf(cn2, c)) =
            Cardinality(Held(p, cn2[p].q, c)) + Cardinality(Elsewhere(cn2, p, c))
  BY SlotsAdd, Zenon
<1>4. QED
  BY <1>1, <1>3

\* A reader takes one.
LEMMA SlotsTail ==
    ASSUME NEW cn, NEW cn2, NEW p \in Replicas, NEW c,
           Elsewhere(cn2, p, c) = Elsewhere(cn, p, c),
           cn[p].q \in Seq(Cell), Len(cn[p].q) < Capacity, cn[p].q # <<>>,
           cn2[p].q = Tail(cn[p].q)
    PROVE  Cardinality(SlotsOf(cn2, c)) =
               Cardinality(SlotsOf(cn, c)) - (IF c = Head(cn[p].q) THEN 1 ELSE 0)
<1>1. Cardinality(Held(p, cn2[p].q, c)) =
          Cardinality(Held(p, cn[p].q, c)) - (IF c = Head(cn[p].q) THEN 1 ELSE 0)
  <2>1. IsFiniteSet(Held(p, cn[p].q, c))
    BY SlotsAdd
  <2>2. QED
    BY <2>1, HeldTail
<1>3. /\ Cardinality(Held(p, cn[p].q, c)) \in Nat /\ Cardinality(Elsewhere(cn, p, c)) \in Nat
      /\ Cardinality(SlotsOf(cn, c)) =
            Cardinality(Held(p, cn[p].q, c)) + Cardinality(Elsewhere(cn, p, c))
      /\ Cardinality(SlotsOf(cn2, c)) =
            Cardinality(Held(p, cn2[p].q, c)) + Cardinality(Elsewhere(cn2, p, c))
  BY SlotsAdd, Zenon
<1>4. QED
  BY <1>1, <1>3

\* A thread initialises its ring.
LEMMA SlotsReset ==
    ASSUME NEW cn, NEW cn2, NEW p \in Replicas, NEW c,
           Elsewhere(cn2, p, c) = Elsewhere(cn, p, c),
           cn[p].q \in Seq(Cell), Len(cn[p].q) < Capacity, cn2[p].q = <<>>
    PROVE  /\ Cardinality(Entries(cn[p].q, c)) \in Nat
           /\ Cardinality(SlotsOf(cn2, c)) = Cardinality(SlotsOf(cn, c))
                 - Cardinality(Entries(cn[p].q, c))
<1>1. Held(p, cn2[p].q, c) = {}
  BY DEF Held
<1>2. Cardinality(Held(p, cn2[p].q, c)) = 0
  BY <1>1, FS_EmptySet
<1>3. Cardinality(Entries(cn[p].q, c)) = Cardinality(Held(p, cn[p].q, c))
  <2>1. IsFiniteSet(Held(p, cn[p].q, c))
    BY SlotsAdd
  <2>2. QED
    BY <2>1, HeldDropped
<1>5. /\ Cardinality(Held(p, cn[p].q, c)) \in Nat /\ Cardinality(Elsewhere(cn, p, c)) \in Nat
      /\ Cardinality(SlotsOf(cn, c)) =
            Cardinality(Held(p, cn[p].q, c)) + Cardinality(Elsewhere(cn, p, c))
      /\ Cardinality(SlotsOf(cn2, c)) =
            Cardinality(Held(p, cn2[p].q, c)) + Cardinality(Elsewhere(cn2, p, c))
  BY SlotsAdd, Zenon
<1>6. QED
  BY <1>2, <1>3, <1>5

-----------------------------------------------------------------------------
(* Hands.                                                                  *)

\* The threads of a table th that have c in hand.
Hands(th, c) == {t \in Thread : th[t].m = c}

\* Their number is a number.
LEMMA HandsFinite ==
    ASSUME NEW th, NEW c
    PROVE  IsFiniteSet(Hands(th, c)) /\ Cardinality(Hands(th, c)) \in Nat
<1>1. IsFiniteSet(Thread)
  BY FS_Interval, IoAssumption DEF Thread
<1>2. Hands(th, c) \in SUBSET Thread
  BY DEF Hands
<1>3. QED
  BY <1>1, <1>2, FS_Subset, FS_CardinalityType

\* One thread takes a message, or lets go of it.
LEMMA HandChanges ==
    ASSUME NEW th, NEW th2, NEW t \in Thread, NEW c,
           Hands(th2, c) \ {t} = Hands(th, c) \ {t}
    PROVE  Cardinality(Hands(th2, c)) = Cardinality(Hands(th, c))
               - (IF th[t].m = c THEN 1 ELSE 0) + (IF th2[t].m = c THEN 1 ELSE 0)
<1> DEFINE A == Hands(th, c) \ {t}
<1>1. IsFiniteSet(A) /\ t \notin A
  BY HandsFinite, FS_RemoveElement
<1>2. /\ Hands(th, c) = IF th[t].m = c THEN A \union {t} ELSE A
      /\ Hands(th2, c) = IF th2[t].m = c THEN A \union {t} ELSE A
  BY DEF Hands
<1>3. Cardinality(A) \in Nat /\ Cardinality(A \union {t}) = Cardinality(A) + 1
  <2>. HIDE DEF A
  <2>1. QED
    BY <1>1, FS_AddElement, FS_CardinalityType
<1>4. QED
  <2>. HIDE DEF A
  <2>1. QED
    BY <1>2, <1>3

-----------------------------------------------------------------------------
(* The account of a message.                                               *)

ThreadRecord == [peer : Replicas, at : At, tries : 0..MaxTries,
                 m : Cell \union {NoCell}, cancelled : BOOLEAN]
ConnRecord == [status : {"DEAD", "CONNECTING", "ALIVE"}, init : BOOLEAN,
               q : Seq(Cell), tid : Thread \union {NoThread}]

\* The copies of a message, in terms of the tables of rings and threads.
LEMMA CopiesAre ==
    ASSUME NEW c
    PROVE  /\ Copies(c) = Cardinality(SlotsOf(conn, c)) + Cardinality(Hands(thr, c))
                             + Unsent(c) + lost[c]
           /\ Copies(c)' = Cardinality(SlotsOf(conn', c)) + Cardinality(Hands(thr', c))
                             + Unsent(c)' + lost'[c]
<1>1. /\ Slots(c) = SlotsOf(conn, c)
      /\ Slots(c)' = SlotsOf(conn', c)
  BY DEF Slots, SlotsOf
<1>2. /\ InHand(c) = Cardinality(Hands(thr, c))
      /\ InHand(c)' = Cardinality(Hands(thr', c))
  BY DEF InHand, Hands
<1>3. QED
  BY <1>1, <1>2 DEF Copies, Outstanding

\* Its parts are numbers.
LEMMA PartsAreNumbers ==
    ASSUME Types, Control, NEW c \in Cell
    PROVE  /\ Cardinality(SlotsOf(conn, c)) \in Nat
           /\ Cardinality(Hands(thr, c)) \in Nat
           /\ Unsent(c) \in Nat
           /\ lost[c] \in Nat
<1>1. Cardinality(SlotsOf(conn, c)) \in Nat
  <2>1. /\ Cardinality(Held(Me, conn[Me].q, c)) \in Nat
        /\ Cardinality(Elsewhere(conn, Me, c)) \in Nat
        /\ Cardinality(SlotsOf(conn, c)) =
              Cardinality(Held(Me, conn[Me].q, c)) + Cardinality(Elsewhere(conn, Me, c))
    BY SlotsAdd, IoAssumption
  <2>2. QED
    BY <2>1
<1>2. Unsent(c) \in Nat
  <2>1. CASE io.m = c
    <3>1. io.at \in {"push", "store", "look"} /\ io.to \in Seq(Replicas) /\ io.to # <<>>
      BY <2>1 DEF Control, Cell, NoCell
    <3>2. Len(io.to) \in Nat /\ Len(io.to) > 0
      BY <3>1
    <3>3. QED
      BY <2>1, <3>2 DEF Unsent
  <2>2. QED
    BY <2>1 DEF Unsent
<1>3. QED
  BY <1>1, <1>2, HandsFinite DEF Types

\* A step that touches no reference, no channel and not the number of copies.
LEMMA QuietKeeps ==
    ASSUME Once, Accounted, Fresh, UNCHANGED <<made, ref, chan_step, chan_io>>,
           \A c \in Cell : Copies(c)' = Copies(c)
    PROVE  Once' /\ Accounted' /\ Fresh'
<1>1. Waiting' = Waiting
  BY DEF Waiting, CellsIn
<1>2. Accounted'
  BY <1>1 DEF Accounted
<1>3. Once' /\ Fresh'
  BY <1>1 DEF Once, Fresh, CellsIn, Distinct
<1>4. QED
  BY <1>2, <1>3

\* A step after which every ring and every hand holds what it held.
LEMMA StillKeeps ==
    ASSUME IoInv, UNCHANGED <<made, ref, lost, chan_step, chan_io, io>>,
           \A p \in Replicas : conn'[p].q = conn[p].q,
           \A t \in Thread : thr'[t].m = thr[t].m
    PROVE  Once' /\ Accounted' /\ Fresh'
<1>1. ASSUME NEW c \in Cell
      PROVE  Copies(c)' = Copies(c)
  <2>1. SlotsOf(conn', c) = SlotsOf(conn, c)
    BY DEF SlotsOf
  <2>2. Hands(thr', c) = Hands(thr, c)
    BY DEF Hands
  <2>3. Unsent(c)' = Unsent(c)
    BY DEF Unsent
  <2>4. QED
    BY <2>1, <2>2, <2>3, CopiesAre
<1>2. QED
  BY <1>1, QuietKeeps DEF IoInv

\* A step of one thread that leaves the rings and the hand of the thread alone.
LEMMA ThreadKeeps ==
    ASSUME IoInv, NEW t \in Thread,
           UNCHANGED <<made, ref, lost, chan_step, chan_io, io, accepts>>,
           undefined' \in BOOLEAN, faults' \in 0..MaxFaults,
           thr' \in [Thread -> ThreadRecord],
           \A u \in Thread \ {t} : thr'[u] = thr[u],
           thr'[t].m = thr[t].m,
           thr'[t].m # NoCell <=> thr'[t].at \in {"send", "sent", "fail"},
           thr'[t].at = "open" => thr'[t].tries < MaxTries,
           conn' \in [Replicas -> ConnRecord],
           \A p \in Replicas : conn'[p].q = conn[p].q
    PROVE  IoInv'
<1>1. \A u \in Thread : thr'[u].m = thr[u].m
  OBVIOUS
<1>2. Types'
  <2>1. thr' \in [Thread -> ThreadRecord] /\ conn' \in [Replicas -> ConnRecord]
    OBVIOUS
  <2>2. \A u \in Thread : thr'[u].m # NoCell <=> thr'[u].at \in {"send", "sent", "fail"}
    BY DEF IoInv, Types
  <2>3. QED
    BY <2>1, <2>2 DEF IoInv, Types, ThreadRecord, ConnRecord
<1>3. Control'
  <2>1. \A u \in Thread : thr'[u].at = "open" => thr'[u].tries < MaxTries
    BY DEF IoInv, Control
  <2>2. io.at = "store" => Head(io.to) \in Replicas
    BY DEF IoInv, Control
  <2>3. QED
    BY <2>1, <2>2 DEF IoInv, Control
<1>4. Once' /\ Accounted' /\ Fresh'
  BY <1>1, StillKeeps
<1>5. QED
  BY <1>2, <1>3, <1>4 DEF IoInv

-----------------------------------------------------------------------------
(* The steps of a thread that keep what it has in hand.                    *)

\* What a thread that ends leaves behind.
LEMMA EndedThread ==
    NotRunning \in ThreadRecord /\ NotRunning.at = "gone" /\ NotRunning.m = NoCell
BY IoAssumption DEF NotRunning, ThreadRecord, At, Up, MaxTries, NoCell

\* run_conn: the connection is ALIVE.
LEMMA DialKeeps ==
    ASSUME IoInv, NEW t \in Thread, Dial(t)
    PROVE  IoInv'
<1>1. /\ thr \in [Thread -> ThreadRecord] /\ conn \in [Replicas -> ConnRecord]
      /\ thr[t].at = "dial" /\ thr[t].m = NoCell /\ thr[t].peer \in Replicas
  BY DEF IoInv, Types, ThreadRecord, ConnRecord, Dial
<1>2. /\ thr' \in [Thread -> ThreadRecord]
      /\ \A u \in Thread \ {t} : thr'[u] = thr[u]
      /\ thr'[t].m = NoCell /\ thr'[t].at = "run"
  <2> DEFINE x == [thr[t] EXCEPT !.at = "run", !.tries = 0]
  <2>1. thr' = [thr EXCEPT ![t] = x]
    BY <1>1 DEF Dial
  <2>2. thr[t] \in ThreadRecord /\ "run" \in At /\ 0 \in 0..MaxTries
    BY <1>1 DEF At, Up, MaxTries
  <2>3. x \in ThreadRecord
    BY <2>2 DEF ThreadRecord
  <2>4. x.m = NoCell /\ x.at = "run"
    BY <1>1, <2>2 DEF ThreadRecord
  <2>. HIDE DEF x
  <2>5. QED
    BY <1>1, <2>1, <2>3, <2>4
<1>3. /\ conn' \in [Replicas -> ConnRecord]
      /\ \A p \in Replicas : conn'[p].q = conn[p].q
  <2>1. conn' = [conn EXCEPT ![thr[t].peer] = [@ EXCEPT !.status = "ALIVE"]]
    BY <1>1 DEF Dial
  <2>2. \A x \in ConnRecord : [x EXCEPT !.status = "ALIVE"] \in ConnRecord
                                  /\ [x EXCEPT !.status = "ALIVE"].q = x.q
    BY DEF ConnRecord
  <2>3. QED
    BY <1>1, <2>1, <2>2
<1>4. UNCHANGED <<made, ref, lost, chan_step, chan_io, io, faults, accepts, undefined>>
  BY DEF Dial, heap, counters
<1>5. faults' \in 0..MaxFaults /\ undefined' \in BOOLEAN
  BY <1>4 DEF IoInv, Types
<1>6. QED
  BY <1>1, <1>2, <1>3, <1>4, <1>5, ThreadKeeps

\* A thread that only moves on, or ends, with nothing in hand.
LEMMA MovesKeeps ==
    ASSUME IoInv, NEW t \in Thread, NEW at \in At,
           Become(t, at) \/ (End(t) /\ thr[t].m = NoCell),
           thr[t].m # NoCell <=> at \in {"send", "sent", "fail"},
           at = "open" => thr[t].tries < MaxTries,
           UNCHANGED <<made, ref, lost, chan_step, chan_io, io, accepts, undefined>>,
           faults' \in 0..MaxFaults,
           conn' \in [Replicas -> ConnRecord],
           \A p \in Replicas : conn'[p].q = conn[p].q
    PROVE  IoInv'
<1>1. thr \in [Thread -> ThreadRecord] /\ undefined' \in BOOLEAN
  BY DEF IoInv, Types, ThreadRecord
<1>2. CASE Become(t, at)
  <2>1. /\ thr' \in [Thread -> ThreadRecord]
        /\ \A u \in Thread \ {t} : thr'[u] = thr[u]
        /\ thr'[t].m = thr[t].m /\ thr'[t].at = at /\ thr'[t].tries = thr[t].tries
    BY <1>1, <1>2 DEF Become, ThreadRecord
  <2>2. QED
    BY <1>1, <2>1, ThreadKeeps
<1>3. CASE End(t) /\ thr[t].m = NoCell
  <2>1. /\ thr' \in [Thread -> ThreadRecord]
        /\ \A u \in Thread \ {t} : thr'[u] = thr[u]
        /\ thr'[t] = NotRunning
    BY <1>1, <1>3, EndedThread DEF End
  <2>2. QED
    BY <1>1, <1>3, <2>1, EndedThread, ThreadKeeps
<1>4. QED
  BY <1>2, <1>3

\* Connections that stay as they are.
LEMMA SameConnections ==
    ASSUME IoInv, UNCHANGED conn
    PROVE  conn' \in [Replicas -> ConnRecord] /\ \A p \in Replicas : conn'[p].q = conn[p].q
BY DEF IoInv, Types, ConnRecord

\* try_connect tries again or gives up.
LEMMA DialFailsKeeps ==
    ASSUME IoInv, NEW t \in Thread, DialFails(t)
    PROVE  IoInv'
<1>1. /\ thr[t].at = "dial" /\ thr[t].m = NoCell
      /\ UNCHANGED <<made, ref, lost, chan_step, chan_io, io, conn, accepts, undefined>>
      /\ faults' \in 0..MaxFaults
  BY DEF IoInv, Types, DialFails, heap, counters
<1>2. "open" \in At /\ thr[t].m = NoCell
  BY <1>1 DEF At
<1>3. \/ Become(t, "open") /\ thr[t].tries < MaxTries
      \/ End(t)
  BY DEF DialFails
<1>4. CASE Become(t, "open") /\ thr[t].tries < MaxTries
  BY <1>1, <1>2, <1>4, SameConnections, MovesKeeps
<1>5. CASE End(t)
  <2>1. "dial" \in At
    BY DEF At
  <2>2. QED
    BY <1>1, <1>5, <2>1, SameConnections, MovesKeeps
<1>6. QED
  BY <1>3, <1>4, <1>5

\* reader ends, alone or with its thread.
LEMMA ReaderStopsKeeps ==
    ASSUME IoInv, NEW t \in Thread, ReaderStops(t)
    PROVE  IoInv'
<1>1. /\ thr[t].at = "run" /\ thr[t].m = NoCell
      /\ UNCHANGED <<made, ref, lost, chan_step, chan_io, io, conn, accepts, undefined>>
      /\ faults' \in 0..MaxFaults
      /\ Become(t, "half") \/ End(t)
  BY DEF IoInv, Types, ReaderStops, heap, counters
<1>2. "half" \in At
  BY DEF At, Up
<1>3. QED
  BY <1>1, <1>2, SameConnections, MovesKeeps

\* write_message, before it drops its reference.
LEMMA SendKeeps ==
    ASSUME IoInv, NEW t \in Thread, Send(t) \/ SendFails(t)
    PROVE  IoInv'
<1>1. /\ thr[t].at = "send" /\ thr[t].m # NoCell
      /\ UNCHANGED <<made, ref, lost, chan_step, chan_io, io, conn, accepts, undefined>>
  BY DEF IoInv, Types, Send, SendFails, heap, counters
<1>2. faults' \in 0..MaxFaults
  <2>1. faults \in 0..MaxFaults /\ MaxFaults \in Nat
    BY IoAssumption DEF IoInv, Types
  <2>2. QED
    BY <2>1 DEF Send, SendFails, counters
<1>3. Become(t, "sent") \/ Become(t, "fail")
  BY DEF Send, SendFails
<1>4. "sent" \in At /\ "fail" \in At
  BY DEF At, Up
<1>5. QED
  BY <1>1, <1>2, <1>3, <1>4, SameConnections, MovesKeeps

\* write_message gives the connection up.
LEMMA GiveUpKeeps ==
    ASSUME IoInv, NEW t \in Thread, GiveUp(t)
    PROVE  IoInv'
<1>1. /\ thr[t].at = "failed" /\ thr[t].m = NoCell /\ End(t)
      /\ UNCHANGED <<made, ref, lost, chan_step, chan_io, io, accepts, undefined>>
      /\ faults' \in 0..MaxFaults
      /\ conn \in [Replicas -> ConnRecord]
  BY DEF IoInv, Types, ConnRecord, GiveUp, heap, counters
<1>2. /\ conn' \in [Replicas -> ConnRecord]
      /\ \A p \in Replicas : conn'[p].q = conn[p].q
  <2>1. conn' = [conn EXCEPT ![thr[t].peer] = [@ EXCEPT !.status = "DEAD"]]
    BY <1>1 DEF GiveUp
  <2>2. \A x \in ConnRecord : [x EXCEPT !.status = "DEAD"] \in ConnRecord
                                  /\ [x EXCEPT !.status = "DEAD"].q = x.q
    BY DEF ConnRecord
  <2>3. QED
    BY <1>1, <2>1, <2>2
<1>3. "failed" \in At
  BY DEF At, Up
<1>4. QED
  BY <1>1, <1>2, <1>3, MovesKeeps

-----------------------------------------------------------------------------
(* The steps of a thread that move a copy.                                 *)

\* One thread gets another record.
LEMMA ThreadTypes ==
    ASSUME IoInv, NEW t \in Thread, NEW x \in ThreadRecord, thr' = [thr EXCEPT ![t] = x],
           x.m # NoCell <=> x.at \in {"send", "sent", "fail"},
           x.at = "open" => x.tries < MaxTries
    PROVE  /\ thr' \in [Thread -> ThreadRecord]
           /\ \A u \in Thread : thr'[u].m # NoCell <=> thr'[u].at \in {"send", "sent", "fail"}
           /\ \A u \in Thread : thr'[u].at = "open" => thr'[u].tries < MaxTries
           /\ \A u \in Thread \ {t} : thr'[u] = thr[u]
           /\ thr'[t] = x
<1>1. thr \in [Thread -> ThreadRecord]
  BY DEF IoInv, Types, ThreadRecord
<1>2. /\ \A u \in Thread \ {t} : thr'[u] = thr[u]
      /\ thr'[t] = x
      /\ thr' \in [Thread -> ThreadRecord]
  BY <1>1
<1>3. QED
  BY <1>2 DEF IoInv, Types, Control

\* One connection gets another ring.
LEMMA ConnTypes ==
    ASSUME IoInv, NEW p \in Replicas, NEW x \in ConnRecord, conn' = [conn EXCEPT ![p] = x],
           Len(x.q) < Capacity
    PROVE  /\ conn' \in [Replicas -> ConnRecord]
           /\ \A o \in Replicas : Len(conn'[o].q) < Capacity
           /\ \A o \in Replicas \ {p} : conn'[o] = conn[o]
           /\ conn'[p] = x
<1>1. conn \in [Replicas -> ConnRecord]
  BY DEF IoInv, Types, ConnRecord
<1>2. /\ \A o \in Replicas \ {p} : conn'[o] = conn[o]
      /\ conn'[p] = x
      /\ conn' \in [Replicas -> ConnRecord]
  BY <1>1
<1>3. QED
  BY <1>2 DEF IoInv, Types

\* new_node_connection: what was on the ring is counted as lost.
LEMMA OpenKeeps ==
    ASSUME IoInv, NEW t \in Thread, Open(t)
    PROVE  IoInv'
<1> DEFINE p == thr[t].peer
           x == [thr[t] EXCEPT !.at = "dial", !.tries = @ + 1]
           y == [conn[p] EXCEPT !.init = TRUE, !.q = <<>>]
<1>1. /\ thr[t] \in ThreadRecord /\ thr[t].at = "open" /\ thr[t].m = NoCell
      /\ thr[t].tries \in 0..MaxTries /\ thr[t].tries < MaxTries
      /\ thr \in [Thread -> ThreadRecord]
      /\ conn \in [Replicas -> ConnRecord]
  BY DEF IoInv, Types, Control, ThreadRecord, ConnRecord, Open
<1>2. p \in Replicas /\ conn[p] \in ConnRecord /\ conn[p].q \in Seq(Cell) /\ Len(conn[p].q) < Capacity
  BY <1>1 DEF ThreadRecord, ConnRecord, IoInv, Types
<1>3. x \in ThreadRecord /\ x.m = NoCell /\ x.at = "dial"
  <2>1. thr[t].tries + 1 \in 0..MaxTries /\ "dial" \in At
    BY <1>1 DEF MaxTries, At
  <2>2. QED
    BY <1>1, <2>1 DEF ThreadRecord
<1>4. y \in ConnRecord /\ y.q = <<>> /\ Len(y.q) < Capacity
  <2>1. <<>> \in Seq(Cell) /\ Len(<<>>) = 0 /\ Capacity \in Nat \ {0}
    BY IoAssumption
  <2>. HIDE DEF p
  <2>2. y \in ConnRecord
    BY <1>2, <2>1 DEF ConnRecord
  <2>3. y.q = <<>>
    BY <1>2 DEF ConnRecord
  <2>4. QED
    BY <2>1, <2>2, <2>3
<1>5. thr' = [thr EXCEPT ![t] = x] /\ conn' = [conn EXCEPT ![p] = y]
  BY <1>1, <1>2 DEF Open
<1> HIDE DEF x, y
<1>6. /\ thr' \in [Thread -> ThreadRecord]
      /\ \A u \in Thread : thr'[u].m # NoCell <=> thr'[u].at \in {"send", "sent", "fail"}
      /\ \A u \in Thread : thr'[u].at = "open" => thr'[u].tries < MaxTries
      /\ \A u \in Thread \ {t} : thr'[u] = thr[u]
      /\ thr'[t] = x
  BY <1>3, <1>5, ThreadTypes
<1>7. /\ conn' \in [Replicas -> ConnRecord]
      /\ \A o \in Replicas : Len(conn'[o].q) < Capacity
      /\ \A o \in Replicas \ {p} : conn'[o] = conn[o]
      /\ conn'[p] = y
  BY <1>2, <1>4, <1>5, ConnTypes
<1>8. UNCHANGED <<made, ref, chan_step, chan_io, io, faults, accepts>>
  BY DEF Open, counters
<1>9. ASSUME NEW c \in Cell
      PROVE  /\ Cardinality(Entries(conn[p].q, c)) \in Nat
             /\ Cardinality(SlotsOf(conn', c)) = Cardinality(SlotsOf(conn, c))
                   - Cardinality(Entries(conn[p].q, c))
  <2>1. Elsewhere(conn', p, c) = Elsewhere(conn, p, c) /\ conn'[p].q = <<>>
    BY <1>4, <1>7 DEF Elsewhere
  <2>2. p \in Replicas /\ conn[p].q \in Seq(Cell) /\ Len(conn[p].q) < Capacity
    BY <1>2
  <2>. HIDE DEF p
  <2>3. QED
    BY <2>1, <2>2, SlotsReset, ZenonT(60)
<1>10. lost' = [c \in Cell |-> lost[c] + Cardinality(Entries(conn[p].q, c))]
  BY DEF Open, Drop, Entries
<1>11. ASSUME NEW c \in Cell
       PROVE  lost'[c] \in Nat /\ Copies(c)' = Copies(c)
  <2>1. lost'[c] = lost[c] + Cardinality(Entries(conn[p].q, c))
    BY <1>10
  <2>2. Hands(thr', c) = Hands(thr, c)
    BY <1>1, <1>3, <1>6 DEF Hands
  <2>3. Unsent(c)' = Unsent(c)
    BY <1>8 DEF Unsent
  <2>4. /\ Cardinality(SlotsOf(conn, c)) \in Nat /\ Cardinality(Hands(thr, c)) \in Nat
        /\ Unsent(c) \in Nat /\ lost[c] \in Nat
    BY PartsAreNumbers DEF IoInv
  <2>5. QED
    BY <1>9, <2>1, <2>2, <2>3, <2>4, CopiesAre
<1>12. lost' \in [Cell -> Nat]
  BY <1>10, <1>11
<1>13. undefined' \in BOOLEAN
  BY DEF Open, IoInv, Types
<1>14. Types'
  <2>. HIDE DEF p
  <2>1. QED
    BY <1>6, <1>7, <1>8, <1>12, <1>13 DEF IoInv, Types, ThreadRecord, ConnRecord
<1>15. Control'
  <2>1. ASSUME io.at = "store"
        PROVE  Len(conn'[Head(io.to)].q) < Capacity - 1
    <3>1. Head(io.to) \in Replicas /\ Len(conn[Head(io.to)].q) < Capacity - 1
      BY <2>1 DEF IoInv, Control
    <3>2. conn[Head(io.to)].q \in Seq(Cell)
      BY <1>1, <3>1 DEF ConnRecord
    <3>3. Len(conn[Head(io.to)].q) \in Nat /\ Len(<<>>) = 0 /\ Capacity \in Nat
      BY <3>2, IoAssumption
    <3>4. CASE Head(io.to) = p
      BY <1>4, <1>7, <3>1, <3>3, <3>4
    <3>5. CASE Head(io.to) # p
      BY <1>7, <3>1, <3>5
    <3>6. QED
      BY <3>4, <3>5
  <2>2. QED
    BY <1>6, <1>8, <2>1 DEF IoInv, Control
<1>16. QED
  BY <1>8, <1>11, <1>14, <1>15, QuietKeeps DEF IoInv

\* reader takes a message off its ring.
LEMMA ReaderTakeKeeps ==
    ASSUME IoInv, NEW t \in Thread, ReaderTake(t)
    PROVE  IoInv'
<1> DEFINE p == thr[t].peer
           x == [thr[t] EXCEPT !.at = "send", !.m = Head(conn[p].q)]
           y == [conn[p] EXCEPT !.q = Tail(@)]
<1>1. /\ thr[t] \in ThreadRecord /\ thr[t].at = "run" /\ thr[t].m = NoCell
      /\ thr \in [Thread -> ThreadRecord]
      /\ conn \in [Replicas -> ConnRecord]
  BY DEF IoInv, Types, ThreadRecord, ConnRecord, ReaderTake
<1>2. /\ p \in Replicas /\ conn[p] \in ConnRecord /\ conn[p].q \in Seq(Cell)
      /\ Len(conn[p].q) < Capacity /\ conn[p].q # <<>>
  BY <1>1 DEF ThreadRecord, ConnRecord, IoInv, Types, ReaderTake
<1>3. /\ Head(conn[p].q) \in Cell /\ Tail(conn[p].q) \in Seq(Cell)
      /\ Len(Tail(conn[p].q)) = Len(conn[p].q) - 1
      /\ Len(conn[p].q) \in Nat /\ Capacity \in Nat
  BY <1>2, IoAssumption
<1>4. x \in ThreadRecord /\ x.m = Head(conn[p].q) /\ x.at = "send" /\ x.m # NoCell
  <2>1. "send" \in At
    BY DEF At, Up
  <2>2. Head(conn[p].q) # NoCell
    BY <1>3 DEF Cell, NoCell
  <2>. HIDE DEF p
  <2>3. x \in ThreadRecord
    BY <1>1, <1>3, <2>1 DEF ThreadRecord
  <2>4. x.m = Head(conn[p].q) /\ x.at = "send"
    BY <1>1 DEF ThreadRecord
  <2>5. QED
    BY <2>2, <2>3, <2>4
<1>5. y \in ConnRecord /\ y.q = Tail(conn[p].q) /\ Len(y.q) < Capacity
  <2>. HIDE DEF p
  <2>1. y \in ConnRecord
    BY <1>2, <1>3 DEF ConnRecord
  <2>2. y.q = Tail(conn[p].q)
    BY <1>2 DEF ConnRecord
  <2>3. QED
    BY <1>2, <1>3, <2>1, <2>2
<1>6. thr' = [thr EXCEPT ![t] = x] /\ conn' = [conn EXCEPT ![p] = y]
  BY <1>1, <1>2 DEF ReaderTake
<1> HIDE DEF x, y
<1>7. /\ thr' \in [Thread -> ThreadRecord]
      /\ \A u \in Thread : thr'[u].m # NoCell <=> thr'[u].at \in {"send", "sent", "fail"}
      /\ \A u \in Thread : thr'[u].at = "open" => thr'[u].tries < MaxTries
      /\ \A u \in Thread \ {t} : thr'[u] = thr[u]
      /\ thr'[t] = x
  BY <1>4, <1>6, ThreadTypes
<1>8. /\ conn' \in [Replicas -> ConnRecord]
      /\ \A o \in Replicas : Len(conn'[o].q) < Capacity
      /\ \A o \in Replicas \ {p} : conn'[o] = conn[o]
      /\ conn'[p] = y
  BY <1>2, <1>5, <1>6, ConnTypes
<1>9. UNCHANGED <<made, ref, lost, chan_step, chan_io, io, faults, accepts>>
  BY DEF ReaderTake, heap, counters
<1>10. ASSUME NEW c \in Cell
       PROVE  Copies(c)' = Copies(c)
  <2>1. Cardinality(SlotsOf(conn', c)) =
            Cardinality(SlotsOf(conn, c)) - (IF c = Head(conn[p].q) THEN 1 ELSE 0)
    <3>1. Elsewhere(conn', p, c) = Elsewhere(conn, p, c) /\ conn'[p].q = Tail(conn[p].q)
      BY <1>5, <1>8 DEF Elsewhere
    <3>. HIDE DEF p
    <3>2. QED
      BY <1>2, <3>1, SlotsTail
  <2>2. Cardinality(Hands(thr', c)) =
            Cardinality(Hands(thr, c)) + (IF c = Head(conn[p].q) THEN 1 ELSE 0)
    <3>1. Hands(thr', c) \ {t} = Hands(thr, c) \ {t}
      BY <1>7 DEF Hands
    <3>2. Cardinality(Hands(thr', c)) = Cardinality(Hands(thr, c))
               - (IF thr[t].m = c THEN 1 ELSE 0) + (IF thr'[t].m = c THEN 1 ELSE 0)
      BY <3>1, HandChanges
    <3>3. thr[t].m # c /\ thr'[t].m = Head(conn[p].q)
      BY <1>1, <1>4, <1>7 DEF Cell, NoCell
    <3>4. Cardinality(Hands(thr, c)) \in Nat
      BY HandsFinite
    <3>. HIDE DEF p
    <3>5. QED
      BY <3>2, <3>3, <3>4
  <2>3. Unsent(c)' = Unsent(c)
    BY <1>9 DEF Unsent
  <2>4. /\ Cardinality(SlotsOf(conn, c)) \in Nat /\ Cardinality(Hands(thr, c)) \in Nat
        /\ Unsent(c) \in Nat /\ lost[c] \in Nat
    BY PartsAreNumbers DEF IoInv
  <2>5. QED
    BY <1>9, <2>1, <2>2, <2>3, <2>4, CopiesAre
<1>11. undefined' \in BOOLEAN
  BY DEF ReaderTake, IoInv, Types
<1>12. Types'
  <2>. HIDE DEF p
  <2>1. QED
    BY <1>7, <1>8, <1>9, <1>11 DEF IoInv, Types, ThreadRecord, ConnRecord
<1>13. Control'
  <2>1. ASSUME io.at = "store"
        PROVE  Len(conn'[Head(io.to)].q) < Capacity - 1
    <3>1. Head(io.to) \in Replicas /\ Len(conn[Head(io.to)].q) < Capacity - 1
      BY <2>1 DEF IoInv, Control
    <3>2. CASE Head(io.to) = p
      <4>. HIDE DEF p
      <4>1. Len(conn'[p].q) = Len(conn[p].q) - 1
        BY <1>3, <1>5, <1>8
      <4>2. QED
        BY <1>3, <3>1, <3>2, <4>1
    <3>3. CASE Head(io.to) # p
      BY <1>8, <3>1, <3>3
    <3>4. QED
      BY <3>2, <3>3
  <2>2. QED
    BY <1>7, <1>9, <2>1 DEF IoInv, Control
<1>14. QED
  BY <1>9, <1>10, <1>12, <1>13, QuietKeeps DEF IoInv

\* A thread ends; what it has in hand is counted as lost.
LEMMA EndKeeps ==
    ASSUME IoInv, NEW t \in Thread, End(t), HandLost(t), thr[t].at \notin {"sent", "fail"},
           UNCHANGED <<made, ref, chan_step, chan_io, io, conn, accepts, undefined>>,
           faults' \in 0..MaxFaults
    PROVE  IoInv'
<1>1. /\ thr \in [Thread -> ThreadRecord] /\ thr[t].m \in Cell \union {NoCell}
      /\ thr[t].m # NoCell <=> thr[t].at = "send"
      /\ lost \in [Cell -> Nat]
  BY DEF IoInv, Types, ThreadRecord
<1>2. /\ thr' \in [Thread -> ThreadRecord]
      /\ \A u \in Thread : thr'[u].m # NoCell <=> thr'[u].at \in {"send", "sent", "fail"}
      /\ \A u \in Thread : thr'[u].at = "open" => thr'[u].tries < MaxTries
      /\ \A u \in Thread \ {t} : thr'[u] = thr[u]
      /\ thr'[t] = NotRunning
  BY EndedThread, ThreadTypes DEF End
<1>3. /\ \A c \in Cell : lost'[c] = lost[c] + (IF thr[t].m = c THEN 1 ELSE 0)
      /\ lost' \in [Cell -> Nat]
  <2>1. CASE thr[t].at = "send"
    <3>1. lost' = [lost EXCEPT ![thr[t].m] = @ + 1] /\ thr[t].m \in Cell
      BY <1>1, <2>1 DEF HandLost
    <3>2. QED
      BY <1>1, <3>1
  <2>2. CASE thr[t].at # "send"
    <3>1. lost' = lost /\ \A c \in Cell : thr[t].m # c
      BY <1>1, <2>2 DEF HandLost, Cell, NoCell
    <3>2. QED
      BY <1>1, <3>1
  <2>3. QED
    BY <2>1, <2>2
<1>4. ASSUME NEW c \in Cell
      PROVE  Copies(c)' = Copies(c)
  <2>1. thr'[t].m # c /\ Hands(thr', c) \ {t} = Hands(thr, c) \ {t}
    BY <1>2, EndedThread DEF Cell, NoCell, Hands
  <2>2. Cardinality(Hands(thr', c)) = Cardinality(Hands(thr, c))
               - (IF thr[t].m = c THEN 1 ELSE 0) + (IF thr'[t].m = c THEN 1 ELSE 0)
    BY <2>1, HandChanges
  <2>3. SlotsOf(conn', c) = SlotsOf(conn, c) /\ Unsent(c)' = Unsent(c)
    BY DEF Unsent
  <2>4. /\ Cardinality(SlotsOf(conn, c)) \in Nat /\ Cardinality(Hands(thr, c)) \in Nat
        /\ Unsent(c) \in Nat /\ lost[c] \in Nat
    BY PartsAreNumbers DEF IoInv
  <2>5. lost'[c] = lost[c] + (IF thr[t].m = c THEN 1 ELSE 0)
    BY <1>3
  <2>6. QED
    BY <2>1, <2>2, <2>3, <2>4, <2>5, CopiesAre
<1>5. Types'
  BY <1>2, <1>3 DEF IoInv, Types, ThreadRecord
<1>6. Control'
  BY <1>2 DEF IoInv, Control
<1>7. QED
  BY <1>4, <1>5, <1>6, QuietKeeps DEF IoInv

\* writer meets the end of the connection, or the thread is cancelled.
LEMMA ClosesKeeps ==
    ASSUME IoInv, NEW t \in Thread, PeerCloses(t) \/ Cancel(t)
    PROVE  IoInv'
<1>1. faults' \in 0..MaxFaults
  <2>1. faults \in 0..MaxFaults /\ MaxFaults \in Nat
    BY IoAssumption DEF IoInv, Types
  <2>2. QED
    BY <2>1 DEF PeerCloses, Cancel, counters
<1>2. /\ End(t) /\ HandLost(t) /\ thr[t].at \notin {"sent", "fail"}
      /\ UNCHANGED <<made, ref, chan_step, chan_io, io, conn, accepts, undefined>>
  BY DEF PeerCloses, Cancel, counters
<1>3. QED
  BY <1>1, <1>2, EndKeeps

\* write_message drops its reference; the last one frees the message.
LEMMA DestroyKeeps ==
    ASSUME IoInv, NEW t \in Thread, Destroy(t)
    PROVE  IoInv'
<1> DEFINE e == thr[t].m
           x == [thr[t] EXCEPT !.m = NoCell,
                               !.at = IF thr[t].at = "sent" THEN "run" ELSE "failed"]
<1>1. /\ thr[t] \in ThreadRecord /\ thr[t].at \in {"sent", "fail"} /\ e \in Cell
      /\ thr \in [Thread -> ThreadRecord]
      /\ ref \in [Cell -> Nat]
  BY DEF IoInv, Types, ThreadRecord, Destroy
<1>2. x \in ThreadRecord /\ x.m = NoCell /\ x.at \in {"run", "failed"}
  <2>1. "run" \in At /\ "failed" \in At
    BY DEF At, Up
  <2>2. x \in ThreadRecord
    BY <1>1, <2>1 DEF ThreadRecord
  <2>3. x.m = NoCell /\ x.at \in {"run", "failed"}
    BY <1>1 DEF ThreadRecord
  <2>4. QED
    BY <2>2, <2>3
<1>3. thr' = [thr EXCEPT ![t] = x]
  BY <1>1 DEF Destroy
<1> HIDE DEF x
<1>4. /\ thr' \in [Thread -> ThreadRecord]
      /\ \A u \in Thread : thr'[u].m # NoCell <=> thr'[u].at \in {"send", "sent", "fail"}
      /\ \A u \in Thread : thr'[u].at = "open" => thr'[u].tries < MaxTries
      /\ \A u \in Thread \ {t} : thr'[u] = thr[u]
      /\ thr'[t] = x
  BY <1>2, <1>3, ThreadTypes
<1>5. /\ UNCHANGED <<made, lost, chan_step, chan_io, io, conn, faults, accepts, undefined>>
      /\ DestroyMessage(e)
  BY DEF Destroy, counters
<1>6. ASSUME NEW c \in Cell
      PROVE  /\ Copies(c) \in Nat
             /\ Copies(c)' = Copies(c) - (IF c = e THEN 1 ELSE 0)
             /\ Copies(c)' \in Nat
  <2>1. Hands(thr', c) \ {t} = Hands(thr, c) \ {t}
    BY <1>4 DEF Hands
  <2>2. Cardinality(Hands(thr', c)) = Cardinality(Hands(thr, c))
               - (IF thr[t].m = c THEN 1 ELSE 0) + (IF thr'[t].m = c THEN 1 ELSE 0)
    BY <2>1, HandChanges
  <2>3. thr'[t].m # c
    BY <1>2, <1>4 DEF Cell, NoCell
  <2>4. /\ Cardinality(SlotsOf(conn, c)) \in Nat /\ Cardinality(Hands(thr, c)) \in Nat
        /\ Cardinality(Hands(thr', c)) \in Nat
        /\ Unsent(c) \in Nat /\ lost[c] \in Nat
    BY PartsAreNumbers, HandsFinite DEF IoInv
  <2>5. SlotsOf(conn', c) = SlotsOf(conn, c) /\ Unsent(c)' = Unsent(c) /\ lost'[c] = lost[c]
    BY <1>5 DEF Unsent
  <2>6. QED
    BY <2>2, <2>3, <2>4, <2>5, CopiesAre
<1>7. e \notin Waiting /\ ref[e] = Copies(e) /\ ref[e] > 0
  <2>1. Copies(e) > 0
    BY <1>1, <1>6
  <2>2. QED
    BY <1>1, <2>1 DEF IoInv, Accounted
<1>8. ref' = [ref EXCEPT ![e] = @ - 1]
  BY <1>5, <1>7 DEF DestroyMessage
<1>9. /\ ref' \in [Cell -> Nat]
      /\ \A c \in Cell : ref'[c] = ref[c] - (IF c = e THEN 1 ELSE 0)
  BY <1>1, <1>7, <1>8
<1>10. Waiting' = Waiting
  BY <1>5 DEF Waiting, CellsIn
<1>11. Accounted'
  <2>1. N \in Nat
    BY InstanceAssumption
  <2>. HIDE DEF e
  <2>2. ASSUME NEW c \in Cell
        PROVE  /\ c \in Waiting => ref'[c] = 1 /\ Copies(c)' = 0
               /\ c \notin Waiting => ref'[c] = Copies(c)'
               /\ ref'[c] <= N
    BY <1>1, <1>6, <1>7, <1>9, <2>1 DEF IoInv, Accounted
  <2>3. QED
    BY <1>10, <2>2 DEF Accounted
<1>12. Fresh'
  <2>. HIDE DEF e
  <2>1. QED
    BY <1>1, <1>5, <1>7, <1>9, <1>10 DEF IoInv, Fresh
<1>13. Types'
  BY <1>4, <1>5, <1>9 DEF IoInv, Types, ThreadRecord
<1>14. Control'
  BY <1>4, <1>5 DEF IoInv, Control
<1>15. Once'
  BY <1>5 DEF IoInv, Once, CellsIn, Distinct
<1>16. QED
  BY <1>11, <1>12, <1>13, <1>14, <1>15 DEF IoInv

-----------------------------------------------------------------------------
(* The steps of io_reader.                                                 *)

\* node_connect cancels a thread and starts one: no copy moves.
LEMMA NodeConnectKeeps ==
    ASSUME IoInv, NEW p \in Replicas, NodeConnect(p)
    PROVE  /\ thr' \in [Thread -> ThreadRecord]
           /\ \A u \in Thread : thr'[u].m # NoCell <=> thr'[u].at \in {"send", "sent", "fail"}
           /\ \A u \in Thread : thr'[u].at = "open" => thr'[u].tries < MaxTries
           /\ \A u \in Thread : thr'[u].m = thr[u].m
           /\ conn' \in [Replicas -> ConnRecord]
           /\ \A o \in Replicas : conn'[o].q = conn[o].q
<1> DEFINE c == conn[p]
           t == CHOOSE u \in Thread : thr[u].at = "gone"
           Cancels(u) == c.status # "DEAD" /\ u = c.tid /\ thr[u].peer = p /\ thr[u].at # "gone"
<1>1. t \in Thread /\ thr[t].at = "gone"
  BY DEF NodeConnect
<1>2. /\ thr' = [u \in Thread |->
                    CASE u = t -> Started(p)
                      [] Cancels(u) -> [thr[u] EXCEPT !.cancelled = TRUE]
                      [] OTHER -> thr[u]]
      /\ conn' = [conn EXCEPT ![p].status = "CONNECTING", ![p].tid = t]
  BY DEF NodeConnect
<1> HIDE DEF t
<1>3. /\ thr \in [Thread -> ThreadRecord] /\ conn \in [Replicas -> ConnRecord]
      /\ thr[t].m = NoCell
  BY <1>1 DEF IoInv, Types, ThreadRecord, ConnRecord
<1>4. /\ Started(p) \in ThreadRecord
      /\ Started(p).at = "open" /\ Started(p).tries = 0 /\ Started(p).m = NoCell
  <2>1. Started(p) = [NotRunning EXCEPT !.peer = p, !.at = "open"]
    BY DEF Started
  <2>2. NotRunning \in ThreadRecord /\ NotRunning.m = NoCell /\ NotRunning.tries = 0
    BY EndedThread DEF NotRunning
  <2>3. "open" \in At
    BY DEF At
  <2>4. Started(p) \in ThreadRecord
    BY <2>1, <2>2, <2>3 DEF ThreadRecord
  <2>5. QED
    BY <2>1, <2>2, <2>4 DEF ThreadRecord
<1>5. ASSUME NEW u \in Thread
      PROVE  /\ thr'[u] \in ThreadRecord
             /\ thr'[u].m = thr[u].m
             /\ thr'[u].m # NoCell <=> thr'[u].at \in {"send", "sent", "fail"}
             /\ thr'[u].at = "open" => thr'[u].tries < MaxTries
  <2>1. CASE u = t
    <3>1. thr'[u] = Started(p)
      <4>1. ~Cancels(u)
        BY <1>1, <2>1
      <4>. HIDE DEF Cancels
      <4>2. QED
        BY <1>2, <2>1, <4>1
    <3>2. QED
      BY <1>3, <1>4, <2>1, <3>1 DEF MaxTries
  <2>2. CASE u # t
    <3>1. thr[u] \in ThreadRecord
      BY <1>3
    <3>2. thr'[u] = thr[u] \/ thr'[u] = [thr[u] EXCEPT !.cancelled = TRUE]
      <4>1. thr'[u] = CASE Cancels(u) -> [thr[u] EXCEPT !.cancelled = TRUE]
                        [] OTHER -> thr[u]
        BY <1>2, <2>2
      <4>. HIDE DEF Cancels
      <4>2. QED
        BY <4>1
    <3>3. /\ thr'[u] \in ThreadRecord /\ thr'[u].m = thr[u].m
          /\ thr'[u].at = thr[u].at /\ thr'[u].tries = thr[u].tries
      BY <3>1, <3>2 DEF ThreadRecord
    <3>4. QED
      BY <3>3 DEF IoInv, Types, Control
  <2>3. QED
    BY <2>1, <2>2
<1>6. thr' \in [Thread -> ThreadRecord]
  BY <1>2, <1>5
<1>7. /\ conn' \in [Replicas -> ConnRecord]
      /\ \A o \in Replicas : conn'[o].q = conn[o].q
  <2> DEFINE y == [conn[p] EXCEPT !.status = "CONNECTING", !.tid = t]
  <2>1. conn' = [conn EXCEPT ![p] = y]
    BY <1>2, <1>3
  <2>2. conn[p] \in ConnRecord
    BY <1>3
  <2>3. y \in ConnRecord
    BY <1>1, <2>2 DEF ConnRecord
  <2>4. y.q = conn[p].q
    BY <2>2 DEF ConnRecord
  <2>. HIDE DEF y
  <2>5. QED
    BY <1>3, <2>1, <2>3, <2>4
<1>8. QED
  BY <1>5, <1>6, <1>7

\* node_listener connects to a peer that has connected.
LEMMA AcceptKeeps ==
    ASSUME IoInv, NEW p \in Replicas, Accept(p)
    PROVE  IoInv'
<1>1. /\ thr' \in [Thread -> ThreadRecord]
      /\ \A u \in Thread : thr'[u].m # NoCell <=> thr'[u].at \in {"send", "sent", "fail"}
      /\ \A u \in Thread : thr'[u].at = "open" => thr'[u].tries < MaxTries
      /\ \A u \in Thread : thr'[u].m = thr[u].m
      /\ conn' \in [Replicas -> ConnRecord]
      /\ \A o \in Replicas : conn'[o].q = conn[o].q
  BY NodeConnectKeeps DEF Accept
<1>2. /\ UNCHANGED <<made, ref, lost, chan_step, chan_io, io, faults, undefined>>
      /\ io.at \in {"idle", "stopped"}
  BY DEF Accept, heap
<1>3. accepts' \in 0..MaxAccepts
  BY IoAssumption DEF Accept, IoInv, Types
<1>4. Types'
  BY <1>1, <1>2, <1>3 DEF IoInv, Types, ThreadRecord, ConnRecord
<1>5. Control'
  BY <1>1, <1>2 DEF IoInv, Control
<1>6. Once' /\ Accounted' /\ Fresh'
  BY <1>1, <1>2, StillKeeps
<1>7. QED
  BY <1>4, <1>5, <1>6 DEF IoInv

\* A message goes to at least one and at most N nodes.
LEMMA TargetsAreNodes ==
    ASSUME NEW m, m.from \in Replicas
    PROVE  Targets(Me, m) \in Seq(Replicas) /\ Len(Targets(Me, m)) \in 1..N
<1>1. N \in Nat /\ N >= 2 /\ Me \in 0..(N - 1) /\ Replicas = 0..(N - 1)
  BY InstanceAssumption, IoAssumption DEF Replicas
<1>2. CASE m.type = "PREPARE"
  <2>1. Targets(Me, m) = [s \in 1..(N - 1) |-> (Me + s) % N]
    BY <1>2 DEF Targets
  <2>2. \A s \in 1..(N - 1) : (Me + s) % N \in Replicas
    BY <1>1
  <2>3. QED
    BY <1>1, <2>1, <2>2
<1>3. CASE m.type \in {"PRE_ACCEPT", "ACCEPT"}
  <2>1. Targets(Me, m) = [s \in 1..(N - 1) |-> Quorum[Me][s]]
    BY <1>3 DEF Targets
  <2>2. ASSUME NEW s \in 1..(N - 1)
        PROVE  Quorum[Me][s] \in Replicas
    <3>1. Quorum[Me] \in [1..N -> Replicas] /\ s \in 1..N
      BY <1>1, QuorumAssumption
    <3>2. QED
      BY <3>1
  <2>3. QED
    BY <1>1, <2>1, <2>2
<1>4. CASE m.type = "TRY_PRE_ACCEPT"
  <2>1. Targets(Me, m) = [s \in 1..(N - 1) |-> s - 1]
    BY <1>4 DEF Targets
  <2>2. \A s \in 1..(N - 1) : s - 1 \in Replicas
    BY <1>1
  <2>3. QED
    BY <1>1, <2>1, <2>2
<1>5. CASE m.type = "COMMIT"
  <2>1. Targets(Me, m) = [s \in 1..N |-> Quorum[Me][s]]
    BY <1>5 DEF Targets
  <2>2. \A s \in 1..N : Quorum[Me][s] \in Replicas
    BY <1>1, QuorumAssumption
  <2>3. QED
    BY <1>1, <2>1, <2>2
<1>6. CASE m.type \notin {"PREPARE", "PRE_ACCEPT", "ACCEPT", "TRY_PRE_ACCEPT", "COMMIT"}
  <2>1. Targets(Me, m) = <<m.from>>
    BY <1>6 DEF Targets
  <2>2. QED
    BY <1>1, <2>1
<1>7. QED
  BY <1>2, <1>3, <1>4, <1>5, <1>6

\* io_reader takes a message and sets its references.
LEMMA IoTakeKeeps ==
    ASSUME IoInv, IoTake
    PROVE  IoInv'
<1> DEFINE m == Head(chan_io)
           n == Len(Targets(Me, m))
<1>1. /\ chan_io \in Seq([m : Cell, type : Requests \union Answers, from : Replicas])
      /\ Distinct(chan_io) /\ chan_io # <<>>
      /\ io.at = "idle" /\ io.m = NoCell
  BY DEF IoInv, Types, Control, Once, IoTake
<1>2. /\ m \in [m : Cell, type : Requests \union Answers, from : Replicas]
      /\ chan_io' \in Seq([m : Cell, type : Requests \union Answers, from : Replicas])
      /\ Distinct(chan_io')
      /\ m.m \in CellsIn(chan_io)
      /\ CellsIn(chan_io') = CellsIn(chan_io) \ {m.m}
  BY <1>1, TailCells DEF IoTake
<1>3. m.m \in Cell /\ Targets(Me, m) \in Seq(Replicas) /\ n \in 1..N /\ N \in Nat
  BY <1>2, TargetsAreNodes, InstanceAssumption
<1>4. /\ io' = [at |-> "push", m |-> m.m, to |-> Targets(Me, m)]
      /\ ref' = [ref EXCEPT ![m.m] = n]
      /\ UNCHANGED <<made, lost, chan_step, conn, thr, faults, accepts, undefined>>
  BY DEF IoTake, Refs, counters
<1> HIDE DEF m, n
<1>5. CellsIn(chan_step') = CellsIn(chan_step) /\ m.m \notin CellsIn(chan_step)
  BY <1>2, <1>4 DEF CellsIn, IoInv, Once
<1>6. Waiting' = Waiting \ {m.m} /\ m.m \in Waiting
  BY <1>2, <1>5 DEF Waiting
<1>7. ref' \in [Cell -> Nat] /\ \A c \in Cell : ref'[c] = IF c = m.m THEN n ELSE ref[c]
  BY <1>3, <1>4 DEF IoInv, Types
<1>8. ASSUME NEW c \in Cell
      PROVE  Copies(c) \in Nat /\ Copies(c)' = Copies(c) + (IF c = m.m THEN n ELSE 0)
  <2>1. /\ Cardinality(SlotsOf(conn, c)) \in Nat /\ Cardinality(Hands(thr, c)) \in Nat
        /\ lost[c] \in Nat
    BY PartsAreNumbers DEF IoInv
  <2>2. Unsent(c) = 0
    BY <1>1 DEF Unsent, Cell, NoCell
  <2>3. Unsent(c)' = IF c = m.m THEN n ELSE 0
    BY <1>3, <1>4 DEF Unsent, n
  <2>4. QED
    BY <1>3, <1>4, <2>1, <2>2, <2>3, CopiesAre
<1>9. Accounted'
  <2>1. ASSUME NEW c \in Cell
        PROVE  /\ c \in Waiting' => ref'[c] = 1 /\ Copies(c)' = 0
               /\ c \notin Waiting' => ref'[c] = Copies(c)'
               /\ ref'[c] <= N
    <3>1. CASE c = m.m
      BY <1>3, <1>6, <1>7, <1>8, <3>1 DEF IoInv, Accounted
    <3>2. CASE c # m.m
      BY <1>6, <1>7, <1>8, <3>2 DEF IoInv, Accounted
    <3>3. QED
      BY <3>1, <3>2
  <2>2. QED
    BY <2>1 DEF Accounted
<1>10. Fresh'
  BY <1>4, <1>6, <1>7 DEF IoInv, Fresh
<1>11. Once'
  BY <1>2, <1>4, <1>5 DEF IoInv, Once, Distinct
<1>12. Types'
  BY <1>2, <1>4, <1>7 DEF IoInv, Types
<1>13. Control'
  <2>1. io'.at = "push" /\ io'.m = m.m /\ io'.to = Targets(Me, m) /\ Targets(Me, m) # <<>>
    BY <1>3, <1>4 DEF n
  <2>2. io' \in [at : {"idle", "push", "store", "look", "stopped"},
                 m : Cell \union {NoCell}, to : Seq(Replicas)]
    BY <1>3, <1>4
  <2>3. QED
    BY <1>3, <1>4, <2>1, <2>2 DEF IoInv, Control
<1>14. QED
  BY <1>9, <1>10, <1>11, <1>12, <1>13 DEF IoInv

\* io_reader between two messages has none.
LEMMA IdleIs ==
    /\ Idle \in [at : {"idle", "push", "store", "look", "stopped"},
                 m : Cell \union {NoCell}, to : Seq(Replicas)]
    /\ Idle.at = "idle" /\ Idle.m = NoCell
BY DEF Idle

\* connection_write sees room on the ring, or io_reader returns for good.
LEMMA IoPushKeeps ==
    ASSUME IoInv, IoPush
    PROVE  IoInv'
<1>1. /\ io.at = "push" /\ io.m \in Cell /\ io.to \in Seq(Replicas) /\ io.to # <<>>
      /\ io \in [at : {"idle", "push", "store", "look", "stopped"},
                 m : Cell \union {NoCell}, to : Seq(Replicas)]
      /\ lost \in [Cell -> Nat]
  BY DEF IoInv, Types, Control, IoPush
<1>2. Len(io.to) \in Nat /\ Head(io.to) \in Replicas
  BY <1>1
<1>3. UNCHANGED <<made, ref, chan_step, chan_io, conn, thr, faults, accepts, undefined>>
  BY DEF IoPush, counters
<1>4. CASE Room(Head(io.to)) /\ io' = [io EXCEPT !.at = "store"] /\ UNCHANGED lost
  <2>1. /\ io' \in [at : {"idle", "push", "store", "look", "stopped"},
                    m : Cell \union {NoCell}, to : Seq(Replicas)]
        /\ io'.at = "store" /\ io'.m = io.m /\ io'.to = io.to
    BY <1>1, <1>4
  <2>2. ASSUME NEW c \in Cell
        PROVE  Copies(c)' = Copies(c)
    <3>1. Unsent(c)' = Unsent(c)
      BY <1>1, <2>1 DEF Unsent
    <3>2. QED
      BY <1>3, <1>4, <3>1, CopiesAre
  <2>3. Types'
    BY <1>3, <1>4 DEF IoInv, Types
  <2>4. Control'
    <3>1. Len(conn[Head(io.to)].q) < Capacity - 1
      BY <1>4 DEF Room
    <3>2. QED
      BY <1>1, <1>3, <2>1, <3>1 DEF IoInv, Control
  <2>5. QED
    BY <1>3, <2>2, <2>3, <2>4, QuietKeeps DEF IoInv
<1>5. CASE /\ io' = [Idle EXCEPT !.at = "stopped"]
           /\ lost' = [lost EXCEPT ![io.m] = @ + Len(io.to)]
  <2>1. /\ io' \in [at : {"idle", "push", "store", "look", "stopped"},
                    m : Cell \union {NoCell}, to : Seq(Replicas)]
        /\ io'.at = "stopped" /\ io'.m = NoCell
    BY <1>5, IdleIs
  <2>2. /\ lost' \in [Cell -> Nat]
        /\ \A c \in Cell : lost'[c] = lost[c] + (IF c = io.m THEN Len(io.to) ELSE 0)
    BY <1>1, <1>2, <1>5
  <2>3. ASSUME NEW c \in Cell
        PROVE  Copies(c)' = Copies(c)
    <3>1. Unsent(c)' = 0 /\ Unsent(c) = IF c = io.m THEN Len(io.to) ELSE 0
      BY <1>1, <1>2, <2>1 DEF Unsent, Cell, NoCell
    <3>2. /\ Cardinality(SlotsOf(conn, c)) \in Nat /\ Cardinality(Hands(thr, c)) \in Nat
          /\ lost[c] \in Nat
      BY PartsAreNumbers DEF IoInv
    <3>3. lost'[c] = lost[c] + (IF c = io.m THEN Len(io.to) ELSE 0)
      BY <2>2
    <3>4. QED
      BY <1>2, <1>3, <3>1, <3>2, <3>3, CopiesAre
  <2>4. Types'
    BY <1>3, <2>2 DEF IoInv, Types
  <2>5. Control'
    BY <1>3, <2>1 DEF IoInv, Control
  <2>6. QED
    BY <1>3, <2>3, <2>4, <2>5, QuietKeeps DEF IoInv
<1>6. QED
  BY <1>4, <1>5 DEF IoPush

\* chan_send_spsc stores the entry, in the room that is still there.
LEMMA IoStoreKeeps ==
    ASSUME IoInv, IoStore
    PROVE  IoInv'
<1> DEFINE p == Head(io.to)
           y == [conn[p] EXCEPT !.q = Append(@, io.m)]
<1>1. /\ io.at = "store" /\ io.m \in Cell /\ io.to \in Seq(Replicas) /\ io.to # <<>>
      /\ io \in [at : {"idle", "push", "store", "look", "stopped"},
                 m : Cell \union {NoCell}, to : Seq(Replicas)]
      /\ Len(conn[p].q) < Capacity - 1
      /\ conn \in [Replicas -> ConnRecord]
  BY DEF IoInv, Types, Control, ConnRecord, IoStore
<1>2. /\ Len(io.to) \in Nat /\ p \in Replicas /\ Capacity \in Nat
      /\ conn[p] \in ConnRecord /\ conn[p].q \in Seq(Cell)
  BY <1>1, IoAssumption DEF ConnRecord
<1>3. /\ UNCHANGED <<made, ref, lost, chan_step, chan_io, thr, faults, accepts, undefined>>
      /\ io' = [io EXCEPT !.at = "look"]
  BY DEF IoStore, heap, counters
<1>4. /\ io' \in [at : {"idle", "push", "store", "look", "stopped"},
                  m : Cell \union {NoCell}, to : Seq(Replicas)]
      /\ io'.at = "look" /\ io'.m = io.m /\ io'.to = io.to
  BY <1>1, <1>3
<1>5. conn' = [conn EXCEPT ![p] = y]
  BY <1>1, <1>2 DEF IoStore
<1>6. y \in ConnRecord /\ y.q = Append(conn[p].q, io.m) /\ Len(y.q) < Capacity
  <2>. HIDE DEF p
  <2>1. /\ Append(conn[p].q, io.m) \in Seq(Cell)
        /\ Len(Append(conn[p].q, io.m)) = Len(conn[p].q) + 1
        /\ Len(conn[p].q) \in Nat
    BY <1>1, <1>2
  <2>2. y \in ConnRecord
    BY <1>2, <2>1 DEF ConnRecord
  <2>3. y.q = Append(conn[p].q, io.m)
    BY <1>2 DEF ConnRecord
  <2>. HIDE DEF y
  <2>4. QED
    BY <1>1, <1>2, <2>1, <2>2, <2>3
<1> HIDE DEF y
<1>7. /\ conn' \in [Replicas -> ConnRecord]
      /\ \A o \in Replicas : Len(conn'[o].q) < Capacity
      /\ \A o \in Replicas \ {p} : conn'[o] = conn[o]
      /\ conn'[p] = y
  BY <1>2, <1>5, <1>6, ConnTypes
<1>8. ASSUME NEW c \in Cell
      PROVE  Copies(c)' = Copies(c)
  <2>1. Cardinality(SlotsOf(conn', c)) =
            Cardinality(SlotsOf(conn, c)) + (IF c = io.m THEN 1 ELSE 0)
    <3>1. Elsewhere(conn', p, c) = Elsewhere(conn, p, c)
      BY <1>7 DEF Elsewhere
    <3>2. conn'[p].q = Append(conn[p].q, io.m) /\ Len(conn[p].q) < Capacity
      <4>1. Len(conn[p].q) \in Nat
        BY <1>2
      <4>2. QED
        BY <1>1, <1>2, <1>6, <1>7, <4>1
    <3>. HIDE DEF p
    <3>3. QED
      <4>1. p \in Replicas /\ conn[p].q \in Seq(Cell) /\ io.m \in Cell
        BY <1>1, <1>2
      <4>2. QED
        BY <3>1, <3>2, <4>1, SlotsAppend, ZenonT(60)
  <2>2. Unsent(c)' = Unsent(c) - (IF c = io.m THEN 1 ELSE 0)
    <3>1. Len(io.to) \in Nat /\ io.at = "store"
      BY <1>1, <1>2
    <3>2. Unsent(c) = IF io.m # c THEN 0 ELSE Len(io.to)
      BY <3>1 DEF Unsent
    <3>3. Unsent(c)' = IF io.m # c THEN 0 ELSE Len(io.to) - 1
      BY <1>4, <3>1 DEF Unsent
    <3>4. CASE c = io.m
      BY <3>2, <3>3, <3>4
    <3>5. CASE c # io.m
      BY <3>2, <3>3, <3>5
    <3>6. QED
      BY <3>4, <3>5
  <2>3. /\ Cardinality(SlotsOf(conn, c)) \in Nat /\ Cardinality(Hands(thr, c)) \in Nat
        /\ Unsent(c) \in Nat /\ lost[c] \in Nat
    BY PartsAreNumbers DEF IoInv
  <2>4. QED
    BY <1>3, <2>1, <2>2, <2>3, CopiesAre
<1>9. Types'
  <2>. HIDE DEF p
  <2>1. QED
    BY <1>3, <1>7 DEF IoInv, Types, ConnRecord
<1>10. Control'
  BY <1>1, <1>3, <1>4 DEF IoInv, Control
<1>11. QED
  BY <1>3, <1>8, <1>9, <1>10, QuietKeeps DEF IoInv

\* connection_write looks whether the peer is dead, and goes on to the next.
LEMMA IoLookKeeps ==
    ASSUME IoInv, IoLook
    PROVE  IoInv'
<1>1. /\ io.at = "look" /\ io.m \in Cell /\ io.to \in Seq(Replicas) /\ io.to # <<>>
      /\ io \in [at : {"idle", "push", "store", "look", "stopped"},
                 m : Cell \union {NoCell}, to : Seq(Replicas)]
  BY DEF IoInv, Control, IoLook
<1>2. /\ Len(io.to) \in Nat /\ Len(io.to) > 0
      /\ Tail(io.to) \in Seq(Replicas) /\ Len(Tail(io.to)) = Len(io.to) - 1
  BY <1>1
<1>3. UNCHANGED <<made, ref, lost, chan_step, chan_io, faults, accepts>>
  BY DEF IoLook, heap, counters
<1>4. /\ thr' \in [Thread -> ThreadRecord]
      /\ \A u \in Thread : thr'[u].m # NoCell <=> thr'[u].at \in {"send", "sent", "fail"}
      /\ \A u \in Thread : thr'[u].at = "open" => thr'[u].tries < MaxTries
      /\ \A u \in Thread : thr'[u].m = thr[u].m
      /\ conn' \in [Replicas -> ConnRecord]
      /\ \A o \in Replicas : conn'[o].q = conn[o].q
  <2>1. PICK p \in Peer : IF conn[p].status = "DEAD" THEN NodeConnect(p) ELSE UNCHANGED <<conn, thr>>
    BY DEF IoLook
  <2>2. p \in Replicas
    BY DEF Peer
  <2>3. CASE conn[p].status = "DEAD"
    BY <2>1, <2>2, <2>3, NodeConnectKeeps
  <2>4. CASE conn[p].status # "DEAD"
    BY <2>1, <2>4 DEF IoInv, Types, Control, ThreadRecord, ConnRecord
  <2>5. QED
    BY <2>3, <2>4
<1>5. undefined' \in BOOLEAN
  BY DEF IoLook, IoInv, Types
<1>6. \/ Len(io.to) = 1 /\ io' = Idle
      \/ Len(io.to) > 1 /\ io' = [io EXCEPT !.at = "push", !.to = Tail(@)]
  <2>1. io' = IF Len(io.to) = 1 THEN Idle ELSE [io EXCEPT !.at = "push", !.to = Tail(@)]
    BY DEF IoLook
  <2>2. CASE Len(io.to) = 1
    BY <2>1, <2>2
  <2>3. CASE Len(io.to) # 1
    <3>1. Len(io.to) > 1
      <4>1. \A n \in Nat : n > 0 /\ n # 1 => n > 1
        OBVIOUS
      <4>2. QED
        BY <1>2, <2>3, <4>1, Zenon
    <3>2. io' = [io EXCEPT !.at = "push", !.to = Tail(@)]
      BY <2>1, <2>3, Zenon
    <3>3. QED
      BY <3>1, <3>2, Zenon
  <2>4. QED
    BY <2>2, <2>3
<1>7. /\ io' \in [at : {"idle", "push", "store", "look", "stopped"},
                  m : Cell \union {NoCell}, to : Seq(Replicas)]
      /\ \/ io'.at = "idle" /\ io'.m = NoCell /\ Len(io.to) = 1
         \/ io'.at = "push" /\ io'.m = io.m /\ io'.to = Tail(io.to) /\ Len(io.to) > 1
  <2>1. CASE Len(io.to) = 1 /\ io' = Idle
    BY <2>1, IdleIs
  <2>2. CASE Len(io.to) > 1 /\ io' = [io EXCEPT !.at = "push", !.to = Tail(@)]
    BY <1>1, <1>2, <2>2
  <2>3. QED
    BY <1>6, <2>1, <2>2
<1>8. ASSUME NEW c \in Cell
      PROVE  Copies(c)' = Copies(c)
  <2>1. Unsent(c)' = Unsent(c)
    <3>1. CASE io'.at = "idle" /\ io'.m = NoCell /\ Len(io.to) = 1
      <4>1. Unsent(c)' = 0
        BY <3>1 DEF Unsent, Cell, NoCell
      <4>2. Unsent(c) = 0
        BY <1>1, <3>1 DEF Unsent
      <4>3. QED
        BY <4>1, <4>2
    <3>2. CASE io'.at = "push" /\ io'.m = io.m /\ io'.to = Tail(io.to) /\ Len(io.to) > 1
      BY <1>1, <1>2, <3>2 DEF Unsent
    <3>3. QED
      BY <1>7, <3>1, <3>2
  <2>2. SlotsOf(conn', c) = SlotsOf(conn, c) /\ Hands(thr', c) = Hands(thr, c)
    BY <1>4 DEF SlotsOf, Hands
  <2>3. QED
    BY <1>3, <2>1, <2>2, CopiesAre
<1>9. Types'
  BY <1>3, <1>4, <1>5 DEF IoInv, Types, ThreadRecord, ConnRecord
<1>10. Control'
  <2>1. io'.at = "push" => io'.to # <<>>
    BY <1>2, <1>7
  <2>2. QED
    BY <1>1, <1>4, <1>7, <2>1 DEF Control
<1>11. QED
  BY <1>3, <1>8, <1>9, <1>10, QuietKeeps DEF IoInv

-----------------------------------------------------------------------------
(* The channels between the replica, the threads and io_reader.            *)

\* A message with one reference that goes to a channel, or is lost on its way
\* to one; no other message is touched.
LEMMA HandOver ==
    ASSUME IoInv, NEW e \in Cell, UNCHANGED io,
           \A p \in Replicas : conn'[p].q = conn[p].q,
           \A t \in Thread : thr'[t].m = thr[t].m,
           \A c \in Cell \ {e} : lost'[c] = lost[c] /\ ref'[c] = ref[c]
                                     /\ (c \in Waiting' <=> c \in Waiting),
           Copies(e) = 0, ref'[e] = 1,
           e \in Waiting' => lost'[e] = lost[e],
           e \notin Waiting' => lost'[e] = lost[e] + 1,
           made' \in Nat, made' >= made, e <= made'
    PROVE  Accounted' /\ Fresh'
<1>1. ASSUME NEW c \in Cell
      PROVE  /\ Copies(c) \in Nat
             /\ lost[c] \in Nat
             /\ lost'[c] = lost[c] => Copies(c)' = Copies(c)
             /\ lost'[c] = lost[c] + 1 => Copies(c)' = Copies(c) + 1
  <2>1. SlotsOf(conn', c) = SlotsOf(conn, c) /\ Hands(thr', c) = Hands(thr, c)
    BY DEF SlotsOf, Hands
  <2>2. Unsent(c)' = Unsent(c)
    BY DEF Unsent
  <2>3. /\ Cardinality(SlotsOf(conn, c)) \in Nat /\ Cardinality(Hands(thr, c)) \in Nat
        /\ Unsent(c) \in Nat /\ lost[c] \in Nat
    BY PartsAreNumbers DEF IoInv
  <2>4. QED
    BY <2>1, <2>2, <2>3, CopiesAre
<1>2. N \in Nat /\ N >= 2
  BY InstanceAssumption
<1>3. ASSUME NEW c \in Cell
      PROVE  /\ c \in Waiting' => ref'[c] = 1 /\ Copies(c)' = 0
             /\ c \notin Waiting' => ref'[c] = Copies(c)'
             /\ ref'[c] <= N
  <2>1. CASE c = e
    BY <1>1, <1>2, <2>1
  <2>2. CASE c # e
    BY <1>1, <2>2 DEF IoInv, Accounted
  <2>3. QED
    BY <2>1, <2>2
<1>4. Accounted'
  BY <1>3 DEF Accounted
<1>5. Fresh'
  <2>1. ASSUME NEW c \in Cell, c > made'
        PROVE  c \notin Waiting' /\ ref'[c] = 0
    <3>1. made \in Nat /\ c \in Nat /\ e \in Nat
      BY DEF IoInv, Types, Cell
    <3>2. c > made /\ c # e
      BY <2>1, <3>1
    <3>3. QED
      BY <3>2 DEF IoInv, Fresh
  <2>2. QED
    BY <2>1 DEF Fresh
<1>6. QED
  BY <1>4, <1>5

\* Memory just allocated is nowhere yet.
LEMMA MallocIs ==
    ASSUME IoInv, NEW e \in Cell, Malloc(e)
    PROVE  /\ made' \in 0..Cells /\ made' >= made /\ e <= made'
           /\ e \notin Waiting /\ Copies(e) = 0
           /\ ref' \in [Cell -> Nat] /\ ref'[e] = 1
           /\ \A c \in Cell \ {e} : ref'[c] = ref[c]
<1>1. made \in Nat /\ Cells \in Nat /\ made < Cells /\ e = made + 1 /\ made' = e
  BY IoAssumption DEF Malloc, IoInv, Types
<1>2. e \notin Waiting /\ ref[e] = 0
  BY <1>1 DEF IoInv, Fresh
<1>3. Copies(e) = 0
  BY <1>2 DEF IoInv, Accounted
<1>4. /\ ref' \in [Cell -> Nat] /\ ref'[e] = 1
      /\ \A c \in Cell \ {e} : ref'[c] = ref[c]
  BY DEF Malloc, IoInv, Types
<1>5. made' \in 0..Cells /\ made' >= made /\ e <= made'
  BY <1>1
<1>6. QED
  BY <1>2, <1>3, <1>4, <1>5

\* What a full ring does to the account.
LEMMA SpillIs ==
    ASSUME IoInv, NEW e \in Cell, NEW q, Spill(q, e)
    PROVE  /\ lost' \in [Cell -> Nat]
           /\ \A c \in Cell \ {e} : lost'[c] = lost[c]
           /\ lost'[e] = IF Len(q) < Capacity - 1 THEN lost[e] ELSE lost[e] + 1
<1>1. lost \in [Cell -> Nat]
  BY DEF IoInv, Types
<1>2. CASE Len(q) < Capacity - 1
  BY <1>1, <1>2 DEF Spill
<1>3. CASE ~(Len(q) < Capacity - 1)
  <2>1. lost' = [lost EXCEPT ![e] = @ + 1]
    BY <1>3 DEF Spill
  <2>2. QED
    BY <1>1, <1>3, <2>1
<1>4. QED
  BY <1>2, <1>3

\* writer hands what it has read to the replica.
LEMMA ReceiveKeeps ==
    ASSUME IoInv, NEW t \in Thread, Receive(t)
    PROVE  IoInv'
<1>1. PICK e \in Cell :
          /\ Malloc(e)
          /\ chan_step' = Enqueue(chan_step, [m |-> e, from |-> thr[t].peer])
          /\ Spill(chan_step, e)
  BY DEF Receive
<1> DEFINE x == [m |-> e, from |-> thr[t].peer]
<1>2. /\ thr \in [Thread -> ThreadRecord] /\ thr[t].peer \in Replicas
      /\ chan_step \in Seq([m : Cell, from : Replicas]) /\ Distinct(chan_step)
  BY DEF IoInv, Types, Once, ThreadRecord
<1>3. /\ UNCHANGED <<chan_io, io, conn, faults, accepts, undefined>>
      /\ (thr[t].at = "half" /\ End(t)) \/ UNCHANGED thr
  BY DEF Receive, counters
<1>4. /\ made' \in 0..Cells /\ made' >= made /\ e <= made'
      /\ e \notin Waiting /\ Copies(e) = 0
      /\ ref' \in [Cell -> Nat] /\ ref'[e] = 1
      /\ \A c \in Cell \ {e} : ref'[c] = ref[c]
  BY <1>1, MallocIs
<1>5. /\ lost' \in [Cell -> Nat]
      /\ \A c \in Cell \ {e} : lost'[c] = lost[c]
      /\ lost'[e] = IF Len(chan_step) < Capacity - 1 THEN lost[e] ELSE lost[e] + 1
  BY <1>1, SpillIs
<1>6. /\ chan_step' \in Seq([m : Cell, from : Replicas])
      /\ Distinct(chan_step')
      /\ CellsIn(chan_step') =
            IF Len(chan_step) < Capacity - 1 THEN CellsIn(chan_step) \union {e}
            ELSE CellsIn(chan_step)
  <2>1. x \in [m : Cell, from : Replicas] /\ x.m = e /\ e \notin CellsIn(chan_step)
    BY <1>2, <1>4 DEF Waiting
  <2>. HIDE DEF x
  <2>2. chan_step' = Enqueue(chan_step, x)
    BY <1>1 DEF x
  <2>3. QED
    BY <1>2, <2>1, <2>2, EnqueueCells
<1>7. CellsIn(chan_io') = CellsIn(chan_io)
  BY <1>3 DEF CellsIn
<1>8. /\ \A c \in Cell \ {e} : c \in Waiting' <=> c \in Waiting
      /\ e \in Waiting' <=> Len(chan_step) < Capacity - 1
  BY <1>4, <1>6, <1>7 DEF Waiting
<1>9. /\ thr' \in [Thread -> ThreadRecord]
      /\ \A u \in Thread : thr'[u].m # NoCell <=> thr'[u].at \in {"send", "sent", "fail"}
      /\ \A u \in Thread : thr'[u].at = "open" => thr'[u].tries < MaxTries
      /\ \A u \in Thread : thr'[u].m = thr[u].m
  <2>1. CASE thr[t].at = "half" /\ End(t)
    <3>1. thr[t].m = NoCell
      BY <2>1 DEF IoInv, Types
    <3>2. /\ thr' \in [Thread -> ThreadRecord]
          /\ \A u \in Thread : thr'[u].m # NoCell <=> thr'[u].at \in {"send", "sent", "fail"}
          /\ \A u \in Thread : thr'[u].at = "open" => thr'[u].tries < MaxTries
          /\ \A u \in Thread \ {t} : thr'[u] = thr[u]
          /\ thr'[t] = NotRunning
      BY <2>1, EndedThread, ThreadTypes DEF End
    <3>3. QED
      BY <3>1, <3>2, EndedThread
  <2>2. CASE UNCHANGED thr
    BY <1>2, <2>2 DEF IoInv, Types, Control
  <2>3. QED
    BY <1>3, <2>1, <2>2
<1>10. Accounted' /\ Fresh'
  <2>1. \A p \in Replicas : conn'[p].q = conn[p].q
    BY <1>3
  <2>2. made' \in Nat
    BY <1>4, IoAssumption
  <2>3. /\ e \in Waiting' => lost'[e] = lost[e]
        /\ e \notin Waiting' => lost'[e] = lost[e] + 1
    BY <1>5, <1>8
  <2>4. QED
    BY <1>3, <1>4, <1>5, <1>8, <1>9, <2>1, <2>2, <2>3, HandOver
<1>11. Once'
  BY <1>3, <1>4, <1>6, <1>7 DEF IoInv, Once, Waiting, Distinct
<1>12. Types'
  BY <1>3, <1>4, <1>5, <1>6, <1>9 DEF IoInv, Types, ThreadRecord
<1>13. Control'
  BY <1>3, <1>9 DEF IoInv, Control
<1>14. QED
  BY <1>10, <1>11, <1>12, <1>13 DEF IoInv

\* A timer of the replica fires, or a client proposes.
LEMMA ReplicaRequestsKeeps ==
    ASSUME IoInv, ReplicaRequests
    PROVE  IoInv'
<1>1. PICK e \in Cell, type \in Requests :
          /\ Malloc(e)
          /\ chan_io' = Enqueue(chan_io, [m |-> e, type |-> type, from |-> Me])
          /\ Spill(chan_io, e)
  BY DEF ReplicaRequests
<1> DEFINE x == [m |-> e, type |-> type, from |-> Me]
           Ent == [m : Cell, type : Requests \union Answers, from : Replicas]
<1>2. chan_io \in Seq(Ent) /\ Distinct(chan_io)
  BY DEF IoInv, Types, Once
<1>3. UNCHANGED <<chan_step, io, conn, thr, faults, accepts, undefined>>
  BY DEF ReplicaRequests, counters
<1>4. /\ made' \in 0..Cells /\ made' >= made /\ e <= made'
      /\ e \notin Waiting /\ Copies(e) = 0
      /\ ref' \in [Cell -> Nat] /\ ref'[e] = 1
      /\ \A c \in Cell \ {e} : ref'[c] = ref[c]
  BY <1>1, MallocIs
<1>5. /\ lost' \in [Cell -> Nat]
      /\ \A c \in Cell \ {e} : lost'[c] = lost[c]
      /\ lost'[e] = IF Len(chan_io) < Capacity - 1 THEN lost[e] ELSE lost[e] + 1
  BY <1>1, SpillIs
<1>6. /\ chan_io' \in Seq(Ent)
      /\ Distinct(chan_io')
      /\ CellsIn(chan_io') =
            IF Len(chan_io) < Capacity - 1 THEN CellsIn(chan_io) \union {e}
            ELSE CellsIn(chan_io)
  <2>1. x \in Ent /\ x.m = e /\ e \notin CellsIn(chan_io)
    BY <1>4, IoAssumption DEF Waiting
  <2>. HIDE DEF x, Ent
  <2>2. chan_io' = Enqueue(chan_io, x)
    BY <1>1 DEF x
  <2>3. QED
    BY <1>2, <2>1, <2>2, EnqueueCells
<1>7. CellsIn(chan_step') = CellsIn(chan_step)
  BY <1>3 DEF CellsIn
<1>8. /\ \A c \in Cell \ {e} : c \in Waiting' <=> c \in Waiting
      /\ e \in Waiting' <=> Len(chan_io) < Capacity - 1
  BY <1>4, <1>6, <1>7 DEF Waiting
<1>9. Accounted' /\ Fresh'
  <2>1. /\ \A p \in Replicas : conn'[p].q = conn[p].q
        /\ \A u \in Thread : thr'[u].m = thr[u].m
    BY <1>3
  <2>2. made' \in Nat
    BY <1>4, IoAssumption
  <2>3. /\ e \in Waiting' => lost'[e] = lost[e]
        /\ e \notin Waiting' => lost'[e] = lost[e] + 1
    BY <1>5, <1>8
  <2>4. QED
    BY <1>3, <1>4, <1>5, <1>8, <2>1, <2>2, <2>3, HandOver
<1>10. Once'
  BY <1>3, <1>4, <1>6, <1>7 DEF IoInv, Once, Waiting, Distinct
<1>11. Types'
  BY <1>3, <1>4, <1>5, <1>6 DEF IoInv, Types
<1>12. Control'
  BY <1>3 DEF IoInv, Control
<1>13. QED
  BY <1>9, <1>10, <1>11, <1>12 DEF IoInv

\* The next message the replica is to handle has one reference and is in no
\* ring and no hand, and memory that was allocated.
LEMMA NextToHandle ==
    ASSUME IoInv, chan_step # <<>>
    PROVE  /\ Head(chan_step) \in [m : Cell, from : Replicas]
           /\ Head(chan_step).m \in Cell /\ Head(chan_step).from \in Replicas
           /\ Tail(chan_step) \in Seq([m : Cell, from : Replicas])
           /\ Distinct(Tail(chan_step))
           /\ CellsIn(Tail(chan_step)) = CellsIn(chan_step) \ {Head(chan_step).m}
           /\ Head(chan_step).m \in CellsIn(chan_step)
           /\ Head(chan_step).m \notin CellsIn(chan_io)
           /\ ref[Head(chan_step).m] = 1 /\ Copies(Head(chan_step).m) = 0
           /\ Head(chan_step).m <= made
<1> DEFINE S == [m : Cell, from : Replicas]
           e == Head(chan_step).m
<1>1. chan_step \in Seq(S) /\ Distinct(chan_step)
  BY DEF IoInv, Types, Once
<1>2. /\ Head(chan_step) \in S
      /\ Tail(chan_step) \in Seq(S)
      /\ Distinct(Tail(chan_step))
      /\ e \in CellsIn(chan_step)
      /\ CellsIn(Tail(chan_step)) = CellsIn(chan_step) \ {e}
  <2>. HIDE DEF S
  <2>1. QED
    BY <1>1, TailCells
<1>3. e \in Cell /\ Head(chan_step).from \in Replicas
  BY <1>2
<1>4. e \notin CellsIn(chan_io) /\ e \in Waiting
  BY <1>2 DEF IoInv, Once, Waiting
<1>5. ref[e] = 1 /\ Copies(e) = 0
  BY <1>3, <1>4 DEF IoInv, Accounted
<1>6. e <= made
  <2>1. made \in Nat /\ e \in Nat
    BY <1>3 DEF IoInv, Types, Cell
  <2>2. ~(e > made)
    BY <1>3, <1>4 DEF IoInv, Fresh
  <2>. HIDE DEF e
  <2>3. QED
    BY <2>1, <2>2
<1>7. QED
  BY <1>2, <1>3, <1>4, <1>5, <1>6

\* A handler sends the message it got on.
LEMMA ReplicaAnswersKeeps ==
    ASSUME IoInv, ReplicaAnswers
    PROVE  IoInv'
<1> DEFINE e == Head(chan_step).m
           Ent == [m : Cell, type : Requests \union Answers, from : Replicas]
<1>1. PICK type \in Answers :
          chan_io' = Enqueue(chan_io, [m |-> e, type |-> type, from |-> Head(chan_step).from])
  BY DEF ReplicaAnswers
<1> DEFINE x == [m |-> e, type |-> type, from |-> Head(chan_step).from]
<1>2. chan_io \in Seq(Ent) /\ Distinct(chan_io)
  BY DEF IoInv, Types, Once
<1>3. /\ UNCHANGED <<made, ref, io, conn, thr, faults, accepts, undefined>>
      /\ chan_step' = Tail(chan_step) /\ chan_step # <<>>
      /\ Spill(chan_io, e)
  BY DEF ReplicaAnswers, counters
<1>4. /\ e \in Cell /\ Head(chan_step).from \in Replicas
      /\ Tail(chan_step) \in Seq([m : Cell, from : Replicas])
      /\ Distinct(Tail(chan_step))
      /\ CellsIn(Tail(chan_step)) = CellsIn(chan_step) \ {e}
      /\ e \in CellsIn(chan_step)
      /\ e \notin CellsIn(chan_io)
      /\ ref[e] = 1 /\ Copies(e) = 0
      /\ e <= made
  BY <1>3, NextToHandle
<1>5. x \in Ent /\ x.m = e
  BY <1>4
<1>6. chan_io' = Enqueue(chan_io, x)
  BY <1>1
<1> HIDE DEF e, x, Ent
<1>7. /\ lost' \in [Cell -> Nat]
      /\ \A c \in Cell \ {e} : lost'[c] = lost[c]
      /\ lost'[e] = IF Len(chan_io) < Capacity - 1 THEN lost[e] ELSE lost[e] + 1
  BY <1>3, <1>4, SpillIs
<1>8. /\ chan_io' \in Seq(Ent)
      /\ Distinct(chan_io')
      /\ CellsIn(chan_io') =
            IF Len(chan_io) < Capacity - 1 THEN CellsIn(chan_io) \union {e}
            ELSE CellsIn(chan_io)
  BY <1>2, <1>4, <1>5, <1>6, EnqueueCells
<1>9. CellsIn(chan_step') = CellsIn(chan_step) \ {e}
  BY <1>3, <1>4
<1>10. Waiting' = CellsIn(chan_step') \union CellsIn(chan_io')
  BY DEF Waiting
<1>11. /\ \A c \in Cell \ {e} : c \in Waiting' <=> c \in Waiting
       /\ e \in Waiting' <=> Len(chan_io) < Capacity - 1
  BY <1>4, <1>8, <1>9, <1>10 DEF Waiting
<1>12. Accounted' /\ Fresh'
  <2>1. /\ \A p \in Replicas : conn'[p].q = conn[p].q
        /\ \A u \in Thread : thr'[u].m = thr[u].m
    BY <1>3
  <2>2. made' \in Nat /\ made' >= made /\ made' = made
    BY <1>3, IoAssumption DEF IoInv, Types
  <2>3. /\ e \in Waiting' => lost'[e] = lost[e]
        /\ e \notin Waiting' => lost'[e] = lost[e] + 1
    BY <1>7, <1>11
  <2>4. /\ \A c \in Cell \ {e} : ref'[c] = ref[c]
        /\ ref'[e] = 1 /\ e <= made'
    BY <1>3, <1>4, <2>2
  <2>5. QED
    BY <1>3, <1>4, <1>7, <1>11, <2>1, <2>2, <2>3, <2>4, HandOver
<1>13. Once'
  <2>1. Distinct(chan_step') /\ Distinct(chan_io)'
    BY <1>3, <1>4, <1>8
  <2>2. CellsIn(chan_step') \intersect CellsIn(chan_io') = {}
    BY <1>8, <1>9 DEF IoInv, Once
  <2>3. QED
    BY <1>8, <2>1, <2>2 DEF Once
<1>14. Types'
  BY <1>3, <1>4, <1>7, <1>8 DEF IoInv, Types, Ent
<1>15. Control'
  BY <1>3 DEF IoInv, Control
<1>16. QED
  BY <1>12, <1>13, <1>14, <1>15 DEF IoInv

\* A handler drops the message it got.
LEMMA ReplicaIgnoresKeeps ==
    ASSUME IoInv, ReplicaIgnores
    PROVE  IoInv'
<1> DEFINE e == Head(chan_step).m
<1>1. /\ UNCHANGED <<made, ref, chan_io, io, conn, thr, faults, accepts, undefined>>
      /\ chan_step' = Tail(chan_step) /\ chan_step # <<>>
      /\ lost' = [lost EXCEPT ![e] = @ + 1]
  BY DEF ReplicaIgnores, counters
<1>2. /\ e \in Cell
      /\ Tail(chan_step) \in Seq([m : Cell, from : Replicas])
      /\ Distinct(Tail(chan_step))
      /\ CellsIn(Tail(chan_step)) = CellsIn(chan_step) \ {e}
      /\ e \in CellsIn(chan_step)
      /\ e \notin CellsIn(chan_io)
      /\ ref[e] = 1 /\ Copies(e) = 0
      /\ e <= made
  BY <1>1, NextToHandle
<1> HIDE DEF e
<1>3. /\ lost' \in [Cell -> Nat]
      /\ \A c \in Cell \ {e} : lost'[c] = lost[c]
      /\ lost'[e] = lost[e] + 1
  BY <1>1, <1>2 DEF IoInv, Types
<1>4. CellsIn(chan_step') = CellsIn(chan_step) \ {e} /\ CellsIn(chan_io') = CellsIn(chan_io)
  BY <1>1, <1>2 DEF CellsIn
<1>5. Waiting' = CellsIn(chan_step') \union CellsIn(chan_io')
  BY DEF Waiting
<1>6. /\ \A c \in Cell \ {e} : c \in Waiting' <=> c \in Waiting
      /\ e \notin Waiting'
  BY <1>2, <1>4, <1>5 DEF Waiting
<1>7. Accounted' /\ Fresh'
  <2>1. /\ \A p \in Replicas : conn'[p].q = conn[p].q
        /\ \A u \in Thread : thr'[u].m = thr[u].m
    BY <1>1
  <2>2. made' \in Nat /\ made' >= made /\ made' = made
    BY <1>1, IoAssumption DEF IoInv, Types
  <2>3. /\ \A c \in Cell \ {e} : ref'[c] = ref[c]
        /\ ref'[e] = 1 /\ e <= made'
    BY <1>1, <1>2, <2>2
  <2>4. QED
    BY <1>1, <1>2, <1>3, <1>6, <2>1, <2>2, <2>3, HandOver
<1>8. Once'
  <2>1. Distinct(chan_step') /\ Distinct(chan_io')
    BY <1>1, <1>2 DEF IoInv, Once, Distinct
  <2>2. CellsIn(chan_step') \intersect CellsIn(chan_io') = {}
    BY <1>4 DEF IoInv, Once
  <2>3. QED
    BY <2>1, <2>2 DEF Once
<1>9. Types'
  BY <1>1, <1>2, <1>3 DEF IoInv, Types
<1>10. Control'
  BY <1>1 DEF IoInv, Control
<1>11. QED
  BY <1>7, <1>8, <1>9, <1>10 DEF IoInv

-----------------------------------------------------------------------------
(* The invariant.                                                          *)

\* new_node starts with no message, and a thread for each of its peers.
LEMMA IoInit == Init => IoInv
<1> SUFFICES ASSUME Init
             PROVE  IoInv
  OBVIOUS
<1> DEFINE Order(p) == Cardinality({q \in Join : q <= p})
<1>1. ASSUME NEW p \in Replicas
      PROVE  Order(p) \in Thread \union {NoThread}
  <2> DEFINE S == {q \in Join : q <= p}
  <2>1. IsFiniteSet(Replicas) /\ Cardinality(Replicas) = N /\ N \in Nat
    BY FS_Interval, InstanceAssumption DEF Replicas
  <2>2. S \in SUBSET Replicas
    BY IoAssumption
  <2>. HIDE DEF S
  <2>3. Cardinality(S) \in Nat /\ Cardinality(S) <= N
    BY <2>1, <2>2, FS_Subset, FS_CardinalityType
  <2>4. Cardinality(S) \in Thread \union {NoThread}
    BY <2>1, <2>3, IoAssumption DEF Thread, NoThread
  <2>5. QED
    BY <2>4 DEF S
<1>2. /\ made = 0 /\ ref = [c \in Cell |-> 0] /\ lost = [c \in Cell |-> 0]
      /\ chan_step = <<>> /\ chan_io = <<>> /\ io = Idle
      /\ faults = 0 /\ accepts = 0 /\ undefined = FALSE
  BY DEF Init
<1>3. /\ conn \in [Replicas -> ConnRecord]
      /\ \A p \in Replicas : conn[p].q = <<>>
  <2>1. conn = [p \in Replicas |->
                   [status |-> IF p \in Join THEN "CONNECTING" ELSE "DEAD",
                    init |-> FALSE, q |-> <<>>,
                    tid |-> IF p \in Join THEN Order(p) ELSE NoThread]]
    BY DEF Init
  <2>. HIDE DEF Order
  <2>2. QED
    BY <1>1, <2>1 DEF ConnRecord, NoThread
<1>4. /\ thr \in [Thread -> ThreadRecord]
      /\ \A t \in Thread : thr[t].m = NoCell
      /\ \A t \in Thread : thr[t].at \in {"open", "gone"} /\ thr[t].tries = 0
  <2>1. thr = [t \in Thread |->
                  IF \E p \in Join : Order(p) = t
                  THEN Started(CHOOSE p \in Join : Order(p) = t) ELSE NotRunning]
    BY DEF Init
  <2>2. ASSUME NEW p \in Replicas
        PROVE  /\ Started(p) \in ThreadRecord /\ Started(p).m = NoCell
               /\ Started(p).at = "open" /\ Started(p).tries = 0
    <3>1. NotRunning \in ThreadRecord /\ NotRunning.m = NoCell /\ NotRunning.tries = 0
      BY EndedThread DEF NotRunning
    <3>2. "open" \in At
      BY DEF At
    <3>3. QED
      BY <3>1, <3>2 DEF Started, ThreadRecord
  <2>3. /\ NotRunning \in ThreadRecord /\ NotRunning.m = NoCell
        /\ NotRunning.at = "gone" /\ NotRunning.tries = 0
    BY EndedThread DEF NotRunning
  <2>4. Join \subseteq Replicas
    BY IoAssumption
  <2>. HIDE DEF Order
  <2>5. \A t \in Thread : (\E p \in Join : Order(p) = t)
                              => (CHOOSE p \in Join : Order(p) = t) \in Replicas
    BY <2>4
  <2>6. ASSUME NEW t \in Thread
        PROVE  /\ thr[t] \in ThreadRecord /\ thr[t].m = NoCell
               /\ thr[t].at \in {"open", "gone"} /\ thr[t].tries = 0
    BY <2>1, <2>2, <2>3, <2>5
  <2>7. QED
    BY <2>1, <2>6
<1>5. Types
  <2>1. /\ 0 \in 0..Cells /\ 0 \in 0..MaxFaults /\ 0 \in 0..MaxAccepts
        /\ 0 < Capacity
    BY IoAssumption
  <2>2. \A p \in Replicas : Len(conn[p].q) < Capacity
    BY <1>3, <2>1
  <2>3. ref \in [Cell -> Nat] /\ lost \in [Cell -> Nat]
    BY <1>2
  <2>4. \A t \in Thread : thr[t].m # NoCell <=> thr[t].at \in {"send", "sent", "fail"}
    BY <1>4
  <2>5. /\ chan_step \in Seq([m : Cell, from : Replicas])
        /\ chan_io \in Seq([m : Cell, type : Requests \union Answers, from : Replicas])
    BY <1>2
  <2>6. QED
    BY <1>2, <1>3, <1>4, <2>1, <2>2, <2>3, <2>4, <2>5 DEF Types, ThreadRecord, ConnRecord
<1>6. Control
  BY <1>2, <1>4, IdleIs DEF Control, MaxTries
<1>7. Waiting = {}
  BY <1>2 DEF Waiting, CellsIn
<1>8. ASSUME NEW c \in Cell
      PROVE  Copies(c) = 0
  <2>1. SlotsOf(conn, c) = {}
    BY <1>3 DEF SlotsOf
  <2>2. Hands(thr, c) = {}
    BY <1>4 DEF Hands, Cell, NoCell
  <2>3. Unsent(c) = 0
    BY <1>2, IdleIs DEF Unsent, Cell, NoCell
  <2>4. lost[c] = 0
    BY <1>2
  <2>5. Cardinality(SlotsOf(conn, c)) = 0 /\ Cardinality(Hands(thr, c)) = 0
    BY <2>1, <2>2, FS_EmptySet
  <2>6. Copies(c) = Cardinality(SlotsOf(conn, c)) + Cardinality(Hands(thr, c))
                       + Unsent(c) + lost[c]
    BY CopiesAre
  <2>7. QED
    BY <2>3, <2>4, <2>5, <2>6
<1>9. Accounted /\ Fresh
  BY <1>2, <1>7, <1>8, InstanceAssumption DEF Accounted, Fresh
<1>10. Once
  BY <1>2 DEF Once, Distinct, CellsIn
<1>11. QED
  BY <1>5, <1>6, <1>9, <1>10 DEF IoInv

\* Every step keeps it.
LEMMA IoStepKeeps ==
    ASSUME IoInv, [Next]_vars
    PROVE  IoInv'
<1>1. CASE IoStep
  BY <1>1, IoTakeKeeps, IoPushKeeps, IoStoreKeeps, IoLookKeeps DEF IoStep
<1>2. ASSUME NEW p \in Peer, Accept(p)
      PROVE  IoInv'
  BY <1>2, AcceptKeeps DEF Peer
<1>3. ASSUME NEW t \in Thread, ThreadStep(t)
      PROVE  IoInv'
  BY <1>3, OpenKeeps, DialKeeps, DialFailsKeeps, ReaderTakeKeeps, ReaderStopsKeeps,
     SendKeeps, DestroyKeeps, GiveUpKeeps, ClosesKeeps DEF ThreadStep
<1>4. ASSUME NEW t \in Thread, Receive(t)
      PROVE  IoInv'
  BY <1>4, ReceiveKeeps
<1>5. ASSUME NEW t \in Thread, PeerCloses(t)
      PROVE  IoInv'
  BY <1>5, ClosesKeeps
<1>6. CASE ReplicaRequests
  BY <1>6, ReplicaRequestsKeeps
<1>7. CASE ReplicaAnswers
  BY <1>7, ReplicaAnswersKeeps
<1>8. CASE ReplicaIgnores
  BY <1>8, ReplicaIgnoresKeeps
<1>9. CASE UNCHANGED vars
  <2>1. Once' /\ Accounted' /\ Fresh'
    BY <1>9, StillKeeps DEF vars
  <2>2. Types' /\ Control'
    BY <1>9 DEF vars, IoInv, Types, Control
  <2>3. QED
    BY <2>1, <2>2 DEF IoInv
<1>10. QED
  BY <1>1, <1>2, <1>3, <1>4, <1>5, <1>6, <1>7, <1>8, <1>9 DEF Next

\* It holds of every state.
LEMMA IoAlways == Spec => []IoInv
BY IoInit, IoStepKeeps, PTL DEF Spec

\* The references of a message fit its counter, and every field of the node has
\* its type, whatever the threads do (io.c, channel.c).
THEOREM IoTypes == Spec => []TypeOK
<1>1. ASSUME IoInv
      PROVE  TypeOK
  <2>1. ASSUME NEW c \in Cell
        PROVE  ref[c] \in 0..N /\ lost[c] \in 0..N
    <3>1. /\ Cardinality(SlotsOf(conn, c)) \in Nat /\ Cardinality(Hands(thr, c)) \in Nat
          /\ Unsent(c) \in Nat /\ lost[c] \in Nat
      BY <1>1, PartsAreNumbers DEF IoInv
    <3>2. ref[c] \in Nat /\ ref[c] <= N /\ N \in Nat
      BY <1>1, InstanceAssumption DEF IoInv, Types, Accounted
    <3>3. Copies(c) <= N
      <4>1. CASE c \in Waiting
        BY <1>1, <3>2, <4>1 DEF IoInv, Accounted
      <4>2. CASE c \notin Waiting
        BY <1>1, <3>2, <4>2 DEF IoInv, Accounted
      <4>3. QED
        BY <4>1, <4>2
    <3>4. QED
      BY <3>1, <3>2, <3>3, CopiesAre
  <2>2. ref \in [Cell -> 0..N] /\ lost \in [Cell -> 0..N]
    BY <1>1, <2>1 DEF IoInv, Types
  <2>3. /\ io.at \in {"idle", "push", "store", "look", "stopped"}
        /\ io.m \in Cell \union {NoCell}
        /\ io.to \in Seq(Replicas) /\ (io.at \in {"push", "store", "look"} => io.to # <<>>)
    BY <1>1 DEF IoInv, Control
  <2>4. QED
    BY <1>1, <2>2, <2>3 DEF IoInv, Types, TypeOK
<1>2. QED
  BY <1>1, IoAlways, PTL

\* The references of a message that io_reader has begun to send are its copies
\* still to be written and the ones lost: nobody is left with memory that was
\* freed, and the last one to write frees it (the broadcast_* functions of io.c
\* against destroy_message).
THEOREM ReferencesAccounted == Spec => []RefsAccounted
<1>1. IoInv => RefsAccounted
  BY DEF IoInv, Accounted, RefsAccounted, Copies
<1>2. QED
  BY <1>1, IoAlways, PTL

=============================================================================
