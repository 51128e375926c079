------------------------------ MODULE EpxMessage ------------------------------
(***************************************************************************)
(* Messages, what the wire keeps of them (src/message.c) and which copies  *)
(* of them the io thread of a node sends (io_reader of src/io.c).          *)
(***************************************************************************)
EXTENDS EpxIndex, EpxRoute, Bags

CONSTANTS
    Linked,     \* the peers whose connection a node has set up
    MaxSeq,     \* bound: sequence numbers
    HeapReuse   \* bound: the nodes whose malloc may return memory that held a message

ASSUME MessageAssumption ==
    /\ Linked \in [Replicas -> SUBSET Replicas]
    /\ \A r \in Replicas : r \notin Linked[r]
    /\ MaxSeq \in Nat
    /\ HeapReuse \subseteq Replicas

Seqs == 0..MaxSeq

Payload == Command \union {NoCommand, Junk}

MessageType ==
    {"PHASE1", "PRE_ACCEPT", "PRE_ACCEPT_OK", "PRE_ACCEPT_REPLY", "ACCEPT",
     "ACCEPT_REPLY", "COMMIT", "PREPARE", "PREPARE_REPLY", "TRY_PRE_ACCEPT",
     "TRY_PRE_ACCEPT_REPLY"}

Message ==
    [type : MessageType, from : Replicas, to : Replicas, id : Ids,
     ballot : Ballot, nack : BOOLEAN, cmd : Payload, seq : Seqs,
     deps : DepList, status : State]

-----------------------------------------------------------------------------
(* The wire.  The conflict field of a message is never serialized.         *)

\* Dependencies on replica 0 are not serialized (message.c:80).
WireDeps(deps) ==
    LET sent[n \in 0..Len(deps)] ==
            IF n = 0 THEN <<>>
            ELSE IF deps[n].id.replica > 0 THEN Append(sent[n - 1], deps[n])
            ELSE sent[n - 1]
    IN  sent[Len(deps)]

\* message_to_buffer: PRE_ACCEPT_OK goes without instance data.
Encode(m) ==
    IF m.type = "PRE_ACCEPT_OK"
    THEN [m EXCEPT !.cmd = NoCommand, !.seq = 0, !.deps = <<>>]
    ELSE [m EXCEPT !.deps = WireDeps(m.deps)]

\* The slots message_from_buffer does not write keep what the memory held.
Overlay(deps, old) ==
    LET read == SubSeq(deps, 1, IF Len(deps) > N THEN N ELSE Len(deps))
    IN  read \o SubSeq(old, Len(read) + 1, Len(old))

\* What the memory of a new message can hold where decoding leaves it alone:
\* zeros from the operating system or the data of an earlier message.
Heap(r, db) ==
    {[seq |-> 0, deps |-> <<>>]} \union
    IF r \in HeapReuse
    THEN {[seq |-> db[x].seq, deps |-> db[x].deps] : x \in {y \in Ids : db[y].status # ABSENT}}
    ELSE {}

\* Variants: a PRE_ACCEPT, a PREPARE is read without its data.
DecodeRequestBare(m, db) ==
    {IF m.type \in {"PRE_ACCEPT_OK", "PRE_ACCEPT"}
     THEN [m EXCEPT !.cmd = Junk, !.seq = old.seq, !.deps = old.deps]
     ELSE [m EXCEPT !.deps = Overlay(m.deps, old.deps)] : old \in Heap(m.to, db)}

DecodePrepareBare(m, db) ==
    {IF m.type \in {"PRE_ACCEPT_OK", "PREPARE"}
     THEN [m EXCEPT !.cmd = Junk, !.seq = old.seq, !.deps = old.deps]
     ELSE [m EXCEPT !.deps = Overlay(m.deps, old.deps)] : old \in Heap(m.to, db)}

\* message_from_buffer into the memory of new_message (io.c:357).
Decode(m, db) ==
    {IF m.type = "PRE_ACCEPT_OK"
     THEN [m EXCEPT !.cmd = Junk, !.seq = old.seq, !.deps = old.deps]
     ELSE [m EXCEPT !.deps = Overlay(m.deps, old.deps)] : old \in Heap(m.to, db)}

\* Variant: no message is refused for its ballot.
NeverStale(m, i) == FALSE

\* A message under a lower ballot than the one its receiver promised.
Stale(m, i) == m.ballot < i.ballot

-----------------------------------------------------------------------------
(* Sending.  connection_write fails on a peer that was never connected,    *)
(* the node itself included; io_reader then returns and sends no more.     *)

\* The positions of the targets written before the first failure.
Written(r, m) ==
    LET to == Targets(r, m)
    IN  {k \in 1..Len(to) : \A j \in 1..k : to[j] \in Linked[r]}

IoSurvives(r, m) == Written(r, m) = 1..Len(Targets(r, m))

\* The copies of m that reach the connections of its targets.
Copies(r, m) ==
    LET Copy(k) == [Encode(m) EXCEPT !.from = r, !.to = Targets(r, m)[k]]
    IN  [c \in {Copy(k) : k \in Written(r, m)} |->
            Cardinality({k \in Written(r, m) : Copy(k) = c})]

=============================================================================
