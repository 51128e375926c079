-------------------------------- MODULE EpxIO --------------------------------
(***************************************************************************)
(* The sending side of one node (src/io.c): the replica hands messages to  *)
(* io_reader through chan_io; io_reader puts each of them on the rings of  *)
(* its targets; one thread per connection (try_connect) takes them off,    *)
(* writes them to the peer and drops its reference, and the last one to do *)
(* so frees the message (destroy_message).  The same threads receive, and  *)
(* feed the replica through chan_step.                                     *)
(*                                                                         *)
(* A message is a cell of the heap.  A cell is not allocated twice, so one *)
(* that was freed is told from every other for good.                       *)
(*                                                                         *)
(* undefined is a history variable: the run has met behaviour the C        *)
(* standard gives no meaning to, either a read of freed memory             *)
(* (connection_write reads m->to after it passed m on) or a ring of one    *)
(* producer and one consumer used by more (chan_init under a running       *)
(* enqueue or dequeue, two readers).  The properties say nothing then.     *)
(***************************************************************************)
EXTENDS EpxRoute, FiniteSets

CONSTANTS
    Me,             \* node_id of the node
    Join,           \* the peers new_node connects to
    Capacity,       \* CAPACITY of channel.h; a ring holds one less
    Cells,          \* bound: messages made or received
    Threads,        \* bound: connection threads at a time
    Requests,       \* types of the messages the replica makes itself
    Answers,        \* types it turns a received message into
    MaxFaults,      \* bound: connections that break
    MaxAccepts      \* bound: connections the peers open

\* new_node takes peer 0 in its join list for the end of it (node.c:72).
ASSUME IoAssumption ==
    /\ Me \in Replicas
    /\ Join \subseteq Replicas \ {0, Me}
    /\ Capacity \in Nat \ {0}
    /\ Cells \in Nat \ {0}
    /\ Threads \in Nat /\ Threads > N
    /\ MaxFaults \in Nat
    /\ MaxAccepts \in Nat

Cell == 1..Cells
NoCell == 0
Thread == 1..Threads
NoThread == 0
MaxTries == 3       \* reconnect of try_connect

VARIABLES
    made,       \* the cells allocated so far are 1..made
    ref,        \* ref of each cell; 0 once it is freed
    lost,       \* copies of each cell that nobody is going to destroy
    chan_step,  \* received: [m, from]
    chan_io,    \* to send: [m, type, from]
    io,         \* io_reader: where it is, its message, the targets left
    conn,       \* chan_nodes: status, chan_read, the thread last started
    thr,        \* the threads of try_connect
    faults, accepts,
    undefined

heap == <<made, ref, lost>>
counters == <<faults, accepts>>
vars == <<made, ref, lost, chan_step, chan_io, io, conn, thr, faults, accepts, undefined>>

Idle == [at |-> "idle", m |-> NoCell, to |-> <<>>]
NotRunning == [peer |-> Me, at |-> "gone", tries |-> 0, m |-> NoCell, cancelled |-> FALSE]
Started(p) == [NotRunning EXCEPT !.peer = p, !.at = "open"]

Peer == Replicas \ {Me}

\* The places of a thread whose connection is up.  "half": the reader
\* coroutine has ended, the writer still waits for its peer.
Up == {"run", "send", "sent", "fail", "failed", "half"}
At == {"open", "dial"} \union Up \union {"gone"}

TypeOK ==
    /\ made \in 0..Cells
    /\ ref \in [Cell -> 0..N]
    /\ lost \in [Cell -> 0..N]
    /\ chan_step \in Seq([m : Cell, from : Replicas])
    /\ chan_io \in Seq([m : Cell, type : Requests \union Answers, from : Replicas])
    /\ io.at \in {"idle", "push", "store", "look", "stopped"}
    /\ io.m \in Cell \union {NoCell}
    /\ io.to \in Seq(Replicas) /\ (io.at \in {"push", "store", "look"} => io.to # <<>>)
    /\ conn \in [Replicas -> [status : {"DEAD", "CONNECTING", "ALIVE"}, init : BOOLEAN,
                              q : Seq(Cell), tid : Thread \union {NoThread}]]
    /\ \A p \in Replicas : Len(conn[p].q) < Capacity
    /\ thr \in [Thread -> [peer : Replicas, at : At, tries : 0..MaxTries,
                           m : Cell \union {NoCell}, cancelled : BOOLEAN]]
    /\ \A t \in Thread : thr[t].m # NoCell <=> thr[t].at \in {"send", "sent", "fail"}
    /\ faults \in 0..MaxFaults
    /\ accepts \in 0..MaxAccepts
    /\ undefined \in BOOLEAN

-----------------------------------------------------------------------------
(* Memory.                                                                 *)

CellsIn(q) == {q[k].m : k \in DOMAIN q}

Waiting == CellsIn(chan_step) \union CellsIn(chan_io)

Queued(p, c) == Cardinality({k \in DOMAIN conn[p].q : conn[p].q[k] = c})

InHand(c) == Cardinality({t \in Thread : thr[t].m = c})

\* The targets io_reader has not put c on the ring of yet.
Unsent(c) == IF io.m # c THEN 0 ELSE Len(io.to) - (IF io.at = "look" THEN 1 ELSE 0)

\* The slots of the rings that hold c.
Slots(c) == {s \in Replicas \X (1..Capacity) :
                s[2] \in DOMAIN conn[s[1]].q /\ conn[s[1]].q[s[2]] = c}

\* The copies of c on their way to a peer.
Outstanding(c) == Cardinality(Slots(c)) + InHand(c) + Unsent(c)

Reachable(c) == c \in Waiting \/ io.m = c \/ Outstanding(c) > 0

\* new_message, calloc and message_from_instance.  Only the first sets ref;
\* that of a message the replica makes is of no account before io_reader
\* overwrites it.
Malloc(c) ==
    /\ made < Cells /\ c = made + 1
    /\ made' = c
    /\ ref' = [ref EXCEPT ![c] = 1]

\* destroy_message: the last reference frees the memory.
DestroyMessage(c) == ref' = IF ref[c] = 0 THEN ref ELSE [ref EXCEPT ![c] = @ - 1]

\* The entries of a ring that is initialised again, a message in the hands of
\* a thread that ends: nobody destroys them.
Drop(q) == lost' = [c \in Cell |-> lost[c] + Cardinality({k \in DOMAIN q : q[k] = c})]

-----------------------------------------------------------------------------
(* Rings: chan_init, chan_send_* and chan_recv_* over ck_ring.             *)

\* Variant: the ring is filled to the last slot.
RoomToTheLast(p) == conn[p].init /\ Len(conn[p].q) < Capacity

\* A ring of zeros, before chan_init, has no room.
Room(p) == conn[p].init /\ Len(conn[p].q) < Capacity - 1

Enqueue(q, e) == IF Len(q) < Capacity - 1 THEN Append(q, e) ELSE q

\* The message c that a full ring q does not take: its sender goes on without
\* it, and nobody destroys it.
Spill(q, c) == lost' = IF Len(q) < Capacity - 1 THEN lost ELSE [lost EXCEPT ![c] = @ + 1]

Readers(p) == {t \in Thread : thr[t].peer = p /\ thr[t].at = "run"}

-----------------------------------------------------------------------------
(* node_connect: the thread of the connection is cancelled unless the      *)
(* connection is DEAD, and a new one started.                              *)

NodeConnect(p) ==
    LET c == conn[p]
        t == CHOOSE u \in Thread : thr[u].at = "gone"
        Cancels(u) == c.status # "DEAD" /\ u = c.tid /\ thr[u].peer = p /\ thr[u].at # "gone"
    IN  /\ \E u \in Thread : thr[u].at = "gone"
        /\ thr' = [u \in Thread |->
                      CASE u = t -> Started(p)
                        [] Cancels(u) -> [thr[u] EXCEPT !.cancelled = TRUE]
                        [] OTHER -> thr[u]]
        /\ conn' = [conn EXCEPT ![p].status = "CONNECTING", ![p].tid = t]

\* node_listener runs on the thread of io_reader, while that one sleeps.
Accept(p) ==
    /\ io.at \in {"idle", "stopped"}
    /\ accepts < MaxAccepts
    /\ NodeConnect(p)
    /\ accepts' = accepts + 1
    /\ UNCHANGED <<heap, chan_step, chan_io, io, faults, undefined>>

-----------------------------------------------------------------------------
(* io_reader.                                                              *)

\* Variant: a COMMIT is counted as if it went to the peers alone.
RefsOfPeers(m) == IF m.type = "COMMIT" THEN N - 1 ELSE Len(Targets(Me, m))

\* m->ref of io_reader and the broadcast_* functions.
Refs(m) == Len(Targets(Me, m))

IoTake ==
    /\ io.at = "idle" /\ chan_io # <<>>
    /\ LET m == Head(chan_io)
       IN  /\ io' = [at |-> "push", m |-> m.m, to |-> Targets(Me, m)]
           /\ ref' = [ref EXCEPT ![m.m] = Refs(m)]
    /\ chan_io' = Tail(chan_io)
    /\ UNCHANGED <<made, lost, chan_step, conn, thr, counters, undefined>>

\* chan_send_spsc of connection_write, its first half: the room is read.  When
\* there is none io_reader returns for good.
IoPush ==
    /\ io.at = "push"
    /\ \/ /\ Room(Head(io.to))
          /\ io' = [io EXCEPT !.at = "store"]
          /\ UNCHANGED lost
       \/ /\ ~Room(Head(io.to))
          /\ io' = [Idle EXCEPT !.at = "stopped"]
          /\ lost' = [lost EXCEPT ![io.m] = @ + Len(io.to)]
    /\ UNCHANGED <<made, ref, chan_step, chan_io, conn, thr, counters, undefined>>

\* Its second half: the entry is stored.
IoStore ==
    /\ io.at = "store"
    /\ io' = [io EXCEPT !.at = "look"]
    /\ conn' = [conn EXCEPT ![Head(io.to)].q = Append(@, io.m)]
    /\ UNCHANGED <<heap, chan_step, chan_io, thr, counters, undefined>>

\* connection_write looks at the status of chan_nodes[m->to].  A message its
\* readers have freed meanwhile may hold any number there; any peer is taken
\* for it, and undefined is set.
IoLook ==
    /\ io.at = "look"
    /\ LET freed == ref[io.m] = 0
       IN  /\ undefined' = (undefined \/ freed)
           /\ \E p \in Peer :
                 /\ freed \/ p = Head(io.to)
                 /\ IF conn[p].status = "DEAD" THEN NodeConnect(p) ELSE UNCHANGED <<conn, thr>>
    /\ io' = IF Len(io.to) = 1 THEN Idle ELSE [io EXCEPT !.at = "push", !.to = Tail(@)]
    /\ UNCHANGED <<heap, chan_step, chan_io, counters>>

IoStep == IoTake \/ IoPush \/ IoStore \/ IoLook

-----------------------------------------------------------------------------
(* try_connect: the thread of a connection.                                *)

Become(t, at) == thr' = [thr EXCEPT ![t].at = at]
End(t) == thr' = [thr EXCEPT ![t] = NotRunning]

\* new_node_connection starts with init_fbs, which initialises the ring.
Open(t) ==
    LET p == thr[t].peer
    IN  /\ thr[t].at = "open"
        /\ thr' = [thr EXCEPT ![t].at = "dial", ![t].tries = @ + 1]
        /\ conn' = [conn EXCEPT ![p].init = TRUE, ![p].q = <<>>]
        /\ Drop(conn[p].q)
        /\ undefined' = (undefined \/ Readers(p) # {} \/ (io.at = "store" /\ Head(io.to) = p))
        /\ UNCHANGED <<made, ref, chan_step, chan_io, io, counters>>

\* Connected, ids exchanged, writer and reader started (run_conn).
Dial(t) ==
    /\ thr[t].at = "dial"
    /\ thr' = [thr EXCEPT ![t].at = "run", ![t].tries = 0]
    /\ conn' = [conn EXCEPT ![thr[t].peer].status = "ALIVE"]
    /\ UNCHANGED <<heap, chan_step, chan_io, io, counters, undefined>>

\* After a pause it tries again, three times in all; the status stays.
DialFails(t) ==
    /\ thr[t].at = "dial"
    /\ IF thr[t].tries < MaxTries THEN Become(t, "open") ELSE End(t)
    /\ UNCHANGED <<heap, chan_step, chan_io, io, conn, counters, undefined>>

\* writer: a message arrives.
Receive(t) ==
    /\ thr[t].at \in Up
    /\ \E c \in Cell :
          /\ Malloc(c)
          /\ chan_step' = Enqueue(chan_step, [m |-> c, from |-> thr[t].peer])
          /\ Spill(chan_step, c)
    /\ IF thr[t].at = "half" /\ conn[thr[t].peer].status # "ALIVE" THEN End(t) ELSE UNCHANGED thr
    /\ UNCHANGED <<chan_io, io, conn, counters, undefined>>

\* What becomes of the message in the hands of a thread that ends.
HandLost(t) ==
    lost' = IF thr[t].at = "send" THEN [lost EXCEPT ![thr[t].m] = @ + 1] ELSE lost

\* writer: the peer has closed the connection; pthread_exit takes the reader
\* along and leaves the status alone.
PeerCloses(t) ==
    /\ thr[t].at \in {"run", "send", "half"}
    /\ faults < MaxFaults
    /\ End(t)
    /\ HandLost(t)
    /\ faults' = faults + 1
    /\ UNCHANGED <<made, ref, chan_step, chan_io, io, conn, accepts, undefined>>


\* reader: chan_recv_spsc.
ReaderTake(t) ==
    LET p == thr[t].peer
    IN  /\ thr[t].at = "run" /\ conn[p].status = "ALIVE" /\ conn[p].q # <<>>
        /\ thr' = [thr EXCEPT ![t].at = "send", ![t].m = Head(conn[p].q)]
        /\ conn' = [conn EXCEPT ![p].q = Tail(@)]
        /\ undefined' = (undefined \/ Readers(p) # {t})
        /\ UNCHANGED <<heap, chan_step, chan_io, io, counters>>

\* reader: the connection is no longer ALIVE.  The thread ends with its second
\* coroutine.
ReaderStops(t) ==
    /\ thr[t].at = "run" /\ conn[thr[t].peer].status # "ALIVE"
    /\ Become(t, "half") \/ End(t)
    /\ UNCHANGED <<heap, chan_step, chan_io, io, conn, counters, undefined>>

\* write_message: msend succeeds, or fails or times out.  A cancelled thread
\* ends in it.
Send(t) ==
    /\ thr[t].at = "send" /\ ~thr[t].cancelled
    /\ Become(t, "sent")
    /\ UNCHANGED <<heap, chan_step, chan_io, io, conn, counters, undefined>>

SendFails(t) ==
    /\ thr[t].at = "send" /\ ~thr[t].cancelled
    /\ faults < MaxFaults
    /\ Become(t, "fail")
    /\ faults' = faults + 1
    /\ UNCHANGED <<heap, chan_step, chan_io, io, conn, accepts, undefined>>

\* write_message: destroy_message.
Destroy(t) ==
    /\ thr[t].at \in {"sent", "fail"}
    /\ DestroyMessage(thr[t].m)
    /\ thr' = [thr EXCEPT ![t].m = NoCell,
                          ![t].at = IF thr[t].at = "sent" THEN "run" ELSE "failed"]
    /\ UNCHANGED <<made, lost, chan_step, chan_io, io, conn, counters, undefined>>

\* write_message gives the connection up, reader ends the thread.
GiveUp(t) ==
    /\ thr[t].at = "failed"
    /\ conn' = [conn EXCEPT ![thr[t].peer].status = "DEAD"]
    /\ End(t)
    /\ UNCHANGED <<heap, chan_step, chan_io, io, counters, undefined>>

\* A cancelled thread ends at its next system call.
Cancel(t) ==
    /\ thr[t].cancelled /\ thr[t].at \in {"open", "dial", "run", "send", "half"}
    /\ End(t)
    /\ HandLost(t)
    /\ UNCHANGED <<made, ref, chan_step, chan_io, io, conn, counters, undefined>>

\* The steps a thread takes on its own.
ThreadStep(t) ==
    \/ Open(t) \/ Dial(t) \/ DialFails(t)
    \/ ReaderTake(t) \/ ReaderStops(t)
    \/ Send(t) \/ SendFails(t) \/ Destroy(t) \/ GiveUp(t) \/ Cancel(t)

-----------------------------------------------------------------------------
(* The replica, as far as its messages go.                                 *)

\* A timer fires or a client proposes: a new message for send_io.
ReplicaRequests ==
    /\ \E c \in Cell, type \in Requests :
          /\ Malloc(c)
          /\ chan_io' = Enqueue(chan_io, [m |-> c, type |-> type, from |-> Me])
          /\ Spill(chan_io, c)
    /\ UNCHANGED <<chan_step, io, conn, thr, counters, undefined>>

\* A handler turns the message it gets into the one it sends.
ReplicaAnswers ==
    /\ chan_step # <<>>
    /\ \E type \in Answers :
          chan_io' = Enqueue(chan_io, [m |-> Head(chan_step).m, type |-> type,
                                       from |-> Head(chan_step).from])
    /\ Spill(chan_io, Head(chan_step).m)
    /\ chan_step' = Tail(chan_step)
    /\ UNCHANGED <<made, ref, io, conn, thr, counters, undefined>>

\* It sends nothing: the message is never freed.
ReplicaIgnores ==
    /\ chan_step # <<>>
    /\ lost' = [lost EXCEPT ![Head(chan_step).m] = @ + 1]
    /\ chan_step' = Tail(chan_step)
    /\ UNCHANGED <<made, ref, chan_io, io, conn, thr, counters, undefined>>

-----------------------------------------------------------------------------

\* new_node: the peers of Join have got their threads, which wait to open.
Init ==
    LET Order(p) == Cardinality({q \in Join : q <= p})
    IN  /\ made = 0
        /\ ref = [c \in Cell |-> 0]
        /\ lost = [c \in Cell |-> 0]
        /\ chan_step = <<>>
        /\ chan_io = <<>>
        /\ io = Idle
        /\ conn = [p \in Replicas |->
                      [status |-> IF p \in Join THEN "CONNECTING" ELSE "DEAD",
                       init |-> FALSE, q |-> <<>>,
                       tid |-> IF p \in Join THEN Order(p) ELSE NoThread]]
        /\ thr = [t \in Thread |->
                     IF \E p \in Join : Order(p) = t
                     THEN Started(CHOOSE p \in Join : Order(p) = t) ELSE NotRunning]
        /\ faults = 0
        /\ accepts = 0
        /\ undefined = FALSE

Next ==
    \/ IoStep
    \/ \E p \in Peer : Accept(p)
    \/ \E t \in Thread : ThreadStep(t) \/ Receive(t) \/ PeerCloses(t)
    \/ ReplicaRequests \/ ReplicaAnswers \/ ReplicaIgnores

\* The threads of the connections run; sockets answer or time out.  io_reader
\* is a coroutine of the thread that calls start_io and waits only where
\* chan_io is empty: it passes on to its end what it has taken (it does not
\* yield in between), but nothing says that it ever takes another message,
\* because start() leaves that thread in pthread_join (node.c:85).
Fairness == WF_vars(IoPush \/ IoStore \/ IoLook) /\ \A t \in Thread : WF_vars(ThreadStep(t))

Spec == Init /\ [][Next]_vars
FairSpec == Spec /\ Fairness

-----------------------------------------------------------------------------
(* Properties.                                                             *)

\* The references of a message are the copies of it that are still to be
\* written plus the ones lost with a ring, a thread or io_reader.  So no copy
\* anyone is still to write has been freed, no matter how the threads of its
\* targets interleave, break off and are started again, and the last one frees
\* it (the broadcast_* functions against destroy_message).
RefsAccounted ==
    undefined \/ \A c \in Cell : c \in Waiting \/ ref[c] = Outstanding(c) + lost[c]

\* p has a thread that takes messages off its ring and was not cancelled.
Served(p) ==
    \E t \in Thread : thr[t].peer = p /\ thr[t].at \notin {"gone", "half"} /\ ~thr[t].cancelled


\* What the comment of connection_write says: after a message has been put on
\* the ring of a peer, a thread is started for it if it is dead, that is has
\* none, and only then.
ReconnectsTheDead ==
    [][IoLook /\ ref[io.m] > 0 =>
        ((thr' # thr) <=> ~\E t \in Thread : thr[t].peer = Head(io.to) /\ thr[t].at # "gone")]_vars

=============================================================================
