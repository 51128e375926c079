------------------------------ MODULE EpxNotify ------------------------------
(***************************************************************************)
(* EpxIO with the clients of the node.  The client thread (client_handler  *)
(* of src/io.c) runs eo_reader and, for each client, a writer, a reader    *)
(* and run_client as coroutines.  do_commit passes the COMMIT of a write   *)
(* to io_reader and to eo_reader: one message, with one count of           *)
(* references, that both set.                                              *)
(*                                                                         *)
(* The registry is the set of clients a committed write finds: those that  *)
(* have proposed.  Its interval tree (llrb-interval) is not part of the    *)
(* repository; that spans overlap or expire is left out.                   *)
(***************************************************************************)
EXTENDS EpxIO, SequencesExt

CONSTANT Clients        \* number of clients

Client == 1..Clients

VARIABLES
    chan_propose,   \* proposed by clients: cells
    chan_eo,        \* committed writes, for the clients: cells
    eo,             \* eo_reader: its message and the clients left to tell
    cli,            \* the connections of clients: chan_read and the reader
    watching        \* the clients in the registry

ioVars == vars
clientVars == <<chan_propose, chan_eo, eo, cli, watching>>
allVars == <<ioVars, clientVars>>

NotConnected == [at |-> "out", m |-> NoCell, q |-> <<>>]

NotifyInit ==
    /\ Init
    /\ chan_propose = <<>>
    /\ chan_eo = <<>>
    /\ eo = [m |-> NoCell, to |-> <<>>]
    /\ cli = [k \in Client |-> NotConnected]
    /\ watching = {}

-----------------------------------------------------------------------------
(* Connections of clients.                                                 *)

\* client_listener.
ClientConnects(k) ==
    /\ cli[k].at = "out"
    /\ cli' = [cli EXCEPT ![k].at = "run"]
    /\ UNCHANGED <<ioVars, chan_propose, chan_eo, eo, watching>>

\* writer: a proposal registers its client and goes to the replica.
ClientProposes(k) ==
    /\ cli[k].at \in {"run", "send"}
    /\ \E c \in Cell :
          /\ Malloc(c)
          /\ chan_propose' = Enqueue(chan_propose, c)
          /\ Spill(chan_propose, c)
    /\ watching' = watching \union {k}
    /\ UNCHANGED <<chan_step, chan_io, io, conn, thr, counters, undefined, chan_eo, eo, cli>>

\* reader: chan_recv_spsc.
ClientTake(k) ==
    /\ cli[k].at = "run" /\ cli[k].q # <<>>
    /\ cli' = [cli EXCEPT ![k].at = "send", ![k].m = Head(cli[k].q), ![k].q = Tail(@)]
    /\ UNCHANGED <<ioVars, chan_propose, chan_eo, eo, watching>>

\* write_message: the message is written or not, its reference dropped either
\* way; on a failure the connection is DEAD and the reader returns.
ClientSend(k) ==
    /\ cli[k].at = "send"
    /\ DestroyMessage(cli[k].m)
    /\ \E at \in {"run", "dead"} : cli' = [cli EXCEPT ![k].at = at, ![k].m = NoCell]
    /\ UNCHANGED <<made, lost, chan_step, chan_io, io, conn, thr, counters, undefined,
                   chan_propose, chan_eo, eo, watching>>

-----------------------------------------------------------------------------
(* eo_reader and run_client.                                               *)

EoTake ==
    /\ eo.m = NoCell /\ chan_eo # <<>>
    /\ eo' = [m |-> Head(chan_eo), to |-> SetToSortSeq(watching, <)]
    /\ ref' = [ref EXCEPT ![Head(chan_eo)] = 1]
    /\ chan_eo' = Tail(chan_eo)
    /\ UNCHANGED <<made, lost, chan_step, chan_io, io, conn, thr, counters, undefined,
                   chan_propose, cli, watching>>

\* chsend: run_client gets the message and puts it on the ring of its client,
\* or destroys the connection when that is full; or the 10 ms are over.
EoTell ==
    /\ eo.m # NoCell /\ eo.to # <<>>
    /\ LET k == Head(eo.to)
       IN  \/ /\ cli[k].at # "gone"
              /\ cli' = IF Len(cli[k].q) < Capacity - 1
                        THEN [cli EXCEPT ![k].q = Append(@, eo.m)]
                        ELSE [cli EXCEPT ![k] = [NotConnected EXCEPT !.at = "gone"]]
           \/ UNCHANGED cli
    /\ eo' = [eo EXCEPT !.to = Tail(@)]
    /\ UNCHANGED <<ioVars, chan_propose, chan_eo, watching>>

EoDone ==
    /\ eo.m # NoCell /\ eo.to = <<>>
    /\ eo' = [eo EXCEPT !.m = NoCell]
    /\ UNCHANGED <<ioVars, chan_propose, chan_eo, cli, watching>>

-----------------------------------------------------------------------------
(* The replica.                                                            *)

\* propose: a proposal becomes a PRE_ACCEPT.
ReplicaProposes ==
    /\ chan_propose # <<>>
    /\ chan_io' = Enqueue(chan_io, [m |-> Head(chan_propose), type |-> "PRE_ACCEPT", from |-> Me])
    /\ Spill(chan_io, Head(chan_propose))
    /\ chan_propose' = Tail(chan_propose)
    /\ UNCHANGED <<made, ref, chan_step, io, conn, thr, counters, undefined, chan_eo, eo, cli, watching>>

\* do_commit of a write.
ReplicaCommits ==
    /\ chan_step # <<>>
    /\ LET m == Head(chan_step)
       IN  /\ chan_io' = Enqueue(chan_io, [m |-> m.m, type |-> "COMMIT", from |-> m.from])
           /\ chan_eo' = Enqueue(chan_eo, m.m)
           /\ Spill(chan_io, m.m)
    /\ chan_step' = Tail(chan_step)
    /\ UNCHANGED <<made, ref, io, conn, thr, counters, undefined, chan_propose, eo, cli, watching>>

NotifyNext ==
    \/ Next /\ UNCHANGED clientVars
    \/ \E k \in Client :
          ClientConnects(k) \/ ClientProposes(k) \/ ClientTake(k) \/ ClientSend(k)
    \/ EoTake \/ EoTell \/ EoDone
    \/ ReplicaProposes \/ ReplicaCommits

NotifySpec == NotifyInit /\ [][NotifyNext]_allVars

-----------------------------------------------------------------------------
(* Properties.                                                             *)

\* A client is written the COMMIT of the write it is told of: the message in
\* the hands of its reader has not been freed by another (write_message and
\* destroy_message, after io_reader and eo_reader have both set m->ref).
ClientsReadCommits ==
    undefined \/ \A k \in Client : cli[k].m # NoCell => ref[cli[k].m] > 0

=============================================================================
