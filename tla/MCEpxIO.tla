------------------------------- MODULE MCEpxIO -------------------------------
(***************************************************************************)
(* Instances of EpxIO for TLC: node 1 of three, which joins node 2; node 0 *)
(* connects to it.                                                         *)
(***************************************************************************)
EXTENDS EpxIO

\* As in MCEpxReplica: COMMIT goes to node 0 three times over.
ZeroQuorum == [r \in Replicas |-> [s \in 1..N |-> 0]]

=============================================================================
