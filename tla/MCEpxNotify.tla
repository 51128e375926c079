----------------------------- MODULE MCEpxNotify -----------------------------
(***************************************************************************)
(* EpxNotify for TLC: node 1 of three and one client.                      *)
(***************************************************************************)
EXTENDS EpxNotify

\* As in MCEpxReplica: COMMIT goes to node 0 three times over.
ZeroQuorum == [r \in Replicas |-> [s \in 1..N |-> 0]]

=============================================================================
