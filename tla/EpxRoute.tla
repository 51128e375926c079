------------------------------- MODULE EpxRoute -------------------------------
(***************************************************************************)
(* Where the io thread of a node sends a message: io_reader and the        *)
(* broadcast_* functions of src/io.c.                                      *)
(***************************************************************************)
EXTENDS EpxInstance

CONSTANT Quorum     \* node_io.quorum of each node: N node numbers

ASSUME QuorumAssumption == Quorum \in [Replicas -> [1..N -> Replicas]]

\* Variant: requests go to the first nodes, as a TRY_PRE_ACCEPT does.
TargetsFirstNodes(r, m) ==
    CASE m.type \in {"PREPARE", "PRE_ACCEPT", "ACCEPT", "TRY_PRE_ACCEPT"} ->
            [s \in 1..(N - 1) |-> s - 1]
      [] m.type = "COMMIT" -> [s \in 1..N |-> Quorum[r][s]]
      [] OTHER -> <<m.from>>

\* The nodes a message goes to, in order; m.from still names the sender of
\* the message being answered.
Targets(r, m) ==
    CASE m.type = "PREPARE" -> [s \in 1..(N - 1) |-> (r + s) % N]
      [] m.type \in {"PRE_ACCEPT", "ACCEPT"} -> [s \in 1..(N - 1) |-> Quorum[r][s]]
      [] m.type = "TRY_PRE_ACCEPT" -> [s \in 1..(N - 1) |-> s - 1]
      [] m.type = "COMMIT" -> [s \in 1..N |-> Quorum[r][s]]
      [] OTHER -> <<m.from>>

=============================================================================
