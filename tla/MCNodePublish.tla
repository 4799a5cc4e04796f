--------------------------- MODULE MCNodePublish ---------------------------
(* Small instances of NodePublish for TLC. *)
EXTENDS NodePublish, TLC

CONSTANTS a, b, x, y

\* Every pod has a path and an ID of its own.
MCPodOf == [t \in Targets |-> t]

AllSetups == [mode : AccessModes, block : BOOLEAN, multiPod : BOOLEAN,
              readers : SUBSET Targets]

Symmetry == Permutations(Targets) \cup Permutations(Devs)

=============================================================================
