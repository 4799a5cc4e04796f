------------------------ MODULE MCReplicationGroup ------------------------
(***************************************************************************)
(* ReplicationGroup for TLC.                                               *)
(***************************************************************************)
EXTENDS ReplicationGroup

CONSTANTS v1, v2

SC(pd, rpo, cg) == [pd |-> pd, rpo |-> rpo, cg |-> cg]

\* One class for both volumes.
Same == {[v \in {v1, v2} |-> SC(1, 60, 0)]}
\* Classes of different protection domains, with generated names and with one name.
ByDomain == {v1 :> SC(1, 60, 0) @@ v2 :> SC(2, 60, 0), v1 :> SC(1, 60, -1) @@ v2 :> SC(2, 60, -1)}
\* Classes that differ in their RPO.
ByRPO == {v1 :> SC(1, 60, 0) @@ v2 :> SC(1, 120, 0)}

SameOrByDomain == Same \cup ByDomain
=============================================================================
