------------------------------ MODULE MCHosts ------------------------------
(***************************************************************************)
(* Hosts and what is attached to them, for TLC: the attachments of a       *)
(* volume, or the probe of a node with an SDC.  A behaviour is one of the  *)
(* two; the variables of the other stay as they are.                       *)
(***************************************************************************)
EXTENDS MCControllerAttach

CONSTANTS s1, s2, Systems, Known, Probes, ModeChoices, MaxProbeFaults

\* A system that approves by GUID and one by address, or none that asks for approval.
MCModeChoices ==
  {[s \in {s1, s2} |-> IF s = s1 THEN "Guid" ELSE "ApprovedIp"],
   [s \in {s1, s2} |-> IF s = s1 THEN "None" ELSE "other"]}

VARIABLES
  part,
  approve, rename, mode, sdc, ips, named, systems, guid, connected, at, todo, now, scope,
  ready, torn, probeFaults

Probing == INSTANCE NodeProbe
probeVars == <<approve, rename, mode, sdc, ips, named, systems, guid, connected, at, todo,
               now, scope, ready, torn, probeFaults>>

PartInit ==
  /\ part \in {"attach", "probe"}
  /\ Init /\ Probing!Init
  /\ part = "probe" => ~paired[v1]
  /\ part = "attach" => ~approve /\ ~rename /\ mode[s1] = "None"

PartNext ==
  /\ UNCHANGED part
  /\ \/ part = "attach" /\ Next /\ UNCHANGED probeVars
     \/ part = "probe" /\ Probing!Next /\ UNCHANGED vars

PartSpec == PartInit /\ [][PartNext]_<<part, vars, probeVars>>

\* See NodeProbe: what approveSDC and renameSDC have done when Probe answers ready.
ReadyIsDone == Probing!ReadyIsDone
=============================================================================
