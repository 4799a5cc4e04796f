--------------------------- MODULE MCNodeMounts ---------------------------
(***************************************************************************)
(* Volumes on the nodes, for TLC: the mounts of an SDC volume, or the      *)
(* exports and mounts of an NFS volume.  A behaviour is one of the two;    *)
(* the variables of the other stay as they are.                            *)
(***************************************************************************)
EXTENDS MCNodePublish

CONSTANTS Nodes, NfsTargets, Modes, Externals, NoHost, Interfaces

VARIABLES
  part,
  mode, external, interfaces, fs, snap, export, hosts, nfsPc, node, change, npc, ntgt,
  mounts, pub, nfsUsed, shared

Nfs == INSTANCE NfsExport WITH Targets <- NfsTargets, pc <- nfsPc, used <- nfsUsed
nfsVars == <<mode, external, interfaces, fs, snap, export, hosts, nfsPc, node, change, npc,
             ntgt, mounts, pub, nfsUsed, shared>>

PartInit ==
  /\ part \in {"sdc", "nfs"}
  /\ Init /\ Nfs!Init
  /\ part = "sdc" => mode = "SNW" /\ external = NoHost /\ ~interfaces
  /\ part = "nfs" => dev = NoDev /\ setup = [mode |-> "SINGLE_NODE_WRITER", block |-> FALSE, multiPod |-> FALSE, readers |-> {}]

PartNext ==
  /\ UNCHANGED part
  /\ \/ part = "sdc" /\ Next /\ UNCHANGED nfsVars
     \/ part = "nfs" /\ Nfs!Next /\ UNCHANGED vars

PartSpec == PartInit /\ [][PartNext]_<<part, vars, nfsVars>>

\* See NfsExport: the check for other hosts in exportFilesystem.
OneWriter == Nfs!OneWriter

\* See NfsExport: what exportFilesystem grants and unexportFilesystem takes away.
AccessIsKept == Nfs!AccessIsKept

\* See NfsExport: the check of the export in DeleteVolume.
NotDeletedWhileShared == Nfs!NotDeletedWhileShared
=============================================================================
