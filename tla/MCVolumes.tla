----------------------------- MODULE MCVolumes -----------------------------
(***************************************************************************)
(* Volumes in the controller, for TLC: the creation, copies, snapshots and *)
(* expansion of block volumes, the sizes they get, the size and quota of   *)
(* an NFS volume, or the snapshots of NFS volumes.  A behaviour is one of  *)
(* the four; the variables of the others stay as they are.                 *)
(***************************************************************************)
EXTENDS MCProvision, VolumeSizeUnits, NfsQuotaSizes, NfsSnapshotRequests

CONSTANTS f1, f2

\* Two snapshots of a volume, and one of another volume with the same name.
MCFsSnapshots == {[name |-> n, source |-> f1] : n \in {"n1", "n2"}} \cup {[name |-> "n1", source |-> f2]}

VARIABLES
  part,
  class, percent, quotaOn, quotaPc, want, seen,
  vols, last, call, served

Sizing == INSTANCE VolumeSize
Quota == INSTANCE NfsQuota WITH pc <- quotaPc
FsSnap == INSTANCE NfsSnapshot WITH SnapThreads <- Threads

sizeVars == <<required, limit, size>>
quotaVars == <<class, percent, fsSize, quotaOn, quota, quotaPc, want, seen, created, expanded>>
fsSnapVars == <<vols, snaps, last, call, told, asked, gone, served>>

PartInit ==
  /\ part \in {"provision", "size", "quota", "snapshot"}
  /\ Init /\ Sizing!Init /\ Quota!Init /\ FsSnap!Init
  /\ part # "provision" => setup = CreateSetup
  /\ part # "quota" => class = "missing" /\ percent = 0

PartNext ==
  /\ UNCHANGED part
  /\ \/ part = "provision" /\ Next /\ UNCHANGED <<sizeVars, quotaVars, fsSnapVars>>
     \/ part = "size" /\ Sizing!Next /\ UNCHANGED <<vars, quotaVars, fsSnapVars>>
     \/ part = "quota" /\ Quota!Next /\ UNCHANGED <<vars, sizeVars, fsSnapVars>>
     \/ part = "snapshot" /\ FsSnap!Next /\ UNCHANGED <<vars, sizeVars, quotaVars>>

PartSpec == PartInit /\ [][PartNext]_<<part, vars, sizeVars, quotaVars, fsSnapVars>>

\* See NfsSnapshot: the volume createVolumeFromSnapshot answers.
OwnVolume == part = "snapshot" => FsSnap!OwnVolume
=============================================================================
