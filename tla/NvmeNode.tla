----------------------------- MODULE NvmeNode -----------------------------
(***************************************************************************)
(* A volume on an NVMe node: NodeStageVolume and NodeUnstageVolume         *)
(* (NVMeStager in service/stager.go), and the NVMe side of                 *)
(* NodePublishVolume and NodeUnpublishVolume (publishNVMEVolume and        *)
(* unpublishNVMEVolume in service/mount.go).                               *)
(*                                                                         *)
(* A filesystem volume is mounted at the staging path and bind mounted     *)
(* from there to the targets of the pods; of a block volume the device is  *)
(* bind mounted to the targets.  Handlers run one at a time, a step at a   *)
(* time; a step may fail, the driver may crash, the node may reboot and    *)
(* the paths of the device may be lost.                                    *)
(***************************************************************************)
EXTENDS Naturals, Sequences, SequencesExt

CONSTANTS
  Targets,     \* the targets of the pods
  VolumeTypes, \* "filesystem", "block"
  MaxFaults    \* bound: errors, crashes, reboots and lost paths of a behaviour

VARIABLES
  type,        \* the volume: filesystem or block
  attached,    \* array: the volume is mapped to the node
  connected,   \* node: the NVMe device is there
  dir,         \* node: the staging directory exists
  stage,       \* node: the mounts at the staging path, the topmost last:
               \*   "volume", "deleted" (its source is gone) or "mpath" (a multipath member)
  target,      \* node: what a target shows, "none", "volume", "deleted" or "directory"
  pod,         \* kubelet: the pod of a target is "wanted" or "gone"
  stagedTold,  \* kubelet: "no", "uncertain" or "yes"
  told,        \* kubelet: the same for each target being published
  pc, t, back, \* driver: the step, the target of the handler, where Unstage returns to
  devicePath,  \* driver: Unstage found a mount at the staging path
  faults

node == <<connected, dir, stage, target>>
kubelet == <<pod, stagedTold, told>>
driver == <<pc, t, back, devicePath>>
vars == <<type, attached, node, kubelet, driver, faults>>

Told == {"no", "uncertain", "yes"}
Statuses == {"volume", "deleted", "mpath"}
PCs == {"idle", "discover", "prepare", "probe", "connect", "mount", "device", "publish", "unpublish",
        "getmounts", "unmount", "remove", "disconnect"}

\* Every variable has its type; a filesystem is mounted at the staging path only if the
\* directory exists, and that of a block volume never.
TypeOK ==
  /\ type \in VolumeTypes
  /\ attached \in BOOLEAN /\ connected \in BOOLEAN /\ dir \in BOOLEAN
  /\ stage \in Seq(Statuses)
  /\ target \in [Targets -> {"none", "volume", "deleted", "directory"}]
  /\ pod \in [Targets -> {"wanted", "gone"}]
  /\ stagedTold \in Told /\ told \in [Targets -> Told]
  /\ pc \in PCs /\ t \in Targets /\ back \in {"answer", "connect"}
  /\ devicePath \in BOOLEAN /\ faults \in 0 .. MaxFaults
  /\ stage # <<>> => dir /\ type = "filesystem"

Init ==
  /\ type \in VolumeTypes
  /\ attached = FALSE /\ connected = FALSE /\ dir = FALSE /\ stage = <<>>
  /\ target = [x \in Targets |-> "none"]
  /\ pod = [x \in Targets |-> "gone"]
  /\ stagedTold = "no" /\ told = [x \in Targets |-> "no"]
  /\ pc = "idle" /\ t \in Targets /\ back = "answer" /\ devicePath = FALSE
  /\ faults = 0

Counted(ok) == faults' = IF ok THEN faults ELSE faults + 1
Goto(l) == pc' = l /\ UNCHANGED <<t, back, devicePath, stagedTold, told>>
Idle == pc' = "idle" /\ back' = "answer" /\ devicePath' = FALSE /\ UNCHANGED t
Error == Idle /\ UNCHANGED <<stagedTold, told>>
Staged(b) == Idle /\ stagedTold' = b /\ UNCHANGED told
Published(b) == Idle /\ told' = [told EXCEPT ![t] = b] /\ UNCHANGED stagedTold

-----------------------------------------------------------------------------
(* Kubelet and the attacher (external).                                    *)

PodAdded(x) ==
  /\ pod[x] = "gone" /\ told[x] = "no"
  /\ pod' = [pod EXCEPT ![x] = "wanted"]
  /\ UNCHANGED <<type, attached, node, stagedTold, told, driver, faults>>

PodDeleted(x) ==
  /\ pod[x] = "wanted"
  /\ pod' = [pod EXCEPT ![x] = "gone"]
  /\ UNCHANGED <<type, attached, node, stagedTold, told, driver, faults>>

Attach ==
  /\ ~attached /\ \E x \in Targets : pod[x] = "wanted"
  /\ attached' = TRUE
  /\ UNCHANGED <<type, node, kubelet, driver, faults>>

\* Mounts that are left lose their source.
Lose(what) == IF what = "volume" THEN "deleted" ELSE what

Detach ==
  /\ attached /\ pc = "idle" /\ stagedTold = "no"
  /\ \A x \in Targets : pod[x] = "gone" /\ told[x] = "no"
  /\ attached' = FALSE /\ connected' = FALSE
  /\ stage' = [i \in DOMAIN stage |-> Lose(stage[i])]
  /\ target' = [x \in Targets |-> Lose(target[x])]
  /\ UNCHANGED <<type, dir, kubelet, driver, faults>>

StartStage ==
  /\ pc = "idle" /\ attached /\ stagedTold # "yes" /\ \E x \in Targets : pod[x] = "wanted"
  /\ pc' = "discover" /\ stagedTold' = "uncertain"
  /\ UNCHANGED <<type, attached, node, pod, told, t, back, devicePath, faults>>

StartPublish(x) ==
  /\ pc = "idle" /\ stagedTold = "yes" /\ pod[x] = "wanted" /\ told[x] # "yes"
  /\ pc' = "device" /\ t' = x /\ told' = [told EXCEPT ![x] = "uncertain"]
  /\ UNCHANGED <<type, attached, node, pod, stagedTold, back, devicePath, faults>>

StartUnpublish(x) ==
  /\ pc = "idle" /\ pod[x] = "gone" /\ told[x] # "no"
  /\ pc' = "unpublish" /\ t' = x /\ told' = [told EXCEPT ![x] = "uncertain"]
  /\ UNCHANGED <<type, attached, node, pod, stagedTold, back, devicePath, faults>>

StartUnstage ==
  /\ pc = "idle" /\ stagedTold # "no"
  /\ \A x \in Targets : pod[x] = "gone" /\ told[x] = "no"
  /\ pc' = "getmounts" /\ stagedTold' = "uncertain"
  /\ UNCHANGED <<type, attached, node, pod, told, t, back, devicePath, faults>>

-----------------------------------------------------------------------------
(* NodeStageVolume: NVMeStager.Stage.                                      *)

\* requireProbe and discoverAndConnectNVMeTargets.
Discover(ok) ==
  /\ pc = "discover"
  /\ IF ok THEN Goto("prepare") ELSE Error
  /\ UNCHANGED <<type, attached, node, pod>>

\* The queries of Stage, then MkdirAll.
Prepare(ok) ==
  /\ pc = "prepare"
  /\ dir' = (dir \/ ok)
  /\ IF ok THEN Goto("probe") ELSE Error
  /\ UNCHANGED <<type, attached, connected, stage, target, pod>>

StageReady == stage # <<>> /\ "deleted" \notin Range(stage) /\ Last(stage) # "mpath"

\* Variant: an unsafe mount at the staging path is refused and stays.
IsAlreadyStagedRefuses(ok) ==
  /\ pc = "probe"
  /\ CASE ok /\ stage = <<>> -> Goto("connect")
       [] ok /\ StageReady -> Staged("yes")
       [] OTHER -> Error
  /\ UNCHANGED <<type, attached, node, pod>>

\* isAlreadyStaged: a mount whose source is gone, or of a multipath member, is cleaned up
\* by Unstage first.
IsAlreadyStaged(ok) ==
  /\ pc = "probe"
  /\ CASE ~ok -> Error
       [] ok /\ stage = <<>> -> Goto("connect")
       [] ok /\ StageReady -> Staged("yes")
       [] OTHER -> /\ pc' = "getmounts" /\ back' = "connect"
                   /\ UNCHANGED <<t, devicePath, stagedTold, told>>
  /\ UNCHANGED <<type, attached, node, pod>>

\* connectDevice and GetDevice; a block volume is not mounted at the staging path.
Connect(ok) ==
  /\ pc = "connect"
  /\ connected' = (connected \/ (ok /\ attached))
  /\ CASE ~ok \/ ~attached -> Error
       [] ok /\ attached /\ type = "block" -> Staged("yes")
       [] OTHER -> Goto("mount")
  /\ UNCHANGED <<type, attached, dir, stage, target, pod>>

\* Variant: an error of handlePrivFSMount goes unnoticed.
MountStagingUnchecked(ok) ==
  /\ pc = "mount"
  /\ stage' = IF ok /\ dir THEN Append(stage, "volume") ELSE stage
  /\ Staged("yes")
  /\ UNCHANGED <<type, attached, connected, dir, target, pod>>

\* handlePrivFSMount; it fails when the cleanup has removed the staging directory.
MountStaging(ok) ==
  /\ pc = "mount"
  /\ stage' = IF ok /\ dir THEN Append(stage, "volume") ELSE stage
  /\ IF ok /\ dir THEN Staged("yes") ELSE Error
  /\ UNCHANGED <<type, attached, connected, dir, target, pod>>

-----------------------------------------------------------------------------
(* NodeUnstageVolume, and the cleanup of Stage: NVMeStager.Unstage.        *)

Unstaged == IF back = "connect" THEN pc' = "connect" /\ back' = "answer" /\ devicePath' = FALSE
                                     /\ UNCHANGED <<t, stagedTold, told>>
            ELSE Staged("no")

\* An error ends Unstage with success.
GetMounts(ok) ==
  /\ pc = "getmounts"
  /\ IF ok THEN /\ pc' = "unmount" /\ devicePath' = (stage # <<>>)
                /\ UNCHANGED <<t, back, stagedTold, told>>
     ELSE Unstaged
  /\ UNCHANGED <<type, attached, node, pod>>

\* The errors of Unmount and Remove are only logged.
UnmountStaging(ok) ==
  /\ pc = "unmount"
  /\ stage' = IF ok /\ stage # <<>> THEN Front(stage) ELSE stage
  /\ Goto("remove")
  /\ UNCHANGED <<type, attached, connected, dir, target, pod>>

RemoveStaging(ok) ==
  /\ pc = "remove"
  /\ dir' = (dir /\ (~ok \/ stage # <<>>))
  /\ IF devicePath THEN Goto("disconnect") ELSE Unstaged
  /\ UNCHANGED <<type, attached, connected, stage, target, pod>>

\* disconnectNVMEDevice leaves a device alone that is not named nvme (a multipath map); a
\* mount that Unmount failed to remove loses its source.
Disconnect(ok) ==
  /\ pc = "disconnect"
  /\ connected' \in (IF ok THEN {FALSE, connected} ELSE {connected})
  /\ stage' = IF connected' THEN stage ELSE [i \in DOMAIN stage |-> Lose(stage[i])]
  /\ IF ok THEN Unstaged ELSE Error
  /\ UNCHANGED <<type, attached, dir, target, pod>>

-----------------------------------------------------------------------------
(* NodePublishVolume and NodeUnpublishVolume.                              *)

\* The device must be there (WWNToDevicePathX).
FindDevice(ok) ==
  /\ pc = "device"
  /\ IF ok /\ connected THEN Goto("publish") ELSE Error
  /\ UNCHANGED <<type, attached, node, pod>>

\* What a bind mount to the target shows: of a block volume the device, otherwise what is
\* mounted at the staging path, or the bare directory.
Shows == IF type = "block" THEN "volume"
         ELSE IF stage = <<>> THEN "directory"
         ELSE IF Last(stage) = "mpath" THEN "volume" ELSE Last(stage)

\* A target that is a mount point is taken to be published; that the staging path is a
\* mount point is not looked at.
Publish(ok) ==
  /\ pc = "publish"
  /\ LET able == ok /\ (target[t] # "none" \/ type = "block" \/ dir)
     IN /\ target' = IF able /\ target[t] = "none" THEN [target EXCEPT ![t] = Shows] ELSE target
        /\ IF able THEN Published("yes") ELSE Error
  /\ UNCHANGED <<type, attached, connected, dir, stage, pod>>

\* Unmount, and the removal of the target path, which may fail after it.
Unpublish(ok) ==
  /\ pc = "unpublish"
  /\ target' \in {[target EXCEPT ![t] = "none"]} \cup (IF ok THEN {} ELSE {target})
  /\ IF ok THEN Published("no") ELSE Error
  /\ UNCHANGED <<type, attached, connected, dir, stage, pod>>

-----------------------------------------------------------------------------

Step(ok) ==
  /\ faults' <= MaxFaults
  /\ \/ Discover(ok) \/ Prepare(ok) \/ IsAlreadyStaged(ok) \/ Connect(ok) \/ MountStaging(ok)
     \/ GetMounts(ok) \/ UnmountStaging(ok) \/ RemoveStaging(ok) \/ Disconnect(ok)
     \/ FindDevice(ok) \/ Publish(ok) \/ Unpublish(ok)

Crash ==
  /\ pc # "idle" /\ faults < MaxFaults
  /\ faults' = faults + 1
  /\ Error
  /\ UNCHANGED <<type, attached, node, pod>>

\* Kubelet stages and publishes again after a reboot of the node.
Reboot ==
  /\ faults < MaxFaults
  /\ faults' = faults + 1
  /\ connected' = FALSE /\ stage' = <<>> /\ target' = [x \in Targets |-> "none"]
  /\ Idle /\ stagedTold' = "no" /\ told' = [x \in Targets |-> "no"]
  /\ UNCHANGED <<type, attached, dir, pod>>

\* Before kubelet is told that the volume is staged, the mount at the staging path loses
\* its source or turns out to be a multipath member.
LosePath(s) ==
  /\ faults < MaxFaults /\ stagedTold # "yes" /\ stage # <<>> /\ Last(stage) = "volume"
  /\ faults' = faults + 1
  /\ stage' = [stage EXCEPT ![Len(stage)] = s]
  /\ UNCHANGED <<type, attached, connected, dir, target, kubelet, driver>>

Next ==
  \/ \E x \in Targets :
       PodAdded(x) \/ PodDeleted(x) \/ StartPublish(x) \/ StartUnpublish(x)
  \/ Attach \/ Detach \/ StartStage \/ StartUnstage
  \/ \E ok \in BOOLEAN : Counted(ok) /\ Step(ok)
  \/ Crash \/ Reboot
  \/ \E s \in {"deleted", "mpath"} : LosePath(s)

Spec == Init /\ [][Next]_vars

\* The attacher and kubelet retry, handlers run to their end, and a pod is not kept
\* waiting for ever by the calls for another one.
Work == \E ok \in BOOLEAN : Counted(ok) /\ Step(ok)
LiveSpec ==
  /\ Spec
  /\ WF_vars(Attach) /\ WF_vars(Work) /\ SF_vars(StartStage)
  /\ \A x \in Targets : SF_vars(StartPublish(x)) /\ SF_vars(StartUnpublish(x))

-----------------------------------------------------------------------------
(* Properties.                                                             *)

\* A pod whose volume kubelet was told is published sees a mount of the volume: never the
\* empty staging directory (publishNVMEVolume does not look whether the staging path is
\* mounted and relies on Stage to answer only when it is).
PublishedIsTheVolume ==
  \A x \in Targets : told[x] = "yes" /\ pod[x] = "wanted" => target[x] = "volume"

\* A target is free when kubelet was told so (unpublishNVMEVolume), and no target shows
\* a volume that is detached.
UnpublishedIsUnmounted ==
  \A x \in Targets : (target[x] # "none" => told[x] # "no") /\ (target[x] = "volume" => attached)

\* A target is what kubelet was told of it.
TargetsAsTold == PublishedIsTheVolume /\ UnpublishedIsUnmounted

\* While a pod waits, Stage and NodePublishVolume come through in the end, whatever a
\* failed unmount, a lost path or a crash left at the staging path.
EventuallyPublished ==
  \A x \in Targets : pod[x] = "wanted" ~> told[x] = "yes" \/ pod[x] = "gone"
=============================================================================
