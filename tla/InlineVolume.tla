--------------------------- MODULE InlineVolume ---------------------------
(***************************************************************************)
(* An inline ephemeral volume of a pod: ephemeralNodePublish and           *)
(* ephemeralNodeUnpublish (service/ephemeral.go) with the part of          *)
(* NodeUnpublishVolume (service/node.go) that leads to the latter.         *)
(*                                                                         *)
(* The node plugin creates, maps, stages (NVMe) and mounts a volume when   *)
(* the pod starts and undoes it when the pod is gone.  A lock file maps    *)
(* kubelet's handle of the volume to the ID on the array; its path lies in *)
(* the staging directory, so that on an NVMe node it is in the file system *)
(* of the volume as long as that is mounted there.  Kubelet's handles have *)
(* the form csi-<hash>, which getSystemIDFromCsiVolumeID reads as a volume *)
(* of a system "csi": without the lock file, requireProbe refuses them.    *)
(*                                                                         *)
(* One handler runs at a time (the serial access of gocsi).  Every call is *)
(* a step that may be "failed" (not done) or "lost" (done, reported as an  *)
(* error); the driver may crash between any two and the node may reboot.   *)
(***************************************************************************)
EXTENDS Naturals, InlineVolumeState

CONSTANTS
  Protocols,  \* the block protocols of the node: "SDC", "NVMe"
  MaxFaults   \* bound: errors, crashes and reboots of a behaviour

VARIABLES
  pc, caller, \* driver: the handler, and who called NodeUnpublishVolume
  faults

array == <<vol, mapped>>
node == <<staged, target, hostLock, volLock>>
driver == <<pc, caller>>
vars == <<protocol, array, node, pod, told, driver, faults>>

Locks == {"absent", "empty", "id"}
PCs == {"idle", "create", "dir", "attach", "stage", "lock", "write", "publish",
        "read", "unmount", "unstage", "detach", "delete", "clean", "target"}

\* Every variable has its type; only a volume can be mapped or hold a lock file.
TypeOK ==
  /\ protocol \in Protocols
  /\ vol \in BOOLEAN /\ mapped \in BOOLEAN
  /\ staged \in BOOLEAN /\ target \in {"none", "this", "deleted"}
  /\ hostLock \in Locks /\ volLock \in Locks
  /\ pod \in {"wanted", "gone"} /\ told \in {"none", "published", "unpublished"}
  /\ pc \in PCs /\ caller \in {"kubelet", "rollback"}
  /\ faults \in 0 .. MaxFaults
  /\ mapped => vol

Init ==
  /\ protocol \in Protocols
  /\ vol = FALSE /\ mapped = FALSE
  /\ staged = FALSE /\ target = "none" /\ hostLock = "absent" /\ volLock = "absent"
  /\ pod = "wanted" /\ told = "none"
  /\ pc = "idle" /\ caller = "kubelet"
  /\ faults = 0

SetLock(c) ==
  IF staged THEN volLock' = c /\ UNCHANGED hostLock ELSE hostLock' = c /\ UNCHANGED volLock

\* Every outcome but "ok" is one of the faults.
Counted(o) == faults' = IF o = "ok" THEN faults ELSE faults + 1

Goto(l) == pc' = l /\ UNCHANGED <<caller, told>>
Answer(t) == pc' = "idle" /\ caller' = "kubelet" /\ told' = t

\* NodePublishVolume ignores the answer of the NodeUnpublishVolume it rolls back with.
Error == Answer(told)
Rollback == pc' = "read" /\ caller' = "rollback" /\ UNCHANGED told
Done == Answer(IF caller = "kubelet" THEN "unpublished" ELSE told)

-----------------------------------------------------------------------------
(* NodePublishVolume of an inline volume: ephemeralNodePublish.            *)

\* Kubelet publishes, and retries, while it wants the pod.
StartPublish ==
  /\ pc = "idle" /\ pod = "wanted" /\ told # "published"
  /\ Goto("create")
  /\ UNCHANGED <<protocol, array, node, pod, faults>>

\* Up to CreateVolume, which finds the volume of an earlier attempt by its name.
CreateVolume(o) ==
  /\ pc = "create"
  /\ vol' = (vol \/ o # "failed")
  /\ volLock' = IF vol THEN volLock ELSE "absent"
  /\ IF o = "ok" THEN Goto("dir") ELSE Error
  /\ UNCHANGED <<protocol, mapped, staged, target, hostLock, pod>>

MakeLockDirectory(o) ==
  /\ pc = "dir" /\ o # "lost"
  /\ IF o = "ok" THEN Goto("attach") ELSE Error
  /\ UNCHANGED <<protocol, array, node, pod>>

ControllerPublish(o) ==
  /\ pc = "attach"
  /\ mapped' = (vol /\ (mapped \/ o # "failed"))
  /\ IF o = "ok" /\ vol THEN Goto(IF protocol = "NVMe" THEN "stage" ELSE "lock") ELSE Rollback
  /\ UNCHANGED <<protocol, vol, node, pod>>

\* NodeStageVolume mounts the file system of the volume over the staging path.
NodeStage(o) ==
  /\ pc = "stage" /\ o # "lost"
  /\ staged' = (staged \/ o = "ok")
  /\ IF o = "ok" THEN Goto("lock") ELSE Rollback
  /\ UNCHANGED <<protocol, array, target, hostLock, volLock, pod>>

\* The lock file is created, or cut off if there is one; errors return at once.
CreateLock(o) ==
  /\ pc = "lock" /\ o # "lost"
  /\ IF o = "ok" THEN SetLock("empty") /\ Goto("write") ELSE Error /\ UNCHANGED <<hostLock, volLock>>
  /\ UNCHANGED <<protocol, array, staged, target, pod>>

\* Variant: an error of WriteString goes unnoticed.
WriteLockUnchecked(o) ==
  /\ pc = "write" /\ o # "lost"
  /\ Goto("publish")
  /\ IF o = "ok" THEN SetLock("id") ELSE UNCHANGED <<hostLock, volLock>>
  /\ UNCHANGED <<protocol, array, staged, target, pod>>

WriteLock(o) ==
  /\ pc = "write" /\ o # "lost"
  /\ IF o = "ok" THEN SetLock("id") /\ Goto("publish") ELSE Error /\ UNCHANGED <<hostLock, volLock>>
  /\ UNCHANGED <<protocol, array, staged, target, pod>>

\* The nested NodePublishVolume with the ID of the array; it may fail after the mount.  A
\* target that is a mount point already satisfies it, whatever is mounted there.
NodePublish(o) ==
  /\ pc = "publish"
  /\ target' = IF target = "none" /\ o # "failed" THEN "this" ELSE target
  /\ IF o = "ok" THEN Answer("published") ELSE Rollback
  /\ UNCHANGED <<protocol, array, staged, hostLock, volLock, pod>>

-----------------------------------------------------------------------------
(* NodeUnpublishVolume and ephemeralNodeUnpublish.                         *)

StartUnpublish ==
  /\ pc = "idle" /\ pod = "gone" /\ told # "unpublished"
  /\ Goto("read")
  /\ UNCHANGED <<protocol, array, node, pod, faults>>

\* Without the lock file the handle is refused; an ID that cannot be read is taken to be
\* empty, and checkVolumesMap refuses it.
ReadLock(o) ==
  /\ pc = "read" /\ o # "lost"
  /\ IF o = "ok" /\ lockFile = "id"
     THEN Goto(IF protocol = "NVMe" THEN "unstage" ELSE "unmount")
     ELSE Error
  /\ UNCHANGED <<protocol, array, node, pod>>

\* SDC: the target is unmounted first.  A volume that the SDC does not list any more is
\* unmounted without looking at errors ("lost": the target stays and the handler goes on).
Unmount(o) ==
  /\ pc = "unmount"
  /\ target' = IF o = "ok" THEN "none" ELSE target
  /\ IF o = "failed" THEN Error ELSE Goto("detach")
  /\ UNCHANGED <<protocol, array, staged, hostLock, volLock, pod>>

\* NVMe: NodeUnstageVolume comes before the target is unmounted.  It may fail after it
\* unmounted the staging path ("failed"), or report success although the mounts could
\* not be read or the unmount failed ("lost").
NodeUnstage(o) ==
  /\ pc = "unstage"
  /\ staged' = (staged /\ o = "lost")
  /\ IF o = "failed" THEN Error ELSE Goto("detach")
  /\ UNCHANGED <<protocol, array, target, hostLock, volLock, pod>>

\* Variant: the volume of an earlier attempt that is not mapped any more is an error.
ControllerUnpublishOnce(o) ==
  /\ pc = "detach"
  /\ mapped' = (mapped /\ o = "failed")
  /\ IF o = "ok" /\ mapped THEN Goto("delete") ELSE Error
  /\ UNCHANGED <<protocol, vol, node, pod>>

ControllerUnpublish(o) ==
  /\ pc = "detach"
  /\ mapped' = (mapped /\ o = "failed")
  /\ IF o = "ok" THEN Goto("delete") ELSE Error
  /\ UNCHANGED <<protocol, vol, node, pod>>

\* Variant: an error of DeleteVolume goes unnoticed.
DeleteVolumeUnchecked(o) ==
  /\ pc = "delete"
  /\ vol' = (vol /\ (o = "failed" \/ mapped))
  /\ volLock' = IF vol' THEN volLock ELSE "absent"
  /\ target' = IF ~vol' /\ target = "this" THEN "deleted" ELSE target
  /\ Goto("clean")
  /\ UNCHANGED <<protocol, mapped, staged, hostLock, pod>>

\* DeleteVolume refuses a mapped volume; one that is gone is no error.
DeleteVolume(o) ==
  /\ pc = "delete"
  /\ vol' = (vol /\ (o = "failed" \/ mapped))
  /\ volLock' = IF vol' THEN volLock ELSE "absent"
  /\ target' = IF ~vol' /\ target = "this" THEN "deleted" ELSE target
  /\ IF o = "ok" /\ ~mapped THEN Goto("clean") ELSE Error
  /\ UNCHANGED <<protocol, mapped, staged, hostLock, pod>>

\* RemoveAll of the staging directory: it fails on a mount point, after removing what is
\* in it ("lost" also stands for an answer that kubelet does not get).
RemoveLock(o) ==
  /\ pc = "clean"
  /\ IF o # "failed" THEN SetLock("absent") ELSE UNCHANGED <<hostLock, volLock>>
  /\ IF o = "ok" /\ ~staged
     THEN IF protocol = "NVMe" THEN Goto("target") ELSE Done
     ELSE Error
  /\ UNCHANGED <<protocol, array, staged, target, pod>>

\* NVMe: unpublishNVMEVolume; the target path is removed after the unmount ("lost").
UnmountTarget(o) ==
  /\ pc = "target"
  /\ target' = IF o # "failed" THEN "none" ELSE target
  /\ IF o = "ok" THEN Done ELSE Error
  /\ UNCHANGED <<protocol, array, staged, hostLock, volLock, pod>>

-----------------------------------------------------------------------------

Step(o) ==
  /\ faults' <= MaxFaults
  /\ \/ CreateVolume(o) \/ MakeLockDirectory(o) \/ ControllerPublish(o) \/ NodeStage(o)
     \/ CreateLock(o) \/ WriteLock(o) \/ NodePublish(o)
     \/ ReadLock(o) \/ Unmount(o) \/ NodeUnstage(o) \/ ControllerUnpublish(o)
     \/ DeleteVolume(o) \/ RemoveLock(o) \/ UnmountTarget(o)

\* The pod is deleted (external).
DeletePod ==
  /\ pod = "wanted"
  /\ pod' = "gone"
  /\ UNCHANGED <<protocol, array, node, told, driver, faults>>

\* The driver crashes and kubelet gets no answer (external).
Crash ==
  /\ pc # "idle" /\ faults < MaxFaults
  /\ faults' = faults + 1
  /\ Error
  /\ UNCHANGED <<protocol, array, node, pod>>

\* The node reboots: its mounts are gone and the pod starts anew (external).
Reboot ==
  /\ faults < MaxFaults
  /\ faults' = faults + 1
  /\ staged' = FALSE /\ target' = "none"
  /\ Answer(IF told = "published" THEN "none" ELSE told)
  /\ UNCHANGED <<protocol, array, hostLock, volLock, pod>>

Next ==
  \/ StartPublish \/ StartUnpublish \/ DeletePod
  \/ \E o \in {"ok", "failed", "lost"} : Counted(o) /\ Step(o)
  \/ Crash \/ Reboot

Spec == Init /\ [][Next]_vars

\* Kubelet retries, the calls of a handler return, and only so many of them fail.
Work == \E o \in {"ok", "failed", "lost"} : Counted(o) /\ Step(o)
LiveSpec == Spec /\ WF_vars(StartUnpublish) /\ WF_vars(Work)

-----------------------------------------------------------------------------
(* Properties.                                                             *)

\* The volume of a deleted pod is deleted in the end: whatever failed, NodeUnpublishVolume
\* can be repeated from any point, unless an NVMe node has lost sight of the lock file.
EventuallyDeleted ==
  told = "published" /\ pod = "gone" ~> ~vol \/ (protocol = "NVMe" /\ lockFile = "absent")
=============================================================================
