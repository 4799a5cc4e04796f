------------------------ MODULE InlineVolumeState ------------------------
(* The state of an inline volume, and what is promised of it. *)

VARIABLES
  protocol,   \* node: its block protocol
  vol,        \* array: the volume exists
  mapped,     \* array: it is mapped to the node
  staged,     \* node: its file system is mounted at the staging path (NVMe)
  target,     \* node: the target shows "none", "this" volume or the "deleted" one
  hostLock,   \* node: the lock file below the staging path, nothing being mounted there
  volLock,    \* volume: the lock file in the file system of the volume
  pod,        \* kubelet: "wanted" or "gone"
  told        \* kubelet: what the last answer says, "none", "published" or "unpublished"

\* The lock file as the driver sees it.
lockFile == IF staged THEN volLock ELSE hostLock

\* Kubelet is told that an inline volume is unpublished only when ephemeralNodeUnpublish
\* has deleted it on the array and removed the lock file: no volume is forgotten
\* silently, whatever failed before.
UnpublishedIsDeleted == told = "unpublished" => ~vol /\ ~mapped /\ hostLock = "absent"

\* From the answer of NodePublishVolume until the pod is deleted the volume exists, is
\* mapped and mounted, and the lock file that NodeUnpublishVolume will look for is
\* readable and names it.
PublishedIsUsable ==
  pod = "wanted" /\ told = "published" =>
    vol /\ mapped /\ target # "none" /\ lockFile = "id" /\ (protocol = "NVMe" => staged)

\* A target that is mounted on a volume of the array has a lock file, at every step of a
\* handler and after a crash: NodeUnpublishVolume recognises it as an inline volume.
\* (On an NVMe node this ends when NodeUnstageVolume unmounts the staging path.)
MountedIsRemembered ==
  target = "this" /\ mapped /\ (protocol = "NVMe" => staged) => lockFile # "absent"

\* No volume is forgotten: it is deleted when kubelet is told so, and can be found till then.
NeverForgotten == UnpublishedIsDeleted /\ MountedIsRemembered
=============================================================================
