------------------------ MODULE InlineVolumeProofs ------------------------
(***************************************************************************)
(* TLAPS proofs about InlineVolume, for every set of protocols and any     *)
(* number of faults.                                                       *)
(*                                                                         *)
(* The three invariants are not inductive: what a handler may conclude     *)
(* depends on the steps it has behind it (Progress), on who called it and  *)
(* what kubelet knows meanwhile (Callers), and on where the lock file of a *)
(* mounted volume is while its file system is not mounted (Remembers).     *)
(***************************************************************************)
EXTENDS InlineVolume, TLAPS

PublishPCs == {"create", "dir", "attach", "stage", "lock", "write", "publish"}
UnpublishPCs == {"read", "unmount", "unstage", "detach", "delete", "clean", "target"}

\* Everything but the lock file and the target is in place.
Ready == vol /\ mapped /\ (protocol = "NVMe" => staged)

\* What the steps of a handler have achieved.
Progress ==
  /\ pc \in {"dir", "attach"} => vol
  /\ pc = "stage" => vol /\ mapped /\ protocol = "NVMe"
  /\ pc \in {"lock", "write", "publish"} => Ready
  /\ pc = "publish" => lockFile = "id"
  /\ pc \in {"clean", "target"} => ~vol
  /\ pc = "target" => hostLock = "absent" /\ ~staged

\* What kubelet knows and wants while a handler runs.
Callers ==
  /\ pc # "idle" => told # "unpublished"
  /\ told = "unpublished" => pod = "gone"
  /\ pc = "idle" \/ pc \in PublishPCs => caller = "kubelet"
  /\ pc # "idle" /\ (pc \in PublishPCs \/ caller = "rollback") => told # "published"
  /\ pc \in UnpublishPCs /\ caller = "kubelet" => pod = "gone"

\* A mounted volume exists and has its lock file, seen or unseen.
Remembers ==
  /\ staged => protocol = "NVMe"
  /\ target = "this" => /\ vol
                        /\ protocol = "NVMe" => volLock # "absent"
                        /\ protocol # "NVMe" => hostLock # "absent"

\* The types the argument needs; how many faults there were does not matter.
Types ==
  /\ vol \in BOOLEAN /\ mapped \in BOOLEAN /\ staged \in BOOLEAN
  /\ caller \in {"kubelet", "rollback"}
  /\ mapped => vol

IInv == Types /\ Progress /\ Callers /\ Remembers /\ UnpublishedIsDeleted /\ PublishedIsUsable

LEMMA InitIInv == Init => IInv
  BY DEF Init, IInv, Types, Progress, Callers, Remembers, Ready, UnpublishedIsDeleted, PublishedIsUsable, PublishPCs, UnpublishPCs, lockFile

LEMMA NextIInv == IInv /\ [Next]_vars => IInv'
<1> SUFFICES ASSUME IInv, [Next]_vars PROVE IInv'
  OBVIOUS
<1> USE DEF IInv, Types, Progress, Callers, Remembers, Ready, UnpublishedIsDeleted, PublishedIsUsable, PublishPCs, UnpublishPCs, lockFile
<1>1. CASE StartPublish
  BY <1>1 DEF StartPublish, Goto, array, node
<1>2. CASE StartUnpublish
  BY <1>2 DEF StartUnpublish, Goto, array, node
<1>3. CASE DeletePod
  BY <1>3 DEF DeletePod, array, node, driver
<1>4. ASSUME NEW o \in {"ok", "failed", "lost"}, Step(o) PROVE IInv'
  <2>1. CASE CreateVolume(o)
    BY <2>1 DEF CreateVolume, Goto, Answer, Error, Rollback, Done, SetLock, array, node, driver
  <2>2. CASE MakeLockDirectory(o)
    BY <2>2 DEF MakeLockDirectory, Goto, Answer, Error, Rollback, Done, SetLock, array, node, driver
  <2>3. CASE ControllerPublish(o)
    BY <2>3 DEF ControllerPublish, Goto, Answer, Error, Rollback, Done, SetLock, array, node, driver
  <2>4. CASE NodeStage(o)
    BY <2>4 DEF NodeStage, Goto, Answer, Error, Rollback, Done, SetLock, array, node, driver
  <2>5. CASE CreateLock(o)
    BY <2>5 DEF CreateLock, Goto, Answer, Error, Rollback, Done, SetLock, array, node, driver
  <2>6. CASE WriteLock(o)
    BY <2>6 DEF WriteLock, Goto, Answer, Error, Rollback, Done, SetLock, array, node, driver
  <2>7. CASE NodePublish(o)
    BY <2>7 DEF NodePublish, Goto, Answer, Error, Rollback, Done, SetLock, array, node, driver
  <2>8. CASE ReadLock(o)
    BY <2>8 DEF ReadLock, Goto, Answer, Error, Rollback, Done, SetLock, array, node, driver
  <2>9. CASE Unmount(o)
    BY <2>9 DEF Unmount, Goto, Answer, Error, Rollback, Done, SetLock, array, node, driver
  <2>10. CASE NodeUnstage(o)
    BY <2>10 DEF NodeUnstage, Goto, Answer, Error, Rollback, Done, SetLock, array, node, driver
  <2>11. CASE ControllerUnpublish(o)
    BY <2>11 DEF ControllerUnpublish, Goto, Answer, Error, Rollback, Done, SetLock, array, node, driver
  <2>12. CASE DeleteVolume(o)
    BY <2>12 DEF DeleteVolume, Goto, Answer, Error, Rollback, Done, SetLock, array, node, driver
  <2>13. CASE RemoveLock(o)
    BY <2>13 DEF RemoveLock, Goto, Answer, Error, Rollback, Done, SetLock, array, node, driver
  <2>14. CASE UnmountTarget(o)
    BY <2>14 DEF UnmountTarget, Goto, Answer, Error, Rollback, Done, SetLock, array, node, driver
  <2> QED BY <1>4, <2>1, <2>2, <2>3, <2>4, <2>5, <2>6, <2>7, <2>8, <2>9, <2>10, <2>11, <2>12, <2>13, <2>14 DEF Step
<1>5. CASE Crash
  BY <1>5 DEF Crash, Error, Answer, array, node
<1>6. CASE Reboot
  BY <1>6 DEF Reboot, Answer, array
<1>7. CASE UNCHANGED vars
  BY <1>7 DEF vars, array, node, driver
<1> QED BY <1>1, <1>2, <1>3, <1>4, <1>5, <1>6, <1>7 DEF Next

\* The inductive invariant of the handlers of an inline volume.
THEOREM Invariance == Spec => []IInv
<1>1. Init => IInv
  BY InitIInv
<1>2. IInv /\ [Next]_vars => IInv'
  BY NextIInv
<1> QED BY <1>1, <1>2, PTL DEF Spec

\* NodeUnpublishVolume tells kubelet that an inline volume is unpublished only when it is
\* deleted on the array and its lock file is gone; until then a target that is mounted on
\* the volume has a lock file, at every step of a handler and after a crash.
THEOREM NeverForgottenHolds == Spec => []NeverForgotten
<1>1. IInv => UnpublishedIsDeleted
  BY DEF IInv
<1>2. IInv => MountedIsRemembered
  BY DEF IInv, Remembers, MountedIsRemembered, lockFile
<1> QED BY <1>1, <1>2, Invariance, PTL DEF NeverForgotten

\* A published inline volume of a pod that is not deleted exists, is mapped and mounted,
\* and its lock file names it.
THEOREM PublishedIsUsableHolds == Spec => []PublishedIsUsable
<1>1. IInv => PublishedIsUsable
  BY DEF IInv
<1> QED BY <1>1, Invariance, PTL
=============================================================================
