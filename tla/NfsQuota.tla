----------------------------- MODULE NfsQuota -----------------------------
(***************************************************************************)
(* The size and the tree quota of an NFS volume: the NFS part of           *)
(* CreateVolume with createQuota, and the NFS part of                      *)
(* ControllerExpandVolume.  Several array calls make one request: the file *)
(* system is created, quotas are enabled on it and a tree quota is made,   *)
(* with a rollback; a file system is resized, then its tree quota.         *)
(*                                                                         *)
(* The serial access of gocsi runs one handler of a volume at a time; each *)
(* array call is a step that may fail ("failed": not done, "lost": done),  *)
(* and the driver may crash between any two.                               *)
(***************************************************************************)
EXTENDS Integers, NfsQuotaSizes

Outcomes == {"ok", "failed", "lost"}

VARIABLES
  class, percent, \* the storage class: its quota parameters and soft limit
  quotaOn,        \* array: quotas are enabled on the file system
  pc, want, seen  \* driver: the handler, the size of its request, and whether the file
                  \* system it read had quotas enabled

storageClass == <<class, percent>>
array == <<fsSize, quotaOn, quota>>
driver == <<pc, want, seen>>
vars == <<storageClass, array, driver, created, expanded>>

PCs == {"idle", "lookup", "create", "params", "enable", "limits", "rollback", "reread",
        "expand", "resize", "getquota", "setquota"}

\* Every variable has its type; there is no quota without a file system.
TypeOK ==
  /\ class \in Parameters /\ percent \in Percents
  /\ fsSize \in Nat /\ quotaOn \in BOOLEAN
  /\ quota \in [hard : Nat, soft : Nat]
  /\ pc \in PCs /\ want \in Nat /\ seen \in BOOLEAN
  /\ created \in BOOLEAN /\ expanded \in Nat
  /\ fsSize = 0 => quota = NoQuota

Init ==
  /\ class \in Parameters /\ percent \in Percents
  /\ fsSize = 0 /\ quotaOn = FALSE /\ quota = NoQuota
  /\ pc = "idle" /\ want = 0 /\ seen = FALSE
  /\ created = FALSE /\ expanded = 0

Goto(l) == pc' = l /\ UNCHANGED <<want, seen, created, expanded>>
End == pc' = "idle" /\ want' = 0 /\ seen' = FALSE
Error == End /\ UNCHANGED <<created, expanded>>
AnswerCreated == End /\ created' = TRUE /\ UNCHANGED expanded
AnswerExpanded == End /\ expanded' = want /\ UNCHANGED created

-----------------------------------------------------------------------------
(* CreateVolume.                                                           *)

StartCreate ==
  /\ pc = "idle"
  /\ expanded = 0
  /\ pc' = "lookup" /\ want' = Size
  /\ UNCHANGED <<storageClass, array, seen, created, expanded>>

\* A file system of the name and the size is an earlier attempt.  A lookup that fails
\* counts as "no file system".
Lookup(o) ==
  /\ pc = "lookup"
  /\ o \in {"ok", "failed"}
  /\ UNCHANGED <<storageClass, array>>
  /\ CASE o = "ok" /\ fsSize = want -> AnswerCreated
       [] o = "ok" /\ fsSize \notin {0, want} -> Error
       [] o = "failed" \/ fsSize = 0 -> Goto("create")

\* The array refuses a name in use.
CreateFileSystem(o) ==
  /\ pc = "create"
  /\ UNCHANGED <<storageClass, quota>>
  /\ \/ /\ o = "failed" \/ fsSize # 0
        /\ Error
        /\ UNCHANGED <<fsSize, quotaOn>>
     \/ /\ o # "failed" /\ fsSize = 0
        /\ fsSize' = want /\ quotaOn' = FALSE
        /\ IF o = "ok" THEN Goto(IF QuotaEnabled THEN "params" ELSE "reread") ELSE Error

\* The new file system is read and the parameters of the quota are looked up; an
\* error here leaves the file system.  createQuota then validates them.
QuotaParameters(o) ==
  /\ pc = "params"
  /\ o \in {"ok", "failed"}
  /\ UNCHANGED <<storageClass, array>>
  /\ CASE o = "failed" \/ class = "missing" -> Error
       [] o = "ok" /\ class = "bad" -> Goto("rollback")
       [] o = "ok" /\ class = "complete" -> Goto("enable")

EnableQuota(o) ==
  /\ pc = "enable"
  /\ UNCHANGED <<storageClass, fsSize, quota>>
  /\ quotaOn' = (quotaOn \/ o # "failed")
  /\ Goto(IF o = "ok" THEN "limits" ELSE "rollback")

\* The soft limit in bytes.
SoftLimit(s) == (percent * s) \div 100

\* A soft limit that is not below the size or zero is refused; so are errors of the
\* array.
CreateTreeQuota(o) ==
  /\ pc = "limits"
  /\ UNCHANGED <<storageClass, fsSize, quotaOn>>
  /\ \/ /\ o = "failed" \/ SoftLimit(want) >= want \/ SoftLimit(want) = 0
        /\ Goto("rollback")
        /\ UNCHANGED quota
     \/ /\ o # "failed" /\ SoftLimit(want) < want /\ SoftLimit(want) # 0
        /\ quota' = [hard |-> want, soft |-> SoftLimit(want)]
        /\ Goto(IF o = "ok" THEN "reread" ELSE "rollback")

\* The file system is deleted after an error of createQuota.
Rollback(o) ==
  /\ pc = "rollback"
  /\ UNCHANGED storageClass
  /\ Error
  /\ IF o = "failed" THEN UNCHANGED array
     ELSE fsSize' = 0 /\ quotaOn' = FALSE /\ quota' = NoQuota

Reread(o) ==
  /\ pc = "reread"
  /\ o \in {"ok", "failed"}
  /\ UNCHANGED <<storageClass, array>>
  /\ IF o = "ok" THEN AnswerCreated ELSE Error

-----------------------------------------------------------------------------
(* ControllerExpandVolume.                                                 *)

StartExpand(s) ==
  /\ pc = "idle"
  /\ created
  /\ pc' = "expand" /\ want' = s
  /\ UNCHANGED <<storageClass, array, seen, created, expanded>>

\* A smaller size is answered without a capacity, the same size with it.
Expand(o) ==
  /\ pc = "expand"
  /\ o \in {"ok", "failed"}
  /\ UNCHANGED <<storageClass, array>>
  /\ CASE o = "failed" \/ want < fsSize -> Error
       [] o = "ok" /\ want = fsSize -> AnswerExpanded
       [] o = "ok" /\ want > fsSize ->
            pc' = "resize" /\ seen' = quotaOn /\ UNCHANGED <<want, created, expanded>>

\* Variant: an error of the array goes unnoticed.
ResizeUnchecked(o) ==
  /\ pc = "resize"
  /\ UNCHANGED <<storageClass, quotaOn, quota>>
  /\ fsSize' = IF o = "failed" THEN fsSize ELSE want
  /\ AnswerExpanded

Resize(o) ==
  /\ pc = "resize"
  /\ UNCHANGED <<storageClass, quotaOn, quota>>
  /\ fsSize' = IF o = "failed" THEN fsSize ELSE want
  /\ CASE o # "ok" -> Error
       [] o = "ok" /\ QuotaEnabled /\ seen -> Goto("getquota")
       [] o = "ok" /\ ~(QuotaEnabled /\ seen) -> AnswerExpanded

\* The tree quota is read: there may be none.
GetTreeQuota(o) ==
  /\ pc = "getquota"
  /\ o \in {"ok", "failed"}
  /\ UNCHANGED <<storageClass, array>>
  /\ IF o = "ok" /\ quota # NoQuota THEN Goto("setquota") ELSE Error

\* Variant: the soft limit grows with the quotient rounded up.
UpdatedSoftLimitUp(q, s) == q.soft * ((s + q.hard - 1) \div q.hard)

\* updatedSoftLimit: the quotient is that of integers.
UpdatedSoftLimit(q, s) == q.soft * (s \div q.hard)

ModifyTreeQuota(o) ==
  /\ pc = "setquota"
  /\ UNCHANGED <<storageClass, fsSize, quotaOn>>
  /\ quota' = IF o = "failed" THEN quota
              ELSE [hard |-> want, soft |-> UpdatedSoftLimit(quota, want)]
  /\ IF o = "ok" THEN AnswerExpanded ELSE Error

-----------------------------------------------------------------------------

\* The driver crashes and loses its handler (external).
Crash ==
  /\ pc # "idle"
  /\ Error
  /\ UNCHANGED <<storageClass, array>>

Step(o) ==
  \/ Lookup(o) \/ CreateFileSystem(o) \/ QuotaParameters(o) \/ EnableQuota(o)
  \/ CreateTreeQuota(o) \/ Rollback(o) \/ Reread(o)
  \/ Expand(o) \/ Resize(o) \/ GetTreeQuota(o) \/ ModifyTreeQuota(o)

Next ==
  \/ StartCreate
  \/ \E s \in FsExpansions : StartExpand(s)
  \/ \E o \in Outcomes : Step(o)
  \/ Crash

Spec == Init /\ [][Next]_vars

-----------------------------------------------------------------------------
(* Properties.                                                             *)

\* What the comment in ControllerExpandVolume says ("update tree quota hard limit and
\* soft limit if pvc size has changed"): once an expansion is reported, the hard limit
\* is the size.
ExpandedQuota ==
  QuotaEnabled /\ quota # NoQuota /\ expanded # 0 /\ pc = "idle" => quota.hard >= expanded
=============================================================================
