--------------------------- MODULE NfsQuotaSizes ---------------------------
(* The request, the array and the storage classes of NfsQuota, and what is promised of a volume. *)
EXTENDS Integers

CONSTANTS
  Requested,   \* the size the claim asks for
  MinSize,     \* minNfsSize
  FsExpansions,  \* the sizes expansions ask for
  Parameters,  \* what the storage class says of quotas: "complete", "missing" (no path,
               \* soft limit or grace period) or "bad" (not numbers)
  Percents,    \* the soft limits of the storage class, in percent
  QuotaEnabled \* IsQuotaEnabled

ASSUME SizesAssumption ==
  /\ Requested \in Nat
  /\ MinSize \in Nat \ {0}
  /\ FsExpansions \subseteq Nat
  /\ Parameters \subseteq {"complete", "missing", "bad"}
  /\ Percents \subseteq Nat
  /\ QuotaEnabled \in BOOLEAN

\* The size of the file system for the claim.
Size == IF Requested < MinSize THEN MinSize ELSE Requested

NoQuota == [hard |-> 0, soft |-> 0]

VARIABLES
  fsSize,    \* array: the size of the file system, 0 if there is none
  quota,     \* array: its tree quota, or NoQuota
  created,   \* orchestrator: it was told the volume is created
  expanded   \* orchestrator: the largest size it was told, 0 if none

\* A tree quota is usable whatever failed and however often the volume was expanded:
\* the soft limit is positive and below the hard limit, and the hard limit does not
\* promise more than the file system has.
QuotaUsable ==
  quota # NoQuota => 0 < quota.soft /\ quota.soft < quota.hard /\ quota.hard <= fsSize

\* A volume reported as created exists with at least the size of the claim, and stays.
CreatedExists == created => fsSize >= Size

\* A file system has at least the size that was last reported for it.
FileSystemAsReported == expanded <= fsSize

\* A volume has the size that CreateVolume and ControllerExpandVolume reported.
SizeAsReported == CreatedExists /\ FileSystemAsReported
=============================================================================
