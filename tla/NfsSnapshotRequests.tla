------------------------ MODULE NfsSnapshotRequests ------------------------
(* The volumes, the snapshots and copies of them that are asked for, and what is promised of them. *)
EXTENDS Naturals

CONSTANTS
  Sources,      \* the volumes
  FsSnapshots,  \* the snapshots asked for, with their name and source
  FsClaims,     \* claims with a snapshot as their source
  MaxSnaps      \* bound: snapshots ever made

ASSUME RequestsAssumption ==
  /\ \A r \in FsSnapshots : r = [name |-> r.name, source |-> r.source] /\ r.source \in Sources
  /\ MaxSnaps \in Nat

VARIABLES
  snaps,  \* array: the snapshots that exist
  told,   \* orchestrator: the ID answered for a snapshot, 0 if none
  asked,  \* orchestrator: the IDs it has asked to delete
  gone    \* orchestrator: the IDs it was told are deleted

SnapExists(id) == \E s \in snaps : s.id = id

\* The snapshot answered for a request is of its source and, as long as nobody asks to
\* delete it, it stays: whatever other requests are created, deleted or restored by, late
\* calls included.  (The deletion by name needs a name that only one request has.)
SnapshotStays ==
  \A r \in FsSnapshots : told[r] # 0 =>
    /\ \A s \in snaps : s.id = told[r] => s.parent = r.source
    /\ told[r] \notin asked /\ (\A q \in FsSnapshots : q.name = r.name => q = r) => SnapExists(told[r])

\* A snapshot that DeleteSnapshot answers as deleted is not there any more.
DeletedSnapshotGone == \A id \in gone : ~SnapExists(id)

\* What CreateSnapshot and DeleteSnapshot answered stays true.
FsSnapshotsAsAnswered == SnapshotStays /\ DeletedSnapshotGone
=============================================================================
