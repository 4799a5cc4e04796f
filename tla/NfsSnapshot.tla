--------------------------- MODULE NfsSnapshot ---------------------------
(***************************************************************************)
(* Snapshots of NFS volumes: the NFS parts of CreateSnapshot and           *)
(* DeleteSnapshot and of createVolumeFromSnapshot (service/controller.go). *)
(*                                                                         *)
(* A snapshot is a file system with a parent.  Its name, cut to 31         *)
(* characters, ties a retry to an earlier attempt; the array has a name    *)
(* only once.  DeleteSnapshot reads a snapshot by its ID and deletes it by *)
(* its name.  A volume is restored from a snapshot by putting its contents *)
(* back into the parent, which is the volume that is answered.             *)
(*                                                                         *)
(* None of these requests is serialised.  A call is answered ("ok"), fails *)
(* ("failed") or is done and its answer lost ("lost").  A file system that *)
(* cannot be read back is used all the same, and the process panics.       *)
(***************************************************************************)
EXTENDS NfsSnapshotRequests

CONSTANT SnapThreads  \* the handlers

VARIABLES
  vols,       \* array: the volumes that exist
  last,       \* array: the ID given last
  call,       \* drivers: of each handler the place and what it works on
  served      \* orchestrator: the volumes answered for a claim

array == <<vols, snaps, last>>
orchestrator == <<told, asked, gone, served>>
vars == <<array, call, orchestrator>>

SnapIds == 1 .. MaxSnaps
Snap == [id : SnapIds, name : {r.name : r \in FsSnapshots}, parent : Sources]
Outcomes == {"ok", "failed", "lost"}

NoCall == [at |-> "idle"]
Creating == [at : {"source", "find", "create"}, req : FsSnapshots]
Created == [at : {"reread"}, req : FsSnapshots, id : SnapIds]
Deleting == [at : {"get"}, id : SnapIds] \cup [at : {"delete"}, id : SnapIds, snap : Snap]
Restoring == [at : {"getsnap"}, claim : FsClaims, id : SnapIds]
             \cup [at : {"restore", "getvol"}, claim : FsClaims, snap : Snap]

Calls == {NoCall} \cup Creating \cup Created \cup Deleting \cup Restoring

\* Every variable has its type.
TypeOK ==
  /\ vols \subseteq Sources /\ snaps \subseteq Snap /\ last \in 0 .. MaxSnaps
  /\ call \in [SnapThreads -> Calls]
  /\ told \in [FsSnapshots -> 0 .. MaxSnaps] /\ asked \subseteq SnapIds /\ gone \subseteq SnapIds
  /\ served \in [FsClaims -> SUBSET Sources]

Init ==
  /\ vols = Sources /\ snaps = {} /\ last = 0
  /\ call = [t \in SnapThreads |-> NoCall]
  /\ told = [r \in FsSnapshots |-> 0] /\ asked = {} /\ gone = {}
  /\ served = [c \in FsClaims |-> {}]

At(t, l) == call[t].at = l
Becomes(t, c) == call' = [call EXCEPT ![t] = c]
Return(t) == Becomes(t, NoCall)
Error(t) == Return(t) /\ UNCHANGED orchestrator

\* The process dies of a nil file system, with all its handlers.
Panic == call' = [t \in SnapThreads |-> NoCall] /\ UNCHANGED orchestrator

OfName(n) == {s \in snaps : s.name = n}

-----------------------------------------------------------------------------
(* CreateSnapshot.                                                         *)

\* The sidecar asks until it is answered, also while an earlier call still runs (external).
StartCreate(t, r) ==
  /\ call[t] = NoCall /\ told[r] = 0
  /\ Becomes(t, [at |-> "source", req |-> r])
  /\ UNCHANGED <<array, orchestrator>>

\* An answer to a call that was given up is not heard.
AnswerCreated(t, r, id) ==
  /\ Return(t)
  /\ told' = [told EXCEPT ![r] = IF @ = 0 THEN id ELSE @]
  /\ UNCHANGED <<asked, gone, served>>

\* A source that is not found is an error; one that cannot be read is not.  Then the
\* system is looked up.
GetSource(t, o) ==
  /\ At(t, "source")
  /\ \/ (o # "ok" \/ call[t].req.source \in vols) /\ Becomes(t, [call[t] EXCEPT !.at = "find"])
        /\ UNCHANGED orchestrator
     \/ (o = "ok" => call[t].req.source \notin vols) /\ Error(t)
  /\ UNCHANGED array

\* Variant: a snapshot of the name will do.
SameSnapshotByName(s, r) == s.name = r.name

SameSnapshot(s, r) == s.name = r.name /\ s.parent = r.source

\* A name in use by another source is an error; a lookup that fails finds nothing.
FindSnapshot(t, o) ==
  /\ At(t, "find")
  /\ LET r == call[t].req
     IN \/ \E s \in OfName(r.name) :
             o = "ok" /\ IF SameSnapshot(s, r) THEN AnswerCreated(t, r, s.id) ELSE Error(t)
        \/ /\ o = "failed" \/ OfName(r.name) = {}
           /\ Becomes(t, [call[t] EXCEPT !.at = "create"]) /\ UNCHANGED orchestrator
  /\ UNCHANGED array

\* The array refuses a name in use.
CreateFileSystemSnapshot(t, o) ==
  /\ At(t, "create")
  /\ LET r == call[t].req
         new == [id |-> last + 1, name |-> r.name, parent |-> r.source]
     IN \/ /\ o = "failed" \/ OfName(r.name) # {} \/ r.source \notin vols
           /\ Error(t) /\ UNCHANGED array
        \/ /\ o # "failed" /\ OfName(r.name) = {} /\ r.source \in vols /\ last < MaxSnaps
           /\ snaps' = snaps \cup {new} /\ last' = last + 1
           /\ IF o = "ok" THEN Becomes(t, [at |-> "reread", req |-> r, id |-> new.id]) ELSE Return(t)
           /\ UNCHANGED <<vols, orchestrator>>

\* The new snapshot is read back.
ReadSnapshot(t, o) ==
  /\ At(t, "reread")
  /\ \/ o # "ok" /\ Panic
     \/ o = "ok" /\ SnapExists(call[t].id) /\ AnswerCreated(t, call[t].req, call[t].id)
     \/ o = "ok" /\ ~SnapExists(call[t].id) /\ Error(t)
  /\ UNCHANGED array

-----------------------------------------------------------------------------
(* DeleteSnapshot.                                                         *)

\* Of a snapshot that was answered, again and again (external).
StartDelete(t, r) ==
  /\ call[t] = NoCall /\ told[r] # 0
  /\ Becomes(t, [at |-> "get", id |-> told[r]])
  /\ asked' = asked \cup {told[r]}
  /\ UNCHANGED <<array, told, gone, served>>

AnswerDeleted(t) ==
  /\ Return(t)
  /\ gone' = gone \cup {call[t].id}
  /\ UNCHANGED <<told, asked, served>>

\* A snapshot that is not found is deleted already.
GetSnapshot(t, o) ==
  /\ At(t, "get")
  /\ \/ o # "ok" /\ Error(t)
     \/ o = "ok" /\ ~SnapExists(call[t].id) /\ AnswerDeleted(t)
     \/ /\ o = "ok" /\ \E s \in snaps : s.id = call[t].id /\ Becomes(t, [at |-> "delete", id |-> s.id, snap |-> s])
        /\ UNCHANGED orchestrator
  /\ UNCHANGED array

\* The snapshot that has the name now is deleted.
DeleteFileSystem(t, o) ==
  /\ At(t, "delete")
  /\ snaps' = IF o = "failed" THEN snaps ELSE snaps \ OfName(call[t].snap.name)
  /\ IF o = "ok" THEN AnswerDeleted(t) ELSE Error(t)
  /\ UNCHANGED <<vols, last>>

-----------------------------------------------------------------------------
(* createVolumeFromSnapshot, for a claim with the size and the pool of the *)
(* snapshot; any other is refused.                                         *)

StartRestore(t, c, r) ==
  /\ call[t] = NoCall /\ told[r] # 0 /\ served[c] = {}
  /\ Becomes(t, [at |-> "getsnap", claim |-> c, id |-> told[r]])
  /\ UNCHANGED <<array, orchestrator>>

GetSnapshotSource(t, o) ==
  /\ At(t, "getsnap")
  /\ \/ o # "ok" /\ Error(t)
     \/ o = "ok" /\ ~SnapExists(call[t].id) /\ Error(t)
     \/ /\ o = "ok" /\ \E s \in snaps : s.id = call[t].id /\ Becomes(t, [at |-> "restore", claim |-> call[t].claim, snap |-> s])
        /\ UNCHANGED orchestrator
  /\ UNCHANGED array

\* The contents of the parent become those of the snapshot (they are not modelled).
RestoreFileSystemFromSnapshot(t, o) ==
  /\ At(t, "restore")
  /\ \/ (o # "ok" \/ call[t].snap \notin snaps) /\ Error(t)
     \/ /\ o = "ok" /\ call[t].snap \in snaps
        /\ Becomes(t, [call[t] EXCEPT !.at = "getvol"]) /\ UNCHANGED orchestrator
  /\ UNCHANGED array

\* The parent is read and answered.
GetRestored(t, o) ==
  /\ At(t, "getvol")
  /\ LET v == call[t].snap.parent
     IN \/ o # "ok" /\ Panic
        \/ o = "ok" /\ v \notin vols /\ Error(t)
        \/ /\ o = "ok" /\ v \in vols /\ Return(t)
           /\ served' = [served EXCEPT ![call[t].claim] = @ \cup {v}]
           /\ UNCHANGED <<told, asked, gone>>
  /\ UNCHANGED array

-----------------------------------------------------------------------------
(* The environment (external).                                             *)

\* DeleteVolume of a volume without snapshots.
DeleteVolume(v) ==
  /\ v \in vols /\ \A s \in snaps : s.parent # v
  /\ vols' = vols \ {v}
  /\ UNCHANGED <<snaps, last, call, orchestrator>>

Handler(t, o) ==
  \/ GetSource(t, o) \/ FindSnapshot(t, o) \/ CreateFileSystemSnapshot(t, o) \/ ReadSnapshot(t, o)
  \/ GetSnapshot(t, o) \/ DeleteFileSystem(t, o)
  \/ GetSnapshotSource(t, o) \/ RestoreFileSystemFromSnapshot(t, o) \/ GetRestored(t, o)

Next ==
  \/ \E t \in SnapThreads : \/ \E r \in FsSnapshots : StartCreate(t, r) \/ StartDelete(t, r)
                            \/ \E c \in FsClaims, r \in FsSnapshots : StartRestore(t, c, r)
                            \/ \E o \in Outcomes : Handler(t, o)
  \/ \E v \in Sources : DeleteVolume(v)

Spec == Init /\ [][Next]_vars

-----------------------------------------------------------------------------
(* Properties.                                                             *)

\* A claim restored from a snapshot has a volume of its own: neither the volume the
\* snapshot is of, nor that of any other claim.  (What createVolumeFromSnapshot answers.)
OwnVolume ==
  \A c \in FsClaims : /\ served[c] \cap Sources = {}
                      /\ \A d \in FsClaims \ {c} : served[c] \cap served[d] = {}
=============================================================================
