------------------------- MODULE NfsSnapshotProofs -------------------------
(***************************************************************************)
(* A snapshot of an NFS volume stays until it is asked to go, and is gone  *)
(* when that is answered, for any volumes, requests and handlers.          *)
(***************************************************************************)
EXTENDS NfsSnapshot, TLAPS

\* IDs in use were given by the array.
Fresh ==
  /\ \A s \in snaps : s.id <= last
  /\ \A t \in SnapThreads : At(t, "reread") => call[t].id <= last
  /\ \A r \in FsSnapshots : told[r] <= last
  /\ \A id \in gone : id <= last

\* The array has an ID and a name only once.
Unique == \A s, u \in snaps : s.id = u.id \/ s.name = u.name => s = u

Matches(r, id) == \A s \in snaps : s.id = id => s.name = r.name /\ s.parent = r.source

\* What is read back, and what was answered, is the snapshot of the request.
Right ==
  /\ \A t \in SnapThreads : At(t, "reread") => Matches(call[t].req, call[t].id)
  /\ \A r \in FsSnapshots : told[r] # 0 => Matches(r, told[r])

OwnName(r) == \A q \in FsSnapshots : q.name = r.name => q = r
Kept == \A r \in FsSnapshots : told[r] # 0 /\ told[r] \notin asked /\ OwnName(r) => SnapExists(told[r])

\* A deletion is of a snapshot that was answered, and by the name of its request.
Held ==
  /\ \A t \in SnapThreads : At(t, "get") =>
       call[t].id \in asked /\ \E q \in FsSnapshots : told[q] = call[t].id
  /\ \A t \in SnapThreads : At(t, "delete") =>
       /\ call[t].id \in asked
       /\ \E q \in FsSnapshots : told[q] = call[t].id /\ call[t].snap.name = q.name

IInv == TypeOK /\ Fresh /\ Unique /\ Right /\ Kept /\ Held /\ DeletedSnapshotGone

-----------------------------------------------------------------------------

\* The place of a handler tells what it works on.
LEMMA PlaceLemma ==
  ASSUME TypeOK, NEW t \in SnapThreads
  PROVE  /\ call[t] \in Calls
         /\ call[t].at \in {"source", "find", "create"} => call[t] \in Creating
         /\ At(t, "reread") => call[t] \in Created
         /\ At(t, "get") => call[t] \in [at : {"get"}, id : SnapIds]
         /\ At(t, "delete") => call[t] \in [at : {"delete"}, id : SnapIds, snap : Snap]
         /\ At(t, "getsnap") => call[t] \in [at : {"getsnap"}, claim : FsClaims, id : SnapIds]
         /\ call[t].at \in {"restore", "getvol"} =>
              call[t] \in [at : {"restore", "getvol"}, claim : FsClaims, snap : Snap]
  BY DEF TypeOK, Calls, NoCall, Creating, Created, Deleting, Restoring, At

LEMMA DeletionLemma ==
  ASSUME TypeOK, NEW t \in SnapThreads, At(t, "get") \/ At(t, "delete")
  PROVE  call[t].id # 0
  <1>1. call[t].id \in SnapIds
    BY PlaceLemma
  <1> QED
    BY <1>1 DEF SnapIds

LEMMA InitIInv == Init => IInv
  <1> SUFFICES ASSUME Init PROVE IInv
    OBVIOUS
  <1>1. TypeOK
    BY RequestsAssumption DEF Init, TypeOK, Calls
  <1>2. \A t \in SnapThreads : call[t].at = "idle"
    BY DEF Init, NoCall
  <1>3. Fresh /\ Unique /\ Right /\ Kept /\ Held /\ DeletedSnapshotGone
    BY <1>2 DEF Init, Fresh, Unique, Right, Kept, Held, DeletedSnapshotGone, At
  <1> QED
    BY <1>1, <1>3 DEF IInv

\* A step that leaves the snapshots and the answers alone, and starts no deletion or
\* read-back.
LEMMA QuietStep ==
  ASSUME IInv, TypeOK', UNCHANGED <<snaps, last, told, asked, gone>>,
         \A t \in SnapThreads : call'[t].at \in {"reread", "get", "delete"} => call'[t] = call[t]
  PROVE  IInv'
  BY DEF IInv, Fresh, Unique, Right, Matches, Kept, OwnName, Held, DeletedSnapshotGone, SnapExists, At

-----------------------------------------------------------------------------
(* Type correctness.                                                       *)

\* A handler may go on with any call.
LEMMA BecomesType ==
  ASSUME TypeOK, NEW t \in SnapThreads, NEW c \in Calls, Becomes(t, c)
  PROVE  call' \in [SnapThreads -> Calls]
  BY DEF TypeOK, Becomes

LEMMA ReturnType ==
  ASSUME TypeOK, NEW t \in SnapThreads, Return(t)
  PROVE  call' \in [SnapThreads -> Calls]
  <1>1. NoCall \in Calls
    BY DEF Calls
  <1> QED
    BY <1>1, BecomesType DEF Return

LEMMA ErrorType ==
  ASSUME TypeOK, NEW t \in SnapThreads, Error(t), UNCHANGED array
  PROVE  TypeOK'
  <1>1. call' \in [SnapThreads -> Calls]
    BY ReturnType DEF Error
  <1> QED
    BY <1>1 DEF TypeOK, Error, array, orchestrator

LEMMA GoesOnType ==
  ASSUME TypeOK, NEW t \in SnapThreads, NEW c \in Calls, Becomes(t, c), UNCHANGED <<array, orchestrator>>
  PROVE  TypeOK'
  <1>1. call' \in [SnapThreads -> Calls]
    BY BecomesType
  <1> QED
    BY <1>1 DEF TypeOK, array, orchestrator

LEMMA PanicType ==
  ASSUME TypeOK, Panic, UNCHANGED array
  PROVE  TypeOK'
  BY DEF TypeOK, Panic, Calls, array, orchestrator

LEMMA AnswerCreatedType ==
  ASSUME TypeOK, NEW t \in SnapThreads, NEW r \in FsSnapshots, NEW id \in SnapIds,
         AnswerCreated(t, r, id), UNCHANGED array
  PROVE  TypeOK'
  <1>1. call' \in [SnapThreads -> Calls]
    BY ReturnType DEF AnswerCreated
  <1>2. told' \in [FsSnapshots -> 0 .. MaxSnaps]
    BY RequestsAssumption DEF AnswerCreated, TypeOK, SnapIds
  <1> QED
    BY <1>1, <1>2 DEF TypeOK, AnswerCreated, array

LEMMA AnswerDeletedType ==
  ASSUME TypeOK, NEW t \in SnapThreads, call[t].id \in SnapIds, AnswerDeleted(t), snaps' \subseteq snaps,
         UNCHANGED <<vols, last>>
  PROVE  TypeOK'
  <1>1. call' \in [SnapThreads -> Calls]
    BY ReturnType DEF AnswerDeleted
  <1> QED
    BY <1>1 DEF TypeOK, AnswerDeleted

LEMMA CreateSnapshotType ==
  ASSUME TypeOK, NEW t \in SnapThreads, NEW o \in Outcomes,
         GetSource(t, o) \/ FindSnapshot(t, o) \/ CreateFileSystemSnapshot(t, o) \/ ReadSnapshot(t, o)
  PROVE  TypeOK'
  <1>1. CASE GetSource(t, o)
    <2>1. [call[t] EXCEPT !.at = "find"] \in Calls
      BY <1>1, PlaceLemma DEF GetSource, At, Creating, Calls
    <2> QED
      BY <1>1, <2>1, ErrorType, GoesOnType DEF GetSource
  <1>2. CASE FindSnapshot(t, o)
    <2>1. [call[t] EXCEPT !.at = "create"] \in Calls /\ call[t].req \in FsSnapshots
      BY <1>2, PlaceLemma DEF FindSnapshot, At, Creating, Calls
    <2>2. \A n : \A s \in OfName(n) : s.id \in SnapIds
      BY DEF OfName, TypeOK, Snap
    <2> QED
      BY <1>2, <2>1, <2>2, ErrorType, GoesOnType, AnswerCreatedType DEF FindSnapshot
  <1>3. CASE CreateFileSystemSnapshot(t, o)
    <2> DEFINE r == call[t].req
               new == [id |-> last + 1, name |-> r.name, parent |-> r.source]
               c == [at |-> "reread", req |-> r, id |-> new.id]
    <2>1. r \in FsSnapshots
      BY <1>3, PlaceLemma DEF CreateFileSystemSnapshot, At, Creating
    <2>2. CASE Error(t) /\ UNCHANGED array
      BY <2>2, ErrorType
    <2>3. CASE /\ last < MaxSnaps /\ snaps' = snaps \cup {new} /\ last' = last + 1
               /\ Becomes(t, c) \/ Return(t)
               /\ UNCHANGED <<vols, orchestrator>>
      <3>1. last + 1 \in SnapIds
        BY <2>3, RequestsAssumption DEF TypeOK, SnapIds
      <3>2. c \in Calls
        BY <2>1, <3>1 DEF Calls, Created
      <3>3. call' \in [SnapThreads -> Calls]
        BY <2>3, <3>2, BecomesType, ReturnType
      <3>4. new \in Snap
        BY <2>1, <3>1, RequestsAssumption DEF TypeOK, Snap
      <3>5. snaps' \subseteq Snap /\ last' \in 0 .. MaxSnaps
        BY <2>3, <3>1, <3>4, RequestsAssumption DEF TypeOK, SnapIds
      <3> QED
        BY <2>3, <3>3, <3>5 DEF TypeOK, orchestrator
    <2> QED
      BY <1>3, <2>2, <2>3 DEF CreateFileSystemSnapshot
  <1>4. CASE ReadSnapshot(t, o)
    <2>1. call[t].req \in FsSnapshots /\ call[t].id \in SnapIds
      BY <1>4, PlaceLemma DEF ReadSnapshot, At, Created
    <2> QED
      BY <1>4, <2>1, ErrorType, PanicType, AnswerCreatedType DEF ReadSnapshot
  <1> QED
    BY <1>1, <1>2, <1>3, <1>4

LEMMA DeleteSnapshotType ==
  ASSUME TypeOK, NEW t \in SnapThreads, NEW o \in Outcomes, GetSnapshot(t, o) \/ DeleteFileSystem(t, o)
  PROVE  TypeOK'
  <1>1. CASE GetSnapshot(t, o)
    <2>1. call[t].id \in SnapIds
      BY <1>1, PlaceLemma DEF GetSnapshot, At
    <2>2. \A s \in snaps : [at |-> "delete", id |-> s.id, snap |-> s] \in Calls
      BY DEF TypeOK, Snap, Calls, Deleting
    <2> QED
      BY <1>1, <2>1, <2>2, ErrorType, GoesOnType, AnswerDeletedType, Zenon DEF GetSnapshot, array
  <1>2. CASE DeleteFileSystem(t, o)
    <2>1. call[t].id \in SnapIds
      BY <1>2, PlaceLemma DEF DeleteFileSystem, At
    <2>2. snaps' \subseteq snaps
      BY <1>2 DEF DeleteFileSystem
    <2>3. CASE AnswerDeleted(t)
      BY <1>2, <2>1, <2>2, <2>3, AnswerDeletedType DEF DeleteFileSystem
    <2>4. CASE Error(t)
      <3>1. call' \in [SnapThreads -> Calls]
        BY <2>4, ReturnType DEF Error
      <3> QED
        BY <1>2, <2>2, <2>4, <3>1 DEF TypeOK, Error, DeleteFileSystem, orchestrator
    <2> QED
      BY <1>2, <2>3, <2>4 DEF DeleteFileSystem
  <1> QED
    BY <1>1, <1>2

LEMMA RestoreType ==
  ASSUME TypeOK, NEW t \in SnapThreads, NEW o \in Outcomes,
         GetSnapshotSource(t, o) \/ RestoreFileSystemFromSnapshot(t, o) \/ GetRestored(t, o)
  PROVE  TypeOK'
  <1>1. CASE GetSnapshotSource(t, o)
    <2>1. call[t].claim \in FsClaims
      BY <1>1, PlaceLemma DEF GetSnapshotSource, At
    <2>2. \A s \in snaps : [at |-> "restore", claim |-> call[t].claim, snap |-> s] \in Calls
      BY <2>1 DEF TypeOK, Calls, Restoring
    <2> QED
      BY <1>1, <2>2, ErrorType, GoesOnType, Zenon DEF GetSnapshotSource
  <1>2. CASE RestoreFileSystemFromSnapshot(t, o)
    <2>1. call[t].snap \in Snap /\ [call[t] EXCEPT !.at = "getvol"] \in Calls
      BY <1>2, PlaceLemma DEF RestoreFileSystemFromSnapshot, At, Calls, Restoring
    <2> QED
      BY <1>2, <2>1, ErrorType, GoesOnType, Zenon DEF RestoreFileSystemFromSnapshot
  <1>3. CASE GetRestored(t, o)
    <2>1. call[t].claim \in FsClaims /\ call[t].snap.parent \in Sources
      BY <1>3, PlaceLemma DEF GetRestored, At, Snap
    <2>2. CASE /\ Return(t) /\ UNCHANGED <<array, told, asked, gone>>
               /\ served' = [served EXCEPT ![call[t].claim] = @ \cup {call[t].snap.parent}]
      <3>1. call' \in [SnapThreads -> Calls]
        BY <2>2, ReturnType
      <3>2. served' \in [FsClaims -> SUBSET Sources]
        BY <2>1, <2>2 DEF TypeOK
      <3> QED
        BY <2>2, <3>1, <3>2 DEF TypeOK, array
    <2> QED
      BY <1>3, <2>2, ErrorType, PanicType DEF GetRestored
  <1> QED
    BY <1>1, <1>2, <1>3

LEMMA StartType ==
  ASSUME TypeOK, NEW t \in SnapThreads, NEW r \in FsSnapshots,
         \/ StartCreate(t, r) \/ StartDelete(t, r)
         \/ \E c \in FsClaims : StartRestore(t, c, r)
  PROVE  TypeOK'
  <1>1. CASE StartCreate(t, r)
    <2>1. [at |-> "source", req |-> r] \in Calls
      BY DEF Calls, Creating
    <2> QED
      BY <1>1, <2>1, GoesOnType DEF StartCreate
  <1>2. told[r] # 0 => told[r] \in SnapIds
    BY RequestsAssumption DEF TypeOK, SnapIds
  <1>3. CASE StartDelete(t, r)
    <2>1. [at |-> "get", id |-> told[r]] \in Calls
      BY <1>2, <1>3 DEF StartDelete, Calls, Deleting
    <2>2. call' \in [SnapThreads -> Calls]
      BY <1>3, <2>1, BecomesType DEF StartDelete
    <2> QED
      BY <1>2, <1>3, <2>2 DEF TypeOK, StartDelete, array
  <1>4. ASSUME NEW c \in FsClaims, StartRestore(t, c, r) PROVE TypeOK'
    <2>1. [at |-> "getsnap", claim |-> c, id |-> told[r]] \in Calls
      BY <1>2, <1>4 DEF StartRestore, Calls, Restoring
    <2> QED
      BY <1>4, <2>1, GoesOnType DEF StartRestore
  <1> QED
    BY <1>1, <1>3, <1>4

LEMMA EnvironmentType ==
  ASSUME TypeOK, NEW v \in Sources, DeleteVolume(v)
  PROVE  TypeOK'
  BY RequestsAssumption DEF TypeOK, DeleteVolume, orchestrator

LEMMA TypeStep == TypeOK /\ [Next]_vars => TypeOK'
  <1> SUFFICES ASSUME TypeOK, [Next]_vars PROVE TypeOK'
    OBVIOUS
  <1>1. CASE UNCHANGED vars
    BY <1>1 DEF TypeOK, vars, array, orchestrator
  <1>2. ASSUME NEW t \in SnapThreads, NEW o \in Outcomes, Handler(t, o) PROVE TypeOK'
    BY <1>2, CreateSnapshotType, DeleteSnapshotType, RestoreType DEF Handler
  <1> QED
    BY <1>1, <1>2, StartType, EnvironmentType DEF Next

-----------------------------------------------------------------------------
(* The steps that disturb the invariant.                                   *)

LEMMA AnswerCreatedStep ==
  ASSUME IInv, TypeOK', NEW t \in SnapThreads, NEW r \in FsSnapshots, NEW id \in SnapIds,
         AnswerCreated(t, r, id), UNCHANGED array, SnapExists(id), Matches(r, id), id <= last
  PROVE  IInv'
  <1>1. /\ \A u \in SnapThreads : call'[u].at \in {"reread", "get", "delete"} => call'[u] = call[u]
        /\ \A q \in FsSnapshots : told[q] # 0 => told'[q] = told[q]
        /\ \A q \in FsSnapshots : told[q] = 0 => told'[q] \in {0, id}
        /\ \A q \in FsSnapshots : q # r => told'[q] = told[q]
        /\ UNCHANGED <<snaps, last, asked, gone>>
    BY DEF AnswerCreated, Return, Becomes, NoCall, IInv, TypeOK, array
  <1>2. Fresh' /\ Unique' /\ DeletedSnapshotGone'
    BY <1>1 DEF IInv, TypeOK, Fresh, Unique, DeletedSnapshotGone, SnapExists, At
  <1>3. Right'
    BY <1>1 DEF IInv, Right, Matches, At
  <1>4. Kept'
    BY <1>1 DEF IInv, Kept, OwnName, SnapExists
  <1>5. Held'
    BY <1>1, DeletionLemma DEF IInv, Held, At
  <1> QED
    BY <1>2, <1>3, <1>4, <1>5 DEF IInv

LEMMA AnswerDeletedStep ==
  ASSUME IInv, TypeOK', NEW t \in SnapThreads, AnswerDeleted(t), UNCHANGED array, ~SnapExists(call[t].id),
         call[t].id <= last
  PROVE  IInv'
  <1>1. /\ \A u \in SnapThreads : call'[u].at \in {"reread", "get", "delete"} => call'[u] = call[u]
        /\ UNCHANGED <<snaps, last, told, asked>> /\ gone' = gone \cup {call[t].id}
    BY DEF AnswerDeleted, Return, Becomes, NoCall, IInv, TypeOK, array
  <1>2. Fresh' /\ DeletedSnapshotGone'
    BY <1>1 DEF IInv, Fresh, DeletedSnapshotGone, SnapExists, At
  <1>3. Unique' /\ Right'
    BY <1>1 DEF IInv, Unique, Right, Matches, At
  <1>4. Kept' /\ Held'
    BY <1>1 DEF IInv, Kept, OwnName, Held, SnapExists, At
  <1> QED
    BY <1>2, <1>3, <1>4 DEF IInv

\* A handler that ends in an error or goes on to an other place.
LEMMA QuietCall ==
  ASSUME IInv, TypeOK', NEW t \in SnapThreads,
         Return(t) \/ \E c : Becomes(t, c) /\ c.at \notin {"reread", "get", "delete"},
         UNCHANGED <<snaps, last, told, asked, gone>>
  PROVE  IInv'
  <1>1. \A u \in SnapThreads : call'[u].at \in {"reread", "get", "delete"} => call'[u] = call[u]
    BY DEF Return, Becomes, NoCall, IInv, TypeOK
  <1> QED
    BY <1>1, QuietStep

LEMMA ErrorStep ==
  ASSUME IInv, TypeOK', NEW t \in SnapThreads, Error(t) \/ Panic, UNCHANGED array
  PROVE  IInv'
  <1>1. CASE Error(t)
    BY <1>1, QuietCall DEF Error, array, orchestrator
  <1>2. CASE Panic
    <2>1. \A u \in SnapThreads : call'[u].at = "idle"
      BY <1>2 DEF Panic, NoCall
    <2> QED
      BY <1>2, <2>1, QuietStep DEF Panic, array, orchestrator
  <1> QED
    BY <1>1, <1>2

\* The array has a snapshot more, under a new ID and a name that was free.
LEMMA NewSnapshotStep ==
  ASSUME IInv, TypeOK', NEW r \in FsSnapshots, NEW new, NEW c, OfName(r.name) = {},
         new.id = last + 1, new.name = r.name, new.parent = r.source,
         c.at = "reread", c.req = r, c.id = last + 1,
         snaps' = snaps \cup {new}, last' = last + 1, UNCHANGED <<told, asked, gone>>,
         \A u \in SnapThreads : call'[u].at \in {"reread", "get", "delete"} => call'[u] \in {call[u], c}
  PROVE  IInv'
  <1>1. last \in Nat /\ \A s \in snaps : s.id \in Nat
    BY RequestsAssumption DEF IInv, TypeOK, Snap, SnapIds
  <1>2. \A s \in snaps : s.id <= last /\ s.name # r.name
    BY DEF IInv, Fresh, OfName
  <1>3. /\ \A u \in SnapThreads : At(u, "reread") => call[u].id \in Nat /\ call[u].req \in FsSnapshots
        /\ \A q \in FsSnapshots : told[q] \in Nat
        /\ \A id \in gone : id \in Nat
    BY PlaceLemma, RequestsAssumption DEF IInv, TypeOK, Created, SnapIds
  <1>4. Fresh'
    BY <1>1, <1>2, <1>3 DEF IInv, Fresh, At
  <1>5. Unique'
    BY <1>1, <1>2 DEF IInv, Unique
  <1>6. Right'
    <2>1. Matches(r, c.id)'
      BY <1>1, <1>2 DEF Matches
    <2>2. \A q \in FsSnapshots, id \in Nat : id <= last /\ Matches(q, id) => Matches(q, id)'
      BY <1>1 DEF Matches
    <2>3. ASSUME NEW u \in SnapThreads, At(u, "reread")' PROVE Matches(call[u].req, call[u].id)'
      <3>1. CASE call'[u] = c
        BY <2>1, <3>1 DEF Matches
      <3>2. CASE call'[u] = call[u]
        BY <1>3, <2>2, <2>3, <3>2 DEF IInv, Right, Fresh, Matches, At
      <3> QED
        BY <2>3, <3>1, <3>2 DEF At
    <2>4. ASSUME NEW q \in FsSnapshots, told'[q] # 0 PROVE Matches(q, told[q])'
      BY <1>3, <2>2, <2>4 DEF IInv, Right, Fresh, Matches
    <2> QED
      BY <2>3, <2>4 DEF Right
  <1>7. Kept' /\ Held'
    BY DEF IInv, Kept, OwnName, SnapExists, Held, At
  <1>8. DeletedSnapshotGone'
    <2>1. \A id \in gone : id <= last /\ \A s \in snaps : s.id # id
      BY DEF IInv, Fresh, DeletedSnapshotGone, SnapExists
    <2>2. \A id \in gone : new.id # id
      BY <1>1, <1>3, <2>1
    <2> QED
      BY <2>1, <2>2 DEF DeletedSnapshotGone, SnapExists
  <1> QED
    BY <1>4, <1>5, <1>6, <1>7, <1>8 DEF IInv

LEMMA CreateStep ==
  ASSUME IInv, TypeOK', NEW t \in SnapThreads, NEW o \in Outcomes, CreateFileSystemSnapshot(t, o)
  PROVE  IInv'
  <1>1. call[t].req \in FsSnapshots
    BY PlaceLemma DEF CreateFileSystemSnapshot, At, Creating, IInv
  <1>2. PICK r \in FsSnapshots : r = call[t].req
    BY <1>1
  <1>3. PICK new : new = [id |-> last + 1, name |-> r.name, parent |-> r.source]
    BY Zenon
  <1>4. PICK c : c = [at |-> "reread", req |-> r, id |-> last + 1]
    BY Zenon
  <1>5. new.id = last + 1 /\ new.name = r.name /\ new.parent = r.source
    BY <1>3
  <1>6. c.at = "reread" /\ c.req = r /\ c.id = last + 1
    BY <1>4
  <1>7. CASE Error(t) /\ UNCHANGED array
    BY <1>7, ErrorStep
  <1>8. CASE /\ OfName(r.name) = {} /\ snaps' = snaps \cup {new} /\ last' = last + 1
             /\ Becomes(t, c) \/ Return(t)
             /\ UNCHANGED orchestrator
    <2>1. \A u \in SnapThreads : call'[u].at \in {"reread", "get", "delete"} => call'[u] \in {call[u], c}
      BY <1>8 DEF Return, Becomes, NoCall, IInv, TypeOK
    <2> QED
      BY <1>5, <1>6, <1>8, <2>1, NewSnapshotStep DEF orchestrator
  <1> QED
    BY <1>2, <1>3, <1>4, <1>7, <1>8 DEF CreateFileSystemSnapshot

LEMMA FindStep ==
  ASSUME IInv, TypeOK', NEW t \in SnapThreads, NEW o \in Outcomes, FindSnapshot(t, o) \/ ReadSnapshot(t, o)
  PROVE  IInv'
  <1>1. CASE FindSnapshot(t, o)
    <2> DEFINE r == call[t].req
    <2>1. r \in FsSnapshots
      BY <1>1, PlaceLemma DEF FindSnapshot, At, Creating, IInv
    <2>2. ASSUME NEW s \in OfName(r.name), SameSnapshot(s, r), AnswerCreated(t, r, s.id) PROVE IInv'
      <3>1. s \in snaps /\ s.id \in SnapIds /\ s.id <= last /\ SnapExists(s.id) /\ Matches(r, s.id)
        BY <2>2 DEF IInv, TypeOK, Snap, Fresh, Unique, OfName, SameSnapshot, SnapExists, Matches
      <3> QED
        BY <1>1, <2>1, <2>2, <3>1, AnswerCreatedStep DEF FindSnapshot
    <2>3. CASE Becomes(t, [call[t] EXCEPT !.at = "create"]) /\ UNCHANGED orchestrator
      <3>1. [call[t] EXCEPT !.at = "create"].at \notin {"reread", "get", "delete"}
        BY <1>1, PlaceLemma DEF FindSnapshot, At, Creating, IInv
      <3>2. UNCHANGED <<snaps, last, told, asked, gone>>
        BY <1>1, <2>3 DEF FindSnapshot, array, orchestrator
      <3> QED
        BY <2>3, <3>1, <3>2, QuietCall, Zenon
    <2> QED
      BY <1>1, <2>2, <2>3, ErrorStep DEF FindSnapshot
  <1>2. CASE ReadSnapshot(t, o)
    <2>1. call[t].req \in FsSnapshots /\ call[t].id \in SnapIds /\ call[t].id <= last
          /\ Matches(call[t].req, call[t].id)
      BY <1>2, PlaceLemma DEF ReadSnapshot, At, Created, IInv, Fresh, Right
    <2> QED
      BY <1>2, <2>1, ErrorStep, AnswerCreatedStep DEF ReadSnapshot
  <1> QED
    BY <1>1, <1>2

\* A handler has come to an ID that its request was told and that is asked to go.
LEMMA HeldStep ==
  ASSUME IInv, TypeOK', NEW c, NEW q \in FsSnapshots, c.at \in {"get", "delete"}, c.id = told[q],
         c.at = "delete" => c.snap.name = q.name, c.id \in asked',
         \A u \in SnapThreads : call'[u].at \in {"reread", "get", "delete"} => call'[u] \in {call[u], c},
         asked \subseteq asked', UNCHANGED <<snaps, last, told, gone>>
  PROVE  IInv'
  <1>1. Fresh' /\ Unique' /\ DeletedSnapshotGone'
    BY DEF IInv, Fresh, Unique, DeletedSnapshotGone, SnapExists, At
  <1>2. Right' /\ Kept'
    BY DEF IInv, Right, Matches, Kept, OwnName, SnapExists, At
  <1>3. Held'
    BY DEF IInv, Held, At
  <1> QED
    BY <1>1, <1>2, <1>3 DEF IInv

LEMMA StartDeleteStep ==
  ASSUME IInv, TypeOK', NEW t \in SnapThreads, NEW r \in FsSnapshots, StartDelete(t, r)
  PROVE  IInv'
  <1>1. PICK c : c = [at |-> "get", id |-> told[r]]
    BY Zenon
  <1>2. c.at = "get" /\ c.id = told[r]
    BY <1>1
  <1>3. Becomes(t, c) /\ asked' = asked \cup {told[r]} /\ UNCHANGED <<snaps, last, told, gone>>
    BY <1>1 DEF StartDelete, array
  <1>4. \A u \in SnapThreads : call'[u] \in {call[u], c}
    BY <1>3 DEF Becomes, IInv, TypeOK
  <1> QED
    BY <1>2, <1>3, <1>4, HeldStep

LEMMA GetSnapshotStep ==
  ASSUME IInv, TypeOK', NEW t \in SnapThreads, NEW o \in Outcomes, GetSnapshot(t, o)
  PROVE  IInv'
  <1>1. PICK q \in FsSnapshots : told[q] = call[t].id
    BY DEF GetSnapshot, IInv, Held
  <1>2. call[t].id \in asked /\ call[t].id <= last
    BY <1>1 DEF GetSnapshot, IInv, Held, Fresh
  <1>3. told[q] # 0
    BY <1>1, DeletionLemma DEF GetSnapshot, IInv
  <1>4. ASSUME NEW s \in snaps, s.id = call[t].id, UNCHANGED orchestrator,
               Becomes(t, [at |-> "delete", id |-> s.id, snap |-> s])
        PROVE  IInv'
    <2>1. PICK c : c = [at |-> "delete", id |-> s.id, snap |-> s]
      BY Zenon
    <2>2. c.at = "delete" /\ c.id = s.id /\ c.snap = s
      BY <2>1
    <2>3. \A u \in SnapThreads : call'[u] \in {call[u], c}
      BY <1>4, <2>1 DEF Becomes, IInv, TypeOK
    <2>4. s.name = q.name
      BY <1>1, <1>3, <1>4 DEF IInv, Right, Matches
    <2>5. UNCHANGED <<snaps, last, told, asked, gone>>
      BY <1>4 DEF GetSnapshot, array, orchestrator
    <2> QED
      BY <1>1, <1>2, <1>4, <2>2, <2>3, <2>4, <2>5, HeldStep
  <1> QED
    BY <1>2, <1>4, ErrorStep, AnswerDeletedStep, Zenon DEF GetSnapshot

\* What is deleted by name is the snapshot that was asked for: any other snapshot of the
\* name is one of a request that shares it.
LEMMA DeletedStep ==
  ASSUME IInv, TypeOK', NEW q \in FsSnapshots, told[q] # 0, told[q] \in asked,
         UNCHANGED <<last, told, asked>>, snaps' \in {snaps, snaps \ OfName(q.name)},
         gone' = gone \/ (gone' = gone \cup {told[q]} /\ snaps' = snaps \ OfName(q.name)),
         \A u \in SnapThreads : call'[u].at \in {"reread", "get", "delete"} => call'[u] = call[u]
  PROVE  IInv'
  <1>1. snaps' \subseteq snaps
    OBVIOUS
  <1>2. Fresh'
    BY <1>1 DEF IInv, Fresh, At
  <1>3. Unique'
    BY <1>1 DEF IInv, Unique
  <1>4. Right'
    <2>1. \A r, id : Matches(r, id) => Matches(r, id)'
      BY <1>1 DEF Matches
    <2> QED
      BY <2>1 DEF IInv, Right, Matches, At
  <1>5. Held'
    <2>1. Held
      BY DEF IInv
    <2>2. \A u \in SnapThreads : call'[u].at \in {"get", "delete"} => call'[u] = call[u]
      OBVIOUS
    <2> QED
      BY <2>1, <2>2 DEF Held, At
  <1>6. Kept'
    <2> SUFFICES ASSUME NEW r \in FsSnapshots, told[r] # 0, told[r] \notin asked, OwnName(r)
                 PROVE  SnapExists(told[r])'
      BY DEF Kept, OwnName
    <2>1. PICK u \in snaps : u.id = told[r]
      BY DEF IInv, Kept, SnapExists
    <2>2. u.name = r.name
      BY <2>1 DEF IInv, Right, Matches
    <2>3. u.name # q.name
      BY <2>2 DEF OwnName
    <2>4. u \in snaps'
      BY <2>3 DEF OfName
    <2> QED
      BY <2>1, <2>4 DEF SnapExists
  <1>7. DeletedSnapshotGone'
    <2>1. \A s \in snaps : s.id = told[q] => s.name = q.name
      BY DEF IInv, Right, Matches
    <2> QED
      BY <1>1, <2>1 DEF IInv, DeletedSnapshotGone, SnapExists, OfName
  <1> QED
    BY <1>2, <1>3, <1>4, <1>5, <1>6, <1>7 DEF IInv

LEMMA DeleteStep ==
  ASSUME IInv, TypeOK', NEW t \in SnapThreads, NEW o \in Outcomes, DeleteFileSystem(t, o)
  PROVE  IInv'
  <1>1. At(t, "delete")
    BY DEF DeleteFileSystem
  <1>2. PICK q \in FsSnapshots : told[q] = call[t].id /\ call[t].snap.name = q.name
    BY <1>1 DEF IInv, Held
  <1>3. told[q] # 0 /\ told[q] \in asked
    BY <1>1, <1>2, DeletionLemma DEF IInv, Held
  <1>4. UNCHANGED <<last, told, asked>>
    BY DEF DeleteFileSystem, AnswerDeleted, Error, orchestrator
  <1>5. \A u \in SnapThreads : call'[u].at \in {"reread", "get", "delete"} => call'[u] = call[u]
    BY DEF DeleteFileSystem, AnswerDeleted, Error, Return, Becomes, NoCall, IInv, TypeOK
  <1>6. snaps' \in {snaps, snaps \ OfName(q.name)}
    BY <1>2 DEF DeleteFileSystem
  <1>7. gone' = gone \/ (gone' = gone \cup {told[q]} /\ snaps' = snaps \ OfName(q.name))
    BY <1>2 DEF DeleteFileSystem, AnswerDeleted, Error, orchestrator
  <1> QED
    BY <1>3, <1>4, <1>5, <1>6, <1>7, DeletedStep

LEMMA RestoreStep ==
  ASSUME IInv, TypeOK', NEW t \in SnapThreads, NEW o \in Outcomes,
         \/ GetSource(t, o) \/ GetSnapshotSource(t, o)
         \/ RestoreFileSystemFromSnapshot(t, o) \/ GetRestored(t, o)
  PROVE  IInv'
  <1>1. CASE GetSource(t, o)
    <2>1. [call[t] EXCEPT !.at = "find"].at \notin {"reread", "get", "delete"}
      BY <1>1, PlaceLemma DEF GetSource, At, Creating, IInv
    <2>2. CASE Becomes(t, [call[t] EXCEPT !.at = "find"]) /\ UNCHANGED orchestrator
      <3>1. UNCHANGED <<snaps, last, told, asked, gone>>
        BY <1>1, <2>2 DEF GetSource, array, orchestrator
      <3> QED
        BY <2>1, <2>2, <3>1, QuietCall, Zenon
    <2> QED
      BY <1>1, <2>2, ErrorStep DEF GetSource
  <1>2. CASE GetSnapshotSource(t, o)
    <2>1. ASSUME NEW s \in snaps, UNCHANGED orchestrator,
                 Becomes(t, [at |-> "restore", claim |-> call[t].claim, snap |-> s])
          PROVE  IInv'
      <3>1. [at |-> "restore", claim |-> call[t].claim, snap |-> s].at \notin {"reread", "get", "delete"}
        OBVIOUS
      <3>2. UNCHANGED <<snaps, last, told, asked, gone>>
        BY <1>2, <2>1 DEF GetSnapshotSource, array, orchestrator
      <3> QED
        BY <2>1, <3>1, <3>2, QuietCall, Zenon
    <2> QED
      BY <1>2, <2>1, ErrorStep, Zenon DEF GetSnapshotSource
  <1>3. CASE RestoreFileSystemFromSnapshot(t, o)
    <2>1. [call[t] EXCEPT !.at = "getvol"].at \notin {"reread", "get", "delete"}
      BY <1>3, PlaceLemma DEF RestoreFileSystemFromSnapshot, At, IInv
    <2>2. CASE Becomes(t, [call[t] EXCEPT !.at = "getvol"]) /\ UNCHANGED orchestrator
      <3>1. UNCHANGED <<snaps, last, told, asked, gone>>
        BY <1>3, <2>2 DEF RestoreFileSystemFromSnapshot, array, orchestrator
      <3> QED
        BY <2>1, <2>2, <3>1, QuietCall, Zenon
    <2> QED
      BY <1>3, <2>2, ErrorStep DEF RestoreFileSystemFromSnapshot
  <1>4. CASE GetRestored(t, o)
    <2>1. CASE Return(t) /\ UNCHANGED <<array, told, asked, gone>>
      BY <2>1, QuietCall DEF array
    <2> QED
      BY <1>4, <2>1, ErrorStep DEF GetRestored
  <1> QED
    BY <1>1, <1>2, <1>3, <1>4

LEMMA NextIInv == IInv /\ [Next]_vars => IInv'
  <1> SUFFICES ASSUME IInv, [Next]_vars PROVE IInv'
    OBVIOUS
  <1>1. TypeOK'
    BY TypeStep DEF IInv
  <1>2. CASE UNCHANGED vars
    <2>1. UNCHANGED <<snaps, last, told, asked, gone, call>>
      BY <1>2 DEF vars, array, orchestrator
    <2> QED
      BY <1>1, <2>1, QuietStep
  <1>3. ASSUME NEW t \in SnapThreads, NEW r \in FsSnapshots, StartCreate(t, r) PROVE IInv'
    BY <1>1, <1>3, QuietCall DEF StartCreate, array, orchestrator
  <1>4. ASSUME NEW t \in SnapThreads, NEW r \in FsSnapshots, NEW c \in FsClaims, StartRestore(t, c, r)
        PROVE  IInv'
    BY <1>1, <1>4, QuietCall DEF StartRestore, array, orchestrator
  <1>5. ASSUME NEW t \in SnapThreads, NEW o \in Outcomes, Handler(t, o) PROVE IInv'
    BY <1>1, <1>5, FindStep, CreateStep, GetSnapshotStep, DeleteStep, RestoreStep DEF Handler
  <1>6. ASSUME NEW v \in Sources, DeleteVolume(v) PROVE IInv'
    <2>1. UNCHANGED <<snaps, last, told, asked, gone, call>>
      BY <1>6 DEF DeleteVolume, orchestrator
    <2> QED
      BY <1>1, <2>1, QuietStep
  <1> QED
    BY <1>1, <1>2, <1>3, <1>4, <1>5, <1>6, StartDeleteStep DEF Next

LEMMA Invariance == Spec => []IInv
  BY InitIInv, NextIInv, PTL DEF Spec

\* What CreateSnapshot answers is a snapshot of the volume that was asked for; the deletion
\* by name in DeleteSnapshot never hits it before its own deletion is asked for, and the
\* snapshot DeleteSnapshot answers for is gone for good.
THEOREM SnapshotsAsAnsweredHolds == Spec => []FsSnapshotsAsAnswered
  <1>1. IInv => SnapshotStays
    BY DEF IInv, Right, Matches, Kept, OwnName, SnapshotStays
  <1>2. IInv => DeletedSnapshotGone
    BY DEF IInv
  <1> QED
    BY <1>1, <1>2, Invariance, PTL DEF FsSnapshotsAsAnswered
=============================================================================
