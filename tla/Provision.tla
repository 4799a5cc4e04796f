---------------------------- MODULE Provision ----------------------------
(***************************************************************************)
(* The controller service provisioning block volumes and snapshots on one  *)
(* PowerFlex array (service/controller.go): CreateVolume for an empty      *)
(* volume, for a clone (Clone) and for a volume from a snapshot            *)
(* (createVolumeFromSnapshot), CreateSnapshot with its consistency group,  *)
(* DeleteSnapshot with DeleteSnapshotConsistencyGroup, and                 *)
(* ControllerExpandVolume up to its replication step.                      *)
(*                                                                         *)
(* Nothing but the name ties a request to what an earlier attempt at it    *)
(* left on the array: every handler looks for the name first or lets the   *)
(* array refuse it.  Handlers of any requests run concurrently (the calls  *)
(* modelled here have no volume ID the serial access of gocsi could lock   *)
(* for all of them), one array call per step, and may crash at any point.  *)
(* The outcome of a call is "ok", "failed" (not done, an error) or "lost"  *)
(* (done, an error).                                                       *)
(***************************************************************************)
EXTENDS Integers, FiniteSets, FiniteSetsExt

CONSTANTS
  Threads,
  Ids,          \* volume IDs of the array: naturals, given out in order
  InitVols,     \* the volumes that exist initially, by ID
  Claims,       \* CreateVolume requests
  SnapRequests, \* CreateSnapshot requests
  Expansions,   \* ControllerExpandVolume requests
  Setups,       \* what is asked for and what else may happen, see Setup
  NoVol         \* an ID that is not in use

\* No content source, no ancestor, no consistency group, nothing found yet.
None == 0

ASSUME ConstantsAssumption ==
  /\ Ids \subseteq Nat \ {None}
  /\ DOMAIN InitVols \subseteq Ids
  \* The orchestrator gives a copy a name of its own: Clone and
  \* createVolumeFromSnapshot compare nothing but the name and the pool.
  /\ \A c, d \in Claims : c # d /\ c.source # None => c.name # d.name

\* Names are pairs: <<text, None>> for a requested name, <<text, v>> for the name
\* generateSnapName makes for volume v.
\* A claim asks for a name (cut to 31 characters), a pool, a size and a content
\* source; a snapshot request for a name, a volume and the other volumes of its
\* consistency group.  A volume of the array has a name, a pool, a size, an
\* ancestor (anc) and a consistency group (cg).
Jobs ==
  [op : {"create"}, req : Claims] \cup [op : {"snap"}, req : SnapRequests]
  \cup [op : {"unsnap"}, req : Ids] \cup [op : {"expand"}, req : Expansions]
NoJob == [op |-> "none"]

\* The requests the orchestrator makes, the volumes something else may remove
\* (DeleteVolume, an administrator), the snapshots an administrator may map to a host,
\* EnableSnapshotCGDelete of the driver's configuration, and the last ID the array
\* gives out (a bound).
Setup == [asked : SUBSET (Claims \cup SnapRequests \cup Expansions), removable : SUBSET Ids,
          exposable : SUBSET Ids, cgDelete : BOOLEAN, last : Ids]

ASSUME SetupsAssumption == Setups \subseteq Setup

PCs == {"idle", "create", "find", "verify", "confirm", "source", "lookup", "copy",
        "readcopy", "snaplookup", "snapread", "snap", "snapreread", "unsnap",
        "remove", "group", "groupremove", "expand", "resize"}
Outcomes == {"ok", "failed", "lost"}

VARIABLES
  vol,       \* array: the volumes by ID
  next,      \* array: the next ID
  exposed,   \* array: the snapshots that are mapped to a host
  born,      \* array: the ancestor and group each volume was made with, forever
  setup,     \* the setup, which no step changes
  pc, job,   \* driver: the handlers
  at,        \* driver: the ID a handler has found or made
  todo,      \* driver: what DeleteSnapshotConsistencyGroup has left to remove
  given,     \* orchestrator: the volumes a claim was answered with
  snapped,   \* orchestrator: the snapshots a snapshot request was answered with
  deletion,  \* orchestrator: whether it has asked to delete a snapshot and was told so
  granted    \* orchestrator: the size it was told a volume has been given

array == <<vol, next, exposed, born, setup>>
driver == <<pc, job, at, todo>>
orchestrator == <<given, snapped, deletion, granted>>
vars == <<array, driver, orchestrator>>

Exists(i) == i \in Ids /\ vol[i] # NoVol
Named(n) == {i \in Ids : Exists(i) /\ vol[i].name = n}

\* Every variable has its type; what a handler holds are IDs of the array.
TypeOK ==
  /\ DOMAIN vol = Ids
  /\ next \in Nat
  /\ exposed \in SUBSET Ids
  /\ born \in [Ids -> [anc : Ids \cup {None}, cg : Ids \cup {None}]]
  /\ setup \in Setups
  /\ pc \in [Threads -> PCs]
  /\ job \in [Threads -> Jobs \cup {NoJob}]
  /\ at \in [Threads -> Ids \cup {None}]
  /\ todo \in [Threads -> SUBSET Ids]
  /\ given \in [Claims -> SUBSET Ids]
  /\ snapped \in [SnapRequests -> SUBSET Ids]
  /\ deletion \in [Ids -> {"no", "asked", "told"}]
  /\ granted \in [Ids -> Nat]

Init ==
  /\ vol = [i \in Ids |-> IF i \in DOMAIN InitVols THEN InitVols[i] ELSE NoVol]
  /\ next = Max(DOMAIN InitVols) + 1
  /\ exposed = {}
  /\ born = [i \in Ids |-> IF i \in DOMAIN InitVols
                           THEN [anc |-> InitVols[i].anc, cg |-> InitVols[i].cg]
                           ELSE [anc |-> None, cg |-> None]]
  /\ setup \in Setups
  /\ pc = [p \in Threads |-> "idle"]
  /\ job = [p \in Threads |-> NoJob]
  /\ at = [p \in Threads |-> None]
  /\ todo = [p \in Threads |-> {}]
  /\ given = [c \in Claims |-> {}]
  /\ snapped = [r \in SnapRequests |-> {}]
  /\ deletion = [i \in Ids |-> "no"]
  /\ granted = [i \in Ids |-> 0]

-----------------------------------------------------------------------------
(* The array (external).                                                   *)

\* New volumes get the next IDs.
Add(new) ==
  /\ vol' = [i \in Ids |-> IF i \in DOMAIN new THEN new[i] ELSE vol[i]]
  /\ born' = [i \in Ids |-> IF i \in DOMAIN new
                            THEN [anc |-> new[i].anc, cg |-> new[i].cg] ELSE born[i]]
  /\ next' = next + Cardinality(DOMAIN new)
  /\ UNCHANGED <<exposed, setup>>

\* A volume is removed, mapped or not; its descendants become those of its ancestor.
Without(i) ==
  [j \in Ids |-> IF j = i THEN NoVol
                 ELSE IF vol[j] # NoVol /\ vol[j].anc = i
                      THEN [vol[j] EXCEPT !.anc = vol[i].anc] ELSE vol[j]]
Remove(i) == vol' = Without(i) /\ exposed' = exposed \ {i} /\ UNCHANGED <<next, born, setup>>

\* The snapshots of a volume and of the rest of its group, made in one call: the
\* snapshot of v gets the next ID, the others follow in the order of their IDs.
Copy(v, n, cg) == [vol[v] EXCEPT !.name = n, !.anc = v, !.cg = cg]
Snapshots(v, n, group) ==
  [i \in next .. next + Cardinality(group) |->
     IF i = next THEN Copy(v, n, next)
     ELSE LET g == CHOOSE x \in group : Cardinality({y \in group : y < x}) = i - next - 1
          IN Copy(g, <<n[1], g>>, next)]

-----------------------------------------------------------------------------
(* Handler steps: go on, or end with an error or an answer.                *)

Goto(p, l, i) ==
  /\ pc' = [pc EXCEPT ![p] = l]
  /\ at' = [at EXCEPT ![p] = i]
  /\ UNCHANGED <<job, todo, orchestrator>>

End(p) ==
  /\ pc' = [pc EXCEPT ![p] = "idle"]
  /\ job' = [job EXCEPT ![p] = NoJob]
  /\ at' = [at EXCEPT ![p] = None]
  /\ todo' = [todo EXCEPT ![p] = {}]

Error(p) == End(p) /\ UNCHANGED orchestrator

AnswerClaim(p, i) ==
  /\ End(p)
  /\ given' = [given EXCEPT ![job[p].req] = @ \cup {i}]
  /\ UNCHANGED <<snapped, deletion, granted>>

AnswerSnapshot(p, i) ==
  /\ End(p)
  /\ snapped' = [snapped EXCEPT ![job[p].req] = @ \cup {i}]
  /\ UNCHANGED <<given, deletion, granted>>

AnswerDeleted(p) ==
  /\ End(p)
  /\ deletion' = [deletion EXCEPT ![job[p].req] = "told"]
  /\ UNCHANGED <<given, snapped, granted>>

AnswerExpanded(p, size) ==
  /\ End(p)
  /\ granted' = [granted EXCEPT ![job[p].req.vol] = Max({@, size})]
  /\ UNCHANGED <<given, snapped, deletion>>

\* A call that adds volumes: the array refuses it (refused), it fails, it is done,
\* or it is done and the answer is lost.
Call(p, o, refused, new, l) ==
  \/ /\ o = "failed" \/ refused
     /\ Error(p)
     /\ UNCHANGED array
  \/ /\ o # "failed" /\ ~refused
     /\ DOMAIN new \subseteq {i \in Ids : i <= setup.last}
     /\ Add(new)
     /\ IF o = "ok" THEN Goto(p, l, next) ELSE Error(p)

\* A read of volume i: an error, not found, or found.
Read(p, o, i, found) ==
  /\ o \in {"ok", "failed"}
  /\ UNCHANGED array
  /\ IF o = "ok" /\ Exists(i) THEN found ELSE Error(p)

-----------------------------------------------------------------------------
(* CreateVolume.                                                           *)

StartCreate(p, c) ==
  /\ pc[p] = "idle"
  /\ pc' = [pc EXCEPT ![p] = IF c.source = None THEN "create" ELSE "source"]
  /\ job' = [job EXCEPT ![p] = [op |-> "create", req |-> c]]
  /\ UNCHANGED <<array, at, todo, orchestrator>>

\* The array refuses a name in use; the volume of that name is then looked up.
CreateVolume(p, o) ==
  /\ pc[p] = "create"
  /\ LET c == job[p].req
         new == [i \in {next} |-> [name |-> c.name, pool |-> c.pool, size |-> c.size,
                                   anc |-> None, cg |-> None]]
     IN \/ /\ o = "ok" /\ Named(c.name) # {}
           /\ Goto(p, "find", None)
           /\ UNCHANGED array
        \/ /\ o # "ok" \/ Named(c.name) = {}
           /\ Call(p, o, Named(c.name) # {}, new, "verify")

FindVolumeID(p, o) ==
  /\ pc[p] = "find"
  /\ o \in {"ok", "failed"}
  /\ UNCHANGED array
  /\ \/ /\ o = "failed" \/ Named(job[p].req.name) = {}
        /\ Error(p)
     \/ /\ o = "ok"
        /\ \E i \in Named(job[p].req.name) : Goto(p, "verify", i)

\* Variant: only the pool is compared.
SamePool(i, c) == vol[i].pool = c.pool

SameParameters(i, c) == vol[i].pool = c.pool /\ vol[i].size = c.size

\* A volume that exists must have the pool and the size of the request.
Verify(p, o) ==
  /\ pc[p] = "verify"
  /\ Read(p, o, at[p], IF SameParameters(at[p], job[p].req)
                       THEN Goto(p, "confirm", at[p]) ELSE Error(p))

\* The volume is read again, up to a hundred times, before the answer.
Confirm(p, o) ==
  /\ pc[p] = "confirm"
  /\ Read(p, o, at[p], AnswerClaim(p, at[p]))

\* Clone and createVolumeFromSnapshot: the source must have the size and the pool
\* of the request ...
ReadSource(p, o) ==
  /\ pc[p] = "source"
  /\ LET c == job[p].req
     IN Read(p, o, c.source, IF SameParameters(c.source, c)
                             THEN Goto(p, "lookup", c.source) ELSE Error(p))

\* Variant: a volume made from the source is taken for an earlier attempt.
EarlierAttemptsBySource(c) ==
  {i \in Ids : Exists(i) /\ vol[i].anc = c.source /\ vol[i].pool = c.pool}

\* ... a volume of the requested name in its pool is an earlier attempt ...
EarlierAttempts(c) == {i \in Named(c.name) : vol[i].pool = c.pool}

Lookup(p, o) ==
  /\ pc[p] = "lookup"
  /\ o \in {"ok", "failed"}
  /\ UNCHANGED array
  /\ LET c == job[p].req
     IN \/ /\ o = "failed"
           /\ Error(p)
        \/ /\ o = "ok"
           /\ \E i \in EarlierAttempts(c) : AnswerClaim(p, i)
        \/ /\ o = "ok" /\ EarlierAttempts(c) = {}
           /\ Goto(p, "copy", None)

\* ... otherwise the source is snapshotted (or thinly cloned) under that name.
CopySource(p, o) ==
  /\ pc[p] = "copy"
  /\ LET c == job[p].req
         refused == Named(c.name) # {} \/ ~Exists(c.source)
     IN Call(p, o, refused, Snapshots(c.source, c.name, {}), "readcopy")

ReadCopy(p, o) ==
  /\ pc[p] = "readcopy"
  /\ Read(p, o, at[p], AnswerClaim(p, at[p]))

-----------------------------------------------------------------------------
(* CreateSnapshot.                                                         *)

\* The orchestrator does not ask again for a snapshot it has asked to delete.
StartSnap(p, r) ==
  /\ pc[p] = "idle"
  /\ \A i \in snapped[r] : deletion[i] = "no"
  /\ pc' = [pc EXCEPT ![p] = "snaplookup"]
  /\ job' = [job EXCEPT ![p] = [op |-> "snap", req |-> r]]
  /\ UNCHANGED <<array, at, todo, orchestrator>>

\* Variant: a volume of the requested name will do.
EarlierSnapshotsByName(r) == Named(r.name)

EarlierSnapshots(r) == {i \in Named(r.name) : vol[i].anc = r.vol}

SnapLookup(p, o) ==
  /\ pc[p] = "snaplookup"
  /\ o \in {"ok", "failed"}
  /\ UNCHANGED array
  /\ LET r == job[p].req
     IN \/ /\ o = "failed"
           /\ Error(p)
        \/ /\ o = "ok"
           /\ \E i \in EarlierSnapshots(r) : AnswerSnapshot(p, i)
        \/ /\ o = "ok" /\ EarlierSnapshots(r) = {}
           /\ Goto(p, "snapread", None)

\* The volume and the other volumes of the group are read.
SnapRead(p, o) ==
  /\ pc[p] = "snapread"
  /\ LET r == job[p].req
     IN Read(p, o, r.vol, IF \A g \in r.group : Exists(g)
                          THEN Goto(p, "snap", None) ELSE Error(p))

Snap(p, o) ==
  /\ pc[p] = "snap"
  /\ LET r == job[p].req
         names == {r.name} \cup {<<r.name[1], g>> : g \in r.group}
         refused == ~Exists(r.vol) \/ (\E g \in r.group : ~Exists(g))
                    \/ (\E n \in names : Named(n) # {})
     IN Call(p, o, refused, Snapshots(r.vol, r.name, r.group), "snapreread")

\* The answer describes the volume, read again.
SnapReread(p, o) ==
  /\ pc[p] = "snapreread"
  /\ Read(p, o, job[p].req.vol, AnswerSnapshot(p, at[p]))

-----------------------------------------------------------------------------
(* DeleteSnapshot.                                                         *)

StartUnsnap(p, i) ==
  /\ pc[p] = "idle"
  /\ \E r \in SnapRequests : i \in snapped[r]
  /\ pc' = [pc EXCEPT ![p] = "unsnap"]
  /\ job' = [job EXCEPT ![p] = [op |-> "unsnap", req |-> i]]
  /\ deletion' = [deletion EXCEPT ![i] = IF @ = "no" THEN "asked" ELSE @]
  /\ UNCHANGED <<array, at, todo, given, snapped, granted>>

\* A snapshot that is not found is deleted, one that is mapped is not; one made in a
\* group goes with its group if the driver is configured so.
Unsnap(p, o) ==
  /\ pc[p] = "unsnap"
  /\ o \in {"ok", "failed"}
  /\ UNCHANGED array
  /\ LET i == job[p].req
     IN CASE o = "failed" -> Error(p)
          [] o = "ok" /\ ~Exists(i) -> AnswerDeleted(p)
          [] o = "ok" /\ Exists(i) /\ i \in exposed -> Error(p)
          [] o = "ok" /\ Exists(i) /\ i \notin exposed ->
               Goto(p, IF setup.cgDelete /\ vol[i].cg # None THEN "group" ELSE "remove", vol[i].cg)

RemoveSnapshot(p, o) ==
  /\ pc[p] = "remove"
  /\ LET i == job[p].req
     IN /\ IF o # "failed" /\ Exists(i) THEN Remove(i) ELSE UNCHANGED array
        /\ IF o = "ok" /\ Exists(i) THEN AnswerDeleted(p) ELSE Error(p)

Group(g) == {i \in Ids : Exists(i) /\ vol[i].cg = g}

\* DeleteSnapshotConsistencyGroup lists the volumes of the group; an error of the
\* listing is overlooked and leaves the snapshot of the request.  If one is mapped
\* none is removed.
ListGroup(p, o) ==
  /\ pc[p] = "group"
  /\ o \in {"ok", "failed"}
  /\ UNCHANGED array
  /\ LET listed == IF o = "ok" THEN Group(at[p]) ELSE {}
     IN IF listed \cap exposed # {}
        THEN Error(p)
        ELSE /\ todo' = [todo EXCEPT ![p] = IF listed = {} THEN {job[p].req} ELSE listed]
             /\ pc' = [pc EXCEPT ![p] = "groupremove"]
             /\ UNCHANGED <<job, at, orchestrator>>

\* They are removed one by one, up to the first error.
RemoveFromGroup(p, o) ==
  /\ pc[p] = "groupremove"
  /\ \E i \in todo[p] :
       /\ IF o # "failed" /\ Exists(i) THEN Remove(i) ELSE UNCHANGED array
       /\ CASE o # "ok" \/ ~Exists(i) -> Error(p)
            [] o = "ok" /\ Exists(i) /\ todo[p] = {i} -> AnswerDeleted(p)
            [] o = "ok" /\ Exists(i) /\ todo[p] # {i} ->
                 /\ todo' = [todo EXCEPT ![p] = @ \ {i}]
                 /\ UNCHANGED <<pc, job, at, orchestrator>>

-----------------------------------------------------------------------------
(* ControllerExpandVolume.                                                 *)

StartExpand(p, e) ==
  /\ pc[p] = "idle"
  /\ pc' = [pc EXCEPT ![p] = "expand"]
  /\ job' = [job EXCEPT ![p] = [op |-> "expand", req |-> e]]
  /\ UNCHANGED <<array, at, todo, orchestrator>>

\* A smaller size is answered without a capacity, the same size with it.
Expand(p, o) ==
  /\ pc[p] = "expand"
  /\ LET e == job[p].req
     IN Read(p, o, e.vol,
             CASE e.size < vol[e.vol].size -> Error(p)
               [] e.size = vol[e.vol].size -> AnswerExpanded(p, e.size)
               [] OTHER -> Goto(p, "resize", e.vol))

\* The array makes a volume larger, never smaller.
Resize(p, o) ==
  /\ pc[p] = "resize"
  /\ LET e == job[p].req
         accepted == Exists(e.vol) /\ vol[e.vol].size < e.size
     IN /\ IF o # "failed" /\ accepted
           THEN /\ vol' = [vol EXCEPT ![e.vol].size = e.size]
                /\ UNCHANGED <<next, exposed, born, setup>>
           ELSE UNCHANGED array
        /\ IF o = "ok" /\ accepted THEN AnswerExpanded(p, e.size) ELSE Error(p)

-----------------------------------------------------------------------------
(* The driver may crash and lose its handlers; somebody else may remove a  *)
(* volume, map a snapshot to a host or unmap it (external).                *)

Crash ==
  /\ \E p \in Threads : pc[p] # "idle"
  /\ pc' = [p \in Threads |-> "idle"]
  /\ job' = [p \in Threads |-> NoJob]
  /\ at' = [p \in Threads |-> None]
  /\ todo' = [p \in Threads |-> {}]
  /\ UNCHANGED <<array, orchestrator>>

RemoveElsewhere(i) ==
  /\ i \in setup.removable
  /\ Exists(i)
  /\ Remove(i)
  /\ UNCHANGED <<driver, orchestrator>>

Expose(i) ==
  /\ i \in setup.exposable
  /\ Exists(i)
  /\ exposed' = IF i \in exposed THEN exposed \ {i} ELSE exposed \cup {i}
  /\ UNCHANGED <<vol, next, born, setup, driver, orchestrator>>

Start(p) ==
  \/ \E c \in Claims \cap setup.asked : StartCreate(p, c)
  \/ \E r \in SnapRequests \cap setup.asked : StartSnap(p, r)
  \/ \E i \in Ids : StartUnsnap(p, i)
  \/ \E e \in Expansions \cap setup.asked : StartExpand(p, e)

Step(p, o) ==
  \/ CreateVolume(p, o) \/ FindVolumeID(p, o) \/ Verify(p, o) \/ Confirm(p, o)
  \/ ReadSource(p, o) \/ Lookup(p, o) \/ CopySource(p, o) \/ ReadCopy(p, o)
  \/ SnapLookup(p, o) \/ SnapRead(p, o) \/ Snap(p, o) \/ SnapReread(p, o)
  \/ Unsnap(p, o) \/ RemoveSnapshot(p, o) \/ ListGroup(p, o) \/ RemoveFromGroup(p, o)
  \/ Expand(p, o) \/ Resize(p, o)

Next ==
  \/ \E p \in Threads : Start(p)
  \/ \E p \in Threads, o \in Outcomes : Step(p, o)
  \/ Crash
  \/ \E i \in Ids : RemoveElsewhere(i) \/ Expose(i)

Spec == Init /\ [][Next]_vars

-----------------------------------------------------------------------------
(* Properties.                                                             *)

\* However often CreateVolume is retried, by however many handlers at once, a claim
\* is answered with one volume, and claims of different names with different
\* volumes: the name is all that ties an attempt to the ones before it.
OneVolumePerClaim ==
  \A c, d \in Claims :
    IF c.name = d.name THEN \A i \in given[c], j \in given[d] : c = d => i = j
    ELSE given[c] \cap given[d] = {}

\* The volume a claim was answered with is in the pool of the claim, at least as
\* large as asked for, and made from its content source: an existing volume of the
\* name is checked before it is answered.
ServedAsAsked ==
  \A c \in Claims : \A i \in given[c] :
    /\ born[i].anc = c.source
    /\ Exists(i) => vol[i].pool = c.pool /\ vol[i].size >= c.size

\* A snapshot request is answered with a snapshot of its own volume, the same one
\* every time until the orchestrator asks to delete it.
SnapshotOfItsVolume ==
  \A r \in SnapRequests :
    /\ \A i \in snapped[r] : born[i].anc = r.vol
    /\ \A i, j \in snapped[r] : deletion[i] = "no" /\ deletion[j] = "no" => i = j

\* A volume somebody was given stays: the handlers remove a snapshot only on request
\* for it or for a snapshot made in the same consistency group.
AnsweredStays ==
  /\ \A c \in Claims : \A i \in given[c] \ setup.removable : Exists(i)
  /\ \A r \in SnapRequests : \A i \in snapped[r] \ setup.removable :
       Exists(i) \/ \E j \in Ids : deletion[j] # "no" /\ (j = i \/ born[j].cg = born[i].cg)

\* A snapshot reported as deleted is gone for good.
DeletedSnapshotIsGone == \A i \in Ids : deletion[i] = "told" => ~Exists(i)

\* What CreateVolume, CreateSnapshot and DeleteSnapshot answered of a snapshot or a copy
\* stays true: it is of its source, is there until its deletion is asked for, and then gone.
SnapshotsAsAnswered == SnapshotOfItsVolume /\ AnsweredStays /\ DeletedSnapshotIsGone

\* A volume has the size ControllerExpandVolume has reported, whatever other
\* expansions were under way.
ExpandedAsReported == \A i \in Ids : Exists(i) => granted[i] <= vol[i].size

\* A volume is and stays what CreateVolume and ControllerExpandVolume answered.
ServedAsReported == ServedAsAsked /\ ExpandedAsReported

\* What the comment on DeleteSnapshotConsistencyGroup says ("called when we wish to
\* delete an entire CG of snapshots"): once the deletion of a snapshot is reported,
\* no other snapshot of its consistency group is left.
WholeGroupDeleted ==
  setup.cgDelete =>
    \A i, j \in Ids : deletion[i] = "told" /\ born[i].cg # None /\ born[j].cg = born[i].cg
                      => ~Exists(j)
=============================================================================
