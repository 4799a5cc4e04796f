------------------------- MODULE ReplicationGroup -------------------------
(***************************************************************************)
(* Protecting volumes by asynchronous replication: CreateRemoteVolume,     *)
(* CreateStorageProtectionGroup, DeleteStorageProtectionGroup and          *)
(* DeleteLocalVolume (service/replication.go), with DeleteVolume on both   *)
(* arrays.  A volume is paired with its replica on the remote array, in a  *)
(* consistency group of its storage class that is looked up by a generated *)
(* name and made when missing.                                             *)
(*                                                                         *)
(* gocsi serializes only DeleteVolume; the replication requests of one or  *)
(* several volumes run concurrently, each array call being a step that may *)
(* be "failed" (not done) or "lost" (done).  A crash is a failure of every *)
(* handler at once.                                                        *)
(***************************************************************************)
EXTENDS Integers, FiniteSets, SequencesExt

CONSTANTS
  Volumes, Threads, Nobody,
  Classes,      \* the storage classes the volumes may have: protection domains pd, rpo,
                \* and cg, the name the class gives the group, or 0
  Digits,       \* the digits of the version in a name (10)
  MaxGroups,    \* bound: groups made in a behaviour
  MaxReplicas   \* bound: replicas made of a volume

ASSUME ConstantsAssumption ==
  /\ Nobody \notin Volumes
  /\ Classes \subseteq [Volumes -> [pd : Nat, rpo : Nat, cg : Int]]
  /\ Digits \in Nat /\ MaxGroups \in Nat /\ MaxReplicas \in Nat

Outcomes == {"ok", "failed", "lost"}
Unpaired == [group |-> 0, remote |-> 0]
Idle == [pc |-> "idle", vol |-> Nobody, side |-> "source", name |-> 0, group |-> 0, remote |-> 0]

VARIABLES
  class,     \* the storage classes of the volumes
  vol,       \* local array: the volume exists
  groups,    \* local array: its consistency groups
  pair,      \* both arrays: the group and the replica a volume is paired in
  replica,   \* remote array: the replica of a volume, 0 if there is none
  groupsMade, replicasMade,
  th,        \* the handlers
  copied,    \* orchestrator: it was told the volume has a replica
  told,      \* orchestrator: the group it was told for a volume, 0 if none
  known,     \* orchestrator: the groups it was ever told
  dying      \* orchestrator: "no", or how far the deletion of the volume is

array == <<class, vol, groups, pair, replica, groupsMade, replicasMade>>
orchestrator == <<copied, told, known, dying>>
vars == <<array, th, orchestrator>>

Group == [id : 1 .. MaxGroups, name : Int, pd : Nat, rpo : Nat]

PCs == {"idle", "rread", "rcreate", "glist", "gcreate", "gfind", "find", "pair", "pfind", "gread",
        "upairs", "uread", "uremove", "lread", "dread", "dpairs", "dunpair", "dremove"}

\* Every variable has its type; the names of groups are unique on the array, and a
\* handler that goes on to a pair has a group.
TypeOK ==
  /\ class \in Classes
  /\ vol \in [Volumes -> BOOLEAN]
  /\ groups \subseteq Group
  /\ \A g, h \in groups : g.name = h.name => g = h
  /\ pair \in [Volumes -> [group : 0 .. MaxGroups, remote : 0 .. MaxReplicas]]
  /\ replica \in [Volumes -> 0 .. MaxReplicas]
  /\ groupsMade \in 0 .. MaxGroups /\ replicasMade \in [Volumes -> 0 .. MaxReplicas]
  /\ th \in [Threads -> [pc : PCs, vol : Volumes \cup {Nobody}, side : {"source", "replica"},
                         name : Int, group : 0 .. MaxGroups, remote : 0 .. MaxReplicas]]
  /\ \A t \in Threads : th[t].pc \in {"find", "pair", "pfind", "gread"} => th[t].group # 0
  /\ copied \in [Volumes -> BOOLEAN] /\ told \in [Volumes -> 0 .. MaxGroups]
  /\ known \subseteq 1 .. MaxGroups
  /\ dying \in [Volumes -> {"no", "asked", "gone"}]

Init ==
  /\ class \in Classes
  /\ vol = [v \in Volumes |-> TRUE]
  /\ groups = {} /\ groupsMade = 0
  /\ pair = [v \in Volumes |-> Unpaired]
  /\ replica = [v \in Volumes |-> 0] /\ replicasMade = [v \in Volumes |-> 0]
  /\ th = [t \in Threads |-> Idle]
  /\ copied = [v \in Volumes |-> FALSE]
  /\ told = [v \in Volumes |-> 0] /\ known = {}
  /\ dying = [v \in Volumes |-> "no"]

GroupIDs == {g.id : g \in groups}
Paired(g) == {v \in Volumes : pair[v].group = g}

-----------------------------------------------------------------------------
(* A handler starts, goes on, or ends.                                     *)

Start(t, h) == th[t].pc = "idle" /\ th' = [th EXCEPT ![t] = h] /\ UNCHANGED array
Goto(t, l) == th' = [th EXCEPT ![t].pc = l] /\ UNCHANGED orchestrator
GotoWith(t, h) == th' = [th EXCEPT ![t] = h] /\ UNCHANGED orchestrator
End(t) == th' = [th EXCEPT ![t] = Idle]
Error(t) == End(t) /\ UNCHANGED orchestrator

\* A read of an array, and what the handler makes of it.
Read(t, o, then) ==
  /\ o \in {"ok", "failed"}
  /\ UNCHANGED array
  /\ IF o = "ok" THEN then ELSE Error(t)

-----------------------------------------------------------------------------
(* CreateRemoteVolume: CreateVolume on the remote array finds the replica  *)
(* of an earlier attempt by its name.                                      *)

StartRemote(t, v) ==
  /\ dying[v] = "no"
  /\ Start(t, [Idle EXCEPT !.pc = "rread", !.vol = v])
  /\ UNCHANGED orchestrator

RemoteRead(t, o) ==
  /\ th[t].pc = "rread"
  /\ Read(t, o, IF vol[th[t].vol] THEN Goto(t, "rcreate") ELSE Error(t))

RemoteCreate(t, o) ==
  /\ th[t].pc = "rcreate"
  /\ UNCHANGED <<class, vol, groups, pair, groupsMade>>
  /\ LET v == th[t].vol
     IN /\ \/ /\ replica[v] # 0 \/ o = "failed"
              /\ UNCHANGED <<replica, replicasMade>>
           \/ /\ replica[v] = 0 /\ o # "failed"
              /\ replicasMade[v] < MaxReplicas
              /\ replicasMade' = [replicasMade EXCEPT ![v] = @ + 1]
              /\ replica' = [replica EXCEPT ![v] = replicasMade'[v]]
        /\ End(t)
        /\ copied' = [copied EXCEPT ![v] = @ \/ o = "ok"]
        /\ UNCHANGED <<told, known, dying>>

-----------------------------------------------------------------------------
(* CreateStorageProtectionGroup.                                           *)

StartProtect(t, v) ==
  /\ dying[v] = "no" /\ copied[v]
  /\ Start(t, [Idle EXCEPT !.pc = IF class[v].cg = 0 THEN "glist" ELSE "gcreate",
                           !.vol = v, !.name = class[v].cg])
  /\ UNCHANGED orchestrator

SameClass(g, c) == g.pd = c.pd /\ g.rpo = c.rpo

\* The version counts up whenever the last digit of a name is the version so far.
Version(list) == FoldLeft(LAMBDA n, g : IF g.name % Digits = n THEN n + 1 ELSE n, 1, list)

\* Variant: groups of the same class are not looked for.
UniqueNameNext(list, c) == Version(list)

\* createUniqueConsistencyGroupName over the groups with generated names, in the order
\* the array lists them.
UniqueName(list, c) ==
  LET same == SelectSeq(list, LAMBDA g : SameClass(g, c))
  IN IF same # <<>> THEN Head(same).name ELSE Version(list)

ListGroups(t, o) ==
  /\ th[t].pc = "glist"
  /\ \E list \in SetToSeqs({g \in groups : g.name > 0}) :
       Read(t, o, GotoWith(t, [th[t] EXCEPT !.pc = "gcreate",
                                            !.name = UniqueName(list, class[th[t].vol])]))

\* The array refuses a name in use; the group is then looked up.
CreateGroup(t, o) ==
  /\ th[t].pc = "gcreate"
  /\ UNCHANGED <<class, vol, pair, replica, replicasMade>>
  /\ LET c == class[th[t].vol]
         used == \E g \in groups : g.name = th[t].name
     IN \/ /\ o = "failed"
           /\ Error(t)
           /\ UNCHANGED <<groups, groupsMade>>
        \/ /\ o # "failed" /\ used
           /\ Goto(t, "gfind")
           /\ UNCHANGED <<groups, groupsMade>>
        \/ /\ o # "failed" /\ ~used
           /\ groupsMade < MaxGroups
           /\ groupsMade' = groupsMade + 1
           /\ groups' = groups \cup
                {[id |-> groupsMade', name |-> th[t].name, pd |-> c.pd, rpo |-> c.rpo]}
           /\ IF o = "ok" THEN GotoWith(t, [th[t] EXCEPT !.pc = "find", !.group = groupsMade'])
              ELSE Error(t)

\* The group of the name and of the protection domains, whatever its RPO.
FindGroup(t, o) ==
  /\ th[t].pc = "gfind"
  /\ LET found == {g \in groups : g.name = th[t].name /\ g.pd = class[th[t].vol].pd}
     IN Read(t, o, \/ \E g \in found : GotoWith(t, [th[t] EXCEPT !.pc = "find", !.group = g.id])
                   \/ found = {} /\ Error(t))

\* The volume is read, and its replica is found by the name.
FindReplica(t, o) ==
  /\ th[t].pc = "find"
  /\ LET v == th[t].vol
     IN Read(t, o, IF vol[v] /\ replica[v] # 0
                   THEN GotoWith(t, [th[t] EXCEPT !.pc = "pair", !.remote = replica[v]])
                   ELSE Error(t))

\* The array refuses a volume that is paired, the pair is then looked up by its name;
\* and it refuses a volume, replica or group that is gone.
CreatePair(t, o) ==
  /\ th[t].pc = "pair"
  /\ UNCHANGED <<class, vol, groups, replica, groupsMade, replicasMade>>
  /\ LET v == th[t].vol
         possible == vol[v] /\ replica[v] = th[t].remote /\ th[t].group \in GroupIDs
     IN \/ /\ o = "failed" \/ (pair[v] = Unpaired /\ ~possible)
           /\ Error(t)
           /\ UNCHANGED pair
        \/ /\ o # "failed" /\ pair[v] # Unpaired
           /\ Goto(t, "pfind")
           /\ UNCHANGED pair
        \/ /\ o # "failed" /\ pair[v] = Unpaired /\ possible
           /\ pair' = [pair EXCEPT ![v] = [group |-> th[t].group, remote |-> th[t].remote]]
           /\ IF o = "ok" THEN Goto(t, "gread") ELSE Error(t)

FindPair(t, o) ==
  /\ th[t].pc = "pfind"
  /\ LET p == pair[th[t].vol]
     IN Read(t, o, IF p # Unpaired /\ p.remote = th[t].remote THEN Goto(t, "gread") ELSE Error(t))

\* The group is read again and answered.  The orchestrator drops an answer for a volume
\* it has given up.
ReadGroup(t, o) ==
  /\ th[t].pc = "gread"
  /\ LET v == th[t].vol
     IN Read(t, o, IF th[t].group \in GroupIDs
                   THEN /\ End(t)
                        /\ told' = [told EXCEPT ![v] = IF dying[v] = "no" THEN th[t].group ELSE @]
                        /\ known' = known \cup {th[t].group}
                        /\ UNCHANGED <<copied, dying>>
                   ELSE Error(t))

-----------------------------------------------------------------------------
(* DeleteStorageProtectionGroup.                                           *)

StartUngroup(t, g) ==
  /\ Start(t, [Idle EXCEPT !.pc = "upairs", !.group = g])
  /\ UNCHANGED orchestrator

\* A group that is gone is deleted; one with pairs is not.
ListPairs(t, o) ==
  /\ th[t].pc = "upairs"
  /\ Read(t, o, IF th[t].group \in GroupIDs /\ Paired(th[t].group) = {} THEN Goto(t, "uread")
                ELSE Error(t))

ReadForRemoval(t, o) ==
  /\ th[t].pc = "uread"
  /\ Read(t, o, IF th[t].group \in GroupIDs THEN Goto(t, "uremove") ELSE Error(t))

\* The array keeps a group that has pairs, as the request does not force it.
RemoveGroup(t, o) ==
  /\ th[t].pc = "uremove"
  /\ Error(t)
  /\ UNCHANGED <<class, vol, pair, replica, groupsMade, replicasMade>>
  /\ groups' = IF o = "failed" \/ Paired(th[t].group) # {} THEN groups
               ELSE {g \in groups : g.id # th[t].group}

-----------------------------------------------------------------------------
(* DeleteVolume on either array.                                           *)

Deleting(v, side) ==
  \E t \in Threads : th[t].vol = v /\ th[t].side = side
                     /\ th[t].pc \in {"dread", "dpairs", "dunpair", "dremove"}

\* The serial access of gocsi admits one DeleteVolume of a volume.
StartDelete(t, v) ==
  /\ dying[v] # "gone" /\ ~Deleting(v, "source")
  /\ Start(t, [Idle EXCEPT !.pc = "dread", !.vol = v])
  /\ dying' = [dying EXCEPT ![v] = "asked"]
  /\ told' = [told EXCEPT ![v] = 0]
  /\ UNCHANGED <<copied, known>>

Exists(h) == IF h.side = "source" THEN vol[h.vol] ELSE replica[h.vol] = h.remote
Marked(h) ==
  /\ pair[h.vol] # Unpaired
  /\ h.side = "replica" => pair[h.vol].remote = h.remote

AnswerDeleted(t) ==
  /\ End(t)
  /\ dying' = IF th[t].side = "source" THEN [dying EXCEPT ![th[t].vol] = "gone"] ELSE dying
  /\ UNCHANGED <<copied, told, known>>

DeleteRead(t, o) ==
  /\ th[t].pc = "dread"
  /\ Read(t, o, CASE ~Exists(th[t]) -> AnswerDeleted(t)
                  [] Exists(th[t]) /\ Marked(th[t]) -> Goto(t, "dpairs")
                  [] Exists(th[t]) /\ ~Marked(th[t]) -> Goto(t, "dremove"))

\* removeVolumeFromReplicationPair
FindPairOfVolume(t, o) ==
  /\ th[t].pc = "dpairs"
  /\ Read(t, o, IF Marked(th[t]) THEN Goto(t, "dunpair") ELSE Error(t))

\* Variant: all pairs of the group go.
RemovePairsOfGroup(t, o) ==
  /\ th[t].pc = "dunpair"
  /\ UNCHANGED <<class, vol, groups, replica, groupsMade, replicasMade>>
  /\ pair' = IF o = "failed" \/ ~Marked(th[t]) THEN pair
             ELSE [v \in Volumes |-> IF pair[v].group = pair[th[t].vol].group THEN Unpaired ELSE pair[v]]
  /\ IF o = "ok" /\ Marked(th[t]) THEN Goto(t, "dremove") ELSE Error(t)

RemovePair(t, o) ==
  /\ th[t].pc = "dunpair"
  /\ UNCHANGED <<class, vol, groups, replica, groupsMade, replicasMade>>
  /\ pair' = IF o = "failed" \/ ~Marked(th[t]) THEN pair
             ELSE [pair EXCEPT ![th[t].vol] = Unpaired]
  /\ IF o = "ok" /\ Marked(th[t]) THEN Goto(t, "dremove") ELSE Error(t)

\* Variant: an error of the array goes unnoticed.
RemoveVolumeUnchecked(t, o) ==
  /\ th[t].pc = "dremove"
  /\ UNCHANGED <<class, groups, pair, groupsMade, replicasMade>>
  /\ LET h == th[t]
         kept == o = "failed" \/ Marked(h) \/ ~Exists(h)
     IN /\ vol' = IF kept \/ h.side = "replica" THEN vol ELSE [vol EXCEPT ![h.vol] = FALSE]
        /\ replica' = IF kept \/ h.side = "source" THEN replica
                      ELSE [replica EXCEPT ![h.vol] = 0]
        /\ AnswerDeleted(t)

\* The array keeps a volume that is marked for replication.
RemoveVolume(t, o) ==
  /\ th[t].pc = "dremove"
  /\ UNCHANGED <<class, groups, pair, groupsMade, replicasMade>>
  /\ LET h == th[t]
         kept == o = "failed" \/ Marked(h) \/ ~Exists(h)
     IN /\ vol' = IF kept \/ h.side = "replica" THEN vol ELSE [vol EXCEPT ![h.vol] = FALSE]
        /\ replica' = IF kept \/ h.side = "source" THEN replica
                      ELSE [replica EXCEPT ![h.vol] = 0]
        /\ IF o = "ok" /\ ~kept THEN AnswerDeleted(t) ELSE Error(t)

-----------------------------------------------------------------------------
(* DeleteLocalVolume, called for a replica by the driver of the remote     *)
(* site.                                                                   *)

StartDeleteReplica(t, v) ==
  /\ replica[v] # 0
  /\ dying[v] = "gone"
  /\ Start(t, [Idle EXCEPT !.pc = "lread", !.vol = v, !.side = "replica", !.remote = replica[v]])
  /\ UNCHANGED orchestrator

\* A replica that is marked is refused; DeleteVolume is called for another.
ReadReplica(t, o) ==
  /\ th[t].pc = "lread"
  /\ Read(t, o, CASE ~Exists(th[t]) -> Error(t)
                  [] Exists(th[t]) /\ Marked(th[t]) -> Error(t)
                  [] Exists(th[t]) /\ ~Marked(th[t]) -> Goto(t, "dread"))

-----------------------------------------------------------------------------

Step(t, o) ==
  \/ RemoteRead(t, o) \/ RemoteCreate(t, o)
  \/ ListGroups(t, o) \/ CreateGroup(t, o) \/ FindGroup(t, o)
  \/ FindReplica(t, o) \/ CreatePair(t, o) \/ FindPair(t, o) \/ ReadGroup(t, o)
  \/ ListPairs(t, o) \/ ReadForRemoval(t, o) \/ RemoveGroup(t, o)
  \/ DeleteRead(t, o) \/ FindPairOfVolume(t, o) \/ RemovePair(t, o) \/ RemoveVolume(t, o)
  \/ ReadReplica(t, o)

Next ==
  \E t \in Threads :
    \/ \E v \in Volumes : \/ StartRemote(t, v) \/ StartProtect(t, v)
                          \/ StartDelete(t, v) \/ StartDeleteReplica(t, v)
    \/ \E g \in known : StartUngroup(t, g)
    \/ \E o \in Outcomes : Step(t, o)

Spec == Init /\ [][Next]_vars

-----------------------------------------------------------------------------
(* Properties.                                                             *)

GroupsKept == Cardinality(groups) = groupsMade

\* The group a volume was reported to be in by CreateStorageProtectionGroup holds its
\* pair until the orchestrator deletes the volume, whatever other requests do, as long
\* as no group has been deleted.
ToldGroupHoldsPair ==
  GroupsKept => \A v \in Volumes : told[v] # 0 => pair[v].group = told[v]

\* What the sample storage class says ("change to any other RPOs supported by
\* PowerFlex"): the group a volume is reported to be in has the protection domains and
\* the RPO of its storage class.
GroupOfClass ==
  \A v \in Volumes : \A g \in groups : told[v] = g.id => SameClass(g, class[v])

\* Volumes of one storage class share one group, so that they fail over together, as
\* long as no group has been deleted.
OneGroupPerClass ==
  GroupsKept =>
    \A g, h \in groups : g.name > 0 /\ h.name > 0 /\ g.pd = h.pd /\ g.rpo = h.rpo => g = h

\* A volume that is reported deleted has left the array and its pair, although a late
\* CreateStorageProtectionGroup may have paired it again during the deletion.
DeletedIsUnpaired ==
  \A v \in Volumes : dying[v] = "gone" => ~vol[v] /\ pair[v] = Unpaired

\* Only the deletion of a volume takes its pair away: deleting other volumes, their
\* groups and replicas, with all their retries, does not.
PairKeptUntilDeleted ==
  [][\A v \in Volumes : pair[v] # Unpaired /\ pair'[v] # pair[v] => dying[v] = "asked"]_vars

\* The group of a pair exists and has the protection domains of the volume.
PairInGroupOfDomain ==
  \A v \in Volumes : pair[v] # Unpaired =>
    \E g \in groups : g.id = pair[v].group /\ g.pd = class[v].pd

\* The pairs and groups that CreateStorageProtectionGroup makes: one group per storage
\* class, in which the pairs of its volumes are, and stay.
GroupsAsTold == ToldGroupHoldsPair /\ OneGroupPerClass /\ PairInGroupOfDomain
=============================================================================
