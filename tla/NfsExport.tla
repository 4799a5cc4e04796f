---------------------------- MODULE NfsExport ----------------------------
(***************************************************************************)
(* An NFS volume: a file system of the array, the export that gives nodes  *)
(* access to it, and its mounts on the nodes.  The controller publishes    *)
(* the volume to a node by adding the addresses of the node to the export  *)
(* (exportFilesystem), unpublishes it by removing them                     *)
(* (unexportFilesystem), and deletes it unless it is exported (the NFS     *)
(* part of DeleteVolume); the driver of a node mounts and unmounts it      *)
(* (publishNFS, unpublishNFS).                                             *)
(*                                                                         *)
(* The serial access of gocsi runs one controller handler and, on each     *)
(* node, one node handler of a volume at a time; each array call or system *)
(* call is a step, "failed" (not done) or "lost" (done) ones end the       *)
(* handler with an error, and drivers crash at any point.                  *)
(***************************************************************************)
EXTENDS Integers, FiniteSets

CONSTANTS
  Nodes,       \* the nodes; an address stands for the node it belongs to
  Targets,     \* the target paths pods use on every node
  Modes,       \* the access modes the volume may have: SNW, SNSW, SNMW, SNRO, MNRO, MNMW
  Externals,   \* the values externalAccess may be configured with, NoHost for none
  NoHost,
  Interfaces   \* whether interfaceNames may be configured, a set of Booleans

Hosts == Nodes \cup (Externals \ {NoHost})
Lists == {"ro", "rw", "roRoot", "rwRoot"}
NoHosts == [l \in Lists |-> {}]
Outcomes == {"ok", "failed", "lost"}

VARIABLES
  mode,      \* the access mode of the volume
  external,  \* externalAccess of the driver's configuration
  interfaces, \* whether interfaceNames of the configuration lists the addresses
  fs,        \* array: the file system exists
  snap,      \* array: it has a snapshot
  export,    \* array: it has an export
  hosts,     \* array: the hosts of the export, by kind of access
  pc, node,  \* controller: its handler and the node of the request
  change,    \* controller: the hosts it is about to add or remove
  npc, ntgt, \* node drivers: the handlers and their targets
  mounts,    \* nodes: the targets the volume is mounted on
  pub,       \* orchestrator: whether the volume is published to a node
  used,      \* orchestrator: the targets of a node that may be in use
  shared     \* history: the volume was deleted while a node had access

config == <<mode, external, interfaces>>
array == <<fs, snap, export, hosts>>
controller == <<pc, node, change>>
nodes == <<npc, ntgt, mounts>>
vars == <<config, array, controller, nodes, pub, used, shared>>

\* Every variable has its type.
TypeOK ==
  /\ mode \in Modes /\ external \in Externals /\ interfaces \in Interfaces
  /\ fs \in BOOLEAN /\ snap \in BOOLEAN /\ export \in BOOLEAN
  /\ hosts \in [Lists -> SUBSET Hosts]
  /\ pc \in {"idle", "publist", "create", "check", "grant", "unlist", "unread", "revoke",
             "delread", "delexport", "delmodify", "delfs"}
  /\ node \in Nodes \cup {NoHost}
  /\ change \in [Lists -> SUBSET Hosts]
  /\ npc \in [Nodes -> {"idle", "lookup", "mount", "find", "unmount"}]
  /\ ntgt \in [Nodes -> Targets \cup {NoHost}]
  /\ mounts \in [Nodes -> SUBSET Targets]
  /\ pub \in [Nodes -> {"no", "asked", "told", "leaving"}]
  /\ used \in [Nodes -> SUBSET Targets]
  /\ shared \in BOOLEAN
  /\ ~fs => ~export
  /\ ~export => hosts = NoHosts

Init ==
  /\ mode \in Modes /\ external \in Externals /\ interfaces \in Interfaces
  /\ fs = TRUE /\ snap = FALSE /\ export = FALSE
  /\ hosts = NoHosts
  /\ pc = "idle" /\ node = NoHost /\ change = NoHosts
  /\ npc = [n \in Nodes |-> "idle"]
  /\ ntgt = [n \in Nodes |-> NoHost]
  /\ mounts = [n \in Nodes |-> {}]
  /\ pub = [n \in Nodes |-> "no"]
  /\ used = [n \in Nodes |-> {}]
  /\ shared = FALSE

Access == UNION {hosts[l] : l \in Lists}
SingleWriter == mode \in {"SNW", "SNSW", "SNMW"}
SingleTarget == mode \in {"SNW", "SNRO", "SNSW"}
ReaderOnly == mode = "MNRO"

\* The addresses the controller uses for a node: those of all nodes if the
\* configuration lists interfaces, those of its SDC otherwise.
Addresses(n) == IF interfaces THEN Nodes ELSE {n}

-----------------------------------------------------------------------------
(* The controller goes on or ends its handler.                             *)

Goto(l) == pc' = l /\ UNCHANGED <<node, change>>
Prepare(l, c) == pc' = l /\ change' = c /\ UNCHANGED node
End == pc' = "idle" /\ node' = NoHost /\ change' = NoHosts
Error == End /\ UNCHANGED pub
Answer(s) == End /\ pub' = [pub EXCEPT ![node] = s]

Unshared == UNCHANGED <<config, nodes, used>>

\* A read of the array, and what the handler makes of it.
Read(o, then) ==
  /\ o \in {"ok", "failed"}
  /\ UNCHANGED array
  /\ IF o = "ok" THEN then ELSE Error /\ UNCHANGED shared

-----------------------------------------------------------------------------
(* ControllerPublishVolume.                                                *)

StartPublish(n) ==
  /\ pc = "idle"
  /\ pub[n] # "leaving"
  /\ pc' = "publist" /\ node' = n
  /\ pub' = [pub EXCEPT ![n] = IF @ = "told" THEN @ ELSE "asked"]
  /\ UNCHANGED <<config, array, change, nodes, used, shared>>

\* The file system and its export are looked up.
ListExports(o) ==
  /\ pc = "publist"
  /\ Unshared
  /\ Read(o, /\ UNCHANGED shared
             /\ IF fs THEN Goto(IF export THEN "check" ELSE "create") /\ UNCHANGED pub
                ELSE Error)

CreateExport(o) ==
  /\ pc = "create"
  /\ Unshared
  /\ UNCHANGED <<snap, fs, hosts, pub, shared>>
  /\ export' = (export \/ (o # "failed" /\ fs))
  /\ IF o = "ok" /\ fs /\ ~export THEN Goto("check") ELSE End

\* Access of the node the driver would not have given, or of another kind.
Incompatible(ips) ==
  \/ ips \cap (hosts["ro"] \cup hosts["rw"]) # {}
  \/ ips \cap hosts["roRoot"] # {} /\ ~ReaderOnly
  \/ ips \cap hosts["rwRoot"] # {} /\ ReaderOnly /\ ips \cap hosts["roRoot"] = {}

InPlace(ips) == ips \cap hosts[IF ReaderOnly THEN "roRoot" ELSE "rwRoot"] # {}

\* Variant: hosts with access by the rwRoot list are not counted.
OtherHostsReaders(ips) ==
  Cardinality(hosts["ro"]) + Cardinality(hosts["rw"]) + Cardinality(hosts["roRoot"])

\* otherHostsWithAccess
OtherHosts(ips) ==
  Cardinality(hosts["ro"]) + Cardinality(hosts["rw"]) + Cardinality(hosts["roRoot"])
  + Cardinality(IF ReaderOnly THEN hosts["rwRoot"] ELSE hosts["rwRoot"] \ ips)

\* What is added: the addresses, and the external access unless it is one of them or
\* has access already.
Grants(ips) ==
  ips \cup (IF external \in {NoHost} \cup ips \cup Access THEN {} ELSE {external})

CheckAccess(o) ==
  /\ pc = "check"
  /\ Unshared
  /\ LET ips == Addresses(node)
     IN Read(o, CASE ~export \/ Incompatible(ips) -> Error /\ UNCHANGED shared
                  [] export /\ ~Incompatible(ips) /\ SingleWriter /\ OtherHosts(ips) > 0 ->
                       Error /\ UNCHANGED shared
                  [] export /\ ~Incompatible(ips) /\ ~(SingleWriter /\ OtherHosts(ips) > 0) ->
                       /\ UNCHANGED shared
                       /\ IF InPlace(ips) THEN Answer("told")
                          ELSE /\ Prepare("grant", [NoHosts EXCEPT
                                     ![IF ReaderOnly THEN "roRoot" ELSE "rwRoot"] = Grants(ips)])
                               /\ UNCHANGED pub)

\* Variant: the lists of the export are replaced by what the handler adds.
GrantReplaces(o) ==
  /\ pc = "grant"
  /\ Unshared
  /\ UNCHANGED <<fs, snap, export, shared>>
  /\ hosts' = IF o # "failed" /\ export THEN change ELSE hosts
  /\ IF o = "ok" /\ export THEN Answer("told") ELSE Error

Grant(o) ==
  /\ pc = "grant"
  /\ Unshared
  /\ UNCHANGED <<fs, snap, export, shared>>
  /\ hosts' = IF o # "failed" /\ export THEN [l \in Lists |-> hosts[l] \cup change[l]] ELSE hosts
  /\ IF o = "ok" /\ export THEN Answer("told") ELSE Error

-----------------------------------------------------------------------------
(* ControllerUnpublishVolume.                                              *)

\* The orchestrator unpublishes a volume from a node once no target is in use there.
StartUnpublish(n) ==
  /\ pc = "idle"
  /\ pub[n] # "no" /\ used[n] = {}
  /\ pc' = "unlist" /\ node' = n
  /\ pub' = [pub EXCEPT ![n] = "leaving"]
  /\ UNCHANGED <<config, array, change, nodes, used, shared>>

ListForRemoval(o) ==
  /\ pc = "unlist"
  /\ Unshared
  /\ UNCHANGED shared
  /\ Read(o, CASE ~fs -> Error
               [] fs /\ ~export -> Answer("no")
               [] fs /\ export -> Goto("unread") /\ UNCHANGED pub)

\* The addresses are removed from the read-write lists they are in, and from every
\* read-only list that is not empty (the index of sort.SearchStrings is never negative).
Removals(ips) ==
  [l \in Lists |-> IF l \in {"ro", "roRoot"} THEN (IF hosts[l] = {} THEN {} ELSE ips)
                   ELSE ips \cap hosts[l]]

ReadForRemoval(o) ==
  /\ pc = "unread"
  /\ Unshared
  /\ UNCHANGED shared
  /\ Read(o, IF export THEN Prepare("revoke", Removals(Addresses(node))) /\ UNCHANGED pub
             ELSE Error)

\* Whether the array refuses to remove a host that is not in a list is left open.
Revoke(o) ==
  /\ pc = "revoke"
  /\ Unshared
  /\ UNCHANGED <<fs, snap, export, shared>>
  /\ hosts' = IF o # "failed" /\ export THEN [l \in Lists |-> hosts[l] \ change[l]] ELSE hosts
  /\ IF o = "ok" /\ export THEN Answer("no") ELSE Error

-----------------------------------------------------------------------------
(* DeleteVolume.                                                           *)

\* The driver does not rely on the orchestrator to have unpublished the volume.
StartDelete ==
  /\ pc = "idle"
  /\ pc' = "delread"
  /\ UNCHANGED <<config, array, node, change, nodes, pub, used, shared>>

\* A volume that is gone is deleted; one with snapshots is not.
ReadForDelete(o) ==
  /\ pc = "delread"
  /\ Unshared
  /\ UNCHANGED shared
  /\ Read(o, IF fs /\ ~snap THEN Goto("delexport") /\ UNCHANGED pub ELSE Error)

\* Variant: the hosts of the export do not matter.
ExportForDeleteAnyway(o) ==
  /\ pc = "delexport"
  /\ Unshared
  /\ UNCHANGED shared
  /\ Read(o, Goto("delfs") /\ UNCHANGED pub)

\* Nor is one that is exported, except to the external access alone.
ExportForDelete(o) ==
  /\ pc = "delexport"
  /\ Unshared
  /\ UNCHANGED shared
  /\ Read(o, CASE Access = {} -> Goto("delfs") /\ UNCHANGED pub
               [] Access # {} /\ external # NoHost /\ {external} \in {hosts["rwRoot"], hosts["rw"]} ->
                    Goto("delmodify") /\ UNCHANGED pub
               [] OTHER -> Error)

\* The external access is to be removed from the export; the call names the file
\* system instead of the export, so that the array changes nothing, and its error is
\* only logged.
RemoveExternal ==
  /\ pc = "delmodify"
  /\ Unshared
  /\ UNCHANGED <<array, pub, shared>>
  /\ Goto("delfs")

DeleteFileSystem(o) ==
  /\ pc = "delfs"
  /\ Unshared
  /\ End
  /\ UNCHANGED <<snap, pub>>
  /\ \/ /\ o = "failed"
        /\ UNCHANGED <<fs, export, hosts, shared>>
     \/ /\ o # "failed"
        /\ fs' = FALSE /\ export' = FALSE /\ hosts' = NoHosts
        /\ shared' = (shared \/ Access \cap Nodes # {})

-----------------------------------------------------------------------------
(* NodePublishVolume and NodeUnpublishVolume on node n.                    *)

Elsewhere == UNCHANGED <<config, array, controller, pub, shared>>

NodeEnd(n) ==
  /\ npc' = [npc EXCEPT ![n] = "idle"]
  /\ ntgt' = [ntgt EXCEPT ![n] = NoHost]

NodeGoto(n, l) == npc' = [npc EXCEPT ![n] = l] /\ UNCHANGED ntgt

StartNodePublish(n, t) ==
  /\ npc[n] = "idle"
  /\ pub[n] = "told"
  /\ npc' = [npc EXCEPT ![n] = "lookup"]
  /\ ntgt' = [ntgt EXCEPT ![n] = t]
  /\ used' = [used EXCEPT ![n] = @ \cup {t}]
  /\ Elsewhere
  /\ UNCHANGED mounts

\* The export and the address of its NAS server are looked up.
LookupExport(n, o) ==
  /\ npc[n] = "lookup"
  /\ o \in {"ok", "failed"}
  /\ IF o = "ok" /\ fs /\ export THEN NodeGoto(n, "mount") ELSE NodeEnd(n)
  /\ Elsewhere
  /\ UNCHANGED <<used, mounts>>

\* A mount in place is enough; another target is refused for an access mode of one
\* target; the array refuses a node without access.
NodeMount(n, o) ==
  /\ npc[n] = "mount"
  /\ NodeEnd(n)
  /\ Elsewhere
  /\ UNCHANGED used
  /\ LET refused == ntgt[n] \in mounts[n] \/ (SingleTarget /\ mounts[n] # {}) \/ n \notin Access
     IN \/ /\ o = "failed" \/ refused
           /\ UNCHANGED mounts
        \/ /\ o # "failed" /\ ~refused
           /\ mounts' = [mounts EXCEPT ![n] = @ \cup {ntgt[n]}]

StartNodeUnpublish(n, t) ==
  /\ npc[n] = "idle"
  /\ t \in used[n]
  /\ npc' = [npc EXCEPT ![n] = "find"]
  /\ ntgt' = [ntgt EXCEPT ![n] = t]
  /\ Elsewhere
  /\ UNCHANGED <<used, mounts>>

NodeFind(n, o) ==
  /\ npc[n] = "find"
  /\ o \in {"ok", "failed"}
  /\ IF o = "ok" /\ fs THEN NodeGoto(n, "unmount") ELSE NodeEnd(n)
  /\ Elsewhere
  /\ UNCHANGED <<used, mounts>>

NodeUnmount(n, o) ==
  /\ npc[n] = "unmount"
  /\ NodeEnd(n)
  /\ Elsewhere
  /\ mounts' = [mounts EXCEPT ![n] = IF o = "failed" THEN @ ELSE @ \ {ntgt[n]}]
  /\ used' = [used EXCEPT ![n] = IF o = "ok" THEN @ \ {ntgt[n]} ELSE @]

-----------------------------------------------------------------------------
(* Crashes of the drivers, reboots of the nodes, snapshots (external).     *)

Crash ==
  /\ pc # "idle"
  /\ End
  /\ UNCHANGED <<config, array, nodes, pub, used, shared>>

NodeCrash(n) ==
  /\ npc[n] # "idle"
  /\ NodeEnd(n)
  /\ Elsewhere
  /\ UNCHANGED <<mounts, used>>

Reboot(n) ==
  /\ mounts[n] # {}
  /\ NodeEnd(n)
  /\ mounts' = [mounts EXCEPT ![n] = {}]
  /\ Elsewhere
  /\ UNCHANGED used

Snapshot ==
  /\ fs
  /\ snap' = ~snap
  /\ UNCHANGED <<config, fs, export, hosts, controller, nodes, pub, used, shared>>

Publish(o) == ListExports(o) \/ CreateExport(o) \/ CheckAccess(o) \/ Grant(o)
Unpublish(o) == ListForRemoval(o) \/ ReadForRemoval(o) \/ Revoke(o)
Delete(o) == ReadForDelete(o) \/ ExportForDelete(o) \/ DeleteFileSystem(o)
OnNode(n, o) == LookupExport(n, o) \/ NodeMount(n, o) \/ NodeFind(n, o) \/ NodeUnmount(n, o)

Next ==
  \/ \E n \in Nodes : StartPublish(n) \/ StartUnpublish(n) \/ NodeCrash(n) \/ Reboot(n)
  \/ \E n \in Nodes, t \in Targets : StartNodePublish(n, t) \/ StartNodeUnpublish(n, t)
  \/ \E o \in Outcomes : Publish(o) \/ Unpublish(o) \/ Delete(o)
  \/ \E n \in Nodes, o \in Outcomes : OnNode(n, o)
  \/ StartDelete \/ RemoveExternal
  \/ Crash \/ Snapshot

Spec == Init /\ [][Next]_vars

-----------------------------------------------------------------------------
(* Properties.                                                             *)

\* A volume with an access mode of one writing node is never exported to two nodes,
\* unless interfaceNames gives every node the addresses of all.
OneWriter == SingleWriter /\ ~interfaces => Cardinality(Access \cap Nodes) <= 1

\* A node the volume is published to has access, of the kind of the access mode, until
\* the orchestrator asks to unpublish the volume from that node.  With interfaceNames,
\* unexportFilesystem for one node takes the access of the others as well.
PublishedHasAccess ==
  ~interfaces =>
    \A n \in Nodes : pub[n] = "told" => n \in hosts[IF ReaderOnly THEN "roRoot" ELSE "rwRoot"]

\* A node that has the volume mounted has access to it: access is not revoked, nor the
\* volume deleted, under a mount, whatever calls were lost before (interfaceNames aside,
\* as above).
MountedHasAccess == ~interfaces => \A n \in Nodes : mounts[n] # {} => n \in Access

\* Nobody loses access that ControllerPublishVolume or a mount relies on.
AccessIsKept == PublishedHasAccess /\ MountedHasAccess

\* DeleteVolume does not delete a volume while a node has access to it, although it lets
\* one go that is exported to the external access of the configuration.
NotDeletedWhileShared == ~shared
=============================================================================
