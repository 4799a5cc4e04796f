------------------------- MODULE ControllerAttach -------------------------
(***************************************************************************)
(* The controller service of the PowerFlex CSI driver at work on block     *)
(* volumes: ControllerPublishVolume (service/controller.go with the SDC    *)
(* and NVMe publishers of service/publisher.go), ControllerUnpublishVolume *)
(* and the block half of DeleteVolume, run by concurrent handler threads   *)
(* of one or more driver processes against one PowerFlex array.            *)
(*                                                                         *)
(* A handler is a sequence of array calls.  What it decides from a volume  *)
(* it has read is fixed at the read and carried in its program counter;    *)
(* the array may have changed by the time of the next call.  Every call    *)
(* has an outcome: "ok" (the array did or refused it and said so),         *)
(* "failed" (nothing was done, the driver sees an error) or "lost" (the    *)
(* array did it, the driver sees an error).  A driver process may crash    *)
(* and lose its handlers; the array keeps its state.                       *)
(*                                                                         *)
(* Arguments the handlers reject before the first array call (a missing    *)
(* ID, capability or access mode) change nothing and are not steps.        *)
(***************************************************************************)
EXTENDS Integers, FiniteSets

CONSTANTS
  Vols,          \* array volumes, named by their CSI volume ID
  Hosts,         \* array hosts, named by the CSI node ID that resolves to them
  Threads,       \* handler threads (gRPC calls that can be in flight)
  DriverOf,      \* the driver process a thread belongs to
  HostType,      \* "SDC" or "NVMeTCP", per host
  CapsOf,        \* the volume capabilities the orchestrator uses, per volume
  Limits,        \* QoS limit values of the array
  Unlimited,     \* the limit a fresh mapping has
  Numerals,      \* strings that parse as a number
  LimitOf,       \* the limit the array sets for a numeral, or Rejected
  PrintOf,       \* the numeral the driver prints for a limit it has read
  Rejected,      \* a numeral the array takes for no limit (too small, say)
  QoSRequests,   \* the QoS parameters a volume context may carry
  Unspecified,   \* a QoS parameter the volume context does not carry
  NotNumeric,    \* a QoS parameter that is not a number
  Unmapped,      \* no mapping between a volume and a host
  NotPublished,  \* the orchestrator has no successful publish of a volume to a host
  MaxPoll        \* bound of the removal poll in DeleteVolume

AccessModes ==
  {"SINGLE_NODE_WRITER", "SINGLE_NODE_READER_ONLY", "SINGLE_NODE_SINGLE_WRITER",
   "SINGLE_NODE_MULTI_WRITER", "MULTI_NODE_READER_ONLY",
   "MULTI_NODE_SINGLE_WRITER", "MULTI_NODE_MULTI_WRITER"}

Capability == [mode : AccessModes, block : BOOLEAN]

\* A mapping of a volume to a host, with the limits set on it (MappedSdcInfo).
Mapping == [bw : Limits, iops : Limits]

QoSValues == Numerals \cup {Unspecified, NotNumeric}
QoS == [bw : QoSValues, iops : QoSValues]

ASSUME ConstantsAssumption ==
  /\ Unlimited \in Limits
  /\ Unspecified \notin Numerals
  /\ NotNumeric \notin Numerals \cup {Unspecified}
  /\ Rejected \notin Limits
  /\ LimitOf \in [Numerals -> Limits \cup {Rejected}]
  /\ PrintOf \in [Limits -> Numerals]
  /\ \A l \in Limits : LimitOf[PrintOf[l]] = l
  /\ Unmapped \notin Mapping
  /\ NotPublished \notin QoS
  /\ CapsOf \in [Vols -> SUBSET Capability]
  /\ HostType \in [Hosts -> {"SDC", "NVMeTCP"}]
  /\ QoSRequests \subseteq QoS
  /\ MaxPoll \in Nat

Statuses == {"present", "removing", "gone"}

PublishCalls ==
  {c \in [op : {"publish"}, vol : Vols, host : Hosts, cap : Capability, qos : QoSRequests] :
     c.cap \in CapsOf[c.vol]}
PublishCall(v, h, cap, q) ==
  [op |-> "publish", vol |-> v, host |-> h, cap |-> cap, qos |-> q]
UnpublishCalls == [op : {"unpublish"}, vol : Vols, host : Hosts]
DeleteCalls == [op : {"delete"}, vol : Vols]
NoCall == [op |-> "none"]
Calls == PublishCalls \cup UnpublishCalls \cup DeleteCalls \cup {NoCall}

PCs == {"idle", "publish_read", "map", "qos", "unpublish_read", "unmap",
        "delete_read", "unpair", "remove", "poll"}

Outcomes == {"ok", "failed", "lost"}

VARIABLES
  status,   \* array: whether a volume exists
  maps,     \* array: the mapping of each volume to each host
  paired,   \* array: whether a volume is in a replication pair
  pc,       \* driver: where the handler of a thread is
  call,     \* driver: the request a thread serves
  polls,    \* driver: DeleteVolume's counter
  known,    \* orchestrator: the publishes it was told succeeded, with their QoS
  deleted   \* orchestrator: the volumes it was told are deleted

array == <<status, maps, paired>>
driver == <<pc, call, polls>>
orchestrator == <<known, deleted>>
vars == <<array, driver, orchestrator>>

ArrayTypeOK ==
  /\ status \in [Vols -> Statuses]
  /\ maps \in [Vols -> [Hosts -> Mapping \cup {Unmapped}]]
  /\ paired \in [Vols -> BOOLEAN]

DriverTypeOK ==
  /\ pc \in [Threads -> PCs]
  /\ call \in [Threads -> Calls]
  /\ polls \in [Threads -> 0..MaxPoll]

OrchestratorTypeOK ==
  /\ known \in [Vols -> [Hosts -> QoS \cup {NotPublished}]]
  /\ deleted \in SUBSET Vols

\* Every variable has its type; in particular the removal poll of DeleteVolume
\* stays within its bound.
TypeOK == ArrayTypeOK /\ DriverTypeOK /\ OrchestratorTypeOK

Init ==
  /\ status = [v \in Vols |-> "present"]
  /\ maps = [v \in Vols |-> [h \in Hosts |-> Unmapped]]
  /\ paired \in [Vols -> BOOLEAN]
  /\ pc = [p \in Threads |-> "idle"]
  /\ call = [p \in Threads |-> NoCall]
  /\ polls = [p \in Threads |-> 0]
  /\ known = [v \in Vols |-> [h \in Hosts |-> NotPublished]]
  /\ deleted = {}

-----------------------------------------------------------------------------
(* Pure decisions of the code.                                             *)

isSingleNodeAccess(mode) ==
  mode \in {"SINGLE_NODE_WRITER", "SINGLE_NODE_MULTI_WRITER",
            "SINGLE_NODE_SINGLE_WRITER", "SINGLE_NODE_READER_ONLY"}

\* Variant: the flag is set for every mode the switch does not name.
MultipleMappingsByDefault(block, mode) ==
  IF mode = "MULTI_NODE_SINGLE_WRITER" THEN "error" ELSE "TRUE"

shouldAllowMultipleMappings(block, mode) ==
  CASE mode = "MULTI_NODE_READER_ONLY" -> "TRUE"
    [] mode = "MULTI_NODE_MULTI_WRITER" -> IF block THEN "TRUE" ELSE "error"
    [] mode = "MULTI_NODE_SINGLE_WRITER" -> "error"
    [] OTHER -> "FALSE"

validateAccessType(mode, block) ==
  \/ mode \in {"SINGLE_NODE_WRITER", "SINGLE_NODE_MULTI_WRITER",
               "SINGLE_NODE_SINGLE_WRITER", "MULTI_NODE_READER_ONLY"}
  \/ block /\ mode = "MULTI_NODE_MULTI_WRITER"
  \/ ~block /\ mode = "SINGLE_NODE_READER_ONLY"

validateQoSParameters(q) == q.bw # NotNumeric /\ q.iops # NotNumeric

\* Variant: an existing mapping is good enough, whatever its limits.
AnyMappingWillDo(q, m) == validateQoSParameters(q)

\* The limits read back are printed and compared with the requested strings.
validateAndCompareQoS(q, m) ==
  /\ validateQoSParameters(q)
  /\ q.bw # Unspecified => PrintOf[m.bw] = q.bw
  /\ q.iops # Unspecified => PrintOf[m.iops] = q.iops

QoSRequested(q) == q.bw # Unspecified \/ q.iops # Unspecified

MappedHosts(v) == {h \in Hosts : maps[v][h] # Unmapped}

\* Publish refuses a volume it does not find mapped to the requested host.
PublishRefused(v, cap) ==
  \/ MappedHosts(v) # {} /\ isSingleNodeAccess(cap.mode)
  \/ shouldAllowMultipleMappings(cap.block, cap.mode) = "error"
  \/ ~validateAccessType(cap.mode, cap.block)

-----------------------------------------------------------------------------
(* The array (external).                                                   *)

\* allowMultipleMappings = "FALSE" is refused while another host is mapped.
MapAccepted(v, h, multiple) ==
  /\ status[v] = "present"
  /\ maps[v][h] = Unmapped
  /\ multiple = "TRUE" \/ MappedHosts(v) = {}

\* Limits a request leaves out keep their value.
LimitsAccepted(q) ==
  /\ q.bw # Unspecified => LimitOf[q.bw] # Rejected
  /\ q.iops # Unspecified => LimitOf[q.iops] # Rejected

Limited(m, q) ==
  [bw   |-> IF q.bw = Unspecified THEN m.bw ELSE LimitOf[q.bw],
   iops |-> IF q.iops = Unspecified THEN m.iops ELSE LimitOf[q.iops]]

\* A removal that was accepted ends: the volume can no longer be found.
FinishRemoval(v) ==
  /\ status[v] = "removing"
  /\ status' = [status EXCEPT ![v] = "gone"]
  /\ UNCHANGED <<maps, paired, driver, orchestrator>>

-----------------------------------------------------------------------------
(* Requests and replies.                                                   *)

\* gocsi's serial volume access (external, enabled in provider/provider.go):
\* a request for a volume that another handler of the same process works on
\* is answered Aborted, which changes nothing.  Calls the driver makes to its
\* own handlers do not pass through it.
SerialVolAccess(p, v) ==
  \A q \in Threads \ {p} :
    DriverOf[q] = DriverOf[p] /\ pc[q] # "idle" => call[q].vol # v

Begin(p, c, start) ==
  /\ pc[p] = "idle"
  /\ SerialVolAccess(p, c.vol)
  /\ pc' = [pc EXCEPT ![p] = start]
  /\ call' = [call EXCEPT ![p] = c]
  /\ UNCHANGED <<polls, array>>

StartPublish(p, c) ==
  /\ Begin(p, c, "publish_read")
  /\ UNCHANGED orchestrator

\* From here on the orchestrator no longer counts on the attachment.
StartUnpublish(p, c) ==
  /\ Begin(p, c, "unpublish_read")
  /\ known' = [known EXCEPT ![c.vol][c.host] = NotPublished]
  /\ UNCHANGED deleted

\* Deleting gives up no attachment: DeleteVolume must refuse a volume in use.
StartDelete(p, c) ==
  /\ Begin(p, c, "delete_read")
  /\ UNCHANGED orchestrator

\* What a successful reply tells the orchestrator.
Told(c) ==
  /\ known' = IF c.op = "publish"
                THEN [known EXCEPT ![c.vol][c.host] = c.qos] ELSE known
  /\ deleted' = IF c.op = "delete" THEN deleted \cup {c.vol} ELSE deleted

\* The handler returns; the reply may not reach the orchestrator any more.
Return(p, code) ==
  /\ pc' = [pc EXCEPT ![p] = "idle"]
  /\ call' = [call EXCEPT ![p] = NoCall]
  /\ polls' = [polls EXCEPT ![p] = 0]
  /\ \/ UNCHANGED orchestrator
     \/ code = "OK" /\ Told(call[p])

Goto(p, next) ==
  /\ pc' = [pc EXCEPT ![p] = next]
  /\ UNCHANGED <<call, polls, orchestrator>>

-----------------------------------------------------------------------------
(* ControllerPublishVolume.                                                *)

\* Probe, host lookup and getVolByID, and what Publish decides from the
\* volume it is given.
PublishRead(p, o) ==
  LET c == call[p]
      m == maps[c.vol][c.host]
  IN
  /\ pc[p] = "publish_read"
  /\ UNCHANGED array
  /\ \/ (o # "ok" \/ status[c.vol] # "present") /\ Return(p, "Error")
     \/ /\ o = "ok" /\ status[c.vol] = "present"
        /\ \/ m # Unmapped /\ validateAndCompareQoS(c.qos, m) /\ Return(p, "OK")
           \/ m # Unmapped /\ ~validateAndCompareQoS(c.qos, m) /\ Return(p, "Error")
           \/ m = Unmapped /\ PublishRefused(c.vol, c.cap) /\ Return(p, "Error")
           \/ m = Unmapped /\ ~PublishRefused(c.vol, c.cap) /\ Goto(p, "map")

\* MapVolumeSdc and MapVolumeNVMe have the same effect on the array.
PublishMap(p, o) ==
  LET c == call[p]
      accepted == MapAccepted(c.vol, c.host,
                    shouldAllowMultipleMappings(c.cap.block, c.cap.mode))
  IN
  /\ maps' = IF accepted /\ o # "failed"
               THEN [maps EXCEPT ![c.vol][c.host] =
                                   [bw |-> Unlimited, iops |-> Unlimited]]
               ELSE maps
  /\ UNCHANGED <<status, paired>>
  /\ IF accepted /\ o = "ok" THEN Goto(p, "qos") ELSE Return(p, "Error")

SDCPublisher(p, o) ==
  pc[p] = "map" /\ HostType[call[p].host] = "SDC" /\ PublishMap(p, o)

NVMePublisher(p, o) ==
  pc[p] = "map" /\ HostType[call[p].host] = "NVMeTCP" /\ PublishMap(p, o)

\* getVolByID and SetMappedSdcLimits; a failure of the second one is rolled
\* back by a call of ControllerUnpublishVolume.
setQoSParameters(p, o) ==
  LET c == call[p]
      m == maps[c.vol][c.host]
      accepted == m # Unmapped /\ LimitsAccepted(c.qos)
  IN
  \/ /\ o # "ok" \/ status[c.vol] # "present"
     /\ UNCHANGED maps
     /\ Return(p, "Error")
  \/ /\ status[c.vol] = "present"
     /\ maps' = IF accepted /\ o # "failed"
                  THEN [maps EXCEPT ![c.vol][c.host] = Limited(m, c.qos)] ELSE maps
     /\ IF accepted /\ o = "ok" THEN Return(p, "OK") ELSE Goto(p, "unpublish_read")

setQoSIfNeeded(p, o) ==
  LET q == call[p].qos IN
  /\ pc[p] = "qos"
  /\ UNCHANGED <<status, paired>>
  /\ \/ ~validateQoSParameters(q) /\ UNCHANGED maps /\ Return(p, "Error")
     \/ /\ validateQoSParameters(q) /\ ~QoSRequested(q)
        /\ UNCHANGED maps
        /\ Return(p, "OK")
     \/ validateQoSParameters(q) /\ QoSRequested(q) /\ setQoSParameters(p, o)

-----------------------------------------------------------------------------
(* ControllerUnpublishVolume, called by the orchestrator or as a rollback. *)

\* The publish that rolls back replies with an error whatever comes of it.
UnpublishReply(p) == IF call[p].op = "unpublish" THEN "OK" ELSE "Error"

\* Variant: only mappings of SDC hosts are looked for.
UnpublishReadSDCOnly(p, o) ==
  LET c == call[p] IN
  /\ pc[p] = "unpublish_read"
  /\ UNCHANGED array
  /\ \/ (o # "ok" \/ status[c.vol] = "removing") /\ Return(p, "Error")
     \/ /\ o = "ok"
        /\ \/ status[c.vol] = "gone"
           \/ maps[c.vol][c.host] = Unmapped \/ HostType[c.host] # "SDC"
        /\ Return(p, UnpublishReply(p))
     \/ /\ o = "ok" /\ status[c.vol] = "present"
        /\ maps[c.vol][c.host] # Unmapped /\ HostType[c.host] = "SDC"
        /\ Goto(p, "unmap")

UnpublishRead(p, o) ==
  LET c == call[p] IN
  /\ pc[p] = "unpublish_read"
  /\ UNCHANGED array
  /\ \/ (o # "ok" \/ status[c.vol] = "removing") /\ Return(p, "Error")
     \/ /\ o = "ok"
        /\ \/ status[c.vol] = "gone"
           \/ status[c.vol] = "present" /\ maps[c.vol][c.host] = Unmapped
        /\ Return(p, UnpublishReply(p))
     \/ /\ o = "ok" /\ status[c.vol] = "present"
        /\ maps[c.vol][c.host] # Unmapped
        /\ Goto(p, "unmap")

\* Variant: the volume is unmapped from all hosts (AllSdcs).
UnmapAllHosts(p, o) ==
  LET c == call[p]
      accepted == status[c.vol] = "present" /\ maps[c.vol][c.host] # Unmapped
  IN
  /\ pc[p] = "unmap"
  /\ maps' = IF accepted /\ o # "failed"
               THEN [maps EXCEPT ![c.vol] = [h \in Hosts |-> Unmapped]] ELSE maps
  /\ UNCHANGED <<status, paired>>
  /\ Return(p, IF accepted /\ o = "ok" THEN UnpublishReply(p) ELSE "Error")

UnpublishUnmap(p, o) ==
  LET c == call[p]
      accepted == status[c.vol] = "present" /\ maps[c.vol][c.host] # Unmapped
  IN
  /\ pc[p] = "unmap"
  /\ maps' = IF accepted /\ o # "failed"
               THEN [maps EXCEPT ![c.vol][c.host] = Unmapped] ELSE maps
  /\ UNCHANGED <<status, paired>>
  /\ Return(p, IF accepted /\ o = "ok" THEN UnpublishReply(p) ELSE "Error")

-----------------------------------------------------------------------------
(* DeleteVolume of a block volume.                                         *)

\* Variant: the check for mapped hosts is forgotten.
DeleteReadUnchecked(p, o) ==
  LET v == call[p].vol IN
  /\ pc[p] = "delete_read"
  /\ UNCHANGED array
  /\ \/ o # "ok" /\ Return(p, "Error")
     \/ o = "ok" /\ status[v] # "present" /\ Return(p, "OK")
     \/ o = "ok" /\ status[v] = "present" /\ paired[v] /\ Goto(p, "unpair")
     \/ o = "ok" /\ status[v] = "present" /\ ~paired[v] /\ Goto(p, "remove")

\* Variant: any error of getVolByID is taken for a volume that is gone.
DeleteReadErrorIsGone(p, o) ==
  LET v == call[p].vol IN
  /\ pc[p] = "delete_read"
  /\ UNCHANGED array
  /\ \/ (o # "ok" \/ status[v] # "present") /\ Return(p, "OK")
     \/ /\ o = "ok" /\ status[v] = "present" /\ MappedHosts(v) # {}
        /\ Return(p, "Error")
     \/ /\ o = "ok" /\ status[v] = "present" /\ MappedHosts(v) = {}
        /\ Goto(p, IF paired[v] THEN "unpair" ELSE "remove")

\* A volume that is not found or is being removed counts as deleted.
DeleteRead(p, o) ==
  LET v == call[p].vol IN
  /\ pc[p] = "delete_read"
  /\ UNCHANGED array
  /\ \/ o # "ok" /\ Return(p, "Error")
     \/ o = "ok" /\ status[v] # "present" /\ Return(p, "OK")
     \/ /\ o = "ok" /\ status[v] = "present" /\ MappedHosts(v) # {}
        /\ Return(p, "Error")
     \/ /\ o = "ok" /\ status[v] = "present" /\ MappedHosts(v) = {}
        /\ Goto(p, IF paired[v] THEN "unpair" ELSE "remove")

removeVolumeFromReplicationPair(p, o) ==
  LET v == call[p].vol IN
  /\ pc[p] = "unpair"
  /\ paired' = IF o # "failed" THEN [paired EXCEPT ![v] = FALSE] ELSE paired
  /\ UNCHANGED <<status, maps>>
  /\ IF paired[v] /\ o = "ok" THEN Goto(p, "remove") ELSE Return(p, "Error")

\* RemoveVolume(ONLY_ME).  The array is not assumed to refuse a mapped volume;
\* the mappings of a removed volume go with it.
DeleteRemove(p, o) ==
  LET v == call[p].vol
      accepted == status[v] = "present"
  IN
  /\ pc[p] = "remove"
  /\ IF accepted /\ o # "failed"
       THEN /\ \E s \in {"removing", "gone"} : status' = [status EXCEPT ![v] = s]
            /\ maps' = [maps EXCEPT ![v] = [h \in Hosts |-> Unmapped]]
       ELSE UNCHANGED <<status, maps>>
  /\ UNCHANGED paired
  /\ IF accepted /\ o = "ok" THEN Goto(p, "poll") ELSE Return(p, "Error")

\* Variant: the bound of the poll is off by one.
DeletePollOnceMore(p, o) ==
  LET v == call[p].vol IN
  /\ pc[p] = "poll"
  /\ UNCHANGED array
  /\ \/ o # "ok" /\ Return(p, "Error")
     \/ o = "ok" /\ status[v] # "removing" /\ Return(p, "OK")
     \/ o = "ok" /\ status[v] = "removing" /\ polls[p] > MaxPoll /\ Return(p, "Error")
     \/ /\ o = "ok" /\ status[v] = "removing" /\ polls[p] <= MaxPoll
        /\ polls' = [polls EXCEPT ![p] = @ + 1]
        /\ UNCHANGED <<pc, call, orchestrator>>

\* getVolByID until the removal is no longer in progress, MaxPoll times at most.
DeletePoll(p, o) ==
  LET v == call[p].vol IN
  /\ pc[p] = "poll"
  /\ UNCHANGED array
  /\ \/ o # "ok" /\ Return(p, "Error")
     \/ o = "ok" /\ status[v] # "removing" /\ Return(p, "OK")
     \/ o = "ok" /\ status[v] = "removing" /\ polls[p] = MaxPoll /\ Return(p, "Error")
     \/ /\ o = "ok" /\ status[v] = "removing" /\ polls[p] < MaxPoll
        /\ polls' = [polls EXCEPT ![p] = @ + 1]
        /\ UNCHANGED <<pc, call, orchestrator>>

-----------------------------------------------------------------------------
(* A driver process dies with its handlers (or loses its leader lease, upon *)
(* which it exits); the array does not notice.                             *)
Crash(p) ==
  LET dead == {q \in Threads : DriverOf[q] = DriverOf[p]} IN
  /\ pc' = [q \in Threads |-> IF q \in dead THEN "idle" ELSE pc[q]]
  /\ call' = [q \in Threads |-> IF q \in dead THEN NoCall ELSE call[q]]
  /\ polls' = [q \in Threads |-> IF q \in dead THEN 0 ELSE polls[q]]
  /\ UNCHANGED <<array, orchestrator>>

Start(p) ==
  \/ \E v \in Vols, h \in Hosts, q \in QoSRequests : \E cap \in CapsOf[v] :
       StartPublish(p, PublishCall(v, h, cap, q))
  \/ \E c \in UnpublishCalls : StartUnpublish(p, c)
  \/ \E c \in DeleteCalls : StartDelete(p, c)

Step(p, o) ==
  \/ PublishRead(p, o)
  \/ SDCPublisher(p, o)
  \/ NVMePublisher(p, o)
  \/ setQoSIfNeeded(p, o)
  \/ UnpublishRead(p, o)
  \/ UnpublishUnmap(p, o)
  \/ DeleteRead(p, o)
  \/ removeVolumeFromReplicationPair(p, o)
  \/ DeleteRemove(p, o)
  \/ DeletePoll(p, o)

Next ==
  \/ \E p \in Threads : Start(p) \/ Crash(p) \/ \E o \in Outcomes : Step(p, o)
  \/ \E v \in Vols : FinishRemoval(v)

Spec == Init /\ [][Next]_vars

-----------------------------------------------------------------------------
(* Properties.                                                             *)

SingleNodeVols == {v \in Vols : \A c \in CapsOf[v] : isSingleNodeAccess(c.mode)}

\* A volume the orchestrator uses in single-node modes only is never mapped to
\* two hosts, however the handlers of any number of driver processes
\* interleave: a Publish that decides from a stale volume maps it with
\* allowMultipleMappings = FALSE (publisher.go, shouldAllowMultipleMappings).
SingleNodeExclusive ==
  \A v \in SingleNodeVols : \A g, h \in Hosts :
    maps[v][g] # Unmapped /\ maps[v][h] # Unmapped => g = h

\* The mapping m carries every limit that the request q asks for.
Meets(m, q) ==
  /\ q.bw # Unspecified => m.bw = LimitOf[q.bw]
  /\ q.iops # Unspecified => m.iops = LimitOf[q.iops]

\* When ControllerPublishVolume has reported success and
\* ControllerUnpublishVolume has not been called since, the volume is mapped to
\* the host with the limits that were requested: no retry, no rollback of
\* setQoSParameters, no DeleteVolume, no crash and no lost reply undoes it.
PublishedStaysMapped ==
  \A v \in Vols, h \in Hosts :
    known[v][h] # NotPublished =>
      maps[v][h] # Unmapped /\ Meets(maps[v][h], known[v][h])

\* DeleteVolume only removes a volume that is mapped to no host and is out of
\* its replication pair at the moment the array removes it, although both were
\* looked up calls earlier.
RemovesOnlyUnused ==
  [][\A v \in Vols :
       status[v] = "present" /\ status'[v] # "present" =>
         MappedHosts(v) = {} /\ ~paired[v]]_vars

\* A volume that DeleteVolume reported as deleted is gone or on its way out.
DeletedIsGone == \A v \in deleted : status[v] # "present"

\* The handlers keep the contract of AttachmentContract.
Contract == INSTANCE AttachmentContract WITH
  Exclusive <- SingleNodeVols,
  exists    <- {v \in Vols : status[v] = "present"},
  mapped    <- {vh \in Vols \X Hosts : maps[vh[1]][vh[2]] # Unmapped},
  attached  <- {vh \in Vols \X Hosts : known[vh[1]][vh[2]] # NotPublished},
  reported  <- deleted

\* Every behaviour of the handlers is one of the contract: an attachment is
\* only confirmed when mapped, only unmapped after it was given up, and only
\* an unmapped volume is removed.
KeepsContract == Contract!Spec

=============================================================================
