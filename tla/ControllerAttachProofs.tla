---------------------- MODULE ControllerAttachProofs ----------------------
(***************************************************************************)
(* Proofs about ControllerAttach for any volumes, hosts, threads and       *)
(* driver processes.                                                       *)
(***************************************************************************)
EXTENDS ControllerAttach, TLAPS

\* Where a handler is tells which request it serves; the handler of a publish
\* is also found in the code of unpublish, when it rolls back.
CallMatches ==
  \A p \in Threads :
    /\ pc[p] \in {"publish_read", "map", "qos"} => call[p] \in PublishCalls
    /\ pc[p] \in {"unpublish_read", "unmap"} =>
         call[p] \in PublishCalls \cup UnpublishCalls
    /\ pc[p] \in {"delete_read", "unpair", "remove", "poll"} => call[p] \in DeleteCalls

TypeInv == TypeOK /\ CallMatches

\* The fields of a request have their types.
LEMMA CallFields ==
  /\ \A c \in PublishCalls :
       /\ c.op = "publish" /\ c.vol \in Vols /\ c.host \in Hosts
       /\ c.cap \in CapsOf[c.vol] /\ c.qos \in QoS
       /\ c.qos.bw \in QoSValues /\ c.qos.iops \in QoSValues
  /\ \A c \in UnpublishCalls : c.op = "unpublish" /\ c.vol \in Vols /\ c.host \in Hosts
  /\ \A c \in DeleteCalls : c.op = "delete" /\ c.vol \in Vols
  /\ NoCall \in Calls
BY ConstantsAssumption DEF PublishCalls, UnpublishCalls, DeleteCalls, Calls, QoS

\* The requests the orchestrator makes are requests.
LEMMA PublishCallType ==
  ASSUME NEW v \in Vols, NEW h \in Hosts, NEW q \in QoSRequests, NEW cap \in CapsOf[v]
  PROVE  PublishCall(v, h, cap, q) \in PublishCalls
BY ConstantsAssumption DEF PublishCalls, PublishCall

\* The array's answer to SetMappedSdcLimits leaves a mapping.
LEMMA LimitedType ==
  ASSUME NEW m \in Mapping, NEW q \in QoS, validateQoSParameters(q), LimitsAccepted(q)
  PROVE  Limited(m, q) \in Mapping
<1>1. /\ q.bw \in QoSValues /\ q.iops \in QoSValues
      /\ m.bw \in Limits /\ m.iops \in Limits
  BY DEF QoS, Mapping
<1>2. q.bw # Unspecified => q.bw \in Numerals /\ LimitOf[q.bw] \in Limits
  BY <1>1, ConstantsAssumption DEF QoSValues, validateQoSParameters, LimitsAccepted
<1>3. q.iops # Unspecified => q.iops \in Numerals /\ LimitOf[q.iops] \in Limits
  BY <1>1, ConstantsAssumption DEF QoSValues, validateQoSParameters, LimitsAccepted
<1> QED BY <1>1, <1>2, <1>3 DEF Limited, Mapping

-----------------------------------------------------------------------------
(* Type correctness.                                                       *)

DriverInv == DriverTypeOK /\ CallMatches /\ OrchestratorTypeOK

\* A handler that returns leaves driver and orchestrator well typed.
LEMMA ReturnType ==
  ASSUME DriverInv, NEW p \in Threads, NEW code, Return(p, code)
  PROVE  DriverInv'
<1>1. call[p] \in Calls
  BY DEF DriverInv, DriverTypeOK
<1>2. DriverTypeOK' /\ CallMatches'
  BY CallFields, ConstantsAssumption
     DEF Return, DriverInv, DriverTypeOK, CallMatches, PCs
<1>3. OrchestratorTypeOK'
  <2>1. CASE UNCHANGED orchestrator
    BY <2>1 DEF orchestrator, DriverInv, OrchestratorTypeOK
  <2>2. CASE Told(call[p])
    <3>1. call[p].op = "publish" => call[p] \in PublishCalls
      BY <1>1, CallFields DEF Calls, NoCall
    <3>2. call[p].op = "delete" => call[p] \in DeleteCalls
      BY <1>1, CallFields DEF Calls, NoCall
    <3> QED BY <2>2, <3>1, <3>2, CallFields DEF Told, DriverInv, OrchestratorTypeOK
  <2> QED BY <2>1, <2>2 DEF Return
<1> QED BY <1>2, <1>3 DEF DriverInv

\* So does one that goes on to a step of the same request.
LEMMA GotoType ==
  ASSUME DriverInv, NEW p \in Threads, NEW next, Goto(p, next), next \in PCs,
         next \in {"publish_read", "map", "qos"} => call[p] \in PublishCalls,
         next \in {"unpublish_read", "unmap"} =>
           call[p] \in PublishCalls \cup UnpublishCalls,
         next \in {"delete_read", "unpair", "remove", "poll"} => call[p] \in DeleteCalls
  PROVE  DriverInv'
BY DEF Goto, orchestrator, DriverInv, DriverTypeOK, CallMatches, OrchestratorTypeOK

\* So does the start of a request.
LEMMA BeginType ==
  ASSUME DriverInv, NEW p \in Threads, NEW c, NEW start, Begin(p, c, start),
         \/ c \in PublishCalls /\ start = "publish_read"
         \/ c \in UnpublishCalls /\ start = "unpublish_read"
         \/ c \in DeleteCalls /\ start = "delete_read"
  PROVE  DriverTypeOK' /\ CallMatches'
BY DEF Begin, DriverInv, DriverTypeOK, CallMatches, PCs, Calls

\* Every step of a handler keeps the types.
LEMMA StepType ==
  ASSUME TypeInv, NEW p \in Threads, NEW o \in Outcomes, Step(p, o)
  PROVE  TypeInv'
<1> USE DEF TypeInv, TypeOK
<1>0. DriverInv
  BY DEF DriverInv
<1>a. ASSUME DriverInv' PROVE DriverTypeOK' /\ CallMatches' /\ OrchestratorTypeOK'
  BY <1>a DEF DriverInv
<1>1. CASE PublishRead(p, o)
  <2>1. ArrayTypeOK'
    BY <1>1, Zenon DEF PublishRead, array, ArrayTypeOK
  <2>2. Return(p, "OK") \/ Return(p, "Error") \/ Goto(p, "map")
    BY <1>1, Zenon DEF PublishRead
  <2>3. call[p] \in PublishCalls
    BY <1>1 DEF PublishRead, CallMatches
  <2>4. DriverInv'
    BY <1>0, <2>2, <2>3, ReturnType, GotoType DEF PCs
  <2> QED BY <1>a, <2>1, <2>4, Zenon
<1>2. CASE pc[p] = "map" /\ PublishMap(p, o)
  <2>1. call[p] \in PublishCalls
    BY <1>2, Zenon DEF CallMatches
  <2>2. ArrayTypeOK'
    BY <1>2, <2>1, CallFields, ConstantsAssumption DEF PublishMap, ArrayTypeOK, Mapping
  <2>3. Return(p, "Error") \/ Goto(p, "qos")
    BY <1>2 DEF PublishMap
  <2>4. DriverInv'
    BY <1>0, <2>1, <2>3, ReturnType, GotoType DEF PCs
  <2> QED BY <1>a, <2>2, <2>4
<1>3. CASE setQoSIfNeeded(p, o)
  <2>1. call[p] \in PublishCalls
    BY <1>3, Zenon DEF setQoSIfNeeded, CallMatches
  <2>2. ArrayTypeOK'
    <3>1. CASE UNCHANGED maps
      BY <1>3, <3>1, Zenon DEF setQoSIfNeeded, ArrayTypeOK
    <3>2. CASE /\ maps[call[p].vol][call[p].host] # Unmapped
               /\ validateQoSParameters(call[p].qos) /\ LimitsAccepted(call[p].qos)
               /\ maps' = [maps EXCEPT ![call[p].vol][call[p].host] =
                             Limited(maps[call[p].vol][call[p].host], call[p].qos)]
      <4>1. maps[call[p].vol][call[p].host] \in Mapping
        BY <2>1, <3>2, CallFields DEF ArrayTypeOK
      <4>2. Limited(maps[call[p].vol][call[p].host], call[p].qos) \in Mapping
        BY <2>1, <3>2, <4>1, CallFields, LimitedType, Zenon
      <4> QED BY <1>3, <2>1, <3>2, <4>2, CallFields, Zenon DEF setQoSIfNeeded, ArrayTypeOK
    <3> QED BY <1>3, <3>1, <3>2 DEF setQoSIfNeeded, setQoSParameters
  <2>3. Return(p, "OK") \/ Return(p, "Error") \/ Goto(p, "unpublish_read")
    BY <1>3 DEF setQoSIfNeeded, setQoSParameters
  <2>4. DriverInv'
    BY <1>0, <2>1, <2>3, ReturnType, GotoType DEF PCs
  <2> QED BY <1>a, <2>2, <2>4
<1>4. CASE UnpublishRead(p, o)
  <2>1. ArrayTypeOK'
    BY <1>4 DEF UnpublishRead, array, ArrayTypeOK
  <2>2. call[p] \in PublishCalls \cup UnpublishCalls
    BY <1>4 DEF UnpublishRead, CallMatches
  <2>3. (\E code : Return(p, code)) \/ Goto(p, "unmap")
    BY <1>4 DEF UnpublishRead
  <2>4. DriverInv'
    BY <1>0, <2>2, <2>3, ReturnType, GotoType DEF PCs
  <2> QED BY <1>a, <2>1, <2>4
<1>5. CASE UnpublishUnmap(p, o)
  <2>1. call[p] \in PublishCalls \cup UnpublishCalls
    BY <1>5, Zenon DEF UnpublishUnmap, CallMatches
  <2>2. ArrayTypeOK'
    BY <1>5, <2>1, CallFields DEF UnpublishUnmap, ArrayTypeOK
  <2>3. \E code : Return(p, code)
    BY <1>5 DEF UnpublishUnmap
  <2>4. DriverInv'
    BY <1>0, <2>3, ReturnType
  <2> QED BY <1>a, <2>2, <2>4
<1>6. CASE DeleteRead(p, o)
  <2>1. ArrayTypeOK'
    BY <1>6 DEF DeleteRead, array, ArrayTypeOK
  <2>2. call[p] \in DeleteCalls
    BY <1>6 DEF DeleteRead, CallMatches
  <2>3. Return(p, "OK") \/ Return(p, "Error") \/ Goto(p, "unpair") \/ Goto(p, "remove")
    BY <1>6 DEF DeleteRead
  <2>4. DriverInv'
    BY <1>0, <2>2, <2>3, ReturnType, GotoType DEF PCs
  <2> QED BY <1>a, <2>1, <2>4
<1>7. CASE removeVolumeFromReplicationPair(p, o)
  <2>1. call[p] \in DeleteCalls
    BY <1>7 DEF removeVolumeFromReplicationPair, CallMatches
  <2>2. ArrayTypeOK'
    BY <1>7, <2>1, CallFields DEF removeVolumeFromReplicationPair, ArrayTypeOK
  <2>3. Return(p, "Error") \/ Goto(p, "remove")
    BY <1>7 DEF removeVolumeFromReplicationPair
  <2>4. DriverInv'
    BY <1>0, <2>1, <2>3, ReturnType, GotoType DEF PCs
  <2> QED BY <1>a, <2>2, <2>4
<1>8. CASE DeleteRemove(p, o)
  <2>1. call[p] \in DeleteCalls
    BY <1>8 DEF DeleteRemove, CallMatches
  <2>2. ArrayTypeOK'
    <3>1. /\ status' \in [Vols -> Statuses]
          /\ paired' \in [Vols -> BOOLEAN]
      BY <1>8, <2>1, CallFields, Zenon DEF DeleteRemove, ArrayTypeOK, Statuses
    <3>2. [h \in Hosts |-> Unmapped] \in [Hosts -> Mapping \cup {Unmapped}]
      OBVIOUS
    <3>3. maps' \in [Vols -> [Hosts -> Mapping \cup {Unmapped}]]
      BY <1>8, <2>1, <3>2, CallFields DEF DeleteRemove, ArrayTypeOK
    <3> QED BY <3>1, <3>3 DEF ArrayTypeOK
  <2>3. Return(p, "Error") \/ Goto(p, "poll")
    BY <1>8 DEF DeleteRemove
  <2>4. DriverInv'
    BY <1>0, <2>1, <2>3, ReturnType, GotoType DEF PCs
  <2> QED BY <1>a, <2>2, <2>4
<1>9. CASE DeletePoll(p, o)
  <2>1. ArrayTypeOK'
    BY <1>9 DEF DeletePoll, array, ArrayTypeOK
  <2>2. CASE \E code : Return(p, code)
    BY <1>0, <1>a, <2>1, <2>2, ReturnType
  <2>3. CASE /\ polls[p] < MaxPoll /\ polls' = [polls EXCEPT ![p] = @ + 1]
             /\ UNCHANGED <<pc, call, orchestrator>>
    <3>1. polls' \in [Threads -> 0..MaxPoll]
      BY <2>3, ConstantsAssumption DEF DriverTypeOK
    <3> QED BY <2>1, <2>3, <3>1
            DEF orchestrator, DriverTypeOK, CallMatches, OrchestratorTypeOK
  <2> QED BY <1>9, <2>2, <2>3 DEF DeletePoll
<1> QED
  BY <1>1, <1>2, <1>3, <1>4, <1>5, <1>6, <1>7, <1>8, <1>9
  DEF Step, SDCPublisher, NVMePublisher

\* The types hold initially and every step keeps them.
LEMMA InitType == Init => TypeInv
BY ConstantsAssumption, CallFields
   DEF Init, TypeInv, TypeOK, ArrayTypeOK, DriverTypeOK, OrchestratorTypeOK,
       CallMatches, Statuses, PCs

LEMMA NextType == TypeInv /\ [Next]_vars => TypeInv'
<1> SUFFICES ASSUME TypeInv, [Next]_vars PROVE TypeInv'
  OBVIOUS
<1> USE DEF TypeInv, TypeOK
<1>0. DriverInv
  BY DEF DriverInv
<1>1. ASSUME NEW p \in Threads, Start(p) PROVE TypeInv'
  <2>1. ASSUME NEW v \in Vols, NEW h \in Hosts, NEW q \in QoSRequests,
               NEW cap \in CapsOf[v], StartPublish(p, PublishCall(v, h, cap, q))
        PROVE  TypeInv'
    BY <1>0, <2>1, PublishCallType, BeginType, Zenon
       DEF StartPublish, Begin, array, orchestrator, ArrayTypeOK, OrchestratorTypeOK
  <2>2. ASSUME NEW c \in UnpublishCalls, StartUnpublish(p, c) PROVE TypeInv'
    <3>1. DriverTypeOK' /\ CallMatches' /\ ArrayTypeOK'
      BY <1>0, <2>2, BeginType, Zenon DEF StartUnpublish, Begin, array, ArrayTypeOK
    <3>2. OrchestratorTypeOK'
      BY <2>2, CallFields DEF StartUnpublish, OrchestratorTypeOK
    <3> QED BY <3>1, <3>2
  <2>3. ASSUME NEW c \in DeleteCalls, StartDelete(p, c) PROVE TypeInv'
    BY <1>0, <2>3, BeginType, Zenon
       DEF StartDelete, Begin, array, orchestrator, ArrayTypeOK, OrchestratorTypeOK
  <2> QED BY <1>1, <2>1, <2>2, <2>3, Zenon DEF Start
<1>2. ASSUME NEW p \in Threads, Crash(p) PROVE TypeInv'
  <2>1. ArrayTypeOK' /\ OrchestratorTypeOK'
    BY <1>2 DEF Crash, array, orchestrator, ArrayTypeOK, OrchestratorTypeOK
  <2>2. DriverTypeOK'
    <3>1. "idle" \in PCs /\ NoCall \in Calls /\ 0 \in 0 .. MaxPoll
      BY CallFields, ConstantsAssumption DEF PCs
    <3> QED BY <1>2, <3>1 DEF Crash, DriverTypeOK
  <2>3. \A q \in Threads : pc'[q] = "idle" \/ (pc'[q] = pc[q] /\ call'[q] = call[q])
    BY <1>2 DEF Crash
  <2>4. CallMatches'
    BY <2>3 DEF CallMatches
  <2> QED BY <2>1, <2>2, <2>4
<1>3. ASSUME NEW p \in Threads, NEW o \in Outcomes, Step(p, o) PROVE TypeInv'
  BY <1>3, StepType
<1>4. ASSUME NEW v \in Vols, FinishRemoval(v) PROVE TypeInv'
  BY <1>4 DEF FinishRemoval, driver, orchestrator, ArrayTypeOK, DriverTypeOK,
              OrchestratorTypeOK, CallMatches, Statuses
<1>5. CASE UNCHANGED vars
  BY <1>5 DEF vars, array, driver, orchestrator, ArrayTypeOK, DriverTypeOK,
              OrchestratorTypeOK, CallMatches
<1> QED BY <1>1, <1>2, <1>3, <1>4, <1>5 DEF Next

\* Type correctness of the controller handlers for every number of volumes,
\* hosts, handler threads and driver processes; the removal poll of
\* DeleteVolume is bounded.
THEOREM TypeCorrect == Spec => []TypeOK
<1>1. TypeInv => TypeOK
  BY DEF TypeInv
<1> QED BY InitType, NextType, <1>1, PTL DEF Spec

-----------------------------------------------------------------------------
(* What holds for any number of driver processes.                          *)

\* Setting limits does not unmap.
LEMMA LimitsKeepMappings ==
  ASSUME TypeInv, NEW p \in Threads, NEW o \in Outcomes, setQoSIfNeeded(p, o)
  PROVE  \A v \in Vols, h \in Hosts : maps'[v][h] = Unmapped <=> maps[v][h] = Unmapped
<1> USE DEF TypeInv, TypeOK
<1>1. call[p] \in PublishCalls
  BY DEF setQoSIfNeeded, CallMatches
<1>2. CASE UNCHANGED maps
  BY <1>2, Zenon
<1>3. CASE /\ maps[call[p].vol][call[p].host] # Unmapped
           /\ validateQoSParameters(call[p].qos) /\ LimitsAccepted(call[p].qos)
           /\ maps' = [maps EXCEPT ![call[p].vol][call[p].host] =
                         Limited(maps[call[p].vol][call[p].host], call[p].qos)]
  <2>1. maps[call[p].vol][call[p].host] \in Mapping
    BY <1>1, <1>3, CallFields DEF ArrayTypeOK
  <2>2. Limited(maps[call[p].vol][call[p].host], call[p].qos) # Unmapped
    <3>1. call[p].qos \in QoS
      BY <1>1, CallFields, Zenon
    <3>2. Limited(maps[call[p].vol][call[p].host], call[p].qos) \in Mapping
      BY <1>3, <2>1, <3>1, LimitedType
    <3> QED BY <3>2, ConstantsAssumption
  <2> QED BY <1>1, <1>3, <2>2, CallFields, Zenon DEF ArrayTypeOK
<1> QED BY <1>2, <1>3 DEF setQoSIfNeeded, setQoSParameters

\* A publish for a single-node volume is mapped with the flag off.
LEMMA SingleNodeFlag ==
  ASSUME NEW c \in PublishCalls, c.vol \in SingleNodeVols
  PROVE  shouldAllowMultipleMappings(c.cap.block, c.cap.mode) = "FALSE"
<1>1. isSingleNodeAccess(c.cap.mode)
  BY CallFields DEF SingleNodeVols
<1> QED BY <1>1 DEF isSingleNodeAccess, shouldAllowMultipleMappings

\* No step maps a single-node volume to a second host: the only step that adds
\* a mapping is the map call, which the array refuses unless the volume is
\* unmapped at that moment.
LEMMA NextExclusive ==
  TypeInv /\ SingleNodeExclusive /\ [Next]_vars => SingleNodeExclusive'
<1> SUFFICES ASSUME TypeInv, SingleNodeExclusive, [Next]_vars
             PROVE  SingleNodeExclusive'
  OBVIOUS
<1> USE DEF TypeInv, TypeOK
<1>0. SingleNodeVols \subseteq Vols
  BY DEF SingleNodeVols
<1>1. CASE \A v \in Vols, h \in Hosts : maps'[v][h] # Unmapped => maps[v][h] # Unmapped
  BY <1>0, <1>1 DEF SingleNodeExclusive
<1>2. ASSUME NEW p \in Threads, NEW o \in Outcomes, Step(p, o) PROVE SingleNodeExclusive'
  <2>1. CASE UNCHANGED maps
    BY <1>1, <2>1, Zenon
  <2>2. CASE pc[p] = "map" /\ PublishMap(p, o)
    <3>1. call[p] \in PublishCalls
      BY <2>2 DEF CallMatches
    <3> DEFINE v == call[p].vol
               h == call[p].host
    <3>2. v \in Vols /\ h \in Hosts
      BY <3>1, CallFields
    <3>3. CASE MapAccepted(v, h, shouldAllowMultipleMappings(call[p].cap.block, call[p].cap.mode))
               /\ maps' = [maps EXCEPT ![v][h] = [bw |-> Unlimited, iops |-> Unlimited]]
      <4>1. v \in SingleNodeVols => MappedHosts(v) = {}
        BY <3>1, <3>3, SingleNodeFlag, Zenon DEF MapAccepted
      <4>2. \A g \in Hosts : v \in SingleNodeVols /\ g # h => maps'[v][g] = Unmapped
        BY <3>2, <3>3, <4>1, Zenon DEF MappedHosts, ArrayTypeOK
      <4>3. \A w \in Vols \ {v} : maps'[w] = maps[w]
        BY <3>2, <3>3 DEF ArrayTypeOK
      <4> QED BY <1>0, <4>2, <4>3 DEF SingleNodeExclusive
    <3> QED BY <1>1, <2>2, <3>3 DEF PublishMap
  <2>3. CASE setQoSIfNeeded(p, o)
    BY <1>1, <2>3, LimitsKeepMappings, Zenon
  <2>4. CASE UnpublishUnmap(p, o)
    <3>1. call[p] \in PublishCalls \cup UnpublishCalls
      BY <2>4, Zenon DEF UnpublishUnmap, CallMatches
    <3> QED BY <1>1, <2>4, <3>1, CallFields, Zenon DEF UnpublishUnmap, ArrayTypeOK
  <2>5. CASE DeleteRemove(p, o)
    <3>1. call[p] \in DeleteCalls
      BY <2>5 DEF DeleteRemove, CallMatches
    <3> QED BY <1>1, <2>5, <3>1, CallFields DEF DeleteRemove, ArrayTypeOK
  <2> QED
    BY <1>2, <2>1, <2>2, <2>3, <2>4, <2>5, Zenon
    DEF Step, SDCPublisher, NVMePublisher, PublishRead, UnpublishRead, DeleteRead,
        removeVolumeFromReplicationPair, DeletePoll, array
<1>3. CASE UNCHANGED maps
  BY <1>1, <1>3
<1>4. ASSUME NEW p \in Threads, Start(p) PROVE UNCHANGED maps
  BY <1>4, Zenon DEF Start, StartPublish, StartUnpublish, StartDelete, Begin, array
<1>5. ASSUME NEW p \in Threads, Crash(p) PROVE UNCHANGED maps
  BY <1>5 DEF Crash, array
<1>6. ASSUME NEW v \in Vols, FinishRemoval(v) PROVE UNCHANGED maps
  BY <1>6 DEF FinishRemoval
<1>7. CASE UNCHANGED vars
  BY <1>3, <1>7 DEF vars, array
<1> QED BY <1>2, <1>3, <1>4, <1>5, <1>6, <1>7 DEF Next

\* Single-node volumes are mapped to one host at most, for any number of driver
\* processes (a former leader that still runs handlers included), however
\* stale the volume is that ControllerPublishVolume decided from.
THEOREM SingleNodeExclusiveHolds == Spec => []SingleNodeExclusive
<1>1. Init => SingleNodeExclusive
  BY DEF Init, SingleNodeExclusive, SingleNodeVols
<1> QED BY InitType, NextType, NextExclusive, <1>1, PTL DEF Spec

\* A removal that is polled was accepted by the array.
PolledIsGoing == \A p \in Threads : pc[p] = "poll" => status[call[p].vol] # "present"

GoneInv == PolledIsGoing /\ DeletedIsGone

\* No step brings a volume back.
LEMMA NeverBack ==
  ASSUME TypeInv, [Next]_vars, NEW v \in Vols, status[v] # "present"
  PROVE  status'[v] # "present"
<1> USE DEF TypeInv, TypeOK
<1>1. ASSUME NEW p \in Threads, NEW o \in Outcomes, DeleteRemove(p, o)
      PROVE  status'[v] # "present"
  <2>1. call[p] \in DeleteCalls
    BY <1>1 DEF DeleteRemove, CallMatches
  <2> QED BY <1>1, <2>1, CallFields DEF DeleteRemove, ArrayTypeOK
<1>2. ASSUME NEW w \in Vols, FinishRemoval(w) PROVE status'[v] # "present"
  BY <1>2 DEF FinishRemoval, ArrayTypeOK
<1>3. ASSUME NEW p \in Threads, NEW o \in Outcomes, Step(p, o)
      PROVE  status'[v] # "present"
  <2>1. DeleteRemove(p, o) \/ UNCHANGED status
    BY <1>3, Zenon DEF Step, PublishRead, SDCPublisher, NVMePublisher, PublishMap,
                setQoSIfNeeded, UnpublishRead, UnpublishUnmap, DeleteRead,
                removeVolumeFromReplicationPair, DeletePoll, array
  <2> QED BY <1>1, <2>1, Zenon
<1>4. ASSUME NEW p \in Threads, Start(p) \/ Crash(p) PROVE UNCHANGED status
  BY <1>4, Zenon DEF Start, StartPublish, StartUnpublish, StartDelete, Begin, Crash, array
<1>5. UNCHANGED vars => UNCHANGED status
  BY DEF vars, array
<1> QED BY <1>2, <1>3, <1>4, <1>5 DEF Next

\* A handler that returns an error, or success for a volume that is not
\* deleted by it, reports nothing new as deleted.
LEMMA ReturnGone ==
  ASSUME TypeInv, GoneInv, NEW p \in Threads, NEW code, Return(p, code),
         \A v \in Vols : status[v] # "present" => status'[v] # "present",
         code = "OK" /\ call[p].op = "delete" => status[call[p].vol] # "present"
  PROVE  GoneInv'
<1> USE DEF TypeInv, TypeOK
<1>1. \A v \in deleted' \ deleted :
        code = "OK" /\ call[p].op = "delete" /\ v = call[p].vol
  BY DEF Return, Told, orchestrator
<1>2. DeletedIsGone'
  <2>1. \A v \in deleted' : v \in Vols /\ status[v] # "present"
    <3>1. call[p].op = "delete" => call[p].vol \in Vols
      BY CallFields DEF DriverTypeOK, Calls, NoCall
    <3> QED BY <1>1, <3>1 DEF GoneInv, DeletedIsGone, OrchestratorTypeOK
  <2> QED BY <2>1 DEF DeletedIsGone
<1>3. PolledIsGoing'
  <2>1. \A q \in Threads : pc'[q] = "poll" =>
          pc[q] = "poll" /\ call'[q] = call[q] /\ call[q].vol \in Vols
    BY CallFields DEF Return, DriverTypeOK, CallMatches
  <2> QED BY <2>1 DEF GoneInv, PolledIsGoing
<1> QED BY <1>2, <1>3 DEF GoneInv

\* A handler that goes on to a step other than the poll reports nothing.
LEMMA GotoGone ==
  ASSUME TypeInv, GoneInv, NEW p \in Threads, NEW next, Goto(p, next),
         \A v \in Vols : status[v] # "present" => status'[v] # "present",
         next = "poll" => call[p] \in DeleteCalls /\ status'[call[p].vol] # "present"
  PROVE  GoneInv'
<1> USE DEF TypeInv, TypeOK
<1>1. DeletedIsGone'
  BY Zenon DEF Goto, orchestrator, GoneInv, DeletedIsGone, OrchestratorTypeOK
<1>2. \A q \in Threads \ {p} : pc'[q] = "poll" => pc[q] = "poll" /\ call[q].vol \in Vols
  BY CallFields, Zenon DEF Goto, DriverTypeOK, CallMatches
<1>3. PolledIsGoing'
  BY <1>2 DEF Goto, GoneInv, PolledIsGoing, DriverTypeOK
<1> QED BY <1>1, <1>3 DEF GoneInv

LEMMA NextGone == TypeInv /\ GoneInv /\ [Next]_vars => GoneInv'
<1> SUFFICES ASSUME TypeInv, GoneInv, [Next]_vars PROVE GoneInv'
  OBVIOUS
<1> USE DEF TypeInv, TypeOK
<1>0. \A v \in Vols : status[v] # "present" => status'[v] # "present"
  BY NeverBack, Zenon
<1>1. \A q \in Threads : pc[q] = "poll" => call[q].vol \in Vols
  BY CallFields DEF CallMatches
<1>2. CASE /\ UNCHANGED deleted
           /\ \A q \in Threads : pc'[q] = "poll" => pc[q] = "poll" /\ call'[q] = call[q]
  BY <1>0, <1>1, <1>2 DEF GoneInv, PolledIsGoing, DeletedIsGone, OrchestratorTypeOK
<1>3. ASSUME NEW p \in Threads, NEW o \in Outcomes, Step(p, o) PROVE GoneInv'
  <2>1. CASE PublishRead(p, o) \/ SDCPublisher(p, o) \/ NVMePublisher(p, o) \/ setQoSIfNeeded(p, o)
    <3>1. call[p].op # "delete"
      BY <2>1, CallFields, Zenon
         DEF PublishRead, SDCPublisher, NVMePublisher, setQoSIfNeeded, CallMatches
    <3>2. \/ \E code : Return(p, code)
          \/ \E next \in PCs \ {"poll"} : Goto(p, next)
      BY <2>1, Zenon DEF PublishRead, SDCPublisher, NVMePublisher, PublishMap, setQoSIfNeeded,
                  setQoSParameters, PCs
    <3> QED BY <1>0, <3>1, <3>2, ReturnGone, GotoGone, Zenon
  <2>2. CASE UnpublishRead(p, o) \/ UnpublishUnmap(p, o)
    <3>1. call[p].op # "delete"
      BY <2>2, CallFields, Zenon DEF UnpublishRead, UnpublishUnmap, CallMatches
    <3>2. \/ \E code : Return(p, code)
          \/ Goto(p, "unmap")
      BY <2>2, Zenon DEF UnpublishRead, UnpublishUnmap
    <3> QED BY <1>0, <3>1, <3>2, ReturnGone, GotoGone, Zenon
  <2>3. CASE DeleteRead(p, o)
    <3>1. \/ Return(p, "Error")
          \/ Return(p, "OK") /\ status[call[p].vol] # "present"
          \/ Goto(p, "unpair") \/ Goto(p, "remove")
      BY <2>3 DEF DeleteRead
    <3> QED BY <1>0, <3>1, ReturnGone, GotoGone, Zenon
  <2>4. CASE removeVolumeFromReplicationPair(p, o)
    <3>1. Return(p, "Error") \/ Goto(p, "remove")
      BY <2>4 DEF removeVolumeFromReplicationPair
    <3> QED BY <1>0, <3>1, ReturnGone, GotoGone
  <2>5. CASE DeleteRemove(p, o)
    <3>1. call[p] \in DeleteCalls
      BY <2>5, Zenon DEF DeleteRemove, CallMatches
    <3>2. \/ Return(p, "Error")
          \/ Goto(p, "poll") /\ status'[call[p].vol] # "present"
      BY <2>5, <3>1, CallFields, Zenon DEF DeleteRemove, ArrayTypeOK
    <3> QED BY <1>0, <3>1, <3>2, ReturnGone, GotoGone, Zenon
  <2>6. CASE DeletePoll(p, o)
    <3>1. \/ Return(p, "Error")
          \/ Return(p, "OK") /\ status[call[p].vol] # "present"
          \/ UNCHANGED <<pc, call, orchestrator>>
      BY <2>6 DEF DeletePoll, GoneInv, PolledIsGoing
    <3>2. CASE Return(p, "Error")
      BY <1>0, <3>2, ReturnGone
    <3>3. CASE Return(p, "OK") /\ status[call[p].vol] # "present"
      BY <1>0, <3>3, ReturnGone, Zenon
    <3>4. CASE UNCHANGED <<pc, call, orchestrator>>
      BY <1>2, <3>4 DEF orchestrator
    <3> QED BY <3>1, <3>2, <3>3, <3>4, Zenon
  <2> QED BY <1>3, <2>1, <2>2, <2>3, <2>4, <2>5, <2>6, Zenon DEF Step
<1>4. ASSUME NEW p \in Threads, Start(p) PROVE GoneInv'
  BY <1>2, <1>4, Zenon DEF Start, StartPublish, StartUnpublish, StartDelete, Begin,
                    orchestrator, DriverTypeOK
<1>5. ASSUME NEW p \in Threads, Crash(p) PROVE GoneInv'
  BY <1>2, <1>5 DEF Crash, orchestrator
<1>6. CASE (\E v \in Vols : FinishRemoval(v)) \/ UNCHANGED vars
  BY <1>2, <1>6 DEF FinishRemoval, vars, driver, orchestrator
<1> QED BY <1>3, <1>4, <1>5, <1>6 DEF Next

\* A volume that DeleteVolume reports as deleted has been removed, or its
\* removal is under way, and it never comes back.
THEOREM DeletedIsGoneHolds == Spec => []DeletedIsGone
<1>1. Init => GoneInv
  BY DEF Init, GoneInv, PolledIsGoing, DeletedIsGone
<1>2. GoneInv => DeletedIsGone
  BY DEF GoneInv
<1> QED BY InitType, NextType, NextGone, <1>1, <1>2, PTL DEF Spec

=============================================================================
