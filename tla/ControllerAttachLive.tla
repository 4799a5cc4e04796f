---------------------- MODULE ControllerAttachLive ------------------------
(***************************************************************************)
(* ControllerAttach with an orchestrator that stops publishing and wants   *)
(* every volume deleted: external-attacher and external-provisioner retry  *)
(* ControllerUnpublishVolume and DeleteVolume until they succeed.  Only so *)
(* many publishes are made and only so many calls and processes fail.      *)
(***************************************************************************)
EXTENDS ControllerAttach

CONSTANTS
  MaxPublishes,  \* publishes the orchestrator starts
  MaxFaults      \* array calls that fail or lose their answer, and crashes

ASSUME BudgetAssumption == MaxPublishes \in Nat /\ MaxFaults \in Nat

VARIABLES
  publishes,
  faults

lvars == <<vars, publishes, faults>>

LiveInit == Init /\ publishes = 0 /\ faults = 0

LivePublish(p) ==
  /\ publishes < MaxPublishes
  /\ publishes' = publishes + 1
  /\ \E v \in Vols, h \in Hosts, q \in QoSRequests : \E cap \in CapsOf[v] :
       StartPublish(p, PublishCall(v, h, cap, q))
  /\ UNCHANGED faults

Fault(p) ==
  /\ faults < MaxFaults
  /\ faults' = faults + 1
  /\ Crash(p) \/ Step(p, "failed") \/ Step(p, "lost")
  /\ UNCHANGED publishes

Answered(p) == Step(p, "ok") /\ UNCHANGED <<publishes, faults>>

\* The attacher detaches a volume from a host for as long as it may be mapped.
Detach(v, h) ==
  /\ v \notin deleted
  /\ \E p \in Threads : StartUnpublish(p, [op |-> "unpublish", vol |-> v, host |-> h])
  /\ UNCHANGED <<publishes, faults>>

\* The provisioner deletes until it is told that the volume is deleted.
Dispose(v) ==
  /\ v \notin deleted
  /\ \E p \in Threads : StartDelete(p, [op |-> "delete", vol |-> v])
  /\ UNCHANGED <<publishes, faults>>

ArrayFinishes(v) == FinishRemoval(v) /\ UNCHANGED <<publishes, faults>>

LiveNext ==
  \/ \E p \in Threads : LivePublish(p) \/ Fault(p) \/ Answered(p)
  \/ \E v \in Vols :
       \/ \E h \in Hosts : Detach(v, h)
       \/ Dispose(v)
       \/ ArrayFinishes(v)

\* A handler whose array call is answered goes on, the array ends a removal it
\* has accepted, and the orchestrator's retries get through the serial volume
\* access again and again.
LiveSpec ==
  /\ LiveInit
  /\ [][LiveNext]_lvars
  /\ \A p \in Threads : WF_lvars(Answered(p))
  /\ \A v \in Vols :
       /\ WF_lvars(ArrayFinishes(v))
       /\ SF_lvars(Dispose(v))
       /\ \A h \in Hosts : SF_lvars(Detach(v, h))

-----------------------------------------------------------------------------
\* Whatever crashes, failed calls and lost answers left behind (a mapping whose
\* rollback failed, a volume already out of its replication pair, a removal in
\* progress), retrying ControllerUnpublishVolume and DeleteVolume gets every
\* volume removed from the array: no partial failure makes a handler refuse
\* for ever.
EventuallyGone == \A v \in Vols : <>(status[v] = "gone")

=============================================================================
