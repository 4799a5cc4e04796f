------------------------ MODULE AttachmentContract ------------------------
(***************************************************************************)
(* What the controller service promises about block volumes, without its   *)
(* handlers: a volume is mapped to hosts and unmapped from them, an        *)
(* attachment the orchestrator has been told of stays until it gives it    *)
(* up, an exclusive volume has one host at a time, and only an unmapped    *)
(* volume is removed.                                                      *)
(***************************************************************************)
CONSTANTS
  Vols,
  Hosts,
  Exclusive    \* the volumes only used with single-node access modes

VARIABLES
  exists,      \* volumes on the array
  mapped,      \* pairs <<volume, host>> mapped on the array
  attached,    \* pairs the orchestrator was told of and has not given up
  reported     \* volumes reported as deleted

cvars == <<exists, mapped, attached, reported>>

Init ==
  /\ exists = Vols
  /\ mapped = {}
  /\ attached = {}
  /\ reported = {}

HasHost(v) == \E h \in Hosts : <<v, h>> \in mapped

Map(v, h) ==
  /\ v \in exists
  /\ v \in Exclusive => ~HasHost(v)
  /\ mapped' = mapped \cup {<<v, h>>}
  /\ UNCHANGED <<exists, attached, reported>>

Unmap(v, h) ==
  /\ <<v, h>> \notin attached
  /\ mapped' = mapped \ {<<v, h>>}
  /\ UNCHANGED <<exists, attached, reported>>

Confirm(v, h) ==
  /\ <<v, h>> \in mapped
  /\ attached' = attached \cup {<<v, h>>}
  /\ UNCHANGED <<exists, mapped, reported>>

Release(v, h) ==
  /\ attached' = attached \ {<<v, h>>}
  /\ UNCHANGED <<exists, mapped, reported>>

Remove(v) ==
  /\ v \in exists
  /\ ~HasHost(v)
  /\ exists' = exists \ {v}
  /\ UNCHANGED <<mapped, attached, reported>>

ReportDeleted(v) ==
  /\ v \notin exists
  /\ reported' = reported \cup {v}
  /\ UNCHANGED <<exists, mapped, attached>>

Next ==
  \E v \in Vols :
    \/ \E h \in Hosts : Map(v, h) \/ Unmap(v, h) \/ Confirm(v, h) \/ Release(v, h)
    \/ Remove(v)
    \/ ReportDeleted(v)

Spec == Init /\ [][Next]_cvars

=============================================================================
