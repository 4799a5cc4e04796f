--------------------------- MODULE Connectivity ---------------------------
(***************************************************************************)
(* Whether an NVMe node is connected to an array: the monitor on the node  *)
(* (testConnectivityAndUpdateStatus in                                     *)
(* service/node_connectivity_checker.go) and the question that the         *)
(* controller asks it for the resiliency module (QueryArrayStatus in       *)
(* service/service.go, ValidateVolumeHostConnectivity in                   *)
(* service/csi_extension_server.go).                                       *)
(*                                                                         *)
(* The monitor of an array calls requireProbe every half polling period    *)
(* and stores the times of the last attempt and of the last success.  The  *)
(* controller judges by these two times and its clock.  Times are kept as  *)
(* ages in seconds that stop at Cap, an age that every comparison of the   *)
(* code tells apart from none greater.  The time 0 of a status without a   *)
(* success has that age too.                                               *)
(***************************************************************************)
EXTENDS Integers

CONSTANTS
  PollingFrequency, \* X_CSI_PODMON_ARRAY_CONNECTIVITY_POLL_RATE
  Timeout,          \* of a probe
  Leeway            \* of the tolerance check

ASSUME PollingAssumption ==
  PollingFrequency \in Nat /\ Timeout \in Nat /\ Leeway \in Nat

tolerance == PollingFrequency
Cap == 3 * tolerance + Leeway + 1
Older(age) == IF age < Cap THEN age + 1 ELSE Cap
Sum(x, y) == IF x + y < Cap THEN x + y ELSE Cap

VARIABLES
  link,        \* the array answers the node
  stalled,     \* another thread of the plugin holds mx
  alive,       \* the node plugin runs
  probed,      \* its requireProbe has succeeded once
  found,       \* probeStatus has an entry for the array
  lastAttempt, \* age of LastAttempt
  timeDiff,    \* LastAttempt - LastSuccess
  phase, elapsed, \* the monitor probes or sleeps, and since when
  reached      \* age of the last time requireProbe succeeded in this plugin

status == <<found, lastAttempt, timeDiff>>
vars == <<link, stalled, alive, probed, status, phase, elapsed, reached>>

Ages == 0 .. Cap

\* Every variable has its type; the time in a phase stops at Cap like the ages.
TypeOK ==
  /\ link \in BOOLEAN /\ stalled \in BOOLEAN /\ alive \in BOOLEAN /\ probed \in BOOLEAN
  /\ found \in BOOLEAN /\ lastAttempt \in Ages /\ timeDiff \in Ages
  /\ phase \in {"probe", "sleep"} /\ elapsed \in Ages /\ reached \in Ages

Fresh ==
  /\ probed = FALSE /\ found = FALSE /\ lastAttempt = Cap /\ timeDiff = Cap
  /\ phase = "probe" /\ elapsed = 0 /\ reached = Cap

Init == link \in BOOLEAN /\ stalled = FALSE /\ alive = TRUE /\ Fresh

-----------------------------------------------------------------------------
(* The monitor.                                                            *)

\* Variant: the time of the attempt is taken for that of a success.
FailureCounts(ok) ==
  /\ alive /\ phase = "probe" /\ (probed \/ ~stalled)
  /\ ok = (probed \/ link)
  /\ probed' = ok /\ found' = TRUE /\ lastAttempt' = 0 /\ timeDiff' = 0
  /\ reached' = IF ok THEN 0 ELSE reached
  /\ phase' = "sleep" /\ elapsed' = 0
  /\ UNCHANGED <<link, stalled, alive>>

\* requireProbe returns and the status is stored.  It asks the array only if it has not
\* succeeded before, holding mx; afterwards it succeeds whatever the link.
StoreStatus(ok) ==
  /\ alive /\ phase = "probe" /\ (probed \/ ~stalled)
  /\ ok = (probed \/ link)
  /\ probed' = ok /\ found' = TRUE /\ lastAttempt' = 0
  /\ timeDiff' = IF ok THEN 0 ELSE Sum(timeDiff, lastAttempt)
  /\ reached' = IF ok THEN 0 ELSE reached
  /\ phase' = "sleep" /\ elapsed' = 0
  /\ UNCHANGED <<link, stalled, alive>>

\* Variant: three polling periods are slept.
SleepsLong == 3 * PollingFrequency

\* Half the polling period.
Sleeps == PollingFrequency \div 2

Wake ==
  /\ alive /\ phase = "sleep" /\ elapsed = Sleeps
  /\ phase' = "probe" /\ elapsed' = 0
  /\ UNCHANGED <<link, stalled, alive, probed, status, reached>>

\* A second passes: the monitor does not oversleep, and a probe ends in time unless it
\* has to wait for mx.
Tick ==
  /\ \/ ~alive
     \/ phase = "sleep" /\ elapsed < Sleeps
     \/ phase = "probe" /\ (elapsed < Timeout \/ (stalled /\ ~probed))
  /\ lastAttempt' = Older(lastAttempt) /\ reached' = Older(reached)
  /\ elapsed' = Older(elapsed)
  /\ UNCHANGED <<link, stalled, alive, probed, found, timeDiff, phase>>

-----------------------------------------------------------------------------
(* The environment (external).                                             *)

LinkChanges ==
  /\ link' = ~link
  /\ UNCHANGED <<stalled, alive, probed, status, phase, elapsed, reached>>

\* Another request probes the array first.
OtherProbe ==
  /\ alive /\ link /\ ~probed
  /\ probed' = TRUE
  /\ UNCHANGED <<link, stalled, alive, status, phase, elapsed, reached>>

MxChanges ==
  /\ stalled' = ~stalled
  /\ UNCHANGED <<link, alive, probed, status, phase, elapsed, reached>>

NodeDies ==
  /\ alive
  /\ alive' = FALSE
  /\ UNCHANGED <<link, stalled, probed, status, phase, elapsed, reached>>

NodeStarts ==
  /\ ~alive
  /\ alive' = TRUE /\ stalled' = FALSE /\ probed' = FALSE
  /\ found' = FALSE /\ lastAttempt' = Cap /\ timeDiff' = Cap
  /\ phase' = "probe" /\ elapsed' = 0 /\ reached' = Cap
  /\ UNCHANGED link

Next ==
  \/ \E ok \in BOOLEAN : StoreStatus(ok)
  \/ Wake \/ Tick \/ OtherProbe \/ LinkChanges \/ MxChanges \/ NodeDies \/ NodeStarts

Spec == Init /\ [][Next]_vars

\* Time passes and the goroutine of the monitor runs.
LiveSpec ==
  Spec /\ WF_vars(Tick) /\ WF_vars(Wake) /\ WF_vars(\E ok \in BOOLEAN : StoreStatus(ok))

-----------------------------------------------------------------------------
(* The question of the controller, which changes no state.                 *)

\* QueryArrayStatus: no answer of the node, or a status without an entry, is an error and
\* reported as not connected.
QueryArrayStatus ==
  /\ alive /\ found
  /\ lastAttempt <= tolerance * 2
  /\ timeDiff <= tolerance + Leeway

\* ValidateVolumeHostConnectivity for an NVMe node.
Connected == QueryArrayStatus

-----------------------------------------------------------------------------
(* Properties.                                                             *)

\* An array is reported connected only if requireProbe succeeded on the running plugin of
\* the node within three polling periods and the leeway: a monitor that hangs, a node
\* that died or restarted, and an array that was never reached are told apart in time.
ConnectedIsRecent == Connected => reached <= 3 * tolerance + Leeway

\* An array that the node reaches is reported connected in the end, and stays so: the
\* monitor stores its status often enough for the check of QueryArrayStatus.
StaysConnected == <>[](alive /\ link /\ ~stalled) => <>[]Connected
=============================================================================
