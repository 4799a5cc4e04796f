---------------------------- MODULE MCNodeNvme ----------------------------
(***************************************************************************)
(* The node service beyond SDC mounts, for TLC: the probe of a node with   *)
(* an SDC, the monitor of an array's connectivity, the staging and         *)
(* publishing of a volume over NVMe, or an inline volume.  A behaviour is  *)
(* one of the four; the variables of the others stay as they are.          *)
(***************************************************************************)
EXTENDS Connectivity, InlineVolumeState

CONSTANTS Targets, VolumeTypes, Protocols, MaxFaults, a, b, Systems, Known, Probes, ModeChoices, MaxProbeFaults

\* A system that approves by GUID and one by address, or none that asks for approval.
MCModeChoices ==
  {[s \in {a, b} |-> IF s = a THEN "Guid" ELSE "ApprovedIp"],
   [s \in {a, b} |-> IF s = a THEN "None" ELSE "other"]}

VARIABLES
  part,
  type, attached, connected, dir, stage, nvmeTarget, nvmePod, stagedTold, nvmeTold, pc, t,
  back, devicePath, faults,
  inlinePc, caller, inlineFaults,
  approve, rename, mode, sdc, ips, named, systems, guid, connectedIDs, at, todo, now, scope,
  ready, torn, probeFaults

Nvme == INSTANCE NvmeNode WITH target <- nvmeTarget, pod <- nvmePod, told <- nvmeTold
Inline == INSTANCE InlineVolume WITH pc <- inlinePc, faults <- inlineFaults
Probing == INSTANCE NodeProbe WITH connected <- connectedIDs

nvmeVars == <<type, attached, connected, dir, stage, nvmeTarget, nvmePod, stagedTold, nvmeTold,
              pc, t, back, devicePath, faults>>
inlineVars == <<protocol, vol, mapped, staged, target, hostLock, volLock, pod, told,
                inlinePc, caller, inlineFaults>>
probeVars == <<approve, rename, mode, sdc, ips, named, systems, guid, connectedIDs, at, todo,
               now, scope, ready, torn, probeFaults>>
partVars == <<part, vars, nvmeVars, inlineVars, probeVars>>

PartInit ==
  /\ part \in {"monitor", "nvme", "inline", "probe"}
  /\ Init /\ Nvme!Init /\ Inline!Init /\ Probing!Init
  /\ part # "monitor" => link
  /\ part # "nvme" => type = "block"
  /\ part # "inline" => protocol = "SDC"
  /\ part # "probe" => ~approve /\ ~rename /\ mode[a] = "None"

InMonitor(step) == part = "monitor" /\ step /\ UNCHANGED <<part, nvmeVars, inlineVars, probeVars>>
InNvme(step) == part = "nvme" /\ step /\ UNCHANGED <<part, vars, inlineVars, probeVars>>
InInline(step) == part = "inline" /\ step /\ UNCHANGED <<part, vars, nvmeVars, probeVars>>
InProbe(step) == part = "probe" /\ step /\ UNCHANGED <<part, vars, nvmeVars, inlineVars>>
PartNext == InMonitor(Next) \/ InNvme(Nvme!Next) \/ InInline(Inline!Next) \/ InProbe(Probing!Next)

\* The fairness of LiveSpec in each part.
PartSpec ==
  /\ PartInit /\ [][PartNext]_partVars
  /\ WF_partVars(InMonitor(Tick)) /\ WF_partVars(InMonitor(Wake))
  /\ WF_partVars(InMonitor(\E ok \in BOOLEAN : StoreStatus(ok)))
  /\ WF_partVars(InNvme(Nvme!Attach)) /\ WF_partVars(InNvme(Nvme!Work))
  /\ SF_partVars(InNvme(Nvme!StartStage))
  /\ \A x \in Targets : /\ SF_partVars(InNvme(Nvme!StartPublish(x)))
                        /\ SF_partVars(InNvme(Nvme!StartUnpublish(x)))
  /\ WF_partVars(InInline(Inline!StartUnpublish)) /\ WF_partVars(InInline(Inline!Work))
  /\ \A p \in Probes : /\ WF_partVars(InProbe(Probing!Start(p, "ok")))
                       /\ WF_partVars(InProbe(Probing!Work(p)))
  /\ \A s \in Systems : /\ WF_partVars(InProbe(Probing!SystemProbed(s)))
                        /\ WF_partVars(InProbe(Probing!Register(s)))

\* See Connectivity: a node that reaches the array stays connected for QueryArrayStatus.
MonitorStaysConnected == part = "monitor" => StaysConnected

\* See NvmeNode: what Stage, publishNVMEVolume and unpublishNVMEVolume show a pod.
TargetsAsTold == Nvme!TargetsAsTold

\* See NvmeNode: the retries of Stage and NodePublishVolume.
EventuallyPublished == part = "nvme" => Nvme!EventuallyPublished

\* See InlineVolume: the retries of NodeUnpublishVolume.
EventuallyDeleted == part = "inline" => Inline!EventuallyDeleted

\* See NodeProbe: the retries of Probe.
EventuallyReady == part = "probe" => Probing!EventuallyReady
=============================================================================
