----------------------------- MODULE NodeProbe -----------------------------
(***************************************************************************)
(* The probe of a node with an SDC: nodeProbe with approveSDC, renameSDC   *)
(* and getSystemsKnownToSDC (service/node.go).                             *)
(*                                                                         *)
(* Probe of the identity service, NodeGetInfo and NodeExpandVolume call it *)
(* at any time and in parallel, without a lock around the GUID and the     *)
(* list of connected systems they share.  A call of the host or of an      *)
(* array is answered ("ok"), fails ("failed") or is done and its answer    *)
(* lost ("lost"); everything is tried again by the next probe.             *)
(*                                                                         *)
(* A system is one element here, under whatever ID or names the driver     *)
(* knows it; getSystemName, which adds the names of the systems to the     *)
(* list of their IDs, therefore adds none.                                 *)
(***************************************************************************)
EXTENDS Naturals

CONSTANTS
  Systems,     \* the arrays
  Known,       \* those the SDC of the node is configured for
  Probes,      \* the calls of nodeProbe
  ModeChoices, \* what RestrictedSdcMode may be, by system
  MaxProbeFaults    \* bound: failures

VARIABLES
  approve,    \* opts.IsApproveSDCEnabled
  rename,     \* opts.IsSdcRenameEnabled
  mode,       \* arrays: RestrictedSdcMode
  sdc,        \* arrays: whether the SDC is absent, known or approved
  ips,        \* arrays: those with the approved addresses of the node
  named,      \* arrays: those with the name of the node
  systems,    \* driver: the systems found by systemProbe
  guid,       \* driver: opts.SdcGUID is set
  connected,  \* driver: connectedSystemID
  at,         \* driver: the place of each probe
  todo,       \* driver: the systems its loop has still to visit
  now,        \* driver: the system its loop is at
  scope,      \* driver: the systems its first loop visits
  ready,      \* the systems a probe has answered ready for
  torn,       \* a list of systems in use was taken away
  probeFaults \* failures so far

config == <<approve, rename, mode>>
array == <<sdc, ips, named>>
loops == <<todo, now, scope>>
vars == <<config, array, systems, guid, connected, at, loops, ready, torn, probeFaults>>

Modes == {"None", "Guid", "ApprovedIp", "other"}
Places == {"idle", "guid", "approve", "grant", "address", "query", "ask", "begin", "rename",
           "name", "check", "mkdir"}
Outcomes == {"ok", "failed", "lost"}

\* Every variable has its type.
TypeOK ==
  /\ approve \in BOOLEAN /\ rename \in BOOLEAN /\ mode \in [Systems -> Modes]
  /\ sdc \in [Systems -> {"absent", "known", "approved"}] /\ ips \subseteq Systems /\ named \subseteq Systems
  /\ systems \subseteq Systems /\ guid \in BOOLEAN /\ connected \subseteq Known
  /\ at \in [Probes -> Places] /\ todo \in [Probes -> SUBSET Systems]
  /\ now \in [Probes -> SUBSET Systems] /\ scope \in [Probes -> SUBSET Systems]
  /\ ready \subseteq Systems /\ torn \in BOOLEAN /\ probeFaults \in 0 .. MaxProbeFaults

Init ==
  /\ approve \in BOOLEAN /\ rename \in BOOLEAN /\ mode \in ModeChoices
  /\ sdc = [s \in Systems |-> "absent"] /\ ips = {} /\ named = {}
  /\ systems = {} /\ guid = FALSE /\ connected = {}
  /\ at = [p \in Probes |-> "idle"]
  /\ todo = [p \in Probes |-> {}] /\ now = [p \in Probes |-> {}] /\ scope = [p \in Probes |-> {}]
  /\ ready = {} /\ torn = FALSE /\ probeFaults = 0

Fault(o) == probeFaults' = probeFaults + (IF o = "ok" THEN 0 ELSE 1) /\ probeFaults' <= MaxProbeFaults
Go(p, l) == at' = [at EXCEPT ![p] = l]

\* nodeProbe returns: with an error, or for the systems it has been through.
Fail(p) == /\ Go(p, "idle")
           /\ todo' = [todo EXCEPT ![p] = {}] /\ now' = [now EXCEPT ![p] = {}]
           /\ scope' = [scope EXCEPT ![p] = {}] /\ UNCHANGED ready
Ready(p, done) == /\ Go(p, "idle") /\ ready' = ready \cup done
                  /\ todo' = [todo EXCEPT ![p] = {}] /\ now' = [now EXCEPT ![p] = {}]
                  /\ scope' = [scope EXCEPT ![p] = {}]

\* The next step of a probe, which is in one of its loops or not.
Step(p, l) == Go(p, l) /\ UNCHANGED <<loops, ready>>
Visit(p, s, l) == /\ Go(p, l) /\ now' = [now EXCEPT ![p] = {s}]
                  /\ todo' = [todo EXCEPT ![p] = @ \ {s}] /\ UNCHANGED <<scope, ready>>

-----------------------------------------------------------------------------
(* nodeProbe.                                                              *)

\* Without the kernel module, or if lsmod fails, there is nothing to do.
Start(p, o) ==
  /\ at[p] = "idle" /\ Fault(o)
  /\ IF o = "ok" THEN Step(p, "guid") ELSE Ready(p, {})
  /\ UNCHANGED <<config, array, systems, guid, connected, torn>>

AfterGuid == IF approve THEN "approve" ELSE "query"

\* The GUID is asked for once.  Then the loop of approveSDC begins.
QueryGUID(p, o) ==
  /\ at[p] = "guid" /\ (guid => o = "ok") /\ Fault(o)
  /\ guid' = (guid \/ o = "ok")
  /\ IF o # "ok" THEN Fail(p)
     ELSE /\ Go(p, AfterGuid) /\ scope' = [scope EXCEPT ![p] = systems]
          /\ todo' = [todo EXCEPT ![p] = systems] /\ UNCHANGED <<now, ready>>
  /\ UNCHANGED <<config, array, systems, connected, torn>>

-----------------------------------------------------------------------------
(* approveSDC.                                                             *)

\* Variant: the SDC has to be found in every mode.
MayBeAbsentNever(s) == FALSE

\* In mode ApprovedIp the array may not know the SDC yet.
MayBeAbsent(s) == mode[s] = "ApprovedIp"

\* Variant: an SDC that is not found is left out.
FindSdcLenient(p, s, o) ==
  IF o # "ok" \/ sdc[s] \in {"absent", "approved"} \/ mode[s] \notin {"Guid", "ApprovedIp"}
  THEN Visit(p, s, "approve") ELSE Visit(p, s, "grant")

\* An approved SDC is left alone, and so is one in mode None.
FindSdc(p, s, o) ==
  LET found == o = "ok" /\ sdc[s] # "absent"
  IN CASE ~found /\ ~MayBeAbsent(s) -> Fail(p)
       [] found /\ sdc[s] = "approved" -> Visit(p, s, "approve")
       [] OTHER -> CASE mode[s] = "None" -> Visit(p, s, "approve")
                     [] mode[s] = "other" -> Fail(p)
                     [] OTHER -> Visit(p, s, "grant")

NextToApprove(p, o) ==
  /\ at[p] = "approve"
  /\ \/ \E s \in todo[p] : FindSdc(p, s, o) /\ Fault(o)
     \/ todo[p] = {} /\ o = "ok" /\ Step(p, "query") /\ UNCHANGED probeFaults
  /\ UNCHANGED <<config, array, systems, guid, connected, torn>>

ApproveSdc(p, o) ==
  /\ at[p] = "grant" /\ Fault(o)
  /\ \E s \in now[p] :
       /\ sdc' = IF o = "failed" THEN sdc ELSE [sdc EXCEPT ![s] = "approved"]
       /\ IF o # "ok" THEN Fail(p)
          ELSE Step(p, IF mode[s] = "ApprovedIp" THEN "address" ELSE "approve")
  /\ UNCHANGED <<config, ips, named, systems, guid, connected, torn>>

\* getNodeIP and SetApprovedIps.
SetApprovedIps(p, o) ==
  /\ at[p] = "address" /\ Fault(o)
  /\ ips' = IF o = "failed" THEN ips ELSE ips \cup now[p]
  /\ IF o # "ok" THEN Fail(p) ELSE Step(p, "approve")
  /\ UNCHANGED <<config, sdc, named, systems, guid, connected, torn>>

-----------------------------------------------------------------------------
(* getSystemsKnownToSDC and renameSDC.                                     *)

AfterQuery == IF rename THEN "begin" ELSE "mkdir"

\* The list is asked for as long as it is empty.
KnowsSystems(p) ==
  /\ at[p] = "query"
  /\ Step(p, IF connected = {} THEN "ask" ELSE AfterQuery)
  /\ UNCHANGED <<config, array, systems, guid, connected, torn, probeFaults>>

AfterAsk(p, o) == IF o = "ok" THEN Step(p, AfterQuery) ELSE Fail(p)

\* The answer is stored whatever it is: a query that fails empties the list, also one that
\* another probe has filled by now and is about to go through.
GetSystemsKnownToSDC(p, o) ==
  /\ at[p] = "ask" /\ Fault(o)
  /\ connected' = IF o = "ok" THEN Known ELSE {}
  /\ torn' = (torn \/ (o # "ok" /\ \E q \in Probes : at[q] = "begin"))
  /\ AfterAsk(p, o)
  /\ UNCHANGED <<config, array, systems, guid>>

BeginRename(p) ==
  /\ at[p] = "begin" /\ Go(p, "rename") /\ todo' = [todo EXCEPT ![p] = connected]
  /\ UNCHANGED <<config, array, systems, guid, connected, now, scope, ready, torn, probeFaults>>

\* A system that was not found by systemProbe is left out.
NextToRename(p, o) ==
  /\ at[p] = "rename"
  /\ \/ \E s \in todo[p] \ systems : o = "ok" /\ Visit(p, s, "rename") /\ UNCHANGED probeFaults
     \/ \E s \in todo[p] \cap systems :
          /\ Fault(o)
          /\ IF o # "ok" \/ sdc[s] = "absent" THEN Fail(p)
             ELSE Visit(p, s, IF s \in named THEN "rename" ELSE "name")
     \/ todo[p] = {} /\ o = "ok" /\ Step(p, "mkdir") /\ UNCHANGED probeFaults
  /\ UNCHANGED <<config, array, systems, guid, connected, torn>>

RenameSdc(p, o) ==
  /\ at[p] = "name" /\ Fault(o)
  /\ named' = IF o = "failed" THEN named ELSE named \cup now[p]
  /\ IF o = "ok" THEN Step(p, "check") ELSE Fail(p)
  /\ UNCHANGED <<config, sdc, ips, systems, guid, connected, torn>>

getSDCName(p, o) ==
  /\ at[p] = "check" /\ Fault(o)
  /\ IF o = "ok" THEN Step(p, "rename") ELSE Fail(p)
  /\ UNCHANGED <<config, array, systems, guid, connected, torn>>

\* The private directory is made.
MakePrivDir(p, o) ==
  /\ at[p] = "mkdir" /\ Fault(o)
  /\ IF o = "ok" THEN Ready(p, scope[p]) ELSE Fail(p)
  /\ UNCHANGED <<config, array, systems, guid, connected, torn>>

-----------------------------------------------------------------------------
(* The environment (external).                                             *)

\* systemProbe finds a system.
SystemProbed(s) ==
  /\ s \notin systems /\ systems' = systems \cup {s}
  /\ UNCHANGED <<config, array, guid, connected, at, loops, ready, torn, probeFaults>>

\* The SDC connects to an array, which in mode ApprovedIp it can only once approved.
Register(s) ==
  /\ s \in Known /\ sdc[s] = "absent" /\ mode[s] # "ApprovedIp"
  /\ sdc' = [sdc EXCEPT ![s] = "known"]
  /\ UNCHANGED <<config, ips, named, systems, guid, connected, at, loops, ready, torn, probeFaults>>

\* The plugin of the node dies.
Crash ==
  /\ Fault("failed")
  /\ systems' = {} /\ guid' = FALSE /\ connected' = {}
  /\ at' = [p \in Probes |-> "idle"]
  /\ todo' = [p \in Probes |-> {}] /\ now' = [p \in Probes |-> {}] /\ scope' = [p \in Probes |-> {}]
  /\ UNCHANGED <<config, array, ready, torn>>

Handler(p, o) ==
  \/ QueryGUID(p, o)
  \/ NextToApprove(p, o) \/ ApproveSdc(p, o) \/ SetApprovedIps(p, o)
  \/ GetSystemsKnownToSDC(p, o)
  \/ NextToRename(p, o) \/ RenameSdc(p, o) \/ getSDCName(p, o) \/ MakePrivDir(p, o)

Work(p) == KnowsSystems(p) \/ BeginRename(p) \/ \E o \in Outcomes : Handler(p, o)

Next ==
  \/ \E p \in Probes : Work(p) \/ \E o \in Outcomes : Start(p, o)
  \/ \E s \in Systems : SystemProbed(s) \/ Register(s)
  \/ Crash

Spec == Init /\ [][Next]_vars

\* The plugin is probed again and again, each probe goes on, the driver finds its systems
\* and the SDC connects.
LiveSpec ==
  /\ Spec
  /\ \A p \in Probes : WF_vars(Start(p, "ok")) /\ WF_vars(Work(p))
  /\ \A s \in Systems : WF_vars(SystemProbed(s)) /\ WF_vars(Register(s))

-----------------------------------------------------------------------------
(* Properties.                                                             *)

\* A probe that answers ready has had the SDC approved on every system the driver had
\* found when it began, where approval is on and the system asks for it, whatever failed
\* in earlier probes or runs beside it; with the addresses of the node in mode
\* ApprovedIp, if nothing has failed.
ReadyIsApproved ==
  approve => \A s \in ready :
    /\ mode[s] \in {"Guid", "ApprovedIp"} => sdc[s] = "approved"
    /\ mode[s] = "ApprovedIp" /\ probeFaults = 0 => s \in ips \/ \E p \in Probes : at[p] = "address" /\ s \in now[p]

\* A probe that answers ready has named the SDC on every system the driver had found and
\* the SDC knows, unless a failed query took the list of systems away beside it.
ReadyIsNamed == rename /\ ~torn => ready \cap Known \subseteq named

\* What Probe answers ready for is done.
ReadyIsDone == ReadyIsApproved /\ ReadyIsNamed

\* The SDC can be found where it has to be.
CanBeReady ==
  /\ approve => \A s \in Systems : mode[s] = "ApprovedIp" \/ (mode[s] \in {"None", "Guid"} /\ s \in Known)
  /\ rename => \A s \in Known : mode[s] # "ApprovedIp" \/ approve

\* After the last failure the node becomes ready for all its systems.
EventuallyReady == CanBeReady => <>(ready = Systems)
=============================================================================
