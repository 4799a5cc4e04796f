--------------------------- MODULE NodePublish ---------------------------
(***************************************************************************)
(* The node service of the PowerFlex CSI driver mounting one SDC volume    *)
(* for the pods of one node: NodePublishVolume and NodeUnpublishVolume     *)
(* (service/node.go) with publishVolume, unpublishVolume and their helpers *)
(* (service/mount.go).                                                     *)
(*                                                                         *)
(* A filesystem volume is mounted once at a private path and bind-mounted  *)
(* from there to the target path of each pod; a raw block volume is bound  *)
(* to each target directly.  Calls for one volume exclude each other (the  *)
(* serial volume access of gocsi, provider/provider.go), so at most one    *)
(* handler runs; between two of its steps kubelet may delete an unmounted  *)
(* target, the SDC may gain or lose the volume, the driver may crash and   *)
(* the node may reboot.  Every system call may fail.                       *)
(***************************************************************************)
EXTENDS Integers, FiniteSets

CONSTANTS
  Targets,    \* target paths, one for each pod that uses the volume
  Private,    \* the private mount point of the volume
  PodOf,      \* the pod ID in a target path, or NoPod
  NoPod,      \* a target path outside /var/lib/kubelet/pods
  Devs,       \* names of SDC devices (/dev/scinia, ...)
  NoDev,      \* the SDC does not expose the volume
  NoMount,    \* nothing is mounted at a path
  Setups      \* access mode and type, mountAllowRWOMultiPodAccess, read-only pods

AccessModes ==
  {"SINGLE_NODE_WRITER", "SINGLE_NODE_READER_ONLY", "SINGLE_NODE_SINGLE_WRITER",
   "SINGLE_NODE_MULTI_WRITER", "MULTI_NODE_READER_ONLY",
   "MULTI_NODE_SINGLE_WRITER", "MULTI_NODE_MULTI_WRITER"}

Paths == Targets \cup {Private}
Mount == [dev : Devs, opt : {"ro", "rw"}]

ASSUME ConstantsAssumption ==
  /\ Private \notin Targets
  /\ NoDev \notin Devs
  /\ NoMount \notin Mount
  /\ Setups \subseteq [mode : AccessModes, block : BOOLEAN, multiPod : BOOLEAN,
                        readers : SUBSET Targets]
  /\ DOMAIN PodOf = Targets

PCs == {"idle", "publish", "block", "private", "bind", "cleanup",
        "unpublish", "scan", "target", "unprivate", "blind", "remove"}
Outcomes == {"ok", "failed"}

VARIABLES
  setup,    \* how the volume is used and the driver configured
  dev,      \* the device the SDC exposes the volume as
  mnt,      \* the mount table: what is mounted at each path
  exists,   \* the paths that exist as directories or files
  pc,       \* where the running handler is
  tgt,      \* its target path
  ro,       \* its readonly flag
  used,     \* the device it has resolved
  drop,     \* unpublishVolume: privMntExist && !keepPrivMnt
  told,     \* kubelet: what it knows of each target
  blind,    \* history: since the last boot an unpublish went by without the device, or
            \* the volume came back under another name while it was mounted
  wiped     \* history: files of the volume were deleted through a mount

request == <<tgt, ro, used, drop>>
history == <<blind, wiped>>
vars == <<setup, dev, mnt, exists, pc, request, told, history>>

\* Kubelet has been told that a target is published read-only or read-write, has
\* been told that it is unpublished ("no"), or has called and knows neither.
Knowledge == {"no", "ro", "rw", "unsure"}

\* Every variable has its type.
TypeOK ==
  /\ setup \in Setups
  /\ dev \in Devs \cup {NoDev}
  /\ mnt \in [Paths -> Mount \cup {NoMount}]
  /\ exists \in SUBSET Paths
  /\ pc \in PCs
  /\ tgt \in Targets
  /\ ro \in BOOLEAN
  /\ used \in Devs \cup {NoDev}
  /\ drop \in BOOLEAN
  /\ told \in [Targets -> Knowledge]
  /\ blind \in BOOLEAN
  /\ wiped \in BOOLEAN

Init ==
  /\ setup \in Setups
  /\ dev \in Devs \cup {NoDev}
  /\ mnt = [x \in Paths |-> NoMount]
  /\ exists = {}
  /\ pc = "idle"
  /\ tgt \in Targets
  /\ ro = FALSE
  /\ used = NoDev
  /\ drop = FALSE
  /\ told = [t \in Targets |-> "no"]
  /\ blind = FALSE
  /\ wiped = FALSE

-----------------------------------------------------------------------------
(* Pure decisions of the code.                                             *)

singleAccessMode ==
  /\ ~setup.multiPod
  /\ setup.mode \in {"SINGLE_NODE_WRITER", "SINGLE_NODE_READER_ONLY",
                     "SINGLE_NODE_SINGLE_WRITER"}

\* validateVolumeCapability: the capabilities it refuses, and the option every
\* mount of the volume has to carry ("" for no requirement).
RefusedCapability == ~setup.block /\ setup.mode = "MULTI_NODE_MULTI_WRITER"

multiAccessFlag ==
  CASE setup.mode = "MULTI_NODE_READER_ONLY" -> "ro"
    [] setup.mode = "MULTI_NODE_MULTI_WRITER" -> "rw"
    [] setup.mode = "SINGLE_NODE_WRITER" /\ setup.multiPod /\ ~setup.block -> "rw"
    [] setup.mode = "SINGLE_NODE_READER_ONLY" /\ setup.multiPod /\ ~setup.block -> "ro"
    [] OTHER -> ""

\* The option an existing mount must have for the request to accept it.
rwo == IF ro THEN "ro" ELSE multiAccessFlag

Accepts(m) == rwo = "" \/ m.opt = rwo

\* handlePrivFSMount: reader modes mount read-only, writer modes format and
\* mount with the flags of the request, other modes are refused.
ReaderModes == {"SINGLE_NODE_READER_ONLY", "MULTI_NODE_READER_ONLY"}
WriterModes == {"SINGLE_NODE_WRITER", "SINGLE_NODE_SINGLE_WRITER",
                "SINGLE_NODE_MULTI_WRITER"}

PrivateOption == IF setup.mode \in ReaderModes \/ ro THEN "ro" ELSE "rw"

\* The option of a bind mount of m: it inherits that of its source.
BindOption(m) ==
  IF ro \/ setup.mode = "SINGLE_NODE_READER_ONLY" THEN "ro" ELSE m.opt

\* The SDC lists the volume, and the query for it succeeds (an
\* error of the query counts as an empty list).
getSDCMappedVol(o) == IF o = "ok" THEN dev ELSE NoDev

getDevMounts(d) == {x \in Paths : mnt[x] # NoMount /\ mnt[x].dev = d}

-----------------------------------------------------------------------------
(* The end of a handler, and its next step.                                *)

Return(reported) ==
  /\ pc' = "idle"
  /\ told' = reported
  /\ UNCHANGED <<setup, dev, request, history>>

Published == Return([told EXCEPT ![tgt] = IF ro THEN "ro" ELSE "rw"])
Failed == Return(told)
Unpublished == Return([told EXCEPT ![tgt] = "no"])

Goto(l) ==
  /\ pc' = l
  /\ UNCHANGED <<setup, dev, request, told, history>>

Keep == UNCHANGED <<mnt, exists>>

-----------------------------------------------------------------------------
(* NodePublishVolume.                                                      *)

\* Kubelet publishes the volume for a pod, for the first time or again.
StartPublish(t) ==
  /\ pc = "idle"
  /\ pc' = "publish"
  /\ tgt' = t
  /\ ro' = (t \in setup.readers)
  /\ used' = NoDev
  /\ told' = [told EXCEPT ![t] = IF @ = "no" THEN "unsure" ELSE @]
  /\ UNCHANGED <<setup, dev, mnt, exists, drop, history>>

\* The probe, getSDCMappedVol, GetDevice and validateVolumeCapability; then the
\* target is created.  When that fails the private mount is cleaned up.
Publish(o) ==
  /\ pc = "publish"
  /\ \/ /\ getSDCMappedVol(o) = NoDev \/ RefusedCapability
        /\ pc' = "idle"
        /\ UNCHANGED <<exists, used>>
     \/ /\ dev # NoDev
        /\ ~RefusedCapability
        /\ used' = dev
        /\ pc' = IF o = "failed" THEN "cleanup"
                 ELSE IF setup.block THEN "block" ELSE "private"
        /\ exists' = IF o = "failed" THEN exists ELSE exists \cup {tgt}
  /\ UNCHANGED <<setup, dev, mnt, tgt, ro, drop, told, history>>

\* Bind-mount the device of a raw block volume to the target.  A device the SDC
\* has lost meanwhile cannot be bound.
mountBlock(o) ==
  /\ pc = "block"
  /\ LET ms == getDevMounts(used)
     IN \/ /\ tgt \in ms
           /\ Published /\ Keep
        \/ /\ o = "failed" \/ dev # used \/ (singleAccessMode /\ ms # {})
           /\ tgt \notin ms
           /\ Failed /\ Keep
        \/ /\ o = "ok" /\ dev = used
           /\ tgt \notin ms
           /\ ~(singleAccessMode /\ ms # {})
           /\ mnt' = [mnt EXCEPT ![tgt] = [dev |-> used, opt |-> "rw"]]
           /\ exists' = exists \cup {tgt}
           /\ Published

\* Variant: a device that is mounted at its private mount point is good enough,
\* wherever else it is mounted.
AnyPrivateMountInPlace(ms) == Private \in ms /\ Accepts(mnt[Private])

\* The checks on a device that is already mounted.
PrivateMountInPlace(ms) ==
  /\ Private \in ms
  /\ Accepts(mnt[Private])
  /\ singleAccessMode => ms \subseteq {tgt, Private}

\* The private mount: made when the device is mounted nowhere and nothing else
\* is mounted at the private mount point, otherwise checked.
PrivateMount(o) ==
  /\ pc = "private"
  /\ LET ms == getDevMounts(used)
     IN \/ /\ o = "failed" \/ (ms = {} /\ mnt[Private] # NoMount)
                           \/ (ms # {} /\ ~PrivateMountInPlace(ms))
           /\ Failed /\ Keep
        \/ /\ ms # {} /\ PrivateMountInPlace(ms)
           /\ Goto("bind") /\ Keep
        \/ /\ ms = {} /\ mnt[Private] = NoMount
           /\ exists' = exists \cup {Private}
           /\ IF o = "ok" /\ dev = used /\ setup.mode \in ReaderModes \cup WriterModes
              THEN /\ mnt' = [mnt EXCEPT ![Private] = [dev |-> used, opt |-> PrivateOption]]
                   /\ Goto("bind")
              ELSE /\ UNCHANGED mnt
                   /\ Goto("cleanup")

\* The bind mount of the private mount to the target, after the target has been
\* created again in case kubelet removed it.
BindMount(o) ==
  /\ pc = "bind"
  /\ \/ /\ o = "failed" \/ (mnt[tgt] # NoMount /\ ~Accepts(mnt[tgt]))
        /\ Failed /\ Keep
     \/ /\ mnt[tgt] # NoMount /\ Accepts(mnt[tgt])
        /\ Published /\ Keep
     \/ /\ mnt[tgt] = NoMount
        /\ o = "failed"
        /\ \E made \in BOOLEAN : exists' = IF made THEN exists \cup {tgt} ELSE exists
        /\ UNCHANGED mnt
        /\ Goto("cleanup")
     \/ /\ mnt[tgt] = NoMount
        /\ o = "ok"
        /\ exists' = exists \cup {tgt}
        /\ mnt' = [mnt EXCEPT ![tgt] = [dev |-> mnt[Private].dev, opt |-> BindOption(mnt[Private])]]
        /\ Published

\* removeWithRetry on a path something is mounted at: os.Remove fails, and
\* os.RemoveAll deletes the files behind the mount.
Wipes(x) ==
  mnt[x] # NoMount /\ mnt[x].dev = dev /\ mnt[x].opt = "rw" /\ ~setup.block

\* cleanupPrivateTarget: the private mount goes when it is the only mount of the
\* device, its directory when the device has none.
cleanupPrivateTarget(o) ==
  /\ pc = "cleanup"
  /\ LET ms == getDevMounts(used)
         unmounted == IF ms = {Private} /\ o = "ok"
                      THEN [mnt EXCEPT ![Private] = NoMount] ELSE mnt
     IN /\ mnt' = unmounted
        /\ wiped' = (wiped \/ (ms = {} /\ Private \in exists /\ Wipes(Private)))
        /\ exists' = IF ms \subseteq {Private} /\ o = "ok" /\ unmounted[Private] = NoMount
                     THEN exists \ {Private} ELSE exists
  /\ pc' = "idle"
  /\ UNCHANGED <<setup, dev, request, told, blind>>

-----------------------------------------------------------------------------
(* NodeUnpublishVolume.                                                    *)

\* Kubelet unpublishes the volume from a pod, published or not.
StartUnpublish(t) ==
  /\ pc = "idle"
  /\ pc' = "unpublish"
  /\ tgt' = t
  /\ used' = NoDev
  /\ told' = [told EXCEPT ![t] = "unsure"]
  /\ UNCHANGED <<setup, dev, mnt, exists, ro, drop, history>>

\* The probe may fail.  When the SDC does not list the volume (it has lost it, or
\* the query failed) the handler cleans up without looking at the mount table.
Unpublish(o) ==
  /\ pc = "unpublish"
  /\ \/ /\ o = "failed"
        /\ pc' = "idle"
        /\ UNCHANGED <<used, blind>>
     \/ /\ getSDCMappedVol(o) = NoDev
        /\ pc' = "blind"
        /\ blind' = TRUE
        /\ UNCHANGED used
     \/ /\ getSDCMappedVol(o) # NoDev
        /\ pc' = "scan"
        /\ used' = getSDCMappedVol(o)
        /\ UNCHANGED blind
  /\ UNCHANGED <<setup, dev, mnt, exists, tgt, ro, drop, told, wiped>>

\* Variant: the private mount goes with the first target.
NoneKeepsPrivateMount(ms) == FALSE

\* Another pod uses the volume: a mount at a path with another pod's ID.
KeepPrivMnt(ms) ==
  \E x \in ms \ {Private, tgt} :
    PodOf[tgt] # NoPod /\ PodOf[x] # NoPod /\ PodOf[x] # PodOf[tgt]

\* Variant: without a mount at the target there is nothing to undo.
ScanTargetOnly(o) ==
  /\ pc = "scan"
  /\ LET ms == getDevMounts(used)
     IN /\ drop' = (Private \in ms /\ ~KeepPrivMnt(ms))
        /\ pc' = IF tgt \in ms THEN "target" ELSE "idle"
        /\ told' = IF tgt \in ms THEN told ELSE [told EXCEPT ![tgt] = "no"]
  /\ UNCHANGED <<setup, dev, mnt, exists, tgt, ro, used, history>>

\* unpublishVolume reads the mount table once and decides what to undo.
Scan(o) ==
  /\ pc = "scan"
  /\ LET ms == getDevMounts(used)
         last == Private \in ms /\ ~KeepPrivMnt(ms)
     IN \/ /\ o = "failed"
           /\ pc' = "idle"
           /\ UNCHANGED <<drop, told>>
        \/ /\ o = "ok"
           /\ drop' = last
           /\ pc' = IF tgt \in ms THEN "target" ELSE IF last THEN "unprivate" ELSE "idle"
           /\ told' = IF tgt \in ms \/ last THEN told ELSE [told EXCEPT ![tgt] = "no"]
  /\ UNCHANGED <<setup, dev, mnt, exists, tgt, ro, used, history>>

\* Unmount and remove the target; either may fail and end the handler.
UnmountTarget(o) ==
  /\ pc = "target"
  /\ \/ /\ o = "failed"
        /\ \/ Keep
           \/ mnt' = [mnt EXCEPT ![tgt] = NoMount] /\ UNCHANGED exists
        /\ Failed
     \/ /\ o = "ok"
        /\ mnt' = [mnt EXCEPT ![tgt] = NoMount]
        /\ exists' = exists \ {tgt}
        /\ IF drop THEN Goto("unprivate") ELSE Unpublished

\* unmountPrivMount reads the mount table again; a failure to remove the
\* directory is only logged.
unmountPrivMount(o) ==
  /\ pc = "unprivate"
  /\ \/ /\ o = "failed"
        /\ Failed /\ Keep
     \/ /\ Private \notin getDevMounts(used)
        /\ Unpublished /\ Keep
     \/ /\ o = "ok" /\ Private \in getDevMounts(used)
        /\ mnt' = [mnt EXCEPT ![Private] = NoMount]
        /\ \E removed \in BOOLEAN : exists' = IF removed THEN exists \ {Private} ELSE exists
        /\ Unpublished

\* The cleanup without a device: a failure to unmount is only logged.
BlindUnmount(o) ==
  /\ pc = "blind"
  /\ mnt' = IF o = "ok" THEN [mnt EXCEPT ![tgt] = NoMount] ELSE mnt
  /\ UNCHANGED exists
  /\ Goto("remove")

\* Then the target is removed, files behind a mount included, and success is
\* reported whatever happened.
BlindRemove(o) ==
  /\ pc = "remove"
  /\ wiped' = (wiped \/ Wipes(tgt))
  /\ exists' = IF o = "ok" /\ mnt[tgt] = NoMount THEN exists \ {tgt} ELSE exists
  /\ pc' = "idle"
  /\ told' = [told EXCEPT ![tgt] = "no"]
  /\ UNCHANGED <<setup, dev, mnt, request, blind>>

-----------------------------------------------------------------------------
(* The node around the driver.                                             *)

\* The controller maps the volume to this node or unmaps it (external).  A
\* volume that comes back may get another device name.
Attach(d) ==
  /\ dev = NoDev
  /\ dev' = d
  /\ blind' = (blind \/ \E x \in Paths : mnt[x] # NoMount /\ mnt[x].dev # d)
  /\ UNCHANGED <<setup, mnt, exists, pc, request, told, wiped>>

Detach ==
  /\ dev # NoDev
  /\ dev' = NoDev
  /\ UNCHANGED <<setup, mnt, exists, pc, request, told, history>>

\* Kubelet removes a target it no longer waits for (external).
KubeletRemoves(t) ==
  /\ t \in exists
  /\ mnt[t] = NoMount
  /\ exists' = exists \ {t}
  /\ UNCHANGED <<setup, dev, mnt, pc, request, told, history>>

\* The driver's pod is restarted: the handler is gone, the mounts stay.
Crash ==
  /\ pc # "idle"
  /\ pc' = "idle"
  /\ UNCHANGED <<setup, dev, mnt, exists, request, told, history>>

\* The node reboots: mounts and pods are gone, directories stay.
Reboot ==
  /\ pc' = "idle"
  /\ mnt' = [x \in Paths |-> NoMount]
  /\ told' = [t \in Targets |-> "no"]
  /\ blind' = FALSE
  /\ UNCHANGED <<setup, dev, exists, request, wiped>>

Start ==
  \E t \in Targets : StartPublish(t) \/ StartUnpublish(t)

Step(o) ==
  \/ Publish(o) \/ mountBlock(o) \/ PrivateMount(o) \/ BindMount(o)
  \/ cleanupPrivateTarget(o) \/ Unpublish(o) \/ Scan(o) \/ UnmountTarget(o)
  \/ unmountPrivMount(o) \/ BlindUnmount(o) \/ BlindRemove(o)

Environment ==
  \/ Detach
  \/ \E d \in Devs : Attach(d)
  \/ \E t \in Targets : KubeletRemoves(t)
  \/ Crash
  \/ Reboot

Next == Start \/ (\E o \in Outcomes : Step(o)) \/ Environment

Spec == Init /\ [][Next]_vars

-----------------------------------------------------------------------------
(* Properties.                                                             *)

\* A volume for single access is mounted at one target at most, counting the
\* mounts of one device: publishVolume and mountBlock refuse the second pod,
\* whatever failed or crashed before.
OnePodAtATime ==
  singleAccessMode =>
    \A d \in Devs : Cardinality(getDevMounts(d) \cap Targets) <= 1

\* What kubelet was told is published is mounted, read-only if it asked for
\* that, until it asks to unpublish it or the node reboots: cleaning up after one
\* pod never takes the mount of another.
PublishedIsMounted ==
  \A t \in Targets : told[t] \in {"ro", "rw"} =>
    /\ mnt[t] # NoMount
    /\ told[t] = "ro" /\ ~setup.block => mnt[t].opt = "ro"

\* As long as some pod has the filesystem mounted, the private mount of the same
\* device is in place: unpublishVolume and cleanupPrivateTarget leave it to the
\* last pod, so that a further publishVolume does not find the device "mounted
\* elsewhere".
PrivateMountBacksTargets ==
  ~setup.block =>
    \A t \in Targets : mnt[t] # NoMount =>
      mnt[Private] # NoMount /\ mnt[Private].dev = mnt[t].dev

\* The mounts that publishVolume answered for are there, the private one below them.
MountsAsTold == PublishedIsMounted /\ PrivateMountBacksTargets

\* Once kubelet has been told that every target it ever tried is unpublished,
\* nothing of the volume is mounted, the private mount included, whatever failed
\* or crashed on the way; except after an unpublish for which the SDC did not list
\* the volume, or after the volume came back under another name.
NothingLeftBehind ==
  ~blind /\ pc = "idle" /\ (\A t \in Targets : told[t] = "no") =>
    \A x \in Paths : mnt[x] = NoMount

\* What the comment in NodeUnpublishVolume promises for a volume the SDC does not
\* list ("dont cleanup pvtMount in case it is in use elsewhere on the node"): the
\* files of a volume that is still attached and mounted are left alone.
FilesSurvive == ~wiped
=============================================================================
