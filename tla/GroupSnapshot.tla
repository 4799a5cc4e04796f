-------------------------- MODULE GroupSnapshot --------------------------
(***************************************************************************)
(* Volume group snapshots: CreateVolumeGroupSnapshot, buildSnapshotDefs,   *)
(* checkIdempotency and buildCreateVGSResponse                             *)
(* (service/csi_extension_server.go), on one array.                        *)
(*                                                                         *)
(* A request names a group and its source volumes; the snapshot of the     *)
(* i-th source is called after the group and i.  The array takes all       *)
(* snapshots of a group at once, or none.  A request is repeated until it  *)
(* is answered, while an earlier call of it may still run; before it       *)
(* creates anything the driver looks for the snapshots one by one, to      *)
(* answer with the group an earlier call has made.  Meanwhile other        *)
(* requests come, snapshots are deleted, the array does not answer or its  *)
(* answer is lost, and the controller dies.                                *)
(***************************************************************************)
EXTENDS Naturals, Sequences, SequencesExt, FiniteSets

CONSTANTS
  Requests,    \* the requests, as records [name, sources]
  Calls,       \* the calls at a time
  NoRequest,
  MaxFaults,   \* bound: faults of the array, deaths of the controller
  MaxDeletes   \* bound: snapshots deleted

VARIABLES
  snaps,       \* array: its snapshots, as records [name, index, source, group]
  groups,      \* array: the number of groups ever made
  pc, req,     \* of a call: the step, the request
  found,       \* of a call: the snapshots found so far
  made,        \* of a call: the group it created, or 0
  answers,     \* history: what the callers were told, pairs <<request, group>>
  faults, deletes

calls == <<pc, req, found, made>>
vars == <<snaps, groups, calls, answers, faults, deletes>>

PCs == {"idle", "defs", "query", "decide", "count", "list", "create", "response"}
Snapshots == UNION {{[name |-> r.name, index |-> i, source |-> r.sources[i], group |-> g] :
                        i \in DOMAIN r.sources, g \in 1 .. groups} : r \in Requests}

\* Every variable has its type, and no two snapshots have one name.
TypeOK ==
  /\ snaps \subseteq Snapshots
  /\ \A s, t \in snaps : s.name = t.name /\ s.index = t.index => s = t
  /\ groups \in Nat
  /\ pc \in [Calls -> PCs] /\ req \in [Calls -> Requests \cup {NoRequest}]
  /\ \A c \in Calls : found[c] \in Seq({{}} \cup {{s} : s \in Snapshots})
  /\ made \in [Calls -> 0 .. groups] /\ answers \subseteq Requests \X (1 .. groups)
  /\ faults \in 0 .. MaxFaults /\ deletes \in 0 .. MaxDeletes

Init ==
  /\ snaps = {} /\ groups = 0
  /\ pc = [c \in Calls |-> "idle"] /\ req = [c \in Calls |-> NoRequest]
  /\ found = [c \in Calls |-> <<>>] /\ made = [c \in Calls |-> 0]
  /\ answers = {} /\ faults = 0 /\ deletes = 0

Goto(c, l) == pc' = [pc EXCEPT ![c] = l]
Fault == faults < MaxFaults /\ faults' = faults + 1

\* The call ends; with an error unless it is in answers.
Return(c) ==
  /\ Goto(c, "idle") /\ req' = [req EXCEPT ![c] = NoRequest]
  /\ found' = [found EXCEPT ![c] = <<>>] /\ made' = [made EXCEPT ![c] = 0]
Error(c) == Return(c) /\ UNCHANGED <<snaps, groups, answers, deletes>>
Answer(c, g) ==
  /\ Return(c) /\ answers' = answers \cup {<<req[c], g>>}
  /\ UNCHANGED <<snaps, groups, faults, deletes>>

Names(r) == {[name |-> r.name, index |-> i, source |-> r.sources[i]] : i \in DOMAIN r.sources}
NameOf(s) == [name |-> s.name, index |-> s.index, source |-> s.source]

-----------------------------------------------------------------------------
(* CreateVolumeGroupSnapshot.                                              *)

\* A request is sent, for the first time or again (external).
Call(c, r) ==
  /\ pc[c] = "idle"
  /\ Goto(c, "defs") /\ req' = [req EXCEPT ![c] = r]
  /\ UNCHANGED <<snaps, groups, found, made, answers, faults, deletes>>

\* Checks of the request and of the source volumes, which exist.
buildSnapshotDefs(c) ==
  /\ pc[c] = "defs"
  /\ \/ /\ Goto(c, "query")
        /\ UNCHANGED <<snaps, groups, req, found, made, answers, faults, deletes>>
     \/ Fault /\ Error(c)

\* The next snapshot is looked for by name and source.  An error counts as not found.
Query(c) ==
  /\ pc[c] = "query"
  /\ LET i == Len(found[c]) + 1
         hits == {s \in snaps : s.name = req[c].name /\ s.index = i /\ s.source = req[c].sources[i]}
     IN /\ \/ found' = [found EXCEPT ![c] = Append(@, hits)] /\ UNCHANGED faults
           \/ found' = [found EXCEPT ![c] = Append(@, {})] /\ Fault
        /\ Goto(c, IF i = Len(req[c].sources) THEN "decide" ELSE "query")
  /\ UNCHANGED <<snaps, groups, req, made, answers, deletes>>

\* Variant: snapshots that are there already are in the way.
NoneFound(c) == FALSE

AllFound(c) == {} \notin Range(found[c])

\* All are there or none is; anything else is an error.
Decide(c) ==
  /\ pc[c] = "decide"
  /\ \/ /\ AllFound(c) /\ Goto(c, "count")
        /\ UNCHANGED <<snaps, groups, req, found, made, answers, faults, deletes>>
     \/ /\ ~AllFound(c) /\ Range(found[c]) = {{}}
        /\ Goto(c, "create") /\ found' = [found EXCEPT ![c] = <<>>]
        /\ UNCHANGED <<snaps, groups, req, made, answers, faults, deletes>>
     \/ /\ ~AllFound(c) /\ Range(found[c]) # {{}}
        /\ UNCHANGED faults /\ Error(c)

\* The group of the snapshot found last.
GroupFound(c) ==
  LET hits == SelectSeq(found[c], LAMBDA h : h # {})
  IN (CHOOSE s \in hits[Len(hits)] : TRUE).group

\* Variant: the size of the group is not looked at.
CountUnchecked(c) ==
  /\ pc[c] = "count"
  /\ Goto(c, "list")
  /\ UNCHANGED <<snaps, groups, req, found, made, answers, faults, deletes>>

\* That group has as many snapshots as were found.  No list of the volumes is an error.
Count(c) ==
  /\ pc[c] = "count"
  /\ \/ /\ Cardinality({s \in snaps : s.group = GroupFound(c)}) = Len(found[c])
        /\ Goto(c, "list")
        /\ UNCHANGED <<snaps, groups, req, found, made, answers, faults, deletes>>
     \/ /\ Cardinality({s \in snaps : s.group = GroupFound(c)}) # Len(found[c])
        /\ UNCHANGED faults /\ Error(c)
     \/ Fault /\ Error(c)

\* The controller dies, with all its calls.
Die ==
  /\ pc' = [c \in Calls |-> "idle"] /\ req' = [c \in Calls |-> NoRequest]
  /\ found' = [c \in Calls |-> <<>>] /\ made' = [c \in Calls |-> 0]
  /\ UNCHANGED <<snaps, groups, answers, deletes>>

\* The snapshots found are listed for the answer.  One that cannot be listed is only
\* logged, and its missing entry is used: the controller panics.
ListFound(c) ==
  /\ pc[c] = "list"
  /\ \/ UNION Range(found[c]) \subseteq snaps /\ Answer(c, GroupFound(c))
     \/ ~(UNION Range(found[c]) \subseteq snaps) /\ UNCHANGED faults /\ Die
     \/ Fault /\ Die

\* The array takes the snapshots, unless one of the names is taken; its answer may be lost.
CreateSnapshotConsistencyGroup(c) ==
  /\ pc[c] = "create"
  /\ LET r == req[c]
         free == \A s \in snaps : s.name # r.name
         new == {[name |-> n.name, index |-> n.index, source |-> n.source, group |-> groups + 1] :
                   n \in Names(r)}
     IN \/ /\ free /\ snaps' = snaps \cup new /\ groups' = groups + 1
           /\ \/ /\ Goto(c, "response") /\ made' = [made EXCEPT ![c] = groups + 1]
                 /\ UNCHANGED <<req, found, faults>>
              \/ Fault /\ Return(c)
           /\ UNCHANGED <<answers, deletes>>
        \/ ~free /\ UNCHANGED faults /\ Error(c)
        \/ Fault /\ Error(c)

\* Each snapshot made is listed for the answer; one that cannot be is an error.
buildCreateVGSResponse(c) ==
  /\ pc[c] = "response"
  /\ LET there == {s \in snaps : s.group = made[c]}
     IN \/ {NameOf(s) : s \in there} = Names(req[c]) /\ Answer(c, made[c])
        \/ {NameOf(s) : s \in there} # Names(req[c]) /\ UNCHANGED faults /\ Error(c)
        \/ Fault /\ Error(c)

Step(c) ==
  \/ buildSnapshotDefs(c) \/ Query(c) \/ Decide(c) \/ Count(c) \/ ListFound(c)
  \/ CreateSnapshotConsistencyGroup(c) \/ buildCreateVGSResponse(c)

-----------------------------------------------------------------------------
(* The surroundings.                                                       *)

\* A snapshot is deleted: by DeleteSnapshot or by others (external).
Delete ==
  /\ deletes < MaxDeletes /\ deletes' = deletes + 1
  /\ \E s \in snaps : snaps' = snaps \ {s}
  /\ UNCHANGED <<groups, calls, answers, faults>>

Restart == Fault /\ Die

Next ==
  \/ \E c \in Calls : Step(c) \/ \E r \in Requests : Call(c, r)
  \/ Delete \/ Restart

Spec == Init /\ [][Next]_vars
LiveSpec ==
  /\ Spec /\ \A c \in Calls : WF_vars(Step(c))
  /\ \A r \in Requests : SF_vars(\E c \in Calls : Call(c, r))

-----------------------------------------------------------------------------
(* Properties.                                                             *)

\* Every snapshot of the request is there when its caller is told so, and the group the
\* caller is told holds these snapshots and no others, unless some were deleted: whichever
\* calls ran at the same time, although the driver looks for one snapshot after the other.
AnswerIsTheRequest ==
  [][\A a \in answers' \ answers :
       /\ Names(a[1]) \subseteq {NameOf(s) : s \in snaps}
       /\ deletes = 0 => {NameOf(s) : s \in {t \in snaps : t.group = a[2]}} = Names(a[1])]_vars

\* Unless snapshots are deleted, some request of a name that is sent again and again is
\* answered: a group whose creation the caller was not told of is found, not in the way.
EventuallyAnswered ==
  <>(deletes > 0) \/ \A r \in Requests : <>(\E a \in answers : a[1].name = r.name)
=============================================================================
