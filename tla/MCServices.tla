---------------------------- MODULE MCServices ----------------------------
(***************************************************************************)
(* Controller services, for TLC: the clients of the arrays, or the volume  *)
(* group snapshots.  A behaviour is one of the two; the variables of the   *)
(* other stay as they are.                                                 *)
(***************************************************************************)
EXTENDS ArrayProbe, Sequences

CONSTANTS byName, byID, idOfName, v1, v2, c1, c2, NoRequest, MaxFaults, MaxDeletes

\* Two arrays, one configured by its name.  The secret is whole or cannot be read, and the
\* array with a name may be cut off.
MCIdOf(a) == idOfName
MCSecrets == {Arrays, {}}
MCNetworks == {Arrays, {byID}}

\* A group under whose name fewer sources are asked for as well.
GroupRequests == {[name |-> "g", sources |-> <<v1, v2>>], [name |-> "g", sources |-> <<v1>>]}

VARIABLES
  part,
  snaps, groups, groupPc, req, foundSnaps, madeGroup, answers, faults, deletes

Group == INSTANCE GroupSnapshot WITH
  Requests <- GroupRequests, Calls <- {c1, c2},
  pc <- groupPc, found <- foundSnaps, made <- madeGroup

groupVars == <<snaps, groups, groupPc, req, foundSnaps, madeGroup, answers, faults, deletes>>
partVars == <<part, vars, groupVars>>

PartInit ==
  /\ part \in {"probe", "group"}
  /\ Init /\ Group!Init
  /\ part # "probe" => up = Arrays

InProbe(step) == part = "probe" /\ step /\ UNCHANGED <<part, groupVars>>
InGroup(step) == part = "group" /\ step /\ UNCHANGED <<part, vars>>
PartNext == InProbe(Next) \/ InGroup(Group!Next)

\* The fairness of LiveSpec in each part.
PartSpec ==
  /\ PartInit /\ [][PartNext]_partVars
  /\ \A t \in Threads : SF_partVars(InProbe(Step(t)))
  /\ \A t \in Probers : WF_partVars(InProbe(StartProbe(t)))
  /\ SF_partVars(InProbe(Reload)) /\ WF_partVars(InProbe(Panics /\ Die))
  /\ WF_partVars(InProbe(Start))
  /\ \A c \in {c1, c2} : WF_partVars(InGroup(Group!Step(c)))
  /\ \A r \in GroupRequests : SF_partVars(InGroup(\E c \in {c1, c2} : Group!Call(c, r)))

\* See ArrayProbe: the probes of arrays that answer.
ArraysServed == part = "probe" => EventuallyServed

\* See GroupSnapshot: what CreateVolumeGroupSnapshot answers.
AnswerIsTheRequest == Group!AnswerIsTheRequest

\* See GroupSnapshot: the retries of CreateVolumeGroupSnapshot.
EventuallyAnswered == part = "group" => Group!EventuallyAnswered
=============================================================================
