-------------------------- MODULE PairExpansion --------------------------
(***************************************************************************)
(* The expansion of a replicated volume: ControllerExpandVolume for block  *)
(* volumes (service/controller.go) and expandReplicationPair               *)
(* (service/service.go).                                                   *)
(*                                                                         *)
(* The volume is one of a pair, on two arrays, each with its own driver.   *)
(* The driver expands its own volume first and then, if its array is the   *)
(* source of the replication, calls ControllerExpandVolume for the other   *)
(* one, which looks at the direction again.  The calls of one side come    *)
(* one after the other, those of the two sides at any time.  Array calls   *)
(* fail or lose their answer, drivers die, and a failover turns the        *)
(* direction round.                                                        *)
(***************************************************************************)
EXTENDS Naturals

CONSTANTS
  Sides,       \* the two arrays, each with its driver
  Sizes,       \* the sizes, as validateVolSize rounds them
  MaxFaults,   \* bound: failed array calls, deaths of a driver
  MaxTurns     \* bound: changes of the direction

VARIABLES
  size,        \* arrays: the size of the volume on each side
  source,      \* arrays: the side the replication comes from
  pc, want, at,  \* of the call of a side: the step, the size asked for, the volume in hand
  told,        \* history: of a side, the largest size it was told of success with
  sourceWhenTold, \* history: of a side, whether it was the source then
  faults, turns

vars == <<size, source, pc, want, at, told, sourceWhenTold, faults, turns>>
calls == <<pc, want, at>>

\* Every variable has its type.
TypeOK ==
  /\ size \in [Sides -> Sizes] /\ source \in Sides
  /\ pc \in [Sides -> {"idle", "get", "set", "pair"}]
  /\ want \in [Sides -> Sizes] /\ at \in [Sides -> Sides]
  /\ told \in [Sides -> Sizes \cup {0}] /\ sourceWhenTold \in [Sides -> BOOLEAN]
  /\ faults \in 0 .. MaxFaults /\ turns \in 0 .. MaxTurns

Smallest == CHOOSE n \in Sizes : \A k \in Sizes : n <= k
Init ==
  /\ size = [s \in Sides |-> Smallest] /\ source \in Sides
  /\ pc = [s \in Sides |-> "idle"] /\ want = [s \in Sides |-> Smallest] /\ at = [s \in Sides |-> s]
  /\ told = [s \in Sides |-> 0] /\ sourceWhenTold = [s \in Sides |-> FALSE]
  /\ faults = 0 /\ turns = 0

Other(s) == CHOOSE t \in Sides : t # s
Goto(s, l) == pc' = [pc EXCEPT ![s] = l]

Return(s) ==
  /\ Goto(s, "idle") /\ at' = [at EXCEPT ![s] = s] /\ want' = [want EXCEPT ![s] = Smallest]

Fault == faults < MaxFaults /\ faults' = faults + 1
Error(s) == Return(s) /\ UNCHANGED <<size, source, told, sourceWhenTold, turns>>

\* Success, of the call and of the calls it was made for.
Success(s) ==
  /\ Return(s)
  /\ told' = [told EXCEPT ![s] = IF want[s] > @ THEN want[s] ELSE @]
  /\ sourceWhenTold' = [sourceWhenTold EXCEPT ![s] = (source = s)]
  /\ UNCHANGED <<size, source, faults, turns>>

-----------------------------------------------------------------------------
\* The resizer asks for a size, again if the last answer was an error (external).
Call(s) ==
  /\ pc[s] = "idle" /\ Goto(s, "get")
  /\ \E n \in Sizes : want' = [want EXCEPT ![s] = n]
  /\ UNCHANGED <<size, source, at, told, sourceWhenTold, faults, turns>>

\* The volume is read.  If it is as large as asked for or larger there is nothing to do.
GetVolume(s) ==
  /\ pc[s] = "get"
  /\ \/ want[s] <= size[at[s]] /\ Success(s)
     \/ /\ want[s] > size[at[s]] /\ Goto(s, "set")
        /\ UNCHANGED <<size, source, want, at, told, sourceWhenTold, faults, turns>>
     \/ Fault /\ Error(s)

\* The array refuses to make the volume smaller.  Its answer may be lost.
SetVolumeSize(s) ==
  /\ pc[s] = "set"
  /\ \/ /\ want[s] >= size[at[s]] /\ size' = [size EXCEPT ![at[s]] = want[s]]
        /\ \/ Goto(s, "pair") /\ UNCHANGED <<want, at, faults>>
           \/ Fault /\ Return(s)
        /\ UNCHANGED <<source, told, sourceWhenTold, turns>>
     \/ want[s] < size[at[s]] /\ UNCHANGED faults /\ Error(s)
     \/ Fault /\ Error(s)

\* Variant: the direction is taken the wrong way round.
LocalToRemoteReversed(s) == at[s] # source

LocalToRemote(s) == at[s] = source

\* The pair and its group are looked up.  From the source side the other volume is expanded
\* in the same way; from the other side the call is done.
expandReplicationPair(s) ==
  /\ pc[s] = "pair"
  /\ \/ /\ LocalToRemote(s) /\ at' = [at EXCEPT ![s] = Other(@)] /\ Goto(s, "get")
        /\ UNCHANGED <<size, source, want, told, sourceWhenTold, faults, turns>>
     \/ ~LocalToRemote(s) /\ Success(s)
     \/ Fault /\ Error(s)

\* The driver of a side dies.
Die(s) == pc[s] # "idle" /\ Fault /\ Error(s)

\* Failover and reprotect: the direction is turned round (external).
Turn ==
  /\ turns < MaxTurns /\ turns' = turns + 1
  /\ source' = Other(source)
  /\ UNCHANGED <<size, calls, told, sourceWhenTold, faults>>

Next ==
  \/ \E s \in Sides : Call(s) \/ GetVolume(s) \/ SetVolumeSize(s) \/ expandReplicationPair(s) \/ Die(s)
  \/ Turn

Spec == Init /\ [][Next]_vars

-----------------------------------------------------------------------------
(* Properties.                                                             *)

\* Whoever is told of a size has it: neither the volume nor, if nothing has failed and the
\* direction has stayed, its partner behind the source is smaller.
ToldIsExpanded ==
  \A s \in Sides :
    /\ size[s] >= told[s]
    /\ faults = 0 /\ turns = 0 /\ sourceWhenTold[s] => size[Other(s)] >= told[s]
=============================================================================
