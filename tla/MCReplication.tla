--------------------------- MODULE MCReplication ---------------------------
(***************************************************************************)
(* Replicated volumes and the lists of volumes, for TLC: the pairing and   *)
(* consistency groups, the expansion of a pair, or the lists page by page. *)
(* A behaviour is one of the three; the variables of the others stay as    *)
(* they are.                                                               *)
(***************************************************************************)
EXTENDS MCReplicationGroup, SequencesExt

CONSTANTS
  Sides, Sizes, MaxFaults, MaxTurns,
  Callers, Kinds, Vols, Snaps, MaxEntries, MaxChanges

VARIABLES
  part,
  size, source, pc, want, at, expandedTo, sourceWhenTold, faults, turns,
  volumes, snapshots, volCache, snapCache, uncleared, listPc, kind, max, token, sioVols,
  sioSnaps, got, first, undisturbed, changes

Pair == INSTANCE PairExpansion WITH told <- expandedTo
Listing == INSTANCE VolumeListing WITH pc <- listPc
pairVars == <<size, source, pc, want, at, expandedTo, sourceWhenTold, faults, turns>>
listVars == <<volumes, snapshots, volCache, snapCache, uncleared, listPc, kind, max, token,
              sioVols, sioSnaps, got, first, undisturbed, changes>>

PartInit ==
  /\ part \in {"groups", "pair", "list"}
  /\ Init /\ Pair!Init /\ Listing!Init
  /\ part # "pair" => source = CHOOSE s \in Sides : TRUE
  /\ part # "groups" => class \in Same
  /\ part # "list" => /\ kind = [c \in Callers |-> "both"] /\ volumes = SetToSeq(Vols)
                      /\ max = [c \in Callers |-> 1]

PartNext ==
  /\ UNCHANGED part
  /\ \/ part = "groups" /\ Next /\ UNCHANGED <<pairVars, listVars>>
     \/ part = "pair" /\ Pair!Next /\ UNCHANGED <<vars, listVars>>
     \/ part = "list" /\ Listing!Next /\ UNCHANGED <<vars, pairVars>>

PartSpec == PartInit /\ [][PartNext]_<<part, vars, pairVars, listVars>>

\* See PairExpansion: what ControllerExpandVolume and expandReplicationPair leave.
ToldIsExpanded == part = "pair" => Pair!ToldIsExpanded

\* See VolumeListing: the pages of listVolumes.
PagesOfOneList == part = "list" => Listing!PagesOfOneList
=============================================================================
