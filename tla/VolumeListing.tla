-------------------------- MODULE VolumeListing --------------------------
(***************************************************************************)
(* The lists of volumes and snapshots, page by page: ListVolumes,          *)
(* ListSnapshots, listVolumes and clearCache (service/controller.go), for  *)
(* one array.                                                              *)
(*                                                                         *)
(* A caller asks for a page of at most maxEntries entries from a token on, *)
(* the number of entries before it.  The first page is fetched from the    *)
(* array and cached; the later ones are cut from the caches, which every   *)
(* operation of the driver that creates or deletes a volume clears         *)
(* afterwards.  Callers run at the same time, and whoever else uses the    *)
(* array changes it behind the driver's back.                              *)
(***************************************************************************)
EXTENDS Naturals, Sequences, SequencesExt, FiniteSets

CONSTANTS
  Callers,     \* those who list
  Kinds,       \* what a caller lists: "volumes", "both" or "snapshots"
  Vols, Snaps, \* the volumes and snapshots there may be
  MaxEntries,  \* the page sizes asked for; 0 is no limit
  MaxChanges   \* bound: changes of the array

VARIABLES
  volumes, snapshots,   \* array: its volumes and snapshots, in the order it lists them
  volCache, snapCache,  \* driver: the caches
  uncleared,   \* driver: an operation has changed the array and not yet cleared the caches
  pc, kind, max,  \* of a caller: the step, what it lists, the page size
  token,       \* of a caller: the token of the page it asks for
  sioVols, sioSnaps,    \* of a caller: the entries its call works with
  got,         \* of a caller: the entries of its pages
  first,       \* of a caller: the lists of its first page, <<volumes, snapshots>>
  undisturbed, \* the callers whose lists are still in the caches
  changes

array == <<volumes, snapshots>>
caches == <<volCache, snapCache>>
calls == <<pc, kind, max, token, sioVols, sioSnaps, got, first>>
vars == <<array, caches, uncleared, calls, undisturbed, changes>>

PCs == {"idle", "volumes", "cachevolumes", "snapshots", "cachesnapshots", "page", "between", "done"}

\* Every variable has its type, and no list names an entry twice.
TypeOK ==
  /\ volumes \in Seq(Vols) /\ IsInjective(volumes)
  /\ snapshots \in Seq(Snaps) /\ IsInjective(snapshots)
  /\ volCache \in Seq(Vols) /\ snapCache \in Seq(Snaps) /\ uncleared \in BOOLEAN
  /\ pc \in [Callers -> PCs] /\ kind \in [Callers -> Kinds] /\ max \in [Callers -> MaxEntries]
  /\ token \in [Callers -> Nat]
  /\ sioVols \in [Callers -> Seq(Vols)] /\ sioSnaps \in [Callers -> Seq(Snaps)]
  /\ \A c \in Callers : got[c] \in Seq(Vols \cup Snaps)
  /\ undisturbed \subseteq Callers /\ changes \in 0 .. MaxChanges

Init ==
  /\ volumes \in {SetToSeq(Vols), SetToSeq(Vols \ {CHOOSE v \in Vols : TRUE})}
  /\ snapshots = SetToSeq(Snaps)
  /\ volCache = <<>> /\ snapCache = <<>> /\ uncleared = FALSE
  /\ pc = [c \in Callers |-> "idle"] /\ kind \in [Callers -> Kinds] /\ max \in [Callers -> MaxEntries]
  /\ token = [c \in Callers |-> 0]
  /\ sioVols = [c \in Callers |-> <<>>] /\ sioSnaps = [c \in Callers |-> <<>>]
  /\ got = [c \in Callers |-> <<>>] /\ first = [c \in Callers |-> <<>>]
  /\ undisturbed = {} /\ changes = 0

Goto(c, l) == pc' = [pc EXCEPT ![c] = l]
doVols(c) == kind[c] # "snapshots"
doSnaps(c) == kind[c] # "volumes"

-----------------------------------------------------------------------------
(* A call: listVolumes.                                                    *)

\* A caller asks for the first page, or for the next one with the token it got.
Call(c) ==
  /\ pc[c] \in {"idle", "between"}
  /\ Goto(c, IF doVols(c) THEN "volumes" ELSE "snapshots")
  /\ UNCHANGED <<array, caches, uncleared, kind, max, token, sioVols, sioSnaps, got, first,
                 undisturbed, changes>>

FromCache(c, cache) == token[c] # 0 /\ Len(cache) > 0

\* The caches hold the lists of the caller's first page.
Holds(c, vc, sc) ==
  /\ doVols(c) => vc = first[c][1]
  /\ doSnaps(c) => sc = first[c][2]

\* The callers whose lists the caches still hold after one of by's calls changes them.
Disturb(by) == undisturbed' = {c \in undisturbed : c \in by \/ Holds(c, volCache', snapCache')}

GetVolumes(c) ==
  /\ pc[c] = "volumes"
  /\ LET hit == FromCache(c, volCache)
     IN /\ sioVols' = [sioVols EXCEPT ![c] = IF hit THEN volCache ELSE volumes]
        /\ Goto(c, CASE ~hit -> "cachevolumes"
                     [] hit /\ doSnaps(c) -> "snapshots"
                     [] OTHER -> "page")
  /\ UNCHANGED <<array, caches, uncleared, kind, max, token, sioSnaps, got, first,
                 undisturbed, changes>>

\* An empty list is not cached.
CacheVolumes(c) ==
  /\ pc[c] = "cachevolumes"
  /\ volCache' = IF sioVols[c] # <<>> THEN sioVols[c] ELSE volCache
  /\ UNCHANGED snapCache /\ Disturb({c})
  /\ Goto(c, IF doSnaps(c) THEN "snapshots" ELSE "page")
  /\ UNCHANGED <<array, uncleared, kind, max, token, sioVols, sioSnaps, got, first, changes>>

GetSnapshots(c) ==
  /\ pc[c] = "snapshots"
  /\ LET hit == FromCache(c, snapCache)
     IN /\ sioSnaps' = [sioSnaps EXCEPT ![c] = IF hit THEN snapCache ELSE snapshots]
        /\ Goto(c, IF hit THEN "page" ELSE "cachesnapshots")
  /\ UNCHANGED <<array, caches, uncleared, kind, max, token, sioVols, got, first,
                 undisturbed, changes>>

CacheSnapshots(c) ==
  /\ pc[c] = "cachesnapshots"
  /\ snapCache' = IF sioSnaps[c] # <<>> THEN sioSnaps[c] ELSE snapCache
  /\ UNCHANGED volCache /\ Disturb({c})
  /\ Goto(c, "page")
  /\ UNCHANGED <<array, uncleared, kind, max, token, sioVols, sioSnaps, got, first, changes>>

\* The array does not answer: the call is an error, and the caller repeats it some time.
Fail(c) ==
  /\ pc[c] \in {"volumes", "snapshots"}
  /\ Goto(c, IF token[c] = 0 THEN "idle" ELSE "between")
  /\ sioVols' = [sioVols EXCEPT ![c] = <<>>]
  /\ UNCHANGED <<array, caches, uncleared, kind, max, token, sioSnaps, got, first,
                 undisturbed, changes>>

\* Variant: the next token is one too far.
NextTokenPast(start, n) == start + n + 1

NextToken(start, n) == start + n

Finish(c) ==
  /\ Goto(c, "idle")
  /\ token' = [token EXCEPT ![c] = 0] /\ got' = [got EXCEPT ![c] = <<>>]
  /\ first' = [first EXCEPT ![c] = <<>>] /\ undisturbed' = undisturbed \ {c}

\* The lists are joined and the page is cut out.  A token beyond the end is an error; the
\* last page has no next token.  Then the caller is done, and starts over some time.
Page(c) ==
  /\ pc[c] = "page"
  /\ LET all == sioVols[c] \o sioSnaps[c]
         rem == Len(all) - token[c]
         n == IF max[c] = 0 \/ max[c] > rem THEN rem ELSE max[c]
         next == NextToken(token[c], n)
     IN IF token[c] > Len(all) THEN Finish(c)
        ELSE /\ got' = [got EXCEPT ![c] = @ \o SubSeq(all, token[c] + 1, token[c] + n)]
             /\ first' = [first EXCEPT ![c] = IF token[c] = 0 THEN <<sioVols[c], sioSnaps[c]>> ELSE @]
             /\ undisturbed' = undisturbed \cup
                  {d \in {c} : /\ token[c] = 0
                               /\ doVols(c) => volCache = sioVols[c] /\ volCache # <<>>
                               /\ doSnaps(c) => snapCache = sioSnaps[c] /\ snapCache # <<>>}
             /\ IF next < Len(all) THEN Goto(c, "between") /\ token' = [token EXCEPT ![c] = next]
                ELSE Goto(c, "done") /\ UNCHANGED token
  /\ sioVols' = [sioVols EXCEPT ![c] = <<>>] /\ sioSnaps' = [sioSnaps EXCEPT ![c] = <<>>]
  /\ UNCHANGED <<array, caches, uncleared, kind, max, changes>>

Done(c) ==
  /\ pc[c] = "done" /\ Finish(c)
  /\ UNCHANGED <<array, caches, uncleared, kind, max, sioVols, sioSnaps, changes>>

-----------------------------------------------------------------------------
(* The array changes.                                                      *)

\* A volume or snapshot comes to the end of a list or goes (external).
Change ==
  /\ changes < MaxChanges /\ changes' = changes + 1
  /\ \/ \E v \in Vols \ Range(volumes) : volumes' = Append(volumes, v) /\ UNCHANGED snapshots
     \/ \E v \in Range(volumes) : volumes' = Remove(volumes, v) /\ UNCHANGED snapshots
     \/ \E x \in Snaps \ Range(snapshots) : snapshots' = Append(snapshots, x) /\ UNCHANGED volumes
     \/ \E x \in Range(snapshots) : snapshots' = Remove(snapshots, x) /\ UNCHANGED volumes
  /\ uncleared' \in {uncleared, TRUE}
  /\ UNCHANGED <<caches, calls, undisturbed>>

clearCache ==
  /\ uncleared
  /\ uncleared' = FALSE /\ volCache' = <<>> /\ snapCache' = <<>>
  /\ Disturb({})
  /\ UNCHANGED <<array, calls, changes>>

Next ==
  \/ \E c \in Callers : \/ Call(c) \/ GetVolumes(c) \/ CacheVolumes(c) \/ GetSnapshots(c)
                        \/ CacheSnapshots(c) \/ Fail(c) \/ Page(c) \/ Done(c)
  \/ Change \/ clearCache

Spec == Init /\ [][Next]_vars

-----------------------------------------------------------------------------
(* Properties.                                                             *)

\* As long as its lists stay in the caches, the pages of a caller make up the lists of its
\* first page: nothing is left out or listed twice, although the array changes meanwhile
\* and other calls go on.
PagesOfOneList ==
  \A c \in undisturbed :
    LET list == first[c][1] \o first[c][2]
    IN IsPrefix(got[c], list) /\ (pc[c] = "done" => got[c] = list)
=============================================================================
