---------------------------- MODULE MCProvision ----------------------------
(* Small instances of Provision for TLC. *)
EXTENDS Provision, TLC

CONSTANTS t1, t2

Volume(n, pool, size, anc, cg) ==
  [name |-> <<n, None>>, pool |-> pool, size |-> size, anc |-> anc, cg |-> cg]
Claim(n, pool, size, source) ==
  [name |-> <<n, None>>, pool |-> pool, size |-> size, source |-> source]
SnapRequest(n, v, group) == [name |-> <<n, None>>, vol |-> v, group |-> group]

\* Two volumes, and a snapshot of the first.
MCInitVols ==
  (1 :> Volume("base", "p", 1, None, None)) @@ (2 :> Volume("other", "p", 1, None, None))
  @@ (3 :> Volume("snap", "p", 1, 1, 3))

\* Claims for empty volumes that have the same name after it was cut, and for copies
\* of a volume and of a snapshot.
MCClaims == {Claim("b", "p", 1, None), Claim("b", "p", 2, None),
             Claim("c", "p", 1, 1), Claim("d", "p", 1, 1), Claim("e", "p", 1, 3)}

\* Snapshots of two volumes under one name, and of a group.
MCSnapRequests == {SnapRequest("s", 1, {}), SnapRequest("s", 2, {}), SnapRequest("g", 1, {2})}

MCExpansions == {[vol |-> 1, size |-> 2], [vol |-> 1, size |-> 3]}

\* Volumes are created, copied and expanded while the source of a copy is removed, or
\* snapshots are made and deleted while one of their volumes is removed.
CreateSetup == [asked |-> MCClaims \cup MCExpansions, removable |-> {3}, exposable |-> {},
                cgDelete |-> FALSE, last |-> 5]
SnapSetup(cg) == [asked |-> MCSnapRequests, removable |-> {2}, exposable |-> {4},
                  cgDelete |-> cg, last |-> 6]
MCSetups == {CreateSetup, SnapSetup(TRUE), SnapSetup(FALSE)}
GroupSetups == {[asked |-> {SnapRequest("g", 1, {2})}, removable |-> {}, exposable |-> {},
                 cgDelete |-> TRUE, last |-> 6]}

ThreadSymmetry == Permutations(Threads)
=============================================================================
