------------------------- MODULE ArrayProbeProofs -------------------------
(***************************************************************************)
(* TLAPS proofs about ArrayProbe, for any arrays, names and threads.       *)
(*                                                                         *)
(* The lock of a system makes its probes exclude each other (Locked), so   *)
(* that what a probe has found out about the client of its system still    *)
(* holds at its next step (Owned).  The entries of a system, and those of  *)
(* the ID of a named one, therefore belong together (Entered), although    *)
(* they are read without a lock.                                           *)
(***************************************************************************)
EXTENDS ArrayProbe, TLAPS

Probing == {"check", "create", "login", "find", "alias"}

\* A thread that probes a system holds its lock.
Locked ==
  \A t \in Threads :
    /\ pc[t] = "require" => key[t] \in Keys
    /\ pc[t] = "lock" => key[t] \in Arrays
    /\ pc[t] \in Probing => key[t] \in Arrays /\ probeLocks[key[t]] = t

\* What a probe knows of the client of its system.
Owned ==
  \A t \in Threads :
    /\ pc[t] = "create" => adminClients[key[t]] = NoClient
    /\ pc[t] \in {"login", "find", "alias"} => adminClients[key[t]] # NoClient
    /\ pc[t] \in {"find", "alias"} => adminClients[key[t]] \in tokens

\* The entries of an array, and those under its ID if it is named.
Entered ==
  /\ \A a \in Arrays :
       /\ adminClients[a] # NoClient => adminClients[a][1] = a
       /\ a \in systems => adminClients[a] # NoClient /\ adminClients[a] \in tokens
  /\ \A n \in Named :
       /\ IdOf(n) \in systems <=> n \in systems
       /\ n \in systems => adminClients[IdOf(n)] = adminClients[n]
       /\ n \notin systems => adminClients[IdOf(n)] = NoClient

\* The types the argument needs.
Types ==
  /\ secret \in Secrets /\ arrays \subseteq Keys
  /\ adminClients \in [Keys -> Clients \cup {NoClient}] /\ systems \subseteq Keys
  /\ nameToID \subseteq Named /\ made \in [Arrays -> Nat]
  /\ probeLocks \in [Arrays -> Threads \cup {Free}]
  /\ pc \in [Threads -> PCs] /\ key \in [Threads -> Keys \cup {NoKey}]
  /\ todo \in [Threads -> SUBSET Arrays]

IInv == Types /\ Locked /\ Owned /\ Entered

-----------------------------------------------------------------------------
(* Keys and clients.                                                       *)

\* A key is an array or the ID of exactly one named array; ArrayOf tells which.
LEMMA KeysLemma ==
  /\ Arrays \subseteq Keys /\ Named \subseteq Arrays
  /\ \A n \in Named : IdOf(n) \in Keys \ Arrays /\ ArrayOf(IdOf(n)) = n
  /\ \A k \in Keys : ArrayOf(k) \in Arrays
  /\ \A a \in Arrays : ArrayOf(a) = a
  /\ \A k \in Keys : k \in Arrays \/ \E n \in Named : k = IdOf(n)
<1>1. ASSUME NEW n \in Named PROVE ArrayOf(IdOf(n)) = n
  <2>1. PICK m : m = CHOOSE a \in Named : IdOf(a) = IdOf(n)
    OBVIOUS
  <2>2. m \in Named /\ IdOf(m) = IdOf(n)
    BY <2>1
  <2> QED BY <2>1, <2>2, KeysAssumption DEF ArrayOf
<1> QED BY <1>1, KeysAssumption DEF Keys, ArrayOf

\* A client that CreateClient makes is one, of its array.
LEMMA ClientsLemma ==
  \A a \in Arrays, i \in Nat :
    <<a, i + 1>> \in Clients /\ <<a, i + 1>> # NoClient /\ <<a, i + 1>>[1] = a
  BY DEF Clients, NoClient

-----------------------------------------------------------------------------
(* The inductive invariant.                                                *)

LEMMA InitIInv == Init => IInv
<1> SUFFICES ASSUME Init PROVE IInv
  OBVIOUS
<1>1. Types
  BY KeysLemma, KeysAssumption DEF Init, Types, PCs
<1> QED BY <1>1, KeysLemma DEF Init, IInv, Locked, Owned, Entered, Probing

\* A step of a probe or of a request.
LEMMA StepIInv == \A t \in Threads : IInv /\ Step(t) => IInv'
<1> SUFFICES ASSUME NEW t \in Threads, IInv, Step(t) PROVE IInv'
  OBVIOUS
<1> USE KeysLemma DEF IInv, Goto, Leave, maps, locks, outside
<1>1. CASE LockMx(t)
  <2>1. Types'
    BY <1>1 DEF LockMx, Types, PCs
  <2>2. Locked'
    BY <1>1 DEF LockMx, Types, Locked, Probing
  <2>3. Owned'
    BY <1>1 DEF LockMx, Types, Owned
  <2>4. Entered'
    BY <1>1 DEF LockMx, Entered
  <2> QED BY <2>1, <2>2, <2>3, <2>4
<1>2. CASE LockSystem(t)
  <2>1. Types'
    BY <1>2 DEF LockSystem, Types, PCs, Locked
  <2>2. Locked'
    BY <1>2, KeysAssumption DEF LockSystem, Types, Locked
  <2>3. Owned'
    BY <1>2 DEF LockSystem, Owned
  <2>4. Entered'
    BY <1>2 DEF LockSystem, Entered
  <2> QED BY <2>1, <2>2, <2>3, <2>4
<1>3. CASE CheckClient(t)
  <2>1. Types'
    BY <1>3 DEF CheckClient, Types, PCs
  <2>2. Locked'
    BY <1>3 DEF CheckClient, Locked, Probing
  <2>3. Owned'
    BY <1>3 DEF CheckClient, Owned
  <2>4. Entered'
    BY <1>3 DEF CheckClient, Entered
  <2> QED BY <2>1, <2>2, <2>3, <2>4
<1>4. CASE CreateClient(t)
  <2>1. Types'
    BY <1>4, ClientsLemma DEF CreateClient, Types, PCs, Locked, Probing
  <2>2. Locked'
    BY <1>4 DEF CreateClient, Locked, Probing
  <2>3. Owned'
    BY <1>4, ClientsLemma DEF CreateClient, Types, Locked, Probing, Owned
  <2>4. Entered'
    BY <1>4, ClientsLemma DEF CreateClient, Locked, Probing, Owned, Entered
  <2> QED BY <2>1, <2>2, <2>3, <2>4
<1>5. CASE Login(t)
  <2>1. Types'
    BY <1>5 DEF Login, Types, PCs
  <2>2. Locked'
    BY <1>5 DEF Login, Types, Locked, Probing
  <2>3. Owned'
    BY <1>5 DEF Login, Types, Owned
  <2>4. Entered'
    BY <1>5 DEF Login, Entered
  <2> QED BY <2>1, <2>2, <2>3, <2>4
<1>6. CASE FindSystem(t)
  <2>1. Types'
    BY <1>6 DEF FindSystem, Types, PCs, Locked, Probing
  <2>2. Locked'
    BY <1>6 DEF FindSystem, Types, Locked, Probing
  <2>3. Owned'
    BY <1>6 DEF FindSystem, Types, Locked, Probing, Owned
  <2>4. Entered'
    BY <1>6 DEF FindSystem, Owned, Entered
  <2> QED BY <2>1, <2>2, <2>3, <2>4
<1>7. CASE AddAlias(t)
  <2>1. Types'
    BY <1>7 DEF AddAlias, Types, PCs, Locked, Probing
  <2>2. Locked'
    BY <1>7 DEF AddAlias, Types, Locked, Probing
  <2>3. Owned'
    BY <1>7 DEF AddAlias, Types, Owned
  <2>4. Entered'
    BY <1>7 DEF AddAlias, Entered
  <2> QED BY <2>1, <2>2, <2>3, <2>4
<1>8. CASE ProbedAll(t)
  <2>1. Types'
    BY <1>8 DEF ProbedAll, Types, PCs
  <2>2. Locked'
    BY <1>8 DEF ProbedAll, Locked, Probing
  <2>3. Owned'
    BY <1>8 DEF ProbedAll, Owned
  <2>4. Entered'
    BY <1>8 DEF ProbedAll, Entered
  <2> QED BY <2>1, <2>2, <2>3, <2>4
<1>9. CASE t = Reloader /\ LockPx
  BY <1>9 DEF LockPx, Types, PCs, Locked, Probing, Owned, Entered
<1>10. ASSUME NEW a \in Arrays, ProbeNext(t, a) PROVE IInv'
  <2>1. Types'
    BY <1>10 DEF ProbeNext, Types, PCs
  <2>2. Locked'
    BY <1>10 DEF ProbeNext, Types, Locked, Probing
  <2>3. Owned'
    BY <1>10 DEF ProbeNext, Types, Owned
  <2>4. Entered'
    BY <1>10 DEF ProbeNext, Entered
  <2> QED BY <2>1, <2>2, <2>3, <2>4
<1> QED BY <1>1, <1>2, <1>3, <1>4, <1>5, <1>6, <1>7, <1>8, <1>9, <1>10 DEF Step

LEMMA NextIInv == IInv /\ [Next]_vars => IInv'
<1> SUFFICES ASSUME IInv, [Next]_vars PROVE IInv'
  OBVIOUS
<1> USE KeysLemma DEF IInv, Types, Locked, Probing, Owned, Entered, PCs, Goto, maps, locks, threads, outside
<1>1. ASSUME NEW t \in Threads, Step(t) PROVE IInv'
  BY <1>1, StepIInv
<1>2. ASSUME NEW t \in Threads, StartProbe(t) PROVE IInv'
  BY <1>2 DEF StartProbe
<1>3. ASSUME NEW t \in Threads, NEW k \in Keys, StartRequest(t, k) PROVE IInv'
  BY <1>3 DEF StartRequest
<1>4. CASE Reload
  <2>1. Reloader \in Threads
    BY DEF Threads
  <2>2. Types'
    BY <1>4, <2>1, KeysAssumption DEF Reload
  <2>3. Locked' /\ Owned'
    BY <1>4, <2>1 DEF Reload
  <2>4. Entered'
    BY <1>4 DEF Reload
  <2> QED BY <2>2, <2>3, <2>4 DEF IInv
<1>5. ASSUME NEW s \in Secrets, ChangeSecret(s) PROVE IInv'
  BY <1>5 DEF ChangeSecret
<1>6. ASSUME NEW u \in Networks, ChangeNetwork(u) PROVE IInv'
  BY <1>6 DEF ChangeNetwork
<1>7. CASE Die
  BY <1>7 DEF Die, NilMap
<1>8. CASE Start
  BY <1>8, KeysAssumption DEF Start
<1>9. CASE UNCHANGED vars
  BY <1>9 DEF vars
<1> QED BY <1>1, <1>2, <1>3, <1>4, <1>5, <1>6, <1>7, <1>8, <1>9 DEF Next

\* The inductive invariant of the probes, the requests and the reload.
THEOREM Invariance == Spec => []IInv
<1>1. Init => IInv
  BY InitIInv
<1>2. IInv /\ [Next]_vars => IInv'
  BY NextIInv
<1> QED BY <1>1, <1>2, PTL DEF Spec

-----------------------------------------------------------------------------
(* The properties.                                                         *)

\* What requireProbe reads, without a lock, as probed has a client that has logged in to
\* that system, and the ID of a named system leads to the client of its name.
THEOREM ProbedIsLoggedInHolds == Spec => []ProbedIsLoggedIn
<1>1. IInv => ProbedIsLoggedIn
  BY KeysLemma DEF IInv, Entered, ProbedIsLoggedIn, Probed
<1> QED BY <1>1, Invariance, PTL

\* The client of an array or of an ID: the bracketed action of ClientIsKept.
Kept == \A k \in Keys : adminClients[k] # NoClient => adminClients'[k] \in {NoClient, adminClients[k]}

\* However many probes of a system there are at once, none of them replaces the client
\* that systemProbe has made for it; only the end of the process takes it away.
THEOREM ClientIsKeptHolds == Spec => ClientIsKept
<1>1. IInv /\ [Next]_vars => [Kept]_vars
  <2> SUFFICES ASSUME IInv, Next PROVE Kept
    BY Zenon
  <2> USE DEF Kept, maps
  <2>1. ASSUME NEW t \in Threads, CreateClient(t) PROVE Kept
    BY <2>1, KeysLemma DEF CreateClient, IInv, Types, Locked, Owned, Probing
  <2>2. ASSUME NEW t \in Threads, FindSystem(t) PROVE Kept
    <3>1. \A k \in Keys : adminClients'[k] # adminClients[k] =>
            k \in {IdOf(n) : n \in Named \cap {key[t]}} /\ key[t] \notin systems
      BY <2>2 DEF FindSystem, Types, IInv
    <3>2. \A n \in Named : n \notin systems => adminClients[IdOf(n)] = NoClient
      BY DEF IInv, Entered
    <3>3. ASSUME NEW k \in Keys, adminClients'[k] # adminClients[k] PROVE adminClients[k] = NoClient
      BY <3>1, <3>2, <3>3
    <3> QED BY <3>3
  <2>3. CASE Die
    BY <2>3 DEF Die
  <2>4. CASE UNCHANGED adminClients
    BY <2>4
  <2> QED BY <2>1, <2>2, <2>3, <2>4 DEF Next, Step, StartProbe, StartRequest, Reload, ChangeSecret, ChangeNetwork, Start,
        LockMx, LockSystem, CheckClient, Login, AddAlias, ProbedAll, LockPx, ProbeNext
<1> QED BY <1>1, Invariance, PTL DEF Spec, ClientIsKept, Kept
=============================================================================
