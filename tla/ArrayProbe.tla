---------------------------- MODULE ArrayProbe ----------------------------
(***************************************************************************)
(* The clients of the arrays: systemProbe, systemProbeAll and requireProbe *)
(* (service/controller.go), the Probe calls (service/identity.go), the     *)
(* doProbe of the start and the reload of the array secret                 *)
(* (ProcessMapSecretChange and getArrayConfig in service/service.go).      *)
(*                                                                         *)
(* Every request asks requireProbe for the client of its system.  The maps *)
(* adminClients, systems, connectedSystemNameToID and opts.arrays are      *)
(* shared by all of them, by the Probe calls, which take no lock, and by   *)
(* the reload, which holds mx and px; systemProbe takes a lock of its own  *)
(* for each system.  A thread may be interrupted between any two accesses. *)
(* An array may be configured by its name: its ID becomes a second key of  *)
(* the maps when it is probed for the first time.                          *)
(***************************************************************************)
EXTENDS Naturals

CONSTANTS
  Arrays,     \* the system IDs of the array secret
  Secrets,    \* what the secret may hold: sets of arrays, {} if it cannot be read
  Networks,   \* the sets of arrays that may answer at a time
  Named,      \* those that are names
  IdOf(_),    \* the ID of a named system
  Requests, Probers, Reloader,  \* the threads
  Free,       \* a lock nobody holds
  NoKey,      \* no key
  MaxChanges  \* bound: changes of the secret and the network, and crashes

Threads == Requests \cup Probers \cup {Reloader}
Keys == Arrays \cup {IdOf(a) : a \in Named}

\* Names and IDs are told apart, and Free is no thread.
ASSUME KeysAssumption ==
  /\ Named \subseteq Arrays /\ Arrays \in Secrets /\ Secrets \subseteq SUBSET Arrays
  /\ \A n \in Named : IdOf(n) \notin Arrays
  /\ \A n, o \in Named : IdOf(n) = IdOf(o) => n = o
  /\ Free \notin Threads /\ MaxChanges \in Nat

ArrayOf(k) == IF k \in Arrays THEN k ELSE CHOOSE a \in Named : IdOf(a) = k
NilMap == {}
NoClient == <<>>
Clients == Arrays \X (Nat \ {0})

VARIABLES
  secret,     \* the secret: the arrays it names; {} if it cannot be read
  running,    \* the process runs
  changed,    \* the watcher has not yet seen the last change
  up,         \* the arrays that answer
  arrays,     \* opts.arrays: its keys; a secret without arrays is an error, and it is nil
  adminClients, \* for each key the client: its array and number, or NoClient
  systems,    \* the keys of systems
  nameToID,   \* the names in connectedSystemNameToID
  made,       \* for each array, how many clients were made
  tokens,     \* the clients that have logged in
  mx, px, probeLocks, \* who holds the locks
  pc, key,    \* of a thread: the step, and the key it asks for or the array it probes
  todo,       \* of a thread in systemProbeAll: the arrays still to be probed
  changes

maps == <<arrays, adminClients, systems, nameToID, made, tokens>>
locks == <<mx, px, probeLocks>>
threads == <<pc, key, todo>>
outside == <<secret, running, changed, up, changes>>
vars == <<maps, locks, threads, outside>>

PCs == {"idle", "require", "all", "lock", "check", "create", "login", "find", "alias", "reloaded"}

\* Every variable has its type.
TypeOK ==
  /\ secret \in Secrets /\ running \in BOOLEAN /\ changed \in BOOLEAN /\ up \in Networks
  /\ arrays \subseteq Keys
  /\ adminClients \in [Keys -> Clients \cup {NoClient}] /\ systems \subseteq Keys
  /\ nameToID \subseteq Named /\ made \in [Arrays -> Nat] /\ tokens \subseteq Clients
  /\ mx \in Threads \cup {Free} /\ px \in Threads \cup {Free}
  /\ probeLocks \in [Arrays -> Threads \cup {Free}]
  /\ pc \in [Threads -> PCs] /\ key \in [Threads -> Keys \cup {NoKey}]
  /\ todo \in [Threads -> SUBSET Arrays]
  /\ changes \in 0 .. MaxChanges

Init ==
  /\ secret = Arrays /\ running = TRUE /\ changed = FALSE /\ up \in Networks
  /\ arrays = Arrays /\ adminClients = [k \in Keys |-> NoClient]
  /\ systems = {} /\ nameToID = {} /\ made = [a \in Arrays |-> 0] /\ tokens = {}
  /\ mx = Free /\ px = Free /\ probeLocks = [a \in Arrays |-> Free]
  /\ pc = [t \in Threads |-> "idle"] /\ key = [t \in Threads |-> NoKey]
  /\ todo = [t \in Threads |-> {}]
  /\ changes = 0

Goto(t, l) == pc' = [pc EXCEPT ![t] = l]

-----------------------------------------------------------------------------
(* requireProbe.                                                           *)

Probed(k) == adminClients[k] # NoClient /\ k \in systems

\* Read without a lock; a request for a probed system is served at once.
StartRequest(t, k) ==
  /\ t \in Requests /\ running /\ pc[t] = "idle" /\ ~Probed(k)
  /\ Goto(t, "require") /\ key' = [key EXCEPT ![t] = k]
  /\ UNCHANGED <<maps, locks, todo, outside>>

\* A key that opts.arrays lacks is not configured: mx is given back, with an error.
LockMx(t) ==
  /\ pc[t] = "require" /\ mx = Free
  /\ IF key[t] \in arrays
     THEN /\ mx' = t /\ Goto(t, "lock")
          /\ key' = [key EXCEPT ![t] = ArrayOf(key[t])]
     ELSE Goto(t, "idle") /\ key' = [key EXCEPT ![t] = NoKey] /\ UNCHANGED mx
  /\ UNCHANGED <<maps, px, probeLocks, todo, outside>>

-----------------------------------------------------------------------------
(* systemProbe, under the lock of the system.                              *)

\* Variant: the probes of a system are not serialised.
LockSystemShared(t) ==
  /\ pc[t] = "lock"
  /\ Goto(t, "check")
  /\ UNCHANGED <<maps, locks, key, todo, outside>>

LockSystem(t) ==
  /\ pc[t] = "lock" /\ probeLocks[key[t]] = Free
  /\ probeLocks' = [probeLocks EXCEPT ![key[t]] = t]
  /\ Goto(t, "check")
  /\ UNCHANGED <<maps, mx, px, key, todo, outside>>

\* The deferred unlocks of systemProbe and of requireProbe.
Leave(t) ==
  /\ probeLocks' = [probeLocks EXCEPT ![key[t]] = Free]
  /\ mx' = IF t \in Requests THEN Free ELSE mx
  /\ key' = [key EXCEPT ![t] = NoKey]
  /\ Goto(t, IF t \in Requests THEN "idle" ELSE "all")

CheckClient(t) ==
  /\ pc[t] = "check"
  /\ Goto(t, IF adminClients[key[t]] = NoClient THEN "create" ELSE "login")
  /\ UNCHANGED <<maps, locks, key, todo, outside>>

CreateClient(t) ==
  /\ pc[t] = "create"
  /\ made' = [made EXCEPT ![key[t]] = @ + 1]
  /\ adminClients' = [adminClients EXCEPT ![key[t]] = <<key[t], made'[key[t]]>>]
  /\ Goto(t, "login")
  /\ UNCHANGED <<arrays, systems, nameToID, tokens, locks, key, todo, outside>>

\* Variant: a failed login is only logged.
LoginUnchecked(t) ==
  /\ pc[t] = "login"
  /\ tokens' = IF key[t] \in up THEN tokens \cup {adminClients[key[t]]} ELSE tokens
  /\ Goto(t, "find")
  /\ UNCHANGED <<arrays, adminClients, systems, nameToID, made, locks, key, todo, outside>>

\* Authenticate, unless the client has a token.
Login(t) ==
  /\ pc[t] = "login"
  /\ LET client == adminClients[key[t]]
     IN IF client \in tokens \/ key[t] \in up
        THEN tokens' = tokens \cup {client} /\ Goto(t, "find") /\ UNCHANGED <<probeLocks, mx, key>>
        ELSE Leave(t) /\ UNCHANGED tokens
  /\ UNCHANGED <<arrays, adminClients, systems, nameToID, made, px, todo, outside>>

\* Variant: only the name is entered.
FindSystemByName(t) ==
  /\ pc[t] = "find"
  /\ IF key[t] \in systems \cup up
     THEN /\ systems' = systems \cup {key[t]} /\ nameToID' = nameToID \cup (Named \cap {key[t]})
          /\ Goto(t, "alias") /\ UNCHANGED <<probeLocks, mx, key>>
     ELSE Leave(t) /\ UNCHANGED <<systems, nameToID>>
  /\ UNCHANGED <<arrays, adminClients, made, tokens, px, todo, outside>>

\* FindSystem, unless the system is known; the ID of a named system becomes a key too.
FindSystem(t) ==
  /\ pc[t] = "find"
  /\ LET a == key[t]
         ids == {IdOf(n) : n \in Named \cap {a}}
     IN IF a \in systems \cup up
        THEN /\ systems' = systems \cup {a} \cup ids
             /\ adminClients' = [k \in Keys |-> IF k \in ids /\ a \notin systems
                                                THEN adminClients[a] ELSE adminClients[k]]
             /\ nameToID' = nameToID \cup (Named \cap {a})
             /\ Goto(t, "alias") /\ UNCHANGED <<probeLocks, mx, key>>
        ELSE Leave(t) /\ UNCHANGED <<systems, adminClients, nameToID>>
  /\ UNCHANGED <<arrays, made, tokens, px, todo, outside>>

\* The ID is added to opts.arrays; the nil map of a failed reload takes no entry and the
\* process panics (Die).  Then the default system or UpdateVolumePrefixToSystemsMap.
AddAlias(t) ==
  /\ pc[t] = "alias" /\ (key[t] \in nameToID => arrays # NilMap)
  /\ arrays' = arrays \cup {IdOf(n) : n \in nameToID \cap {key[t]}}
  /\ Leave(t)
  /\ UNCHANGED <<adminClients, systems, nameToID, made, tokens, px, todo, outside>>

-----------------------------------------------------------------------------
(* systemProbeAll: the Probe calls, and doProbe for the start and reload.  *)

\* The arrays of opts.arrays, in any order; doProbe holds px, a Probe call does not.
StartProbe(t) ==
  /\ t \in Probers /\ running /\ pc[t] = "idle"
  /\ (px = Free /\ px' = t) \/ UNCHANGED px
  /\ Goto(t, "all") /\ todo' = [todo EXCEPT ![t] = {ArrayOf(k) : k \in arrays}]
  /\ UNCHANGED <<maps, mx, probeLocks, key, outside>>

ProbeNext(t, a) ==
  /\ pc[t] = "all" /\ a \in todo[t]
  /\ todo' = [todo EXCEPT ![t] = @ \ {a}]
  /\ key' = [key EXCEPT ![t] = a]
  /\ Goto(t, "lock")
  /\ UNCHANGED <<maps, locks, outside>>

ProbedAll(t) ==
  /\ pc[t] = "all" /\ todo[t] = {}
  /\ Goto(t, "idle")
  /\ px' = IF px = t THEN Free ELSE px
  /\ mx' = IF t = Reloader THEN Free ELSE mx
  /\ UNCHANGED <<maps, probeLocks, key, todo, outside>>

\* The watcher: under mx, opts.arrays is replaced, by nil if the secret cannot be read.
Reload ==
  /\ running /\ pc[Reloader] = "idle" /\ changed /\ mx = Free
  /\ changed' = FALSE /\ mx' = Reloader
  /\ arrays' = secret
  /\ Goto(Reloader, "reloaded")
  /\ UNCHANGED <<adminClients, systems, nameToID, made, tokens, px, probeLocks, key, todo,
                 secret, running, up, changes>>

\* doProbe of the reload.
LockPx ==
  /\ pc[Reloader] = "reloaded" /\ px = Free
  /\ px' = Reloader
  /\ todo' = [todo EXCEPT ![Reloader] = {ArrayOf(k) : k \in arrays}]
  /\ Goto(Reloader, "all")
  /\ UNCHANGED <<maps, mx, probeLocks, key, outside>>

-----------------------------------------------------------------------------
(* The environment (external).                                             *)

ChangeSecret(s) ==
  /\ changes < MaxChanges /\ s # secret
  /\ secret' = s /\ changed' = TRUE /\ changes' = changes + 1
  /\ UNCHANGED <<maps, locks, threads, running, up>>

ChangeNetwork(u) ==
  /\ changes < MaxChanges /\ u # up
  /\ up' = u /\ changes' = changes + 1
  /\ UNCHANGED <<maps, locks, threads, secret, running, changed>>

\* The assignment to an entry of the nil map.
Panics == \E t \in Threads : pc[t] = "alias" /\ key[t] \in nameToID /\ arrays = NilMap

\* The process dies: it panics, or the runtime finds two unordered accesses to a map.
Die ==
  /\ running
  /\ IF Panics THEN UNCHANGED changes ELSE changes < MaxChanges /\ changes' = changes + 1
  /\ running' = FALSE
  /\ arrays' = NilMap /\ adminClients' = [k \in Keys |-> NoClient]
  /\ systems' = {} /\ nameToID' = {}
  /\ made' = [a \in Arrays |-> 0] /\ tokens' = {}
  /\ mx' = Free /\ px' = Free /\ probeLocks' = [a \in Arrays |-> Free]
  /\ pc' = [t \in Threads |-> "idle"] /\ key' = [t \in Threads |-> NoKey]
  /\ todo' = [t \in Threads |-> {}] /\ changed' = FALSE
  /\ UNCHANGED <<secret, up>>

\* BeforeServe reads the secret, and gives up if it cannot.
Start ==
  /\ ~running /\ secret # {}
  /\ running' = TRUE /\ arrays' = secret /\ changed' = FALSE
  /\ UNCHANGED <<adminClients, systems, nameToID, made, tokens, locks, threads, secret, up, changes>>

Step(t) ==
  \/ LockMx(t) \/ LockSystem(t) \/ CheckClient(t) \/ CreateClient(t) \/ Login(t) \/ FindSystem(t)
  \/ AddAlias(t) \/ ProbedAll(t) \/ (t = Reloader /\ LockPx)
  \/ \E a \in Arrays : ProbeNext(t, a)

Next ==
  \/ \E t \in Threads : Step(t) \/ StartProbe(t) \/ \E k \in Keys : StartRequest(t, k)
  \/ Reload
  \/ \E s \in Secrets : ChangeSecret(s)
  \/ \E u \in Networks : ChangeNetwork(u)
  \/ Die \/ Start

Spec == Init /\ [][Next]_vars

\* Threads run on, a mutex of Go is granted to every waiter in turn, the watcher reports
\* a change, and Probe is called again and again.
LiveSpec ==
  /\ Spec
  /\ \A t \in Threads : SF_vars(Step(t))
  /\ \A t \in Probers : WF_vars(StartProbe(t))
  /\ SF_vars(Reload) /\ WF_vars(Panics /\ Die) /\ WF_vars(Start)

-----------------------------------------------------------------------------
(* Properties.                                                             *)

\* What requireProbe reads as probed is: the client of a system that has an entry in
\* systems has logged in, to that system, and the ID of a named system leads to the same
\* client as its name.
ProbedIsLoggedIn ==
  \A k \in Keys : Probed(k) => /\ adminClients[k] \in tokens
                               /\ adminClients[k][1] = ArrayOf(k)
                               /\ adminClients[k] = adminClients[ArrayOf(k)]

\* The client of a system, which requests hold without a lock, is never replaced by
\* another one while the process runs, by whatever probes and reloads there are at once.
ClientIsKept ==
  [][\A k \in Keys : adminClients[k] # NoClient => adminClients'[k] \in {NoClient, adminClients[k]}]_vars

\* Every request returns from requireProbe, and the reload ends: the locks mx, px and
\* those of the systems are always taken in this order.
EventuallyReturns == \A t \in Requests \cup {Reloader} : pc[t] # "idle" ~> pc[t] = "idle"

\* Arrays that are configured and answer for good are served in the end, under their name
\* and their ID, whatever probe, reload or restart was under way before.
EventuallyProbed ==
  <>[](secret = Arrays /\ up = Arrays) => <>[](\A k \in Keys : Probed(k))

\* Nobody waits for ever: neither for requireProbe to return nor for an array that answers.
EventuallyServed == EventuallyReturns /\ EventuallyProbed
=============================================================================
