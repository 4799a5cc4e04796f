------------------- MODULE ControllerAttachSerialProofs -------------------
(***************************************************************************)
(* Proofs about ControllerAttach when all handler threads belong to one    *)
(* driver process, so that gocsi's serial volume access keeps the handlers *)
(* of a volume apart.                                                      *)
(***************************************************************************)
EXTENDS ControllerAttachProofs

OneDriver == \A p, q \in Threads : DriverOf[p] = DriverOf[q]

\* Two handlers at work are at work on different volumes.
Serialized ==
  \A p, q \in Threads :
    p # q /\ pc[p] # "idle" /\ pc[q] # "idle" => call[p].vol # call[q].vol

\* What a handler read is still true when it acts on it: a host it maps,
\* limits or unmaps is one the orchestrator does not count on, the mapping it
\* limits is there, and the volume it removes is unused.
HandlerInv(p) ==
  /\ pc[p] \in {"map", "qos", "unpublish_read", "unmap"} =>
       known[call[p].vol][call[p].host] = NotPublished
  /\ pc[p] = "qos" => maps[call[p].vol][call[p].host] # Unmapped
  /\ pc[p] \in {"unpair", "remove"} =>
       \A h \in Hosts : maps[call[p].vol][h] = Unmapped
  /\ pc[p] = "remove" => ~paired[call[p].vol]

SerialInv == Serialized /\ PublishedStaysMapped /\ \A p \in Threads : HandlerInv(p)

\* The volume of a handler at work is a volume.
LEMMA ActiveVol ==
  ASSUME TypeInv, NEW p \in Threads, pc[p] # "idle"
  PROVE  call[p].vol \in Vols
<1>1. pc[p] \in PCs
  BY DEF TypeInv, TypeOK, DriverTypeOK
<1> QED BY <1>1, CallFields DEF TypeInv, CallMatches, PCs

\* A step that touches one volume disturbs no handler of another volume.
LEMMA Frame ==
  ASSUME TypeInv, NEW q \in Threads, NEW v \in Vols, HandlerInv(q),
         pc[q] # "idle" => call[q].vol # v,
         pc'[q] = pc[q], call'[q] = call[q],
         \A w \in Vols \ {v} :
           maps'[w] = maps[w] /\ known'[w] = known[w] /\ paired'[w] = paired[w]
  PROVE  HandlerInv(q)'
<1>1. CASE pc[q] = "idle"
  BY <1>1 DEF HandlerInv
<1>2. CASE pc[q] # "idle"
  BY <1>2, ActiveVol DEF HandlerInv
<1> QED BY <1>1, <1>2

\* What the orchestrator counts on stays, if its mapping is not touched.
LEMMA KeepPublished ==
  ASSUME PublishedStaysMapped,
         \A v \in Vols, h \in Hosts :
           known'[v][h] # NotPublished =>
             known'[v][h] = known[v][h] /\ maps'[v][h] = maps[v][h]
  PROVE  PublishedStaysMapped'
BY DEF PublishedStaysMapped, Meets

\* SerialInv is about these variables only.
LEMMA SerialUnchanged ==
  ASSUME SerialInv, UNCHANGED <<pc, call, maps, paired, known>>
  PROVE  SerialInv'
<1>1. Serialized'
  BY DEF SerialInv, Serialized
<1>2. PublishedStaysMapped'
  BY KeepPublished DEF SerialInv
<1>3. ASSUME NEW p \in Threads PROVE HandlerInv(p)'
  <2>1. HandlerInv(p)
    BY DEF SerialInv
  <2> QED BY <2>1 DEF HandlerInv
<1> QED BY <1>1, <1>2, <1>3 DEF SerialInv

\* What changing the entry of one volume and host leaves alone.
LEMMA ExceptFrame ==
  ASSUME NEW R, NEW f \in [Vols -> [Hosts -> R]], NEW v \in Vols, NEW h \in Hosts, NEW x,
         NEW g, g = f \/ g = [f EXCEPT ![v][h] = x]
  PROVE  /\ \A w \in Vols \ {v} : g[w] = f[w]
         /\ \A w \in Vols, k \in Hosts : w # v \/ k # h => g[w][k] = f[w][k]
OBVIOUS

\* What a returning handler changes, unless it reports a publish.
LEMMA ReturnQuietly ==
  ASSUME TypeInv, NEW p \in Threads, NEW code, Return(p, code), pc[p] # "idle",
         code # "OK" \/ call[p].op # "publish"
  PROVE  /\ pc' = [pc EXCEPT ![p] = "idle"] /\ call' = [call EXCEPT ![p] = NoCall]
         /\ UNCHANGED known
BY DEF Return, Told, orchestrator

\* What it changes when it does report one.
LEMMA ReturnPublished ==
  ASSUME TypeInv, NEW p \in Threads, Return(p, "OK"), call[p] \in PublishCalls
  PROVE  /\ pc' = [pc EXCEPT ![p] = "idle"] /\ call' = [call EXCEPT ![p] = NoCall]
         /\ \/ UNCHANGED known
            \/ known' = [known EXCEPT ![call[p].vol][call[p].host] = call[p].qos]
BY CallFields DEF Return, Told, orchestrator

\* A step of a handler preserves SerialInv if it stays on its volume and keeps
\* its own invariant and what was published.
LEMMA StepFrame ==
  ASSUME TypeInv, SerialInv, NEW p \in Threads, pc[p] # "idle",
         NEW next \in PCs, pc' = [pc EXCEPT ![p] = next],
         \A q \in Threads \ {p} : call'[q] = call[q],
         next # "idle" => call'[p] = call[p],
         \A w \in Vols \ {call[p].vol} :
           maps'[w] = maps[w] /\ known'[w] = known[w] /\ paired'[w] = paired[w],
         HandlerInv(p)', PublishedStaysMapped'
  PROVE  SerialInv'
<1> USE DEF TypeInv, TypeOK, DriverTypeOK
<1>1. Serialized'
  <2>1. \A q \in Threads : pc'[q] # "idle" => pc[q] # "idle" /\ call'[q] = call[q]
    OBVIOUS
  <2> QED BY <2>1 DEF SerialInv, Serialized
<1>2. ASSUME NEW q \in Threads \ {p} PROVE HandlerInv(q)'
  <2>1. pc[q] # "idle" => call[q].vol # call[p].vol
    BY DEF SerialInv, Serialized
  <2>2. pc'[q] = pc[q] /\ call'[q] = call[q]
    OBVIOUS
  <2>3. call[p].vol \in Vols
    BY ActiveVol
  <2>4. HandlerInv(q)
    BY DEF SerialInv
  <2> QED BY <2>1, <2>2, <2>3, <2>4, Frame
<1> QED BY <1>1, <1>2 DEF SerialInv

\* A handler that returns without reporting a publish, having touched only
\* mappings that the orchestrator does not count on, preserves SerialInv.
LEMMA QuietReturn ==
  ASSUME TypeInv, SerialInv, NEW p \in Threads, pc[p] # "idle",
         NEW code, Return(p, code), code # "OK" \/ call[p].op # "publish",
         \A w \in Vols \ {call[p].vol} : maps'[w] = maps[w] /\ paired'[w] = paired[w],
         \A v \in Vols, h \in Hosts :
           known[v][h] # NotPublished => maps'[v][h] = maps[v][h]
  PROVE  SerialInv'
<1> USE DEF TypeInv, TypeOK, DriverTypeOK
<1>1. /\ pc' = [pc EXCEPT ![p] = "idle"] /\ call' = [call EXCEPT ![p] = NoCall]
      /\ UNCHANGED known
  BY ReturnQuietly
<1>2. HandlerInv(p)'
  BY <1>1 DEF HandlerInv
<1>3. PublishedStaysMapped'
  BY <1>1, KeepPublished DEF SerialInv
<1>4. "idle" \in PCs /\ \A q \in Threads \ {p} : call'[q] = call[q]
  BY <1>1 DEF PCs
<1> QED BY <1>1, <1>2, <1>3, <1>4, StepFrame, Zenon

\* So does a handler that goes on.
LEMMA QuietGoto ==
  ASSUME TypeInv, SerialInv, NEW p \in Threads, pc[p] # "idle",
         NEW next \in PCs, Goto(p, next),
         \A w \in Vols \ {call[p].vol} : maps'[w] = maps[w] /\ paired'[w] = paired[w],
         \A v \in Vols, h \in Hosts :
           known[v][h] # NotPublished => maps'[v][h] = maps[v][h],
         HandlerInv(p)'
  PROVE  SerialInv'
<1> USE DEF TypeInv, TypeOK, DriverTypeOK
<1>1. pc' = [pc EXCEPT ![p] = next] /\ UNCHANGED <<call, known>>
  BY DEF Goto, orchestrator
<1>2. PublishedStaysMapped'
  BY <1>1, KeepPublished DEF SerialInv
<1> QED BY <1>1, <1>2, StepFrame, Zenon

\* So does a handler that reports a publish whose mapping is as requested.
LEMMA LoudReturn ==
  ASSUME TypeInv, SerialInv, NEW p \in Threads, pc[p] # "idle",
         Return(p, "OK"), call[p] \in PublishCalls, UNCHANGED paired,
         \A v \in Vols, h \in Hosts :
           v # call[p].vol \/ h # call[p].host => maps'[v][h] = maps[v][h],
         maps' \in [Vols -> [Hosts -> Mapping \cup {Unmapped}]],
         maps'[call[p].vol][call[p].host] # Unmapped,
         Meets(maps'[call[p].vol][call[p].host], call[p].qos),
         maps'[call[p].vol][call[p].host] = maps[call[p].vol][call[p].host]
           \/ known[call[p].vol][call[p].host] = NotPublished
  PROVE  SerialInv'
<1> USE DEF TypeInv, TypeOK, DriverTypeOK, OrchestratorTypeOK, ArrayTypeOK
<1> DEFINE v == call[p].vol
           h == call[p].host
<1>0. v \in Vols /\ h \in Hosts
  BY CallFields
<1>1. /\ pc' = [pc EXCEPT ![p] = "idle"] /\ call' = [call EXCEPT ![p] = NoCall]
      /\ UNCHANGED known \/ known' = [known EXCEPT ![v][h] = call[p].qos]
  BY ReturnPublished, Zenon
<1>2. HandlerInv(p)'
  BY <1>1 DEF HandlerInv
<1>3. PublishedStaysMapped'
  <2>1. CASE UNCHANGED known
    BY <2>1, KeepPublished, Zenon DEF SerialInv
  <2>2. CASE known' = [known EXCEPT ![v][h] = call[p].qos]
    <3>1. ASSUME NEW w \in Vols, NEW g \in Hosts, w # v \/ g # h
          PROVE  known'[w][g] = known[w][g] /\ maps'[w][g] = maps[w][g]
      BY <1>0, <2>2, <3>1, Zenon
    <3>2. known'[v][h] = call[p].qos
      BY <1>0, <2>2, Zenon
    <3>3. ASSUME NEW w \in Vols, NEW g \in Hosts, known'[w][g] # NotPublished
          PROVE  maps'[w][g] # Unmapped /\ Meets(maps'[w][g], known'[w][g])
      <4>1. CASE w = v /\ g = h
        BY <3>2, <4>1, Zenon
      <4>2. CASE w # v \/ g # h
        <5>1. known'[w][g] = known[w][g] /\ maps'[w][g] = maps[w][g]
          BY <3>1, <4>2
        <5>2. PublishedStaysMapped
          BY Zenon DEF SerialInv
        <5> QED BY <3>3, <5>1, <5>2, Zenon DEF PublishedStaysMapped
      <4> QED BY <4>1, <4>2, Zenon
    <3> QED BY <3>3, Zenon DEF PublishedStaysMapped, Meets
  <2> QED BY <1>1, <2>1, <2>2
<1>4. \A w \in Vols \ {v} : maps'[w] = maps[w] /\ known'[w] = known[w]
  <2>1. \A w \in Vols \ {v} : known'[w] = known[w]
    BY <1>0, <1>1, Zenon
  <2>2. ASSUME NEW w \in Vols \ {v} PROVE maps'[w] = maps[w]
    <3>1. /\ maps'[w] \in [Hosts -> Mapping \cup {Unmapped}]
          /\ maps[w] \in [Hosts -> Mapping \cup {Unmapped}]
          /\ \A g \in Hosts : maps'[w][g] = maps[w][g]
      OBVIOUS
    <3> QED BY <3>1
  <2> QED BY <2>1, <2>2, Zenon
<1>5. "idle" \in PCs /\ \A q \in Threads \ {p} : call'[q] = call[q]
  BY <1>1 DEF PCs
<1> QED BY <1>1, <1>2, <1>3, <1>4, <1>5, StepFrame, Zenon

-----------------------------------------------------------------------------
(* One lemma per handler.                                                  *)

LEMMA MappingType ==
  ASSUME ArrayTypeOK, NEW v \in Vols, NEW h \in Hosts, maps[v][h] # Unmapped
  PROVE  maps[v][h] \in Mapping
BY DEF ArrayTypeOK

\* An existing mapping that passes the comparison has the requested limits.
LEMMA ComparedMeets ==
  ASSUME NEW m \in Mapping, NEW q \in QoS, validateAndCompareQoS(q, m)
  PROVE  Meets(m, q)
<1>1. m.bw \in Limits /\ m.iops \in Limits
  BY DEF Mapping
<1> QED BY <1>1, ConstantsAssumption DEF validateAndCompareQoS, Meets

\* So has one whose limits were set.
LEMMA LimitedMeets ==
  ASSUME NEW m, NEW q
  PROVE  Meets(Limited(m, q), q)
BY DEF Limited, Meets

LEMMA PublishSerial ==
  ASSUME TypeInv, SerialInv, NEW p \in Threads, NEW o \in Outcomes,
         PublishRead(p, o) \/ SDCPublisher(p, o) \/ NVMePublisher(p, o) \/ setQoSIfNeeded(p, o)
  PROVE  SerialInv'
<1>0. ArrayTypeOK /\ DriverTypeOK /\ OrchestratorTypeOK /\ CallMatches
  BY Zenon DEF TypeInv, TypeOK
<1> DEFINE c == call[p]
           m == maps[c.vol][c.host]
<1>1. pc[p] # "idle" /\ c \in PublishCalls
  BY <1>0, Zenon DEF PublishRead, SDCPublisher, NVMePublisher, setQoSIfNeeded, CallMatches
<1>2. c.vol \in Vols /\ c.host \in Hosts /\ c.qos \in QoS
  BY <1>1, CallFields, Zenon
<1>3. CASE PublishRead(p, o)
  <2>1. UNCHANGED <<maps, paired>>
    BY <1>3, Zenon DEF PublishRead, array
  <2>2. CASE Return(p, "Error")
    BY <1>1, <2>1, <2>2, QuietReturn, Zenon
  <2>3. CASE m # Unmapped /\ validateAndCompareQoS(c.qos, m) /\ Return(p, "OK")
    <3>1. m \in Mapping
      BY <1>0, <1>2, <2>3, MappingType, Zenon
    <3>2. Meets(maps'[c.vol][c.host], c.qos)
      BY <1>2, <2>1, <2>3, <3>1, ComparedMeets, Zenon
    <3> QED BY <1>0, <1>1, <2>1, <2>3, <3>2, LoudReturn, Zenon DEF ArrayTypeOK
  <2>4. CASE m = Unmapped /\ Goto(p, "map")
    <3>1. known[c.vol][c.host] = NotPublished
      BY <1>2, <2>4, Zenon DEF SerialInv, PublishedStaysMapped
    <3>2. HandlerInv(p)'
      BY <1>0, <2>4, <3>1, Zenon DEF Goto, orchestrator, HandlerInv, DriverTypeOK
    <3> QED BY <1>1, <2>1, <2>4, <3>2, QuietGoto, Zenon DEF PCs
  <2> QED BY <1>3, <2>2, <2>3, <2>4, Zenon DEF PublishRead
<1>4. CASE pc[p] = "map" /\ PublishMap(p, o)
  <2>1. UNCHANGED paired
    BY <1>4, Zenon DEF PublishMap
  <2>2. known[c.vol][c.host] = NotPublished
    BY <1>4 DEF SerialInv, HandlerInv
  <2>3. \/ UNCHANGED maps
        \/ maps' = [maps EXCEPT ![c.vol][c.host] = [bw |-> Unlimited, iops |-> Unlimited]]
    BY <1>4 DEF PublishMap
  <2>4. /\ \A w \in Vols \ {c.vol} : maps'[w] = maps[w]
        /\ \A v \in Vols, h \in Hosts : known[v][h] # NotPublished => maps'[v][h] = maps[v][h]
    <3>1. /\ \A w \in Vols \ {c.vol} : maps'[w] = maps[w]
          /\ \A v \in Vols, h \in Hosts : v # c.vol \/ h # c.host => maps'[v][h] = maps[v][h]
      BY <1>0, <1>2, <2>3, ExceptFrame DEF ArrayTypeOK
    <3> QED BY <2>2, <3>1, Zenon
  <2>5. CASE Return(p, "Error")
    BY <1>1, <2>1, <2>4, <2>5, QuietReturn, Zenon
  <2>6. CASE /\ Goto(p, "qos")
             /\ maps' = [maps EXCEPT ![c.vol][c.host] = [bw |-> Unlimited, iops |-> Unlimited]]
    <3>1. [bw |-> Unlimited, iops |-> Unlimited] # Unmapped
      BY ConstantsAssumption DEF Mapping
    <3>2. maps'[c.vol][c.host] # Unmapped
      BY <1>0, <1>2, <2>6, <3>1, Zenon DEF ArrayTypeOK
    <3>3. HandlerInv(p)'
      BY <1>0, <2>2, <2>6, <3>2, Zenon DEF Goto, orchestrator, HandlerInv, DriverTypeOK
    <3> QED BY <1>1, <2>1, <2>4, <2>6, <3>3, QuietGoto, Zenon DEF PCs
  <2> QED BY <1>4, <2>5, <2>6 DEF PublishMap
<1>5. CASE setQoSIfNeeded(p, o)
  <2>1. /\ UNCHANGED paired
        /\ known[c.vol][c.host] = NotPublished
        /\ m # Unmapped
    BY <1>5, Zenon DEF setQoSIfNeeded, SerialInv, HandlerInv
  <2>2. m \in Mapping
    BY <1>0, <1>2, <2>1, MappingType
  <2>3. maps' \in [Vols -> [Hosts -> Mapping \cup {Unmapped}]]
    BY <1>5, StepType, Zenon DEF Step, TypeInv, TypeOK, ArrayTypeOK
  <2>4. \/ UNCHANGED maps
        \/ maps' = [maps EXCEPT ![c.vol][c.host] = Limited(m, c.qos)]
    BY <1>5, Zenon DEF setQoSIfNeeded, setQoSParameters
  <2>5. /\ \A w \in Vols \ {c.vol} : maps'[w] = maps[w]
        /\ \A v \in Vols, h \in Hosts : v # c.vol \/ h # c.host => maps'[v][h] = maps[v][h]
    BY <1>0, <1>2, <2>4, ExceptFrame DEF ArrayTypeOK
  <2>6. CASE Return(p, "Error")
    BY <1>1, <2>1, <2>5, <2>6, QuietReturn, Zenon
  <2>7. CASE Goto(p, "unpublish_read")
    <3>1. HandlerInv(p)'
      BY <1>0, <2>1, <2>7, Zenon DEF Goto, orchestrator, HandlerInv, DriverTypeOK
    <3> QED BY <1>1, <2>1, <2>5, <2>7, <3>1, QuietGoto, Zenon DEF PCs
  <2>8. CASE /\ Return(p, "OK")
             /\ \/ ~QoSRequested(c.qos) /\ UNCHANGED maps
                \/ LimitsAccepted(c.qos) /\ validateQoSParameters(c.qos)
                   /\ maps' = [maps EXCEPT ![c.vol][c.host] = Limited(m, c.qos)]
    <3>1. maps'[c.vol][c.host] # Unmapped
      BY <1>2, <1>5, <2>1, LimitsKeepMappings, Zenon
    <3>2. Meets(maps'[c.vol][c.host], c.qos)
      <4>1. CASE ~QoSRequested(c.qos)
        BY <4>1, Zenon DEF QoSRequested, Meets
      <4>2. CASE maps' = [maps EXCEPT ![c.vol][c.host] = Limited(m, c.qos)]
        <5>1. maps'[c.vol][c.host] = Limited(m, c.qos)
          BY <1>0, <1>2, <4>2 DEF ArrayTypeOK
        <5> QED BY <5>1, LimitedMeets, Zenon
      <4> QED BY <2>8, <4>1, <4>2, Zenon
    <3> QED BY <1>1, <2>1, <2>3, <2>5, <2>8, <3>1, <3>2, LoudReturn, Zenon
  <2> QED BY <1>5, <2>6, <2>7, <2>8, Zenon DEF setQoSIfNeeded, setQoSParameters
<1> QED BY <1>3, <1>4, <1>5 DEF SDCPublisher, NVMePublisher

LEMMA UnpublishSerial ==
  ASSUME TypeInv, SerialInv, NEW p \in Threads, NEW o \in Outcomes,
         UnpublishRead(p, o) \/ UnpublishUnmap(p, o)
  PROVE  SerialInv'
<1>0. ArrayTypeOK /\ DriverTypeOK /\ OrchestratorTypeOK /\ CallMatches
  BY DEF TypeInv, TypeOK
<1> DEFINE c == call[p]
<1>1. /\ pc[p] # "idle" /\ c \in PublishCalls \cup UnpublishCalls
      /\ known[c.vol][c.host] = NotPublished
  BY <1>0 DEF UnpublishRead, UnpublishUnmap, CallMatches, SerialInv, HandlerInv
<1>2. c.vol \in Vols /\ c.host \in Hosts
  BY <1>1, CallFields
<1>3. UnpublishReply(p) # "OK" \/ c.op # "publish"
  BY Zenon DEF UnpublishReply
<1>4. CASE UnpublishRead(p, o)
  <2>1. UNCHANGED <<maps, paired>>
    BY <1>4 DEF UnpublishRead, array
  <2>2. CASE Return(p, "Error") \/ Return(p, UnpublishReply(p))
    BY <1>1, <1>3, <2>1, <2>2, QuietReturn, Zenon
  <2>3. CASE Goto(p, "unmap")
    <3>1. HandlerInv(p)'
      BY <1>0, <1>1, <2>3, Zenon DEF Goto, orchestrator, HandlerInv, DriverTypeOK
    <3> QED BY <1>1, <2>1, <2>3, <3>1, QuietGoto, Zenon DEF PCs
  <2> QED BY <1>4, <2>2, <2>3, Zenon DEF UnpublishRead
<1>5. CASE UnpublishUnmap(p, o)
  <2>1. /\ UNCHANGED paired
        /\ UNCHANGED maps \/ maps' = [maps EXCEPT ![c.vol][c.host] = Unmapped]
    BY <1>5, Zenon DEF UnpublishUnmap
  <2>2. /\ \A w \in Vols \ {c.vol} : maps'[w] = maps[w]
        /\ \A v \in Vols, h \in Hosts : known[v][h] # NotPublished => maps'[v][h] = maps[v][h]
    <3>1. /\ \A w \in Vols \ {c.vol} : maps'[w] = maps[w]
          /\ \A v \in Vols, h \in Hosts : v # c.vol \/ h # c.host => maps'[v][h] = maps[v][h]
      BY <1>0, <1>2, <2>1, ExceptFrame DEF ArrayTypeOK
    <3> QED BY <1>1, <3>1
  <2>3. Return(p, "Error") \/ Return(p, UnpublishReply(p))
    BY <1>5 DEF UnpublishUnmap
  <2> QED BY <1>1, <1>3, <2>1, <2>2, <2>3, QuietReturn, Zenon
<1> QED BY <1>4, <1>5

LEMMA DeleteSerial ==
  ASSUME TypeInv, SerialInv, NEW p \in Threads, NEW o \in Outcomes,
         DeleteRead(p, o) \/ removeVolumeFromReplicationPair(p, o)
           \/ DeleteRemove(p, o) \/ DeletePoll(p, o)
  PROVE  SerialInv'
<1>0. ArrayTypeOK /\ DriverTypeOK /\ OrchestratorTypeOK /\ CallMatches
  BY Zenon DEF TypeInv, TypeOK
<1> DEFINE v == call[p].vol
<1>1. pc[p] # "idle" /\ call[p] \in DeleteCalls
  BY <1>0, Zenon
     DEF DeleteRead, removeVolumeFromReplicationPair, DeleteRemove, DeletePoll, CallMatches
<1>2. v \in Vols /\ call[p].op # "publish"
  BY <1>1, CallFields, Zenon
<1>3. CASE DeleteRead(p, o)
  <2>1. UNCHANGED <<maps, paired>>
    BY <1>3, Zenon DEF DeleteRead, array
  <2>2. CASE Return(p, "Error") \/ Return(p, "OK")
    BY <1>1, <1>2, <2>1, <2>2, QuietReturn, Zenon
  <2>3. CASE MappedHosts(v) = {} /\ Goto(p, IF paired[v] THEN "unpair" ELSE "remove")
    <3>1. HandlerInv(p)'
      BY <1>0, <2>1, <2>3 DEF Goto, orchestrator, HandlerInv, MappedHosts, DriverTypeOK
    <3>2. (IF paired[v] THEN "unpair" ELSE "remove") \in PCs
      BY Zenon DEF PCs
    <3> QED BY <1>1, <2>1, <2>3, <3>1, <3>2, QuietGoto, Zenon
  <2> QED BY <1>3, <2>2, <2>3, Zenon DEF DeleteRead
<1>4. CASE removeVolumeFromReplicationPair(p, o)
  <2>1. /\ UNCHANGED maps
        /\ \A w \in Vols \ {v} : paired'[w] = paired[w]
        /\ \A h \in Hosts : maps[v][h] = Unmapped
    BY <1>0, <1>2, <1>4, Zenon
       DEF removeVolumeFromReplicationPair, ArrayTypeOK, SerialInv, HandlerInv
  <2>2. CASE Return(p, "Error")
    BY <1>1, <2>1, <2>2, QuietReturn
  <2>3. CASE Goto(p, "remove") /\ ~paired'[v]
    <3>1. HandlerInv(p)'
      BY <1>0, <2>1, <2>3, Zenon DEF Goto, orchestrator, HandlerInv, DriverTypeOK
    <3> QED BY <1>1, <2>1, <2>3, <3>1, QuietGoto DEF PCs
  <2>4. o = "ok" => ~paired'[v]
    BY <1>0, <1>2, <1>4, Zenon DEF removeVolumeFromReplicationPair, ArrayTypeOK
  <2> QED BY <1>4, <2>2, <2>3, <2>4, Zenon DEF removeVolumeFromReplicationPair
<1>5. CASE DeleteRemove(p, o)
  <2>1. /\ UNCHANGED paired
        /\ \A h \in Hosts : maps[v][h] = Unmapped
        /\ UNCHANGED maps \/ maps' = [maps EXCEPT ![v] = [h \in Hosts |-> Unmapped]]
    BY <1>5, Zenon DEF DeleteRemove, SerialInv, HandlerInv
  <2>2. /\ \A w \in Vols \ {v} : maps'[w] = maps[w]
        /\ \A w \in Vols, h \in Hosts : maps'[w][h] = maps[w][h]
    <3>1. maps \in [Vols -> [Hosts -> Mapping \cup {Unmapped}]]
      BY <1>0 DEF ArrayTypeOK
    <3>2. \A w \in Vols \ {v} : maps'[w] = maps[w]
      BY <2>1, <3>1, Zenon
    <3>3. \A h \in Hosts : maps'[v][h] = maps[v][h]
      BY <1>2, <2>1, <3>1
    <3> QED BY <3>2, <3>3
  <2>3. CASE Return(p, "Error")
    BY <1>1, <2>1, <2>2, <2>3, QuietReturn, Zenon
  <2>4. CASE Goto(p, "poll")
    <3>1. HandlerInv(p)'
      BY <1>0, <2>4, Zenon DEF Goto, HandlerInv, DriverTypeOK
    <3> QED BY <1>1, <2>1, <2>2, <2>4, <3>1, QuietGoto, Zenon DEF PCs
  <2> QED BY <1>5, <2>3, <2>4, Zenon DEF DeleteRemove
<1>6. CASE DeletePoll(p, o)
  <2>1. UNCHANGED <<maps, paired>> /\ pc[p] = "poll"
    BY <1>6, Zenon DEF DeletePoll, array
  <2>2. CASE Return(p, "Error") \/ Return(p, "OK")
    BY <1>1, <1>2, <2>1, <2>2, QuietReturn
  <2>3. CASE UNCHANGED <<pc, call, orchestrator>>
    BY <2>1, <2>3, SerialUnchanged DEF orchestrator
  <2> QED BY <1>6, <2>2, <2>3, Zenon DEF DeletePoll
<1> QED BY <1>3, <1>4, <1>5, <1>6

\* A request is only started when no handler works on its volume.
LEMMA BeginSerial ==
  ASSUME OneDriver, TypeInv, SerialInv, NEW p \in Threads,
         NEW c \in PublishCalls \cup UnpublishCalls \cup DeleteCalls,
         NEW start \in {"publish_read", "unpublish_read", "delete_read"},
         Begin(p, c, start),
         \/ start # "unpublish_read" /\ UNCHANGED known
         \/ /\ start = "unpublish_read" /\ c \in UnpublishCalls
            /\ known' = [known EXCEPT ![c.vol][c.host] = NotPublished]
  PROVE  SerialInv'
<1>0. ArrayTypeOK /\ DriverTypeOK /\ OrchestratorTypeOK /\ CallMatches
  BY DEF TypeInv, TypeOK
<1>2. c.vol \in Vols
  BY CallFields
<1>3. \A q \in Threads \ {p} : pc[q] # "idle" => call[q].vol # c.vol
  BY DEF OneDriver, Begin, SerialVolAccess
<1>4. /\ pc' = [pc EXCEPT ![p] = start] /\ call' = [call EXCEPT ![p] = c]
      /\ UNCHANGED <<maps, paired>>
  BY DEF Begin, array
<1>5. Serialized'
  BY <1>0, <1>3, <1>4, Zenon DEF SerialInv, Serialized, DriverTypeOK
<1>6. \A w \in Vols \ {c.vol} : known'[w] = known[w]
  BY <1>0, <1>2, CallFields DEF OrchestratorTypeOK
<1>7. ASSUME NEW q \in Threads \ {p} PROVE HandlerInv(q)'
  <2>1. HandlerInv(q) /\ pc'[q] = pc[q] /\ call'[q] = call[q]
    BY <1>0, <1>4 DEF SerialInv, DriverTypeOK
  <2> QED BY <1>2, <1>3, <1>4, <1>6, <2>1, Frame
<1>8. HandlerInv(p)'
  <2>1. pc'[p] = start /\ call'[p] = c
    BY <1>0, <1>4, Zenon DEF DriverTypeOK
  <2>2. start = "unpublish_read" => known'[c.vol][c.host] = NotPublished
    BY <1>0, CallFields DEF OrchestratorTypeOK
  <2> QED BY <2>1, <2>2 DEF HandlerInv
<1>9. PublishedStaysMapped'
  <2>1. \A v \in Vols, h \in Hosts :
          known'[v][h] # NotPublished => known'[v][h] = known[v][h] /\ maps'[v][h] = maps[v][h]
    BY <1>0, <1>4, CallFields DEF OrchestratorTypeOK
  <2> QED BY <2>1, KeepPublished, Zenon DEF SerialInv
<1> QED BY <1>5, <1>7, <1>8, <1>9 DEF SerialInv

LEMMA StartSerial ==
  ASSUME OneDriver, TypeInv, SerialInv, NEW p \in Threads, Start(p)
  PROVE  SerialInv'
<1>1. ASSUME NEW v \in Vols, NEW h \in Hosts, NEW q \in QoSRequests,
             NEW cap \in CapsOf[v], StartPublish(p, PublishCall(v, h, cap, q))
      PROVE  SerialInv'
  BY <1>1, PublishCallType, BeginSerial, Zenon DEF StartPublish, orchestrator
<1>2. ASSUME NEW c \in UnpublishCalls, StartUnpublish(p, c) PROVE SerialInv'
  BY <1>2, BeginSerial, Zenon DEF StartUnpublish
<1>3. ASSUME NEW c \in DeleteCalls, StartDelete(p, c) PROVE SerialInv'
  BY <1>3, BeginSerial, Zenon DEF StartDelete, orchestrator
<1> QED BY <1>1, <1>2, <1>3 DEF Start

LEMMA NextSerial == OneDriver /\ TypeInv /\ SerialInv /\ [Next]_vars => SerialInv'
<1> SUFFICES ASSUME OneDriver, TypeInv, SerialInv, [Next]_vars PROVE SerialInv'
  OBVIOUS
<1>1. ASSUME NEW p \in Threads, NEW o \in Outcomes, Step(p, o) PROVE SerialInv'
  BY <1>1, PublishSerial, UnpublishSerial, DeleteSerial DEF Step
<1>2. ASSUME NEW p \in Threads, Crash(p) PROVE SerialInv'
  <2>1. \A q \in Threads : pc'[q] = "idle"
    BY <1>2, Zenon DEF Crash, OneDriver
  <2>2. PublishedStaysMapped'
    BY <1>2, KeepPublished DEF Crash, array, orchestrator, SerialInv
  <2> QED BY <2>1, <2>2 DEF SerialInv, Serialized, HandlerInv
<1>3. CASE (\E v \in Vols : FinishRemoval(v)) \/ UNCHANGED vars
  BY <1>3, SerialUnchanged, Zenon DEF FinishRemoval, vars, array, driver, orchestrator
<1> QED BY <1>1, <1>2, <1>3, StartSerial DEF Next

LEMMA InitSerial == Init => SerialInv
BY DEF Init, SerialInv, Serialized, HandlerInv, PublishedStaysMapped

\* With one driver process, an attachment that ControllerPublishVolume reported
\* stays mapped, with the requested limits, until it is given up: retries,
\* rollbacks, deletes, crashes and lost answers do not undo it.
THEOREM PublishedStaysMappedHolds ==
  ASSUME OneDriver PROVE Spec => []PublishedStaysMapped
<1>1. SerialInv => PublishedStaysMapped
  BY DEF SerialInv
<1>2. TypeInv /\ SerialInv /\ [Next]_vars => SerialInv'
  BY NextSerial
<1> QED BY InitType, NextType, InitSerial, <1>1, <1>2, PTL DEF Spec

\* With one driver process, DeleteVolume removes a volume only while it is
\* unmapped and out of its replication pair, although it looked both up calls
\* before.
THEOREM RemovesOnlyUnusedHolds ==
  ASSUME OneDriver PROVE Spec => RemovesOnlyUnused
<1> DEFINE Safe == \A v \in Vols :
                     status[v] = "present" /\ status'[v] # "present" =>
                       MappedHosts(v) = {} /\ ~paired[v]
<1>1. TypeInv /\ SerialInv /\ [Next]_vars => [Safe]_vars
  <2> SUFFICES ASSUME TypeInv, SerialInv, Next PROVE Safe
    OBVIOUS
  <2> USE DEF TypeInv, TypeOK
  <2>1. CASE UNCHANGED status
    BY <2>1
  <2>2. ASSUME NEW p \in Threads, NEW o \in Outcomes, DeleteRemove(p, o) PROVE Safe
    <3>1. /\ pc[p] = "remove" /\ call[p] \in DeleteCalls
      BY <2>2, Zenon DEF DeleteRemove, CallMatches
    <3>2. MappedHosts(call[p].vol) = {} /\ ~paired[call[p].vol]
      BY <3>1, Zenon DEF SerialInv, HandlerInv, MappedHosts
    <3>3. \A v \in Vols \ {call[p].vol} : status'[v] = status[v]
      BY <2>2, <3>1, CallFields, Zenon DEF DeleteRemove, ArrayTypeOK
    <3> QED BY <3>2, <3>3, Zenon
  <2>3. ASSUME NEW p \in Threads, NEW o \in Outcomes, Step(p, o)
        PROVE  DeleteRemove(p, o) \/ UNCHANGED status
    BY <2>3, Zenon DEF Step, PublishRead, SDCPublisher, NVMePublisher, PublishMap,
                setQoSIfNeeded, UnpublishRead, UnpublishUnmap, DeleteRead,
                removeVolumeFromReplicationPair, DeletePoll, array
  <2>4. ASSUME NEW p \in Threads, Start(p) \/ Crash(p) PROVE UNCHANGED status
    BY <2>4, Zenon DEF Start, StartPublish, StartUnpublish, StartDelete, Begin, Crash, array
  <2>5. ASSUME NEW v \in Vols, FinishRemoval(v) PROVE Safe
    BY <2>5 DEF FinishRemoval, ArrayTypeOK
  <2> QED BY <2>1, <2>2, <2>3, <2>4, <2>5, Zenon DEF Next
<1>2. TypeInv /\ SerialInv /\ [Next]_vars => SerialInv'
  BY NextSerial
<1> QED BY InitType, NextType, InitSerial, <1>1, <1>2, PTL DEF Spec, RemovesOnlyUnused

=============================================================================
