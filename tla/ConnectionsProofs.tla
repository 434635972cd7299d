------------------------- MODULE ConnectionsProofs -------------------------
(***************************************************************************)
(* For any number of nodes, addresses, threads and slots, any interleaving *)
(* and any lost update of a reference count: nothing that is pointed to is *)
(* deleted, no slot is lost or doubled but by a race of MoveTo, and a       *)
(* demanded reconnection reaches every connection.                         *)
(***************************************************************************)
EXTENDS Connections, FiniteSetTheorems, TLAPS

----------------------------------------------------------------------------
(* Types *)

(* What a thread that opens connections has where it is. *)
Phases ==
  \A o \in Opener :
    /\ opener[o] = "checked" => target[o] \in Addr
    /\ opener[o] \in {"found", "connected", "releasing", "released", "moved"} <=> node[o] # NoNode
    /\ opener[o] = "idle" => ~ grant[o]

LEMMA NewNodeIsUnborn ==
  ASSUME NEW n \in NewNodes
  PROVE  n \in Node /\ being[n] = "unborn"
BY DEF NewNodes, Unborn

LEMMA Finite ==
  ASSUME ConnectionsTypeOK, NEW S \in SUBSET Node
  PROVE  IsFiniteSet(S) /\ Cardinality(S) \in Nat
BY FS_Subset, FS_CardinalityType, ConnectionsAssumption

(* Of the limit on inbound nodes, when a node comes... *)
LEMMA NewNodeTypes ==
  ASSUME ConnectionsTypeOK, NEW n \in Node, NEW a \in Addr, NEW b \in BOOLEAN,
         NewNode(n, a, b), b => InboundBelow
  PROVE  /\ being' \in [Node -> {"unborn", "live", "deleted"}]
         /\ addr' \in [Node -> Addr \cup {NoAddr}]
         /\ fInbound' \in [Node -> BOOLEAN]
         /\ nRefCount' \in [Node -> Int]
         /\ vNodes' \subseteq Node
         /\ overdue \subseteq vNodes'
         /\ Cardinality({m \in vNodes' : fInbound'[m]}) <= nMaxInbound
<1> DEFINE old == {m \in vNodes : fInbound[m]}
           new == {m \in vNodes' : fInbound'[m]}
<1>1. IsFiniteSet(old) /\ Cardinality(old) \in Nat /\ Cardinality(old) <= nMaxInbound
  BY Finite DEF ConnectionsTypeOK
<1>2. CASE b
  <2>1. new \subseteq old \cup {n}
    BY DEF NewNode, ConnectionsTypeOK
  <2>2. IsFiniteSet(old \cup {n}) /\ Cardinality(old \cup {n}) <= Cardinality(old) + 1
    BY <1>1, FS_AddElement
  <2>3. Cardinality(new) <= Cardinality(old \cup {n})
    BY <2>1, <2>2, FS_Subset
  <2>4. Cardinality(old) + 1 <= nMaxInbound
    BY <1>1, <1>2, ConnectionsAssumption DEF InboundBelow
  <2>5. Cardinality(new) \in Nat /\ Cardinality(old \cup {n}) \in Nat
    BY <2>1, <2>2, FS_Subset, FS_CardinalityType
  <2>6. Cardinality(new) <= nMaxInbound
    BY <1>1, <2>2, <2>3, <2>4, <2>5, ConnectionsAssumption
  <2> QED
    BY <2>6 DEF NewNode, ConnectionsTypeOK
<1>3. CASE ~ b
  <2>1. new \subseteq old
    BY <1>3 DEF NewNode, ConnectionsTypeOK
  <2>2. Cardinality(new) <= Cardinality(old) /\ Cardinality(new) \in Nat
    BY <1>1, <2>1, FS_Subset, FS_CardinalityType
  <2>3. Cardinality(new) <= nMaxInbound
    BY <1>1, <2>2, ConnectionsAssumption
  <2> QED
    BY <2>3 DEF NewNode, ConnectionsTypeOK
<1> QED
  BY <1>2, <1>3

(* ... and when some go. *)
LEMMA DisconnectTypes ==
  ASSUME ConnectionsTypeOK, NEW idle \in SUBSET vNodes, DisconnectNodes(idle)
  PROVE  ConnectionsTypeOK'
<1> DEFINE old == {m \in vNodes : fInbound[m]}
           new == {m \in vNodes' : fInbound'[m]}
<1>2. Gone(idle) \subseteq vNodes /\ Dead \subseteq vNodesDisconnected
  BY DEF Gone, Dead
<1>3. IsFiniteSet(old) /\ Cardinality(old) \in Nat /\ Cardinality(old) <= nMaxInbound
  BY Finite DEF ConnectionsTypeOK
<1>4. new \subseteq old
  BY DEF ConnectionsTypeOK, DisconnectNodes
<1>5. Cardinality(new) <= Cardinality(old) /\ Cardinality(new) \in Nat
  BY <1>3, <1>4, FS_Subset, FS_CardinalityType
<1>6. Cardinality(new) <= nMaxInbound
  BY <1>3, <1>5, ConnectionsAssumption
<1>7. Cardinality({n \in Dead : grantOutbound[n]}) \in Nat
  BY <1>2, Finite DEF ConnectionsTypeOK
<1>8. semOutbound' \in Nat
  BY <1>7 DEF ConnectionsTypeOK, DisconnectNodes
<1>9. /\ being' \in [Node -> {"unborn", "live", "deleted"}]
      /\ addr' \in [Node -> Addr \cup {NoAddr}]
      /\ nRefCount' \in [Node -> Int]
  BY DEF ConnectionsTypeOK, DisconnectNodes
<1>10. /\ fInbound' \in [Node -> BOOLEAN] /\ fNetworkNode' \in [Node -> BOOLEAN]
       /\ fDisconnect' \in [Node -> BOOLEAN] /\ grantOutbound' \in [Node -> BOOLEAN]
       /\ held' \in [Node -> BOOLEAN]
  BY DEF ConnectionsTypeOK, DisconnectNodes
<1>11. /\ vNodes' \subseteq Node /\ vNodesDisconnected' \subseteq Node
       /\ overdue' \subseteq vNodes' /\ overcounted' \subseteq Node
       /\ releasing' \subseteq Node /\ raced' \in BOOLEAN
  BY <1>2 DEF ConnectionsTypeOK, DisconnectNodes
<1>12. /\ socket' = "select"
       /\ UNCHANGED <<flags, message, vNodesCopy, opening>>
  BY DEF DisconnectNodes
<1> QED
  BY <1>6, <1>8, <1>9, <1>10, <1>11, <1>12 DEF ConnectionsTypeOK, flags, opening

LEMMA OpenerTypes ==
  ASSUME ConnectionsTypeOK, Phases, NEW o \in Opener, OpenerStep(o)
  PROVE  ConnectionsTypeOK' /\ Phases'
<1>1. ASSUME WaitForSlot(o) PROVE ConnectionsTypeOK' /\ Phases'
  BY <1>1 DEF ConnectionsTypeOK, Phases, WaitForSlot, objects, lists, flags, workers, history
<1>2. ASSUME ConnectFails(o) PROVE ConnectionsTypeOK' /\ Phases'
  BY <1>2 DEF ConnectionsTypeOK, Phases, ConnectFails, objects, lists, flags, workers, history
<1>3. ASSUME AddRefUnlocked(o) PROVE ConnectionsTypeOK' /\ Phases'
  <2>0. PICK gain \in {0, 1, 2} : nRefCount' = [nRefCount EXCEPT ![node[o]] = @ + gain]
    BY <1>3 DEF AddRefUnlocked
  <2>1. node[o] \in Node
    BY <1>3 DEF ConnectionsTypeOK, Phases, AddRefUnlocked
  <2>3. nRefCount' \in [Node -> Int]
    BY <2>0, <2>1 DEF ConnectionsTypeOK
  <2>2. opener' = [opener EXCEPT ![o] = "connected"] /\ opener[o] = "found"
    BY <1>3 DEF AddRefUnlocked
  <2> QED
    BY <1>3, <2>2, <2>3 DEF ConnectionsTypeOK, Phases, AddRefUnlocked, lists, flags, workers, history
<1>4. ASSUME TestGrant(o) PROVE ConnectionsTypeOK' /\ Phases'
  <2>1. /\ opener' = [opener EXCEPT ![o] = IF grantOutbound[node[o]] THEN "releasing" ELSE "released"]
        /\ opener[o] = "connected" /\ raced' \in BOOLEAN
        /\ UNCHANGED <<objects, lists, semOutbound, flags, workers, grant, target, node, usedAddresses>>
        /\ UNCHANGED <<overdue, overcounted>>
    BY <1>4 DEF TestGrant, ConnectionsTypeOK
  <2>2. opener'[o] \in {"releasing", "released"} /\ \A p \in Opener \ {o} : opener'[p] = opener[p]
    BY <2>1 DEF ConnectionsTypeOK
  <2>3. opener' \in [Opener -> {"idle", "granted", "checked", "found", "connected", "releasing",
                                "released", "moved"}]
    BY <2>1 DEF ConnectionsTypeOK
  <2>4. ConnectionsTypeOK'
    BY <2>1, <2>3 DEF ConnectionsTypeOK, objects, lists, flags, workers
  <2> QED
    BY <2>1, <2>2, <2>4 DEF Phases
<1>10. ASSUME ReleaseOld(o) PROVE ConnectionsTypeOK' /\ Phases'
  <2>1. /\ semOutbound' \in Nat /\ grantOutbound' \in [Node -> BOOLEAN]
        /\ opener' = [opener EXCEPT ![o] = "released"] /\ opener[o] = "releasing"
        /\ UNCHANGED <<being, addr, fInbound, fNetworkNode, fDisconnect, nRefCount, held>>
        /\ UNCHANGED <<lists, flags, workers, grant, target, node, usedAddresses, history>>
    <3>1. semOutbound' = semOutbound + 1 /\ grantOutbound' = [grantOutbound EXCEPT ![node[o]] = FALSE]
      BY <1>10 DEF ReleaseOld
    <3>2. semOutbound' \in Nat
      BY <3>1 DEF ConnectionsTypeOK
    <3>3. grantOutbound' \in [Node -> BOOLEAN]
      BY <3>1 DEF ConnectionsTypeOK
    <3> QED
      BY <1>10, <3>2, <3>3 DEF ReleaseOld
  <2>2. ConnectionsTypeOK'
    BY <2>1 DEF ConnectionsTypeOK, lists, flags, workers, history
  <2> QED
    BY <2>1, <2>2 DEF ConnectionsTypeOK, Phases
<1>11. ASSUME SetGrant(o) PROVE ConnectionsTypeOK' /\ Phases'
  <2>1. /\ grantOutbound' \in [Node -> BOOLEAN] /\ grant' \in [Opener -> BOOLEAN]
        /\ raced' \in BOOLEAN
        /\ opener' = [opener EXCEPT ![o] = "moved"] /\ opener[o] = "released"
        /\ grant' = [grant EXCEPT ![o] = FALSE]
        /\ UNCHANGED <<being, addr, fInbound, fNetworkNode, fDisconnect, nRefCount, held>>
        /\ UNCHANGED <<lists, semOutbound, flags, workers, target, node, usedAddresses>>
        /\ UNCHANGED <<overdue, overcounted>>
    BY <1>11 DEF SetGrant, ConnectionsTypeOK
  <2>2. ConnectionsTypeOK'
    BY <2>1 DEF ConnectionsTypeOK, lists, flags, workers
  <2> QED
    BY <2>1, <2>2 DEF ConnectionsTypeOK, Phases
<1>5. ASSUME SetNetworkNode(o) PROVE ConnectionsTypeOK' /\ Phases'
  <2>1. fNetworkNode' \in [Node -> BOOLEAN]
    BY <1>5 DEF ConnectionsTypeOK, SetNetworkNode
  <2> QED
    BY <1>5, <2>1 DEF ConnectionsTypeOK, Phases, SetNetworkNode, lists, flags, workers, history
<1>6. ASSUME EndOfBurst(o) PROVE ConnectionsTypeOK' /\ Phases'
  BY <1>6 DEF ConnectionsTypeOK, Phases, EndOfBurst, objects, lists, flags, workers, history
<1>7. ASSUME NEW a \in Addr, OpenNetworkConnection(o, a) PROVE ConnectionsTypeOK' /\ Phases'
  BY <1>7 DEF ConnectionsTypeOK, Phases, OpenNetworkConnection, objects, lists, flags, workers, history
<1>8. ASSUME NEW n \in Node, FindNode(o, n) PROVE ConnectionsTypeOK' /\ Phases'
  BY <1>8, ConnectionsAssumption
     DEF ConnectionsTypeOK, Phases, FindNode, objects, lists, flags, workers, history
<1>9. ASSUME NEW n \in Node, ConnectNode(o, n) PROVE ConnectionsTypeOK' /\ Phases'
  <2>1. NewNode(n, target[o], FALSE) /\ target[o] \in Addr
    BY <1>9 DEF ConnectNode, Phases
  <2>2. /\ being' \in [Node -> {"unborn", "live", "deleted"}]
        /\ addr' \in [Node -> Addr \cup {NoAddr}]
        /\ fInbound' \in [Node -> BOOLEAN]
        /\ nRefCount' \in [Node -> Int]
        /\ vNodes' \subseteq Node
        /\ overdue \subseteq vNodes'
        /\ Cardinality({m \in vNodes' : fInbound'[m]}) <= nMaxInbound
    BY <2>1, NewNodeTypes
  <2>3. /\ opener' = [opener EXCEPT ![o] = "connected"]
        /\ node' = [node EXCEPT ![o] = n]
        /\ UNCHANGED <<semOutbound, flags, workers, grant, target, usedAddresses, history>>
    BY <1>9 DEF ConnectNode
  <2>4. UNCHANGED <<fNetworkNode, fDisconnect, grantOutbound, held, vNodesDisconnected>>
    BY <2>1 DEF NewNode
  <2>5. ConnectionsTypeOK'
    BY <2>2, <2>3, <2>4 DEF ConnectionsTypeOK, flags, workers, history
  <2> QED
    BY <2>3, <2>5, ConnectionsAssumption DEF ConnectionsTypeOK, Phases
<1> QED
  BY <1>1, <1>2, <1>3, <1>4, <1>5, <1>6, <1>7, <1>8, <1>9, <1>10, <1>11 DEF OpenerStep

LEMMA WorkerTypes ==
  ASSUME ConnectionsTypeOK, NEW t \in Worker, CopyNodes(t) \/ ReleaseNodes(t)
  PROVE  /\ vNodesCopy' \in [Worker -> SUBSET Node]
         /\ nRefCount' \in [Node -> Int]
         /\ UNCHANGED <<being, addr, fInbound, fNetworkNode, fDisconnect, grantOutbound, held>>
         /\ UNCHANGED <<vNodes, vNodesDisconnected, semOutbound, overdue, overcounted, raced>>
         /\ UNCHANGED <<fForceReconnect, fForceReconnectProcessed>>
         /\ UNCHANGED <<opener, grant, target, node, usedAddresses>>
BY DEF ConnectionsTypeOK, CopyNodes, ReleaseNodes, lists, flags, opening, history

LEMMA TypesInductive ==
  ASSUME ConnectionsTypeOK, Phases, [ConnectionsNext]_netVars
  PROVE  ConnectionsTypeOK' /\ Phases'
<1>1. ASSUME NEW o \in Opener, OpenerStep(o) PROVE ConnectionsTypeOK' /\ Phases'
  BY <1>1, OpenerTypes
<1>2. ASSUME DemandReconnect PROVE ConnectionsTypeOK' /\ Phases'
  BY <1>2 DEF ConnectionsTypeOK, Phases, DemandReconnect, objects, lists, workers, opening
<1>3. ASSUME NEW idle \in SUBSET vNodes, DisconnectNodes(idle) PROVE ConnectionsTypeOK' /\ Phases'
  BY <1>3, DisconnectTypes DEF Phases, DisconnectNodes, opening
<1>12. ASSUME ReleaseGrants PROVE ConnectionsTypeOK' /\ Phases'
  <2>1. Cardinality(releasing) \in Nat
    BY Finite DEF ConnectionsTypeOK
  <2>2. semOutbound' \in Nat /\ grantOutbound' \in [Node -> BOOLEAN] /\ releasing' = {}
    BY <1>12, <2>1 DEF ReleaseGrants, ConnectionsTypeOK
  <2> QED
    BY <1>12, <2>2 DEF ConnectionsTypeOK, Phases, ReleaseGrants, lists, flags, opening, history
<1>4. ASSUME ReturnToReconnect PROVE ConnectionsTypeOK' /\ Phases'
  BY <1>4 DEF ConnectionsTypeOK, Phases, ReturnToReconnect, OnceMore, objects, opening, history
<1>5. ASSUME GoOn PROVE ConnectionsTypeOK' /\ Phases'
  BY <1>5 DEF ConnectionsTypeOK, Phases, GoOn, objects, lists, flags, opening, history
<1>6. ASSUME StartServicing \/ EndServicing PROVE ConnectionsTypeOK' /\ Phases'
  <2>1. PICK t \in Worker : CopyNodes(t) \/ ReleaseNodes(t)
    BY <1>6 DEF StartServicing, EndServicing, Worker
  <2>2. socket' \in {"service", "disconnect"} /\ message' = message /\ releasing' = releasing
    BY <1>6 DEF StartServicing, EndServicing
  <2>3. Phases'
    BY <2>1, WorkerTypes DEF Phases
  <2> QED
    BY <2>1, <2>2, <2>3, WorkerTypes DEF ConnectionsTypeOK
<1>7. ASSUME MessageStep PROVE ConnectionsTypeOK' /\ Phases'
  <2>1. PICK t \in Worker : CopyNodes(t) \/ ReleaseNodes(t)
    BY <1>7 DEF MessageStep, StartHandling, EndHandling, Worker
  <2>2. message' \in {"idle", "handling"} /\ socket' = socket /\ releasing' = releasing
    BY <1>7 DEF MessageStep, StartHandling, EndHandling
  <2>3. Phases'
    BY <2>1, WorkerTypes DEF Phases
  <2> QED
    BY <2>1, <2>2, <2>3, WorkerTypes DEF ConnectionsTypeOK
<1>8. ASSUME NEW n \in Node, HoldEnds(n) PROVE ConnectionsTypeOK' /\ Phases'
  BY <1>8 DEF ConnectionsTypeOK, Phases, HoldEnds, lists, flags, workers, opening, history
<1>9. ASSUME NEW n \in Node, NEW a \in Addr, Accept(n, a) PROVE ConnectionsTypeOK' /\ Phases'
  <2>1. NewNode(n, a, TRUE) /\ InboundBelow
    BY <1>9 DEF Accept
  <2>2. /\ being' \in [Node -> {"unborn", "live", "deleted"}]
        /\ addr' \in [Node -> Addr \cup {NoAddr}]
        /\ fInbound' \in [Node -> BOOLEAN]
        /\ nRefCount' \in [Node -> Int]
        /\ vNodes' \subseteq Node
        /\ overdue \subseteq vNodes'
        /\ Cardinality({m \in vNodes' : fInbound'[m]}) <= nMaxInbound
    BY <2>1, NewNodeTypes
  <2> QED
    BY <1>9, <2>1, <2>2 DEF ConnectionsTypeOK, Phases, Accept, NewNode, flags, workers, opening, history
<1>10. ASSUME NEW n \in Node, NEW t \in Worker, Disconnect(t, n) PROVE ConnectionsTypeOK' /\ Phases'
  BY <1>10 DEF ConnectionsTypeOK, Phases, Disconnect, lists, flags, workers, opening, history
<1>11. ASSUME UNCHANGED netVars PROVE ConnectionsTypeOK' /\ Phases'
  BY <1>11 DEF ConnectionsTypeOK, Phases, netVars, objects, lists, flags, workers, opening, history
<1> QED
  BY <1>1, <1>2, <1>3, <1>4, <1>5, <1>6, <1>7, <1>8, <1>9, <1>10, <1>11, <1>12
     DEF ConnectionsNext, SocketStep

LEMMA InitTypes ==
  ASSUME ConnectionsInit
  PROVE  ConnectionsTypeOK /\ Phases
<1>1. Cardinality({n \in vNodes : fInbound[n]}) = 0
  BY FS_EmptySet DEF ConnectionsInit
<1>2. Phases
  BY DEF ConnectionsInit, Phases
<1>3. Cardinality({n \in vNodes : fInbound[n]}) <= nMaxInbound
  BY <1>1, ConnectionsAssumption
<1>4. semOutbound \in Nat
  BY ConnectionsAssumption DEF ConnectionsInit
<1>8. nRefCount \in [Node -> Int]
  BY DEF ConnectionsInit
<1>9. fForceReconnect \in BOOLEAN /\ fForceReconnectProcessed \in BOOLEAN
  BY DEF ConnectionsInit
<1>5. /\ being \in [Node -> {"unborn", "live", "deleted"}]
      /\ addr \in [Node -> Addr \cup {NoAddr}]
      /\ fInbound \in [Node -> BOOLEAN] /\ fNetworkNode \in [Node -> BOOLEAN]
      /\ fDisconnect \in [Node -> BOOLEAN] /\ grantOutbound \in [Node -> BOOLEAN]
      /\ held \in [Node -> BOOLEAN]
  BY DEF ConnectionsInit
<1>6. /\ vNodesCopy \in [Worker -> SUBSET Node]
      /\ opener \in [Opener -> {"idle", "granted", "checked", "found", "connected", "releasing",
                                "released", "moved"}]
      /\ grant \in [Opener -> BOOLEAN]
      /\ target \in [Opener -> Addr \cup {NoAddr}]
      /\ node \in [Opener -> Node \cup {NoNode}]
      /\ usedAddresses \in [Opener -> SUBSET Addr]
  BY DEF ConnectionsInit
<1>7. /\ vNodes \subseteq Node /\ vNodesDisconnected \subseteq Node
      /\ socket \in {"disconnect", "select", "accept", "service"}
      /\ message \in {"idle", "handling"}
      /\ overdue \subseteq vNodes /\ overcounted \subseteq Node /\ raced \in BOOLEAN
      /\ releasing \subseteq Node
  BY DEF ConnectionsInit
<1> QED
  BY <1>2, <1>3, <1>4, <1>5, <1>6, <1>7, <1>8, <1>9 DEF ConnectionsTypeOK

(* Every variable keeps its type, and inbound connections their limit. *)
THEOREM ConnectionsTypeCorrect == ConnectionsSpec => []ConnectionsTypeOK
<1>1. ConnectionsInit => ConnectionsTypeOK /\ Phases
  BY InitTypes
<1>2. ConnectionsTypeOK /\ Phases /\ [ConnectionsNext]_netVars => (ConnectionsTypeOK /\ Phases)'
  BY TypesInductive
<1> QED
  BY <1>1, <1>2, PTL DEF ConnectionsSpec

----------------------------------------------------------------------------
(* Deletion *)

Uses(t, n) == IF n \in vNodesCopy[t] THEN 1 ELSE 0

(* The count is at least the workers that use the node, and one more while  *)
(* it is connected, so that a disconnected node with a count of zero is     *)
(* used by no worker...                                                     *)
Counted ==
  \A n \in Live :
    nRefCount[n] >= Uses("socket", n) + Uses("message", n) + (IF n \in vNodes THEN 1 ELSE 0)

(* ... and the hold protects it for the threads that open connections.      *)
Kept == \A o \in Opener : node[o] # NoNode => node[o] \in vNodes \/ held[node[o]]

CopyPhases ==
  /\ socket # "service" => vNodesCopy["socket"] = {}
  /\ message = "idle" => vNodesCopy["message"] = {}

UseInv ==
  /\ NodesInUseExist
  /\ Counted
  /\ Kept
  /\ vNodes \cap vNodesDisconnected = {}
  /\ CopyPhases

LEMMA NewNodeUses ==
  ASSUME ConnectionsTypeOK, UseInv, NEW n \in Node, NEW a, NEW b, NewNode(n, a, b),
         UNCHANGED vNodesCopy
  PROVE  /\ Live' = Live \cup {n} /\ n \notin Live
         /\ vNodes' \cup vNodesDisconnected' \subseteq Live'
         /\ Counted'
         /\ vNodes' \cap vNodesDisconnected' = {}
<1>1. Live' = Live \cup {n} /\ n \notin Live
  BY NewNodeIsUnborn DEF NewNode, Live, ConnectionsTypeOK
<1>2. vNodes' = vNodes \cup {n} /\ vNodesDisconnected' = vNodesDisconnected
  BY DEF NewNode
<1>3. n \notin vNodes \cup vNodesDisconnected
  BY <1>1 DEF UseInv, NodesInUseExist
<1>4. n \notin vNodesCopy["socket"] /\ n \notin vNodesCopy["message"]
  BY <1>1 DEF UseInv, NodesInUseExist, Worker
<1>5. ASSUME NEW m \in Live'
      PROVE nRefCount'[m] >= Uses("socket", m)' + Uses("message", m)'
                              + (IF m \in vNodes' THEN 1 ELSE 0)
  <2>1. CASE m = n
    <3>1. nRefCount'[m] = 1
      BY <2>1 DEF NewNode, ConnectionsTypeOK
    <3> QED
      BY <2>1, <3>1, <1>2, <1>4 DEF Uses
  <2>2. CASE m # n
    <3>1. nRefCount'[m] = nRefCount[m] /\ m \in Live
      BY <1>1, <1>5, <2>2 DEF NewNode, ConnectionsTypeOK, Live
    <3> QED
      BY <2>2, <3>1, <1>2 DEF Uses, UseInv, Counted
  <2> QED
    BY <2>1, <2>2
<1> QED
  BY <1>1, <1>2, <1>3, <1>5 DEF Counted, UseInv, NodesInUseExist

(* Nobody points to a node that is deleted. *)
LEMMA DeadAreUnused ==
  ASSUME ConnectionsTypeOK, UseInv, socket = "disconnect"
  PROVE  /\ Dead \cap vNodes = {}
         /\ \A t \in Worker : Dead \cap vNodesCopy[t] = {}
         /\ \A o \in Opener : node[o] # NoNode => node[o] \notin Dead
<1>1. ASSUME NEW n \in Dead
      PROVE  n \notin vNodes /\ n \in Live /\ nRefCount[n] <= 0 /\ ~ held[n]
  BY DEF Dead, Deletable, Unreferenced, UseInv, NodesInUseExist
<1>2. ASSUME NEW n \in Dead, NEW t \in Worker PROVE n \notin vNodesCopy[t]
  <2>1. n \in Live /\ nRefCount[n] <= 0 /\ nRefCount[n] \in Int
    BY <1>1 DEF ConnectionsTypeOK, Live
  <2>2. nRefCount[n] >= Uses("socket", n) + Uses("message", n) + (IF n \in vNodes THEN 1 ELSE 0)
    BY <2>1 DEF UseInv, Counted
  <2> QED
    BY <2>1, <2>2 DEF Uses, Worker
<1>3. ASSUME NEW o \in Opener, node[o] # NoNode PROVE node[o] \notin Dead
  BY <1>1, <1>3 DEF UseInv, Kept
<1> QED
  BY <1>1, <1>2, <1>3

LEMMA DisconnectUses ==
  ASSUME ConnectionsTypeOK, UseInv, NEW idle \in SUBSET vNodes, DisconnectNodes(idle)
  PROVE  UseInv'
<1>1. Gone(idle) \subseteq vNodes /\ Dead \subseteq vNodesDisconnected
  BY DEF Gone, Dead
<1>2. vNodes \subseteq Node /\ vNodesDisconnected \subseteq Node
  BY DEF ConnectionsTypeOK
<1>3. Live' = Live \ Dead
  BY DEF DisconnectNodes, Live, ConnectionsTypeOK
<1>4. /\ Dead \cap vNodes = {}
      /\ \A t \in Worker : Dead \cap vNodesCopy[t] = {}
      /\ \A o \in Opener : node[o] # NoNode => node[o] \notin Dead
  BY DeadAreUnused DEF DisconnectNodes
<1>5. /\ vNodes' = vNodes \ Gone(idle)
      /\ vNodesDisconnected' = (vNodesDisconnected \cup Gone(idle)) \ Dead
      /\ vNodesCopy' = vNodesCopy /\ node' = node /\ message' = message
      /\ socket' = "select" /\ socket = "disconnect"
  BY DEF DisconnectNodes, opening
<1>6. NodesInUseExist'
  <2>1. vNodes' \cup vNodesDisconnected' \subseteq Live'
    BY <1>1, <1>3, <1>4, <1>5 DEF UseInv, NodesInUseExist
  <2>2. ASSUME NEW t \in Worker PROVE vNodesCopy'[t] \subseteq Live'
    BY <1>3, <1>4, <1>5 DEF UseInv, NodesInUseExist
  <2>3. ASSUME NEW o \in Opener, node'[o] # NoNode PROVE node'[o] \in Live'
    BY <1>3, <1>4, <1>5, <2>3 DEF UseInv, NodesInUseExist
  <2> QED
    BY <2>1, <2>2, <2>3 DEF NodesInUseExist
<1>7. ASSUME NEW n \in Live'
      PROVE nRefCount'[n] >= Uses("socket", n)' + Uses("message", n)'
                              + (IF n \in vNodes' THEN 1 ELSE 0)
  <2>1. n \in Live /\ n \in Node
    BY <1>3 DEF Live
  <2>2. nRefCount'[n] = nRefCount[n] - (IF n \in Gone(idle) /\ Releases(n) THEN 1 ELSE 0)
    BY <2>1 DEF DisconnectNodes
  <2>3. nRefCount[n] >= Uses("socket", n) + Uses("message", n) + (IF n \in vNodes THEN 1 ELSE 0)
    BY <2>1 DEF UseInv, Counted
  <2>4. nRefCount[n] \in Int
    BY <2>1 DEF ConnectionsTypeOK
  <2>5. Uses("socket", n)' = Uses("socket", n) /\ Uses("message", n)' = Uses("message", n)
    BY <1>5 DEF Uses
  <2>6. Uses("socket", n) \in Int /\ Uses("message", n) \in Int
    BY DEF Uses
  <2>7. CASE n \in Gone(idle)
    BY <2>2, <2>3, <2>4, <2>5, <2>6, <2>7, <1>1, <1>5
  <2>8. CASE n \notin Gone(idle)
    BY <2>2, <2>3, <2>4, <2>5, <2>6, <2>8, <1>1, <1>5
  <2> QED
    BY <2>7, <2>8
<1>8. Kept'
  <2>1. ASSUME NEW o \in Opener, node'[o] # NoNode
        PROVE  node'[o] \in vNodes' \/ held'[node'[o]]
    <3>1. node[o] \in Node /\ (node[o] \in vNodes \/ held[node[o]])
      BY <2>1, <1>5 DEF UseInv, Kept, NodesInUseExist, Live
    <3>2. held'[node[o]] = (held[node[o]] \/ node[o] \in Gone(idle))
      BY <3>1 DEF DisconnectNodes
    <3> QED
      BY <3>1, <3>2, <1>5
  <2> QED
    BY <2>1 DEF Kept
<1>9. CopyPhases'
  BY <1>5 DEF UseInv, CopyPhases
<1> QED
  BY <1>1, <1>4, <1>5, <1>6, <1>7, <1>8, <1>9 DEF UseInv, Counted

LEMMA WorkerUses ==
  ASSUME ConnectionsTypeOK, UseInv, NEW t \in Worker,
         \/ CopyNodes(t) /\ vNodesCopy[t] = {}
         \/ ReleaseNodes(t)
  PROVE  NodesInUseExist' /\ Counted' /\ Kept' /\ vNodes' \cap vNodesDisconnected' = {}
<1>1. /\ UNCHANGED <<being, held, vNodes, vNodesDisconnected, node>>
      /\ vNodesCopy' = [vNodesCopy EXCEPT ![t] = IF CopyNodes(t) THEN vNodes ELSE {}]
  BY WorkerTypes DEF CopyNodes, ReleaseNodes
<1>2. Live' = Live
  BY <1>1 DEF Live
<1>3. NodesInUseExist'
  BY <1>1, <1>2 DEF UseInv, NodesInUseExist, ConnectionsTypeOK
<1>4. Kept'
  BY <1>1 DEF UseInv, Kept
<1>5. ASSUME NEW n \in Live'
      PROVE nRefCount'[n] >= Uses("socket", n)' + Uses("message", n)'
                              + (IF n \in vNodes' THEN 1 ELSE 0)
  <2>1. n \in Live /\ n \in Node
    BY <1>2 DEF Live
  <2>2. nRefCount[n] >= Uses("socket", n) + Uses("message", n) + (IF n \in vNodes THEN 1 ELSE 0)
    BY <2>1 DEF UseInv, Counted
  <2>3. nRefCount[n] \in Int
    BY <2>1 DEF ConnectionsTypeOK
  <2>4. nRefCount'[n] - nRefCount[n] = Uses(t, n)' - Uses(t, n)
    <3>1. CASE CopyNodes(t) /\ vNodesCopy[t] = {}
      <4>1. vNodesCopy'[t] = vNodes
        BY <3>1, <1>1 DEF ConnectionsTypeOK
      <4>2. nRefCount'[n] = nRefCount[n] + (IF n \in vNodes THEN 1 ELSE 0)
        BY <2>1, <3>1 DEF CopyNodes
      <4> QED
        BY <2>3, <3>1, <4>1, <4>2 DEF Uses
    <3>2. CASE ReleaseNodes(t)
      <4>1. vNodesCopy'[t] = {}
        BY <3>2 DEF ConnectionsTypeOK, ReleaseNodes
      <4>2. nRefCount'[n] = nRefCount[n] - (IF n \in vNodesCopy[t] THEN 1 ELSE 0)
        BY <2>1, <3>2 DEF ReleaseNodes
      <4> QED
        BY <2>3, <4>1, <4>2 DEF Uses
    <3> QED
      BY <3>1, <3>2
  <2>5. \A u \in Worker \ {t} : Uses(u, n)' = Uses(u, n)
    BY <1>1 DEF Uses, ConnectionsTypeOK
  <2>6. nRefCount'[n] \in Int
    BY <2>1, WorkerTypes
  <2>7. \A u \in Worker : Uses(u, n) \in Int /\ Uses(u, n)' \in Int
    BY DEF Uses
  <2>8. vNodes' = vNodes
    BY <1>1
  <2> QED
    BY <2>2, <2>3, <2>4, <2>5, <2>6, <2>7, <2>8 DEF Worker
<1> QED
  BY <1>1, <1>3, <1>4, <1>5 DEF Counted, UseInv

LEMMA UseInductive ==
  ASSUME ConnectionsTypeOK, Phases, UseInv, [ConnectionsNext]_netVars
  PROVE  UseInv'
<1>1. ASSUME NEW o \in Opener,
             \/ WaitForSlot(o) \/ ConnectFails(o) \/ EndOfBurst(o)
             \/ TestGrant(o) \/ ReleaseOld(o) \/ SetGrant(o)
             \/ \E a \in Addr : OpenNetworkConnection(o, a)
      PROVE  UseInv'
  <2>1. UNCHANGED <<being, held, nRefCount, vNodes, vNodesDisconnected, node,
                    vNodesCopy, socket, message>>
    BY <1>1 DEF WaitForSlot, ConnectFails, EndOfBurst, TestGrant, ReleaseOld, SetGrant, OpenNetworkConnection,
                objects, lists, workers
  <2> QED
    BY <2>1 DEF UseInv, NodesInUseExist, Counted, Kept, CopyPhases, Live, Uses
<1>2. ASSUME NEW o \in Opener, AddRefUnlocked(o) PROVE UseInv'
  <2>1. UNCHANGED <<being, held, vNodes, vNodesDisconnected, node, vNodesCopy, socket, message>>
    BY <1>2 DEF AddRefUnlocked, lists, workers
  <2>2. PICK gain \in {0, 1, 2} : nRefCount' = [nRefCount EXCEPT ![node[o]] = @ + gain]
    BY <1>2 DEF AddRefUnlocked
  <2>3. ASSUME NEW n \in Live'
        PROVE nRefCount'[n] >= Uses("socket", n)' + Uses("message", n)'
                                + (IF n \in vNodes' THEN 1 ELSE 0)
    <3>1. n \in Live /\ n \in Node
      BY <2>1 DEF Live
    <3>2. nRefCount[n] >= Uses("socket", n) + Uses("message", n) + (IF n \in vNodes THEN 1 ELSE 0)
      BY <3>1 DEF UseInv, Counted
    <3>3. nRefCount[n] \in Int /\ nRefCount'[n] \in Int /\ nRefCount'[n] >= nRefCount[n]
      BY <2>2, <3>1 DEF ConnectionsTypeOK
    <3> QED
      BY <2>1, <3>2, <3>3 DEF Uses
  <2>4. Live' = Live
    BY <2>1 DEF Live
  <2> QED
    BY <2>1, <2>3, <2>4 DEF UseInv, NodesInUseExist, Counted, Kept, CopyPhases
<1>3. ASSUME NEW o \in Opener, SetNetworkNode(o) PROVE UseInv'
  <2>1. /\ UNCHANGED <<being, held, nRefCount, vNodes, vNodesDisconnected, vNodesCopy,
                       socket, message>>
        /\ node' = [node EXCEPT ![o] = NoNode]
    BY <1>3 DEF SetNetworkNode, lists, workers
  <2>2. ASSUME NEW p \in Opener, node'[p] # NoNode PROVE node'[p] = node[p]
    BY <2>1, <2>2 DEF ConnectionsTypeOK
  <2> QED
    BY <2>1, <2>2 DEF UseInv, NodesInUseExist, Counted, Kept, CopyPhases, Live, Uses
<1>4. ASSUME NEW o \in Opener, NEW n \in Node, FindNode(o, n) PROVE UseInv'
  <2>1. /\ UNCHANGED <<being, held, nRefCount, vNodes, vNodesDisconnected, vNodesCopy,
                       socket, message>>
        /\ node' = [node EXCEPT ![o] = n]
        /\ n \in vNodes
    BY <1>4 DEF FindNode, SameService, objects, lists, workers
  <2>2. ASSUME NEW p \in Opener PROVE node'[p] = IF p = o THEN n ELSE node[p]
    BY <2>1 DEF ConnectionsTypeOK
  <2> QED
    BY <2>1, <2>2 DEF UseInv, NodesInUseExist, Counted, Kept, CopyPhases, Live, Uses
<1>5. ASSUME NEW n \in Node, NEW a, NEW b, NewNode(n, a, b),
             UNCHANGED <<vNodesCopy, socket, message>>,
             \A o \in Opener : node'[o] \in {node[o], n}
      PROVE  UseInv'
  <2>1. /\ Live' = Live \cup {n} /\ n \notin Live
        /\ vNodes' \cup vNodesDisconnected' \subseteq Live'
        /\ Counted'
        /\ vNodes' \cap vNodesDisconnected' = {}
    BY <1>5, NewNodeUses
  <2>2. held' = held /\ vNodes' = vNodes \cup {n}
    BY <1>5 DEF NewNode
  <2>3. NodesInUseExist'
    BY <1>5, <2>1 DEF UseInv, NodesInUseExist
  <2>4. Kept'
    BY <1>5, <2>2 DEF UseInv, Kept
  <2> QED
    BY <1>5, <2>1, <2>3, <2>4 DEF UseInv, CopyPhases
<1>6. ASSUME NEW o \in Opener, NEW n \in Node, ConnectNode(o, n) PROVE UseInv'
  <2>1. /\ NewNode(n, target[o], FALSE)
        /\ UNCHANGED <<vNodesCopy, socket, message>>
        /\ node' = [node EXCEPT ![o] = n]
    BY <1>6 DEF ConnectNode, workers
  <2>2. \A p \in Opener : node'[p] \in {node[p], n}
    BY <2>1 DEF ConnectionsTypeOK
  <2> QED
    BY <2>1, <2>2, <1>5
<1>7. ASSUME NEW n \in Node, NEW a \in Addr, Accept(n, a) PROVE UseInv'
  <2>1. /\ NewNode(n, a, TRUE)
        /\ UNCHANGED <<vNodesCopy, socket, message, node>>
    BY <1>7 DEF Accept, workers, opening
  <2> QED
    BY <2>1, <1>5
<1>8. ASSUME NEW idle \in SUBSET vNodes, DisconnectNodes(idle) PROVE UseInv'
  BY <1>8, DisconnectUses
<1>5a. ASSUME ReleaseGrants PROVE UseInv'
  <2>1. UNCHANGED <<being, held, nRefCount, vNodes, vNodesDisconnected, node, vNodesCopy, socket, message>>
    BY <1>5a DEF ReleaseGrants, lists, opening
  <2> QED
    BY <2>1 DEF UseInv, NodesInUseExist, Counted, Kept, CopyPhases, Live, Uses
<1>9. ASSUME ReturnToReconnect PROVE UseInv'
  <2>1. /\ UNCHANGED <<being, held, nRefCount, vNodes, node, vNodesCopy, message>>
        /\ vNodesDisconnected' = {} /\ socket = "select" /\ socket' = "disconnect"
    BY <1>9 DEF ReturnToReconnect, objects, opening
  <2> QED
    BY <2>1 DEF UseInv, NodesInUseExist, Counted, Kept, CopyPhases, Live, Uses
<1>10. ASSUME GoOn PROVE UseInv'
  <2>1. /\ UNCHANGED <<being, held, nRefCount, vNodes, vNodesDisconnected, node, vNodesCopy, message>>
        /\ socket = "select" /\ socket' = "accept"
    BY <1>10 DEF GoOn, objects, lists, opening
  <2> QED
    BY <2>1 DEF UseInv, NodesInUseExist, Counted, Kept, CopyPhases, Live, Uses
<1>11. ASSUME NEW t \in Worker, NEW u \in Worker, u # t,
              \/ CopyNodes(t) /\ vNodesCopy[t] = {}
              \/ ReleaseNodes(t)
       PROVE  /\ NodesInUseExist' /\ Counted' /\ Kept' /\ vNodes' \cap vNodesDisconnected' = {}
              /\ vNodesCopy'[u] = vNodesCopy[u]
              /\ ReleaseNodes(t) => vNodesCopy'[t] = {}
  <2>1. vNodesCopy'[u] = vNodesCopy[u] /\ (ReleaseNodes(t) => vNodesCopy'[t] = {})
    BY <1>11 DEF CopyNodes, ReleaseNodes, ConnectionsTypeOK
  <2> QED
    BY <1>11, <2>1, WorkerUses
<1>12. ASSUME StartServicing \/ EndServicing PROVE UseInv'
  <2>1. \/ CopyNodes("socket") /\ vNodesCopy["socket"] = {}
        \/ ReleaseNodes("socket")
    BY <1>12 DEF StartServicing, EndServicing, UseInv, CopyPhases
  <2>2. message' = message /\ (socket' = "service" \/ ReleaseNodes("socket"))
    BY <1>12 DEF StartServicing, EndServicing
  <2>3. "socket" \in Worker /\ "message" \in Worker
    BY DEF Worker
  <2> QED
    BY <1>11, <2>1, <2>2, <2>3 DEF UseInv, CopyPhases
<1>13. ASSUME MessageStep PROVE UseInv'
  <2>1. \/ CopyNodes("message") /\ vNodesCopy["message"] = {}
        \/ ReleaseNodes("message")
    BY <1>13 DEF MessageStep, StartHandling, EndHandling, UseInv, CopyPhases
  <2>2. socket' = socket /\ (message' = "handling" \/ ReleaseNodes("message"))
    BY <1>13 DEF MessageStep, StartHandling, EndHandling
  <2>3. "socket" \in Worker /\ "message" \in Worker
    BY DEF Worker
  <2> QED
    BY <1>11, <2>1, <2>2, <2>3 DEF UseInv, CopyPhases
<1>14. ASSUME NEW n \in Node, HoldEnds(n) PROVE UseInv'
  <2>1. /\ UNCHANGED <<being, nRefCount, vNodes, vNodesDisconnected, node, vNodesCopy, socket, message>>
        /\ held' = [held EXCEPT ![n] = FALSE]
        /\ \A o \in Opener : node[o] # n
    BY <1>14 DEF HoldEnds, lists, workers, opening
  <2>2. Kept'
    BY <2>1 DEF UseInv, Kept, NodesInUseExist, Live, ConnectionsTypeOK
  <2> QED
    BY <2>1, <2>2 DEF UseInv, NodesInUseExist, Counted, CopyPhases, Live, Uses
<1>15. ASSUME \/ DemandReconnect
              \/ \E n \in Node, t \in Worker : Disconnect(t, n)
              \/ UNCHANGED netVars
       PROVE UseInv'
  <2>1. UNCHANGED <<being, held, nRefCount, vNodes, vNodesDisconnected, node,
                    vNodesCopy, socket, message>>
    BY <1>15 DEF DemandReconnect, Disconnect, netVars, objects, lists, workers, opening
  <2> QED
    BY <2>1 DEF UseInv, NodesInUseExist, Counted, Kept, CopyPhases, Live, Uses
<1> QED
  BY <1>1, <1>2, <1>3, <1>4, <1>5a, <1>6, <1>7, <1>8, <1>9, <1>10, <1>12, <1>13, <1>14, <1>15
     DEF ConnectionsNext, OpenerStep, SocketStep

(* No node is deleted that a list, a worker or an opening thread points to.  *)
THEOREM NodesInUseSafe == ConnectionsSpec => []NodesInUseExist
<1>1. ConnectionsInit => UseInv
  BY DEF ConnectionsInit, UseInv, NodesInUseExist, Counted, Kept, CopyPhases, Live, Worker
<1>2. ConnectionsInit => ConnectionsTypeOK /\ Phases
  BY InitTypes
<1>3. ConnectionsTypeOK /\ Phases /\ UseInv /\ [ConnectionsNext]_netVars
      => (ConnectionsTypeOK /\ Phases /\ UseInv)'
  BY TypesInductive, UseInductive
<1>4. UseInv => NodesInUseExist
  BY DEF UseInv
<1> QED
  BY <1>1, <1>2, <1>3, <1>4, PTL DEF ConnectionsSpec

----------------------------------------------------------------------------
(* Reconnection *)

(* The flag is kept over a second pass, and that pass, which begins with    *)
(* the flag set, takes every node off the list.                             *)
ReconnectInv ==
  /\ ReconnectReachesAll
  /\ fForceReconnectProcessed => fForceReconnect
  /\ fForceReconnectProcessed /\ socket # "disconnect" => overdue = {}

LEMMA ReconnectInductive ==
  ASSUME ConnectionsTypeOK, ReconnectInv, [ConnectionsNext]_netVars
  PROVE  ReconnectInv'
<1> USE DEF ReconnectInv, ReconnectReachesAll
<1>1. ASSUME NEW o \in Opener, OpenerStep(o) PROVE ReconnectInv'
  <2>1. UNCHANGED <<fForceReconnect, fForceReconnectProcessed, socket, overdue>>
    BY <1>1 DEF OpenerStep, WaitForSlot, ConnectFails, AddRefUnlocked, TestGrant, ReleaseOld,
                SetGrant, SetNetworkNode,
                EndOfBurst, OpenNetworkConnection, FindNode, ConnectNode, flags, workers, history
  <2> QED
    BY <2>1
<1>2. ASSUME DemandReconnect PROVE ReconnectInv'
  BY <1>2 DEF DemandReconnect
<1>3. ASSUME NEW idle \in SUBSET vNodes, DisconnectNodes(idle) PROVE ReconnectInv'
  <2>1. /\ UNCHANGED <<fForceReconnect, fForceReconnectProcessed>>
        /\ overdue' = overdue \ Gone(idle)
    BY <1>3 DEF DisconnectNodes, flags
  <2>2. fForceReconnect => Gone(idle) = vNodes
    BY DEF Gone
  <2> QED
    BY <2>1, <2>2 DEF ConnectionsTypeOK
<1>4. ASSUME ReturnToReconnect PROVE ReconnectInv'
  BY <1>4 DEF ReturnToReconnect, OnceMore, history, ConnectionsTypeOK
<1>8. ASSUME ReleaseGrants PROVE ReconnectInv'
  BY <1>8 DEF ReleaseGrants, flags, history
<1>5. ASSUME GoOn PROVE ReconnectInv'
  BY <1>5 DEF GoOn, flags, history
<1>6. ASSUME \/ StartServicing \/ EndServicing \/ MessageStep
             \/ \E n \in Node : \/ HoldEnds(n) \/ \E a \in Addr : Accept(n, a)
                                \/ \E t \in Worker : Disconnect(t, n)
      PROVE ReconnectInv'
  <2>1. /\ UNCHANGED <<fForceReconnect, fForceReconnectProcessed, overdue>>
        /\ socket = "disconnect" => socket' = "disconnect"
    BY <1>6 DEF StartServicing, EndServicing, MessageStep, StartHandling, EndHandling, CopyNodes,
                ReleaseNodes, HoldEnds, Accept, Disconnect, flags, workers, history
  <2>2. socket' = "disconnect" => socket = "disconnect" \/ ~ fForceReconnectProcessed \/ overdue = {}
    OBVIOUS
  <2> QED
    BY <2>1, <2>2
<1>7. ASSUME UNCHANGED netVars PROVE ReconnectInv'
  BY <1>7 DEF netVars, flags, workers, history
<1> QED
  BY <1>1, <1>2, <1>3, <1>4, <1>5, <1>6, <1>7, <1>8 DEF ConnectionsNext, SocketStep

(* A reconnection that is over has reached every connection. *)
THEOREM ReconnectSafe == ConnectionsSpec => []ReconnectReachesAll
<1>1. ConnectionsInit => ReconnectInv
  BY DEF ConnectionsInit, ReconnectInv, ReconnectReachesAll
<1>2. ConnectionsInit => ConnectionsTypeOK /\ Phases
  BY InitTypes
<1>3. ConnectionsTypeOK /\ Phases /\ ReconnectInv /\ [ConnectionsNext]_netVars
      => (ConnectionsTypeOK /\ Phases /\ ReconnectInv)'
  BY TypesInductive, ReconnectInductive
<1>4. ReconnectInv => ReconnectReachesAll
  BY DEF ReconnectInv
<1> QED
  BY <1>1, <1>2, <1>3, <1>4, PTL DEF ConnectionsSpec

----------------------------------------------------------------------------
(* Slots *)

(* How many have a slot, when one loses it... *)
LEMMA OneLoses ==
  ASSUME NEW old, IsFiniteSet(old), NEW x, NEW new, new = old \ {x}
  PROVE  Cardinality(new) = Cardinality(old) - (IF x \in old THEN 1 ELSE 0)
<1>1. Cardinality(old) \in Nat
  BY FS_CardinalityType
<1>2. Cardinality(old \ {x}) =
        IF x \in old THEN Cardinality(old) - 1 ELSE Cardinality(old)
  BY FS_RemoveElement
<1> QED
  BY <1>1, <1>2

(* ... when one gets or loses it... *)
LEMMA OneChanges ==
  ASSUME NEW old, IsFiniteSet(old), NEW x, NEW b \in BOOLEAN,
         NEW new, new = IF b THEN old \cup {x} ELSE old \ {x}
  PROVE  Cardinality(new) =
           Cardinality(old) - (IF x \in old THEN 1 ELSE 0) + (IF b THEN 1 ELSE 0)
<1>1. Cardinality(old) \in Nat
  BY FS_CardinalityType
<1>2. CASE b
  BY <1>1, <1>2, FS_AddElement
<1>3. CASE ~ b
  <2>1. Cardinality(new) = Cardinality(old) - (IF x \in old THEN 1 ELSE 0)
    BY <1>3, OneLoses
  <2> QED
    BY <1>1, <1>3, <2>1
<1> QED
  BY <1>2, <1>3

(* ... and when several lose it. *)
LEMMA SomeLose ==
  ASSUME NEW old, IsFiniteSet(old), NEW lost \in SUBSET old, NEW new, new = old \ lost
  PROVE  /\ Cardinality(new) \in Nat /\ Cardinality(lost) \in Nat
         /\ Cardinality(old) = Cardinality(new) + Cardinality(lost)
<1>1. old \cap lost = lost
  OBVIOUS
<1>2. IsFiniteSet(new) /\ IsFiniteSet(lost) /\ Cardinality(old) \in Nat
  BY FS_Subset, FS_CardinalityType
<1>3. Cardinality(new) \in Nat /\ Cardinality(lost) \in Nat
  BY <1>2, FS_CardinalityType
<1>4. Cardinality(new) = Cardinality(old) - Cardinality(lost)
  BY <1>1, FS_Difference
<1> QED
  BY <1>2, <1>3, <1>4

Granted == {o \in Opener : grant[o]}
NodeGranted == {n \in Node : grantOutbound[n]}
OpenerSlots == Cardinality(Granted)
NodeSlots == Cardinality(NodeGranted)

(* What holds while no race has been: only connected nodes, and those whose  *)
(* slots the socket thread gives back, have one; who gives a node's slot    *)
(* back is the only one to do so, and the node has it until then.           *)
Orderly ==
  /\ NodeGranted \subseteq vNodes \cup releasing
  /\ releasing \subseteq NodeGranted
  /\ \A o \in Opener : opener[o] = "releasing" =>
       /\ node[o] \in NodeGranted \ releasing
       /\ \A p \in Opener \ {o} : ~ Releasing(p, node[o])
  /\ semOutbound + OpenerSlots + NodeSlots = nMaxOutbound

SlotInv ==
  /\ releasing # {} => socket = "select"
  /\ ~ raced => Orderly

LEMMA SlotCounts ==
  ASSUME ConnectionsTypeOK
  PROVE  /\ IsFiniteSet(Granted) /\ IsFiniteSet(NodeGranted)
         /\ OpenerSlots \in Nat /\ NodeSlots \in Nat /\ semOutbound \in Nat
<1>1. IsFiniteSet(Granted) /\ IsFiniteSet(NodeGranted)
  BY FS_Subset, ConnectionsAssumption DEF Granted, NodeGranted
<1> QED
  BY <1>1, FS_CardinalityType DEF OpenerSlots, NodeSlots, ConnectionsTypeOK

(* A step that moves no slot, and after which nobody else gives one back.    *)
LEMMA NoSlotMoves ==
  ASSUME ConnectionsTypeOK, SlotInv,
         UNCHANGED <<grantOutbound, releasing, raced>>, vNodes \subseteq vNodes',
         semOutbound' + OpenerSlots' = semOutbound + OpenerSlots,
         \A o \in Opener : opener'[o] = "releasing" => opener[o] = "releasing" /\ node'[o] = node[o],
         releasing # {} => socket' = "select"
  PROVE  SlotInv'
<1>1. UNCHANGED <<NodeGranted, NodeSlots>>
  BY DEF NodeGranted, NodeSlots
<1>2. ASSUME ~ raced PROVE Orderly'
  <2>1. Orderly
    BY <1>2 DEF SlotInv
  <2>2. \A o \in Opener : opener'[o] = "releasing" =>
          /\ node'[o] \in NodeGranted' \ releasing'
          /\ \A p \in Opener \ {o} : ~ Releasing(p, node[o])'
    BY <1>1, <2>1 DEF Orderly, Releasing
  <2>3. semOutbound' + OpenerSlots' + NodeSlots' = nMaxOutbound
    BY <1>1, <2>1, SlotCounts DEF Orderly
  <2> QED
    BY <1>1, <2>1, <2>2, <2>3 DEF Orderly, Releasing
<1> QED
  BY <1>2 DEF SlotInv

(* The three steps of MoveTo. *)
LEMMA TestGrantSlots ==
  ASSUME ConnectionsTypeOK, Phases, SlotInv, NEW o \in Opener, TestGrant(o)
  PROVE  SlotInv'
<1> SUFFICES ASSUME ~ raced' PROVE Orderly'
  BY DEF SlotInv, TestGrant, workers
<1>1. /\ ~ raced
      /\ grantOutbound[node[o]] =>
           /\ node[o] \notin releasing
           /\ \A p \in Opener : ~ Releasing(p, node[o])
  BY DEF TestGrant
<1>2. Orderly
  BY <1>1 DEF SlotInv
<1>3. UNCHANGED <<grantOutbound, vNodes, releasing, semOutbound, grant, node>>
  BY DEF TestGrant, objects, lists, workers
<1>4. UNCHANGED <<NodeGranted, NodeSlots, OpenerSlots>>
  BY <1>3 DEF NodeGranted, NodeSlots, OpenerSlots, Granted
<1>5. node[o] \in Node
  BY ConnectionsAssumption DEF ConnectionsTypeOK, Phases, TestGrant
<1>6. /\ opener'[o] = "releasing" => grantOutbound[node[o]]
      /\ \A p \in Opener \ {o} : opener'[p] = opener[p]
  BY DEF TestGrant, ConnectionsTypeOK
<1>7. ASSUME NEW p \in Opener, opener'[p] = "releasing"
      PROVE  /\ node[p] \in NodeGranted \ releasing
             /\ \A q \in Opener \ {p} : ~ Releasing(q, node[p])'
  <2>1. CASE p = o
    <3>1. grantOutbound[node[o]] /\ node[o] \notin releasing
      BY <1>1, <1>6, <1>7, <2>1
    <3>2. \A q \in Opener \ {o} : ~ Releasing(q, node[o])'
      BY <1>1, <1>3, <1>6, <3>1 DEF Releasing
    <3> QED
      BY <1>5, <2>1, <3>1, <3>2, <1>3 DEF NodeGranted, Releasing
  <2>2. CASE p # o
    <3>1. opener[p] = "releasing" /\ Releasing(p, node[p])
      BY <1>6, <1>7, <2>2 DEF Releasing
    <3>2. node[p] \in NodeGranted \ releasing /\ \A q \in Opener \ {p} : ~ Releasing(q, node[p])
      BY <1>2, <3>1 DEF Orderly
    <3>3. opener'[o] = "releasing" => node[o] # node[p]
      BY <1>1, <1>6, <3>1
    <3> QED
      BY <1>3, <1>6, <3>2, <3>3 DEF Releasing
  <2> QED
    BY <2>1, <2>2
<1>8. \A p \in Opener : opener'[p] = "releasing" =>
        /\ node'[p] \in NodeGranted' \ releasing'
        /\ \A q \in Opener \ {p} : ~ Releasing(q, node[p])'
  BY <1>3, <1>4, <1>7
<1> QED
  BY <1>2, <1>3, <1>4, <1>8 DEF Orderly

LEMMA ReleaseOldSlots ==
  ASSUME ConnectionsTypeOK, Phases, SlotInv, NEW o \in Opener, ReleaseOld(o)
  PROVE  SlotInv'
<1> SUFFICES ASSUME ~ raced PROVE Orderly'
  BY DEF SlotInv, ReleaseOld, workers, history
<1>1. Orderly
  BY DEF SlotInv
<1>2. /\ UNCHANGED <<vNodes, releasing, grant, node>>
      /\ semOutbound' = semOutbound + 1
      /\ grantOutbound' = [grantOutbound EXCEPT ![node[o]] = FALSE]
      /\ opener' = [opener EXCEPT ![o] = "released"] /\ opener[o] = "releasing"
  BY DEF ReleaseOld, lists, workers
<1>3. /\ node[o] \in NodeGranted \ releasing
      /\ \A p \in Opener \ {o} : ~ Releasing(p, node[o])
  BY <1>1, <1>2 DEF Orderly
<1>4. NodeGranted' = NodeGranted \ {node[o]}
  BY <1>2 DEF NodeGranted, ConnectionsTypeOK
<1>5. /\ IsFiniteSet(NodeGranted)
      /\ OpenerSlots \in Nat /\ NodeSlots \in Nat /\ semOutbound \in Nat
  BY SlotCounts
<1>6. NodeSlots' = NodeSlots - 1
  BY <1>3, <1>4, <1>5, OneLoses DEF NodeSlots
<1>7. OpenerSlots' = OpenerSlots
  BY <1>2 DEF OpenerSlots, Granted
<1>8. \A p \in Opener : opener'[p] = "releasing" => p # o /\ opener[p] = "releasing"
  BY <1>2 DEF ConnectionsTypeOK
<1>9. \A p \in Opener : opener'[p] = "releasing" =>
        /\ node'[p] \in NodeGranted' \ releasing'
        /\ \A q \in Opener \ {p} : ~ Releasing(q, node[p])'
  BY <1>1, <1>2, <1>3, <1>4, <1>8 DEF Orderly, Releasing
<1>10. semOutbound' + OpenerSlots' + NodeSlots' = nMaxOutbound
  BY <1>1, <1>2, <1>5, <1>6, <1>7, ConnectionsAssumption DEF Orderly
<1> QED
  BY <1>1, <1>2, <1>3, <1>4, <1>9, <1>10 DEF Orderly

LEMMA SetGrantSlots ==
  ASSUME ConnectionsTypeOK, Phases, SlotInv, NEW o \in Opener, SetGrant(o)
  PROVE  SlotInv'
<1> SUFFICES ASSUME ~ raced' PROVE Orderly'
  BY DEF SlotInv, SetGrant, workers
<1>1. ~ raced /\ ~ grantOutbound[node[o]] /\ (grant[o] => node[o] \in vNodes)
  BY DEF SetGrant
<1>2. Orderly
  BY <1>1 DEF SlotInv
<1>3. /\ UNCHANGED <<vNodes, releasing, node, semOutbound>>
      /\ grantOutbound' = [grantOutbound EXCEPT ![node[o]] = grant[o]]
      /\ grant' = [grant EXCEPT ![o] = FALSE] /\ grant[o] \in BOOLEAN
      /\ opener' = [opener EXCEPT ![o] = "moved"]
  BY DEF SetGrant, lists, workers, ConnectionsTypeOK
<1>4. node[o] \in Node
  BY ConnectionsAssumption DEF ConnectionsTypeOK, Phases, SetGrant
<1>5. /\ NodeGranted' = IF grant[o] THEN NodeGranted \cup {node[o]} ELSE NodeGranted \ {node[o]}
      /\ node[o] \notin NodeGranted
  BY <1>1, <1>3, <1>4 DEF NodeGranted, ConnectionsTypeOK
<1>6. /\ IsFiniteSet(Granted) /\ IsFiniteSet(NodeGranted)
      /\ OpenerSlots \in Nat /\ NodeSlots \in Nat /\ semOutbound \in Nat
  BY SlotCounts
<1>7. NodeSlots' = NodeSlots + (IF grant[o] THEN 1 ELSE 0)
  <2>1. Cardinality(NodeGranted') =
          Cardinality(NodeGranted) - (IF node[o] \in NodeGranted THEN 1 ELSE 0)
            + (IF grant[o] THEN 1 ELSE 0)
    BY <1>3, <1>5, <1>6, OneChanges
  <2> QED
    BY <1>5, <1>6, <2>1 DEF NodeSlots
<1>8. OpenerSlots' = OpenerSlots - (IF grant[o] THEN 1 ELSE 0)
  <2>1. Granted' = Granted \ {o} /\ (o \in Granted <=> grant[o])
    BY <1>3 DEF Granted, ConnectionsTypeOK
  <2>2. Cardinality(Granted') = Cardinality(Granted) - (IF o \in Granted THEN 1 ELSE 0)
    BY <1>6, <2>1, OneLoses
  <2> QED
    BY <1>6, <2>1, <2>2 DEF OpenerSlots
<1>9. \A p \in Opener : opener'[p] = "releasing" => p # o /\ opener[p] = "releasing"
  BY <1>3 DEF ConnectionsTypeOK
<1>10. \A p \in Opener : opener'[p] = "releasing" =>
        /\ node'[p] \in NodeGranted' \ releasing'
        /\ \A q \in Opener \ {p} : ~ Releasing(q, node[p])'
  BY <1>2, <1>3, <1>5, <1>9 DEF Orderly, Releasing
<1>11. semOutbound' + OpenerSlots' + NodeSlots' = nMaxOutbound
  BY <1>2, <1>3, <1>6, <1>7, <1>8, ConnectionsAssumption DEF Orderly
<1>12. NodeGranted' \subseteq vNodes' \cup releasing' /\ releasing' \subseteq NodeGranted'
  BY <1>1, <1>2, <1>3, <1>5 DEF Orderly
<1> QED
  BY <1>10, <1>11, <1>12 DEF Orderly

(* The two of the socket thread. *)
LEMMA DisconnectSlots ==
  ASSUME ConnectionsTypeOK, Phases, UseInv, SlotInv, NEW idle \in SUBSET vNodes, DisconnectNodes(idle)
  PROVE  SlotInv'
<1> SUFFICES ASSUME ~ raced' PROVE Orderly'
  BY DEF SlotInv, DisconnectNodes
<1>1. /\ ~ raced
      /\ \A o \in Opener, n \in Gone(idle) : grantOutbound[n] => ~ Releasing(o, n)
  BY DEF DisconnectNodes
<1>2. Orderly /\ releasing = {}
  BY <1>1 DEF SlotInv, DisconnectNodes
<1>3. Dead \cap NodeGranted = {}
  BY <1>2 DEF Orderly, UseInv, Dead
<1>4. /\ vNodes' = vNodes \ Gone(idle) /\ UNCHANGED <<opener, node, grant>>
      /\ releasing' = {n \in Gone(idle) : grantOutbound[n]}
      /\ grantOutbound' = [n \in Node |-> grantOutbound[n] /\ n \notin Dead]
      /\ semOutbound' = semOutbound + Cardinality({n \in Dead : grantOutbound[n]})
  BY DEF DisconnectNodes, opening
<1>5. {n \in Dead : grantOutbound[n]} = {}
  BY <1>3 DEF NodeGranted, Dead, ConnectionsTypeOK
<1>6. semOutbound' = semOutbound
  <2>1. Cardinality({n \in Dead : grantOutbound[n]}) = 0 /\ semOutbound \in Nat
    BY <1>5, FS_EmptySet DEF ConnectionsTypeOK
  <2>2. semOutbound' = semOutbound + 0
    BY <1>4, <2>1
  <2> QED
    BY <2>1, <2>2
<1>7. NodeGranted' = NodeGranted
  BY <1>3, <1>4 DEF NodeGranted
<1>8. NodeSlots' = NodeSlots /\ OpenerSlots' = OpenerSlots
  BY <1>4, <1>7 DEF NodeSlots, OpenerSlots, Granted
<1>9. releasing' = NodeGranted \cap Gone(idle)
  BY <1>4 DEF NodeGranted, Gone, ConnectionsTypeOK
<1>10. \A o \in Opener : opener'[o] = "releasing" =>
        /\ node'[o] \in NodeGranted' \ releasing'
        /\ \A p \in Opener \ {o} : ~ Releasing(p, node[o])'
  BY <1>1, <1>2, <1>4, <1>7, <1>9 DEF Orderly, Releasing, NodeGranted
<1> QED
  BY <1>2, <1>4, <1>6, <1>7, <1>8, <1>9, <1>10 DEF Orderly

LEMMA ReleaseGrantsSlots ==
  ASSUME ConnectionsTypeOK, SlotInv, ReleaseGrants
  PROVE  SlotInv'
<1> SUFFICES ASSUME ~ raced PROVE Orderly'
  BY DEF SlotInv, ReleaseGrants, history
<1>1. Orderly
  BY DEF SlotInv
<1>2. /\ UNCHANGED <<vNodes, opener, node, grant>> /\ releasing' = {}
      /\ grantOutbound' = [n \in Node |-> grantOutbound[n] /\ n \notin releasing]
      /\ semOutbound' = semOutbound + Cardinality(releasing)
  BY DEF ReleaseGrants, lists, opening
<1>3. NodeGranted' = NodeGranted \ releasing
  BY <1>2 DEF NodeGranted
<1>4. /\ IsFiniteSet(NodeGranted)
      /\ OpenerSlots \in Nat /\ NodeSlots \in Nat /\ semOutbound \in Nat
  BY SlotCounts
<1>5. NodeSlots = NodeSlots' + Cardinality(releasing) /\ NodeSlots' \in Nat /\ Cardinality(releasing) \in Nat
  BY <1>1, <1>3, <1>4, SomeLose DEF NodeSlots, Orderly
<1>6. OpenerSlots' = OpenerSlots
  BY <1>2 DEF OpenerSlots, Granted
<1>7. semOutbound' + OpenerSlots' + NodeSlots' = nMaxOutbound
  BY <1>1, <1>2, <1>4, <1>5, <1>6, ConnectionsAssumption DEF Orderly
<1>8. \A o \in Opener : opener'[o] = "releasing" =>
        /\ node'[o] \in NodeGranted' \ releasing'
        /\ \A p \in Opener \ {o} : ~ Releasing(p, node[o])'
  BY <1>1, <1>2, <1>3 DEF Orderly, Releasing
<1> QED
  BY <1>1, <1>2, <1>3, <1>7, <1>8 DEF Orderly

LEMMA SlotsInductive ==
  ASSUME ConnectionsTypeOK, Phases, UseInv, SlotInv, [ConnectionsNext]_netVars
  PROVE  SlotInv'
<1>0. /\ IsFiniteSet(Granted)
      /\ OpenerSlots \in Nat /\ semOutbound \in Nat
  BY SlotCounts
<1>1. ASSUME NEW o \in Opener, WaitForSlot(o) PROVE SlotInv'
  <2>1. /\ grant' = [grant EXCEPT ![o] = TRUE] /\ ~ grant[o] /\ semOutbound' = semOutbound - 1
        /\ opener' = [opener EXCEPT ![o] = "granted"] /\ semOutbound > 0
    BY <1>1 DEF WaitForSlot, Phases
  <2>2. Granted' = Granted \cup {o} /\ o \notin Granted
    BY <2>1 DEF Granted, ConnectionsTypeOK
  <2>3. OpenerSlots' = OpenerSlots + 1
    BY <1>0, <2>2, FS_AddElement DEF OpenerSlots
  <2>4. UNCHANGED <<grantOutbound, releasing, raced, vNodes, node, socket>>
    BY <1>1 DEF WaitForSlot, objects, lists, workers, history
  <2>5. \A p \in Opener : opener'[p] = "releasing" => opener[p] = "releasing"
    BY <2>1 DEF ConnectionsTypeOK
  <2>6. semOutbound' + OpenerSlots' = semOutbound + OpenerSlots
    BY <1>0, <2>1, <2>3
  <2> QED
    BY <2>4, <2>5, <2>6, NoSlotMoves DEF SlotInv
<1>2. ASSUME NEW o \in Opener, EndOfBurst(o) PROVE SlotInv'
  <2>1. /\ grant' = [grant EXCEPT ![o] = FALSE]
        /\ semOutbound' = semOutbound + (IF grant[o] THEN 1 ELSE 0)
        /\ opener' = [opener EXCEPT ![o] = "idle"]
    BY <1>2 DEF EndOfBurst
  <2>2. Granted' = Granted \ {o} /\ (o \in Granted <=> grant[o])
    BY <2>1 DEF Granted, ConnectionsTypeOK
  <2>3. Cardinality(Granted') = Cardinality(Granted) - (IF o \in Granted THEN 1 ELSE 0)
    BY <1>0, <2>2, OneLoses
  <2>4. UNCHANGED <<grantOutbound, releasing, raced, vNodes, node, socket>>
    BY <1>2 DEF EndOfBurst, objects, lists, workers, history
  <2>5. \A p \in Opener : opener'[p] = "releasing" => opener[p] = "releasing"
    BY <2>1 DEF ConnectionsTypeOK
  <2>6. semOutbound' + OpenerSlots' = semOutbound + OpenerSlots
    BY <1>0, <2>1, <2>2, <2>3 DEF OpenerSlots
  <2> QED
    BY <2>4, <2>5, <2>6, NoSlotMoves DEF SlotInv
<1>3. ASSUME UNCHANGED <<grantOutbound, releasing, raced, grant, semOutbound>>, vNodes \subseteq vNodes',
             releasing # {} => socket' = "select",
             \A o \in Opener : opener'[o] = "releasing" => opener[o] = "releasing" /\ node'[o] = node[o]
      PROVE  SlotInv'
  <2>1. OpenerSlots' = OpenerSlots
    BY <1>3 DEF OpenerSlots, Granted
  <2> QED
    BY <1>3, <2>1, NoSlotMoves
<1>4. ASSUME NEW o \in Opener,
             \/ ConnectFails(o) \/ AddRefUnlocked(o) \/ SetNetworkNode(o)
             \/ \E a \in Addr : OpenNetworkConnection(o, a)
             \/ \E n \in Node : FindNode(o, n) \/ ConnectNode(o, n)
      PROVE  SlotInv'
  <2>1. /\ UNCHANGED <<grantOutbound, releasing, raced, grant, semOutbound, socket>>
        /\ vNodes \subseteq vNodes'
    BY <1>4 DEF ConnectFails, AddRefUnlocked, SetNetworkNode, OpenNetworkConnection, FindNode,
                ConnectNode, NewNode, objects, lists, workers, history
  <2>2. \E place \in {"granted", "connected", "checked", "found"} :
          opener' = [opener EXCEPT ![o] = place]
    BY <1>4 DEF ConnectFails, AddRefUnlocked, SetNetworkNode, OpenNetworkConnection, FindNode, ConnectNode
  <2>3. \A p \in Opener \ {o} : node'[p] = node[p]
    BY <1>4 DEF ConnectFails, AddRefUnlocked, SetNetworkNode, OpenNetworkConnection, FindNode, ConnectNode,
                ConnectionsTypeOK
  <2>4. \A p \in Opener : opener'[p] = "releasing" => opener[p] = "releasing" /\ node'[p] = node[p]
    BY <2>2, <2>3 DEF ConnectionsTypeOK
  <2> QED
    BY <2>1, <2>4, <1>3 DEF SlotInv
<1>5. ASSUME NEW n \in Node, NEW a \in Addr, Accept(n, a) PROVE SlotInv'
  <2>1. /\ UNCHANGED <<grantOutbound, releasing, raced, grant, semOutbound, socket, opener, node>>
        /\ vNodes \subseteq vNodes'
    BY <1>5 DEF Accept, NewNode, workers, opening, history
  <2> QED
    BY <2>1, <1>3 DEF SlotInv
<1>6. ASSUME \/ DemandReconnect \/ MessageStep
             \/ \E n \in Node : HoldEnds(n) \/ \E t \in Worker : Disconnect(t, n)
             \/ UNCHANGED netVars
      PROVE SlotInv'
  <2>1. UNCHANGED <<grantOutbound, releasing, raced, grant, semOutbound, socket, opener, node, vNodes>>
    BY <1>6 DEF DemandReconnect, MessageStep, StartHandling, EndHandling, CopyNodes, ReleaseNodes,
                HoldEnds, Disconnect, netVars, objects, lists, workers, opening, history
  <2> QED
    BY <2>1, <1>3 DEF SlotInv
<1>7. ASSUME ReturnToReconnect \/ GoOn \/ StartServicing \/ EndServicing
      PROVE SlotInv'
  <2>1. UNCHANGED <<grantOutbound, releasing, raced, grant, semOutbound, opener, node, vNodes>>
    BY <1>7 DEF ReturnToReconnect, GoOn, StartServicing, EndServicing, CopyNodes, ReleaseNodes,
                objects, lists, workers, opening, history
  <2>2. releasing = {}
    BY <1>7 DEF SlotInv, ReturnToReconnect, GoOn, StartServicing, EndServicing
  <2> QED
    BY <2>1, <2>2, <1>3
<1> QED
  BY <1>1, <1>2, <1>4, <1>5, <1>6, <1>7, TestGrantSlots, ReleaseOldSlots, SetGrantSlots,
     DisconnectSlots, ReleaseGrantsSlots
     DEF ConnectionsNext, OpenerStep, SocketStep

(* Every slot is free, with one thread or with one node that is connected or *)
(* whose slot is being given back, unless a race of MoveTo has been.        *)
THEOREM SlotsSafe == ConnectionsSpec => []SlotsConserved
<1>1. ConnectionsInit => SlotInv
  <2> SUFFICES ASSUME ConnectionsInit PROVE SlotInv
    OBVIOUS
  <2>1. Granted = {} /\ NodeGranted = {}
    BY DEF ConnectionsInit, Granted, NodeGranted
  <2>2. OpenerSlots = 0 /\ NodeSlots = 0
    BY <2>1, FS_EmptySet DEF OpenerSlots, NodeSlots
  <2>3. semOutbound = nMaxOutbound /\ releasing = {} /\ \A o \in Opener : opener[o] = "idle"
    BY DEF ConnectionsInit
  <2> QED
    BY <2>1, <2>2, <2>3, ConnectionsAssumption DEF SlotInv, Orderly
<1>2. ConnectionsInit => ConnectionsTypeOK /\ Phases
  BY InitTypes
<1>3. ConnectionsInit => UseInv
  BY DEF ConnectionsInit, UseInv, NodesInUseExist, Counted, Kept, CopyPhases, Live, Worker
<1>4. ConnectionsTypeOK /\ Phases /\ UseInv /\ SlotInv /\ [ConnectionsNext]_netVars
      => (ConnectionsTypeOK /\ Phases /\ UseInv /\ SlotInv)'
  BY TypesInductive, UseInductive, SlotsInductive
<1>5. ConnectionsTypeOK /\ SlotInv => SlotsConserved
  <2> SUFFICES ASSUME ConnectionsTypeOK, SlotInv, ~ raced
      PROVE semOutbound + Cardinality({o \in Opener : grant[o]})
              + Cardinality({n \in vNodes \cup releasing : grantOutbound[n]}) = nMaxOutbound
    BY DEF SlotsConserved
  <2>1. Orderly
    BY DEF SlotInv
  <2>2. {n \in vNodes \cup releasing : grantOutbound[n]} = NodeGranted
    BY <2>1 DEF Orderly, NodeGranted, ConnectionsTypeOK
  <2> QED
    BY <2>1, <2>2 DEF Orderly, OpenerSlots, NodeSlots, Granted
<1> QED
  BY <1>1, <1>2, <1>3, <1>4, <1>5, PTL DEF ConnectionsSpec
============================================================================
