---------------------------- MODULE Connections ----------------------------
(***************************************************************************)
(* The nodes the daemon is connected to and the threads that share them:   *)
(* the socket thread, which accepts, services, disconnects and deletes     *)
(* them, the message thread, and the threads that open connections.        *)
(*                                                                         *)
(* cs_vNodes protects the list of nodes; what is done under it is one step  *)
(* here.  A thread works on its own copy                                   *)
(* of the list, without the lock, and keeps the nodes in being by their    *)
(* reference counts.  An outbound connection takes a slot, which is a      *)
(* grant of the semaphore semOutbound that moves from the thread that      *)
(* opens the connection to the node, also without the lock.                *)
(***************************************************************************)
EXTENDS Integers, FiniteSets

CONSTANTS
  Node,                 \* the CNode objects that will ever be made
  NoNode,
  Addr,                 \* the addresses of peers
  AddedNode,            \* those of -addnode
  NoAddr,
  Opener,               \* the threads that open connections
  Seeker,               \* the one of them that is ThreadOpenConnections
  maxConnectionsBurst,
  nMaxOutbound,         \* slots for outbound connections
  nMaxInbound           \* -maxconnections less MAX_OUTBOUND_CONNECTIONS

ASSUME ConnectionsAssumption ==
  /\ NoNode \notin Node /\ NoAddr \notin Addr
  /\ Seeker \in Opener /\ AddedNode \subseteq Addr
  /\ IsFiniteSet(Node) /\ IsFiniteSet(Opener)
  /\ maxConnectionsBurst \in Nat /\ nMaxOutbound \in Nat /\ nMaxInbound \in Nat

VARIABLES
  being,                \* whether an object is "unborn", "live" or "deleted"
  addr, fInbound, fNetworkNode, fDisconnect, nRefCount, grantOutbound,
  held,                 \* GetTime() < nReleaseTime
  vNodes,
  vNodesDisconnected,
  semOutbound,          \* the value of the semaphore
  fForceReconnect, fForceReconnectProcessed,
  socket,               \* where the socket thread is
  releasing,            \* the nodes whose slots it is about to give back
  message,              \* where the message thread is
  vNodesCopy,           \* the nodes the two work on
  opener,               \* where a thread that opens connections is
  grant,                \* whether its own grant has a slot
  target,               \* the address it is about to connect to
  node,                 \* the node that ConnectNode gave it
  usedAddresses,        \* those it has tried with this slot
  overdue,              \* for the properties only: the nodes connected when
                        \* a reconnection was demanded and still connected...
  overcounted,          \* ... those with a reference nobody will release...
  raced                 \* ... and whether two threads were at one grant at
                        \* once, or a slot went to a disconnected node

objects == <<being, addr, fInbound, fNetworkNode, fDisconnect, nRefCount, grantOutbound, held>>
lists == <<vNodes, vNodesDisconnected>>
flags == <<fForceReconnect, fForceReconnectProcessed>>
workers == <<socket, releasing, message, vNodesCopy>>
opening == <<opener, grant, target, node, usedAddresses>>
history == <<overdue, overcounted, raced>>
netVars == <<objects, lists, semOutbound, flags, workers, opening, history>>

Worker == {"socket", "message"}

----------------------------------------------------------------------------
Live == {n \in Node : being[n] = "live"}

(* Objects are interchangeable until they are made: new takes any one.      *)
(* There are finitely many, which is the bound on what is explored: no      *)
(* thread sets out to connect when none is left.                            *)
Unborn == {n \in Node : being[n] = "unborn"}
NewNodes == IF Unborn = {} THEN {} ELSE {CHOOSE n \in Unborn : TRUE}

(* The CNode that new returns, and what is in it.                           *)
NewNode(n, a, inbound) ==
  /\ n \in NewNodes
  /\ being' = [being EXCEPT ![n] = "live"]
  /\ addr' = [addr EXCEPT ![n] = a]
  /\ fInbound' = [fInbound EXCEPT ![n] = inbound]
  /\ nRefCount' = [nRefCount EXCEPT ![n] = 1]
  /\ vNodes' = vNodes \cup {n}
  /\ UNCHANGED <<fNetworkNode, fDisconnect, grantOutbound, held, vNodesDisconnected>>

(* GetRefCount() <= 0. *)
Unreferenced(n) == nRefCount[n] <= 0 /\ ~ held[n]

ConnectionsInit ==
  /\ being = [n \in Node |-> "unborn"]
  /\ addr = [n \in Node |-> NoAddr]
  /\ fInbound = [n \in Node |-> FALSE]
  /\ fNetworkNode = [n \in Node |-> FALSE]
  /\ fDisconnect = [n \in Node |-> FALSE]
  /\ nRefCount = [n \in Node |-> 0]
  /\ grantOutbound = [n \in Node |-> FALSE]
  /\ held = [n \in Node |-> FALSE]
  /\ vNodes = {} /\ vNodesDisconnected = {}
  /\ semOutbound = nMaxOutbound
  /\ fForceReconnect = FALSE /\ fForceReconnectProcessed = FALSE
  /\ socket = "disconnect" /\ releasing = {} /\ message = "idle"
  /\ vNodesCopy = [t \in Worker |-> {}]
  /\ opener = [o \in Opener |-> "idle"]
  /\ grant = [o \in Opener |-> FALSE]
  /\ target = [o \in Opener |-> NoAddr]
  /\ node = [o \in Opener |-> NoNode]
  /\ usedAddresses = [o \in Opener |-> {}]
  /\ overdue = {} /\ overcounted = {} /\ raced = FALSE

----------------------------------------------------------------------------
(* The threads that open connections.                                      *)

(* How many connections are tried with one slot. *)
Tries(o) == IF o = Seeker THEN maxConnectionsBurst ELSE 1

(* ThreadOpenConnections takes any address, the others those of -addnode.   *)
Candidates(o) == IF o = Seeker THEN Addr ELSE AddedNode

WaitForSlot(o) ==
  /\ opener[o] = "idle" /\ Unborn # {}
  /\ semOutbound > 0
  /\ semOutbound' = semOutbound - 1
  /\ opener' = [opener EXCEPT ![o] = "granted"]
  /\ grant' = [grant EXCEPT ![o] = TRUE]
  /\ UNCHANGED <<objects, lists, flags, workers, target, node, usedAddresses, history>>

(* No block has come for long in the initial download.                      *)
DemandReconnect ==
  /\ opener[Seeker] = "granted" /\ usedAddresses[Seeker] = {}
  /\ ~ fForceReconnect
  /\ fForceReconnect' = TRUE
  /\ overdue' = vNodes
  /\ UNCHANGED <<overcounted, raced, objects, lists, semOutbound, fForceReconnectProcessed, workers, opening>>

(* OpenNetworkConnection finds no node of this address.  An address that is *)
(* connected or banned is used up in vain, which is no step.                *)
OpenNetworkConnection(o, a) ==
  /\ opener[o] = "granted" /\ Unborn # {}
  /\ a \in Candidates(o) \ usedAddresses[o]
  /\ Cardinality(usedAddresses[o]) < Tries(o)
  /\ \A n \in vNodes : addr[n] # a
  /\ opener' = [opener EXCEPT ![o] = "checked"]
  /\ target' = [target EXCEPT ![o] = a]
  /\ usedAddresses' = [usedAddresses EXCEPT ![o] = @ \cup {a}]
  /\ UNCHANGED <<objects, lists, semOutbound, flags, workers, grant, node, history>>

(* The nodes at the same address and port: a peer that connects to us comes *)
(* from another port.                                                       *)
SameService(o) == {n \in vNodes : addr[n] = target[o] /\ ~ fInbound[n]}

(* ConnectNode looks again, and finds one that has come since... *)
FindNode(o, n) ==
  /\ opener[o] = "checked"
  /\ n \in SameService(o)
  /\ opener' = [opener EXCEPT ![o] = "found"]
  /\ node' = [node EXCEPT ![o] = n]
  /\ overcounted' = overcounted \cup {n}
  /\ UNCHANGED <<objects, lists, semOutbound, flags, workers, grant, target, usedAddresses, overdue, raced>>

(* ... on which it takes a reference without the lock.  Where another       *)
(* thread updates the count at the same time, either update may be lost.    *)
AddRefUnlocked(o) ==
  /\ opener[o] = "found"
  /\ \E gain \in {0, 1, 2} : nRefCount' = [nRefCount EXCEPT ![node[o]] = @ + gain]
  /\ opener' = [opener EXCEPT ![o] = "connected"]
  /\ UNCHANGED <<being, addr, fInbound, fNetworkNode, fDisconnect, grantOutbound, held>>
  /\ UNCHANGED <<lists, semOutbound, flags, workers, grant, target, node, usedAddresses, history>>

(* ... or has found none, right after OpenNetworkConnection, and connects,  *)
(* however long it takes...                                                 *)
ConnectNode(o, n) ==
  /\ opener[o] = "checked"
  /\ NewNode(n, target[o], FALSE)
  /\ opener' = [opener EXCEPT ![o] = "connected"]
  /\ node' = [node EXCEPT ![o] = n]
  /\ UNCHANGED <<semOutbound, flags, workers, grant, target, usedAddresses, history>>

(* ... or fails to. *)
ConnectFails(o) ==
  /\ opener[o] = "checked"
  /\ opener' = [opener EXCEPT ![o] = "granted"]
  /\ target' = [target EXCEPT ![o] = NoAddr]
  /\ UNCHANGED <<objects, lists, semOutbound, flags, workers, grant, node, usedAddresses, history>>

(* Who has seen that node n has a slot and has not given it back yet.        *)
Releasing(o, n) == opener[o] = "releasing" /\ node[o] = n

(* CSemaphoreGrant::MoveTo, which nothing protects from the socket thread or *)
(* another opener at the same node: first Release, of what the node has,    *)
(* with the test...                                                         *)
TestGrant(o) ==
  /\ opener[o] = "connected"
  /\ opener' = [opener EXCEPT ![o] = IF grantOutbound[node[o]] THEN "releasing" ELSE "released"]
  /\ raced' = (raced \/ /\ grantOutbound[node[o]]
                        /\ \/ node[o] \in releasing
                           \/ \E other \in Opener : Releasing(other, node[o]))
  /\ UNCHANGED <<objects, lists, semOutbound, flags, workers, grant, target, node, usedAddresses>>
  /\ UNCHANGED <<overdue, overcounted>>

(* mutant: the slot that the node had is not given back *)
ForgetOld(o) ==
  /\ opener[o] = "releasing"
  /\ grantOutbound' = [grantOutbound EXCEPT ![node[o]] = FALSE]
  /\ opener' = [opener EXCEPT ![o] = "released"]
  /\ UNCHANGED <<being, addr, fInbound, fNetworkNode, fDisconnect, nRefCount, held>>
  /\ UNCHANGED <<lists, semOutbound, flags, workers, grant, target, node, usedAddresses, history>>

(* ... and the post.  Only the test reads fHaveGrant, so that one that comes *)
(* between the post and the reset of it has the effect of one before both.  *)
ReleaseOld(o) ==
  /\ opener[o] = "releasing"
  /\ semOutbound' = semOutbound + 1
  /\ grantOutbound' = [grantOutbound EXCEPT ![node[o]] = FALSE]
  /\ opener' = [opener EXCEPT ![o] = "released"]
  /\ UNCHANGED <<being, addr, fInbound, fNetworkNode, fDisconnect, nRefCount, held>>
  /\ UNCHANGED <<lists, flags, workers, grant, target, node, usedAddresses, history>>

(* Then the node gets the thread's own grant, which is empty when an earlier *)
(* connection took the slot.  What another thread gave the node since the   *)
(* test is overwritten.                                                     *)
SetGrant(o) ==
  /\ opener[o] = "released"
  /\ grantOutbound' = [grantOutbound EXCEPT ![node[o]] = grant[o]]
  /\ grant' = [grant EXCEPT ![o] = FALSE]
  /\ opener' = [opener EXCEPT ![o] = "moved"]
  /\ raced' = (raced \/ grantOutbound[node[o]] \/ (grant[o] /\ node[o] \notin vNodes))
  /\ UNCHANGED <<being, addr, fInbound, fNetworkNode, fDisconnect, nRefCount, held>>
  /\ UNCHANGED <<lists, semOutbound, flags, workers, target, node, usedAddresses>>
  /\ UNCHANGED <<overdue, overcounted>>

SetNetworkNode(o) ==
  /\ opener[o] = "moved"
  /\ fNetworkNode' = [fNetworkNode EXCEPT ![node[o]] = TRUE]
  /\ opener' = [opener EXCEPT ![o] = "granted"]
  /\ target' = [target EXCEPT ![o] = NoAddr]
  /\ node' = [node EXCEPT ![o] = NoNode]
  /\ UNCHANGED <<being, addr, fInbound, fDisconnect, nRefCount, grantOutbound, held>>
  /\ UNCHANGED <<lists, semOutbound, flags, workers, grant, usedAddresses, history>>

(* The thread's grant goes out of scope. *)
EndOfBurst(o) ==
  /\ opener[o] = "granted"
  /\ semOutbound' = semOutbound + (IF grant[o] THEN 1 ELSE 0)
  /\ grant' = [grant EXCEPT ![o] = FALSE]
  /\ opener' = [opener EXCEPT ![o] = "idle"]
  /\ usedAddresses' = [usedAddresses EXCEPT ![o] = {}]
  /\ UNCHANGED <<objects, lists, flags, workers, target, node, history>>

----------------------------------------------------------------------------
(* The socket thread.                                                      *)

(* The nodes it takes off the list, some unreferenced ones among them that  *)
(* have nothing left to send or read.                                       *)
Gone(idle) == {n \in vNodes : fForceReconnect \/ fDisconnect[n] \/ n \in idle}

(* The reference taken when the node was made is known to be there. *)
Releases(n) == fNetworkNode[n] \/ fInbound[n]

(* mutant: the count must have gone below zero *)
DeletableBelow(n) == nRefCount[n] < 0 /\ ~ held[n]

(* mutant: one reference that is still there is overlooked *)
DeletableEarly(n) == nRefCount[n] <= 1 /\ ~ held[n]

(* Nobody holds one of the node's own locks: who does has a reference.      *)
Deletable(n) == Unreferenced(n)

Dead == {n \in vNodesDisconnected : Deletable(n)}

(* One pass under cs_vNodes.  A node just disconnected is held for fifteen   *)
(* minutes, so those deleted were disconnected before; ~CNode releases what *)
(* grant they have, with no other thread at them.  Of the nodes disconnected *)
(* this is the test in Release.                                             *)
DisconnectNodes(idle) ==
  /\ socket = "disconnect"
  /\ \A n \in idle : Unreferenced(n)
  /\ vNodes' = vNodes \ Gone(idle)
  /\ vNodesDisconnected' = (vNodesDisconnected \cup Gone(idle)) \ Dead
  /\ semOutbound' =
       semOutbound + Cardinality({n \in Dead : grantOutbound[n]})
  /\ grantOutbound' = [n \in Node |-> grantOutbound[n] /\ n \notin Dead]
  /\ releasing' = {n \in Gone(idle) : grantOutbound[n]}
  /\ raced' = (raced \/ \E o \in Opener, n \in Gone(idle) : grantOutbound[n] /\ Releasing(o, n))
  /\ held' = [n \in Node |-> held[n] \/ n \in Gone(idle)]
  /\ nRefCount' = [n \in Node |->
       nRefCount[n] - (IF n \in Gone(idle) /\ Releases(n) THEN 1 ELSE 0)]
  /\ being' = [n \in Node |-> IF n \in Dead THEN "deleted" ELSE being[n]]
  /\ fDisconnect' = [n \in Node |-> (fDisconnect[n] \/ n \in Gone(idle)) /\ n \notin Dead]
  /\ fNetworkNode' = [n \in Node |-> fNetworkNode[n] /\ n \notin Dead]
  /\ fInbound' = [n \in Node |-> fInbound[n] /\ n \notin Dead]
  /\ addr' = [n \in Node |-> IF n \in Dead THEN NoAddr ELSE addr[n]]
  /\ socket' = "select"
  /\ overdue' = overdue \ Gone(idle)
  /\ overcounted' = overcounted \cup {n \in Gone(idle) : ~ (fNetworkNode[n] \/ fInbound[n])}
  /\ UNCHANGED <<flags, message, vNodesCopy, opening>>

(* The posts of those tests: the socket thread goes on when they are done.  *)
ReleaseGrants ==
  /\ releasing # {}
  /\ semOutbound' = semOutbound + Cardinality(releasing)
  /\ grantOutbound' = [n \in Node |-> grantOutbound[n] /\ n \notin releasing]
  /\ releasing' = {}
  /\ UNCHANGED <<being, addr, fInbound, fNetworkNode, fDisconnect, nRefCount, held>>
  /\ UNCHANGED <<lists, flags, socket, message, vNodesCopy, opening, history>>

(* mutants: the demand is met at the first return, or never *)
MetAtOnce == FALSE
NeverMet == TRUE

(* ThreadSocketHandler keeps the flag over one more call of                  *)
(* ThreadSocketHandler2, so that one whole pass sees it.                    *)
OnceMore == ~ fForceReconnectProcessed

(* ThreadSocketHandler2 returns, and its local list of nodes is gone; the   *)
(* loop of ThreadSocketHandler calls it again.                              *)
ReturnToReconnect ==
  /\ socket = "select" /\ releasing = {}
  /\ fForceReconnect
  /\ fForceReconnect' = OnceMore
  /\ fForceReconnectProcessed' = OnceMore
  /\ vNodesDisconnected' = {}
  /\ socket' = "disconnect"
  /\ UNCHANGED <<objects, vNodes, semOutbound, releasing, message, vNodesCopy, opening, history>>

GoOn ==
  /\ socket = "select" /\ releasing = {}
  /\ ~ fForceReconnect
  /\ socket' = "accept"
  /\ UNCHANGED <<objects, lists, semOutbound, flags, releasing, message, vNodesCopy, opening, history>>

(* mutant: one too many is accepted *)
InboundAtMost == Cardinality({n \in vNodes : fInbound[n]}) <= nMaxInbound

InboundBelow == Cardinality({n \in vNodes : fInbound[n]}) < nMaxInbound

(* A peer above the limit, or banned, is turned away, which is no step.     *)
Accept(n, a) ==
  /\ socket = "accept"
  /\ InboundBelow
  /\ NewNode(n, a, TRUE)
  /\ UNCHANGED <<semOutbound, flags, workers, opening, history>>

(* A worker's own copy of the list, with a reference on each node. *)
CopyNodes(t) ==
  /\ vNodesCopy' = [vNodesCopy EXCEPT ![t] = vNodes]
  /\ nRefCount' = [n \in Node |-> nRefCount[n] + (IF n \in vNodes THEN 1 ELSE 0)]
  /\ UNCHANGED <<being, addr, fInbound, fNetworkNode, fDisconnect, grantOutbound, held>>
  /\ UNCHANGED <<lists, semOutbound, flags, opening, history>>

ReleaseNodes(t) ==
  /\ vNodesCopy' = [vNodesCopy EXCEPT ![t] = {}]
  /\ nRefCount' = [n \in Node |-> nRefCount[n] - (IF n \in vNodesCopy[t] THEN 1 ELSE 0)]
  /\ UNCHANGED <<being, addr, fInbound, fNetworkNode, fDisconnect, grantOutbound, held>>
  /\ UNCHANGED <<lists, semOutbound, flags, opening, history>>

(* The connection of a node it works on is lost, too slow or not wanted.    *)
Disconnect(t, n) ==
  /\ n \in vNodesCopy[t] /\ ~ fDisconnect[n]
  /\ fDisconnect' = [fDisconnect EXCEPT ![n] = TRUE]
  /\ UNCHANGED <<being, addr, fInbound, fNetworkNode, nRefCount, grantOutbound, held>>
  /\ UNCHANGED <<lists, semOutbound, flags, workers, opening, history>>

StartServicing ==
  /\ socket = "accept"
  /\ CopyNodes("socket")
  /\ socket' = "service"
  /\ UNCHANGED <<releasing, message>>

EndServicing ==
  /\ socket = "service"
  /\ ReleaseNodes("socket")
  /\ socket' = "disconnect"
  /\ UNCHANGED <<releasing, message>>

----------------------------------------------------------------------------
(* The message thread.                                                     *)
StartHandling ==
  /\ message = "idle"
  /\ CopyNodes("message")
  /\ message' = "handling"
  /\ UNCHANGED <<socket, releasing>>

EndHandling ==
  /\ message = "handling"
  /\ ReleaseNodes("message")
  /\ message' = "idle"
  /\ UNCHANGED <<socket, releasing>>

(* Fifteen minutes after the node was disconnected.  No thread takes so     *)
(* long from the pointer that ConnectNode gives it to its last use of it:   *)
(* it waits for nothing on the way.                                         *)
HoldEnds(n) ==
  /\ n \in vNodesDisconnected /\ held[n]
  /\ \A o \in Opener : node[o] # n
  /\ held' = [held EXCEPT ![n] = FALSE]
  /\ UNCHANGED <<being, addr, fInbound, fNetworkNode, fDisconnect, nRefCount, grantOutbound>>
  /\ UNCHANGED <<lists, semOutbound, flags, workers, opening, history>>

OpenerStep(o) ==
  \/ WaitForSlot(o) \/ ConnectFails(o) \/ AddRefUnlocked(o)
  \/ TestGrant(o) \/ ReleaseOld(o) \/ SetGrant(o)
  \/ SetNetworkNode(o) \/ EndOfBurst(o)
  \/ \E a \in Addr : OpenNetworkConnection(o, a)
  \/ \E n \in Node : FindNode(o, n) \/ ConnectNode(o, n)

SocketStep ==
  \/ \E idle \in SUBSET vNodes : DisconnectNodes(idle)
  \/ ReleaseGrants \/ ReturnToReconnect \/ GoOn
  \/ StartServicing \/ EndServicing

MessageStep == StartHandling \/ EndHandling

ConnectionsNext ==
  \/ \E o \in Opener : OpenerStep(o)
  \/ DemandReconnect
  \/ SocketStep \/ MessageStep
  \/ \E n \in Node : \/ HoldEnds(n) \/ \E a \in Addr : Accept(n, a)
                     \/ \E t \in Worker : Disconnect(t, n)

(* The socket and the message thread's passes end, and time goes on.  The    *)
(* message thread gets the lock in the end: the socket thread is without it *)
(* nearly all the time.  A thread that has a node from ConnectNode waits    *)
(* for nothing until it is done with it.                                    *)
ConnectionsFairness ==
  /\ WF_netVars(SocketStep)
  /\ WF_netVars(MessageStep)
  /\ WF_netVars(\E n \in Node : HoldEnds(n))
  /\ WF_netVars(\E o \in Opener : \/ AddRefUnlocked(o) \/ SetNetworkNode(o)
                                  \/ TestGrant(o) \/ ReleaseOld(o) \/ SetGrant(o))

ConnectionsSpec == ConnectionsInit /\ [][ConnectionsNext]_netVars /\ ConnectionsFairness
----------------------------------------------------------------------------
(***************************************************************************)
(* Correctness                                                             *)
(***************************************************************************)
ConnectionsTypeOK ==
  /\ being \in [Node -> {"unborn", "live", "deleted"}]
  /\ addr \in [Node -> Addr \cup {NoAddr}]
  /\ fInbound \in [Node -> BOOLEAN] /\ fNetworkNode \in [Node -> BOOLEAN]
  /\ fDisconnect \in [Node -> BOOLEAN] /\ grantOutbound \in [Node -> BOOLEAN]
  /\ held \in [Node -> BOOLEAN]
  /\ nRefCount \in [Node -> Int]
  /\ vNodes \subseteq Node /\ vNodesDisconnected \subseteq Node
  /\ Cardinality({n \in vNodes : fInbound[n]}) <= nMaxInbound
  /\ semOutbound \in Nat
  /\ fForceReconnect \in BOOLEAN /\ fForceReconnectProcessed \in BOOLEAN
  /\ socket \in {"disconnect", "select", "accept", "service"}
  /\ releasing \subseteq Node
  /\ message \in {"idle", "handling"}
  /\ vNodesCopy \in [Worker -> SUBSET Node]
  /\ opener \in [Opener -> {"idle", "granted", "checked", "found",
                            "connected", "releasing", "released", "moved"}]
  /\ grant \in [Opener -> BOOLEAN]
  /\ target \in [Opener -> Addr \cup {NoAddr}]
  /\ node \in [Opener -> Node \cup {NoNode}]
  /\ usedAddresses \in [Opener -> SUBSET Addr]
  /\ overdue \subseteq vNodes /\ overcounted \subseteq Node /\ raced \in BOOLEAN

(* "wait until threads are done using it": whatever the threads do and       *)
(* whichever update of a count is lost, no node is deleted that a list, a   *)
(* worker's copy or a thread opening a connection still points to.          *)
NodesInUseExist ==
  /\ vNodes \cup vNodesDisconnected \subseteq Live
  /\ \A t \in Worker : vNodesCopy[t] \subseteq Live
  /\ \A o \in Opener : node[o] # NoNode => node[o] \in Live

(* However grants are moved and nodes disconnected or deleted, every slot    *)
(* is free, with one thread or with one node that is connected or whose     *)
(* slot is being given back, and none is there twice.  Only the races of    *)
(* MoveTo end this: the node is released by two threads at once, or gets a  *)
(* slot over another one or when it is no longer connected.                 *)
SlotsConserved ==
  ~ raced =>
    semOutbound + Cardinality({o \in Opener : grant[o]})
                + Cardinality({n \in vNodes \cup releasing : grantOutbound[n]}) = nMaxOutbound

(* When a demanded reconnection is over, every connection there was at the   *)
(* time of the demand has been closed, wherever the socket thread was then. *)
ReconnectReachesAll == ~ fForceReconnect => overdue = {}

(* A demanded reconnection comes to an end. *)
ReconnectEnds == fForceReconnect ~> ~ fForceReconnect

(* The list a disconnected node was on is gone: nothing will delete it.     *)
Leaked(n) == n \in Live \ (vNodes \cup vNodesDisconnected)

(* "hold in disconnected pool until all refs are released": a disconnected   *)
(* node is deleted in the end, unless a reconnection drops the pool, or     *)
(* ConnectNode's reference is one nobody releases: the node was found a     *)
(* second time, or disconnected before fNetworkNode was set.                *)
Reclaimed ==
  \A n \in Node :
    n \in vNodesDisconnected \ overcounted ~> being[n] = "deleted" \/ Leaked(n) \/ n \in overcounted
============================================================================
