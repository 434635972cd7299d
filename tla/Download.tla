------------------------------ MODULE Download ------------------------------
(***************************************************************************)
(* How a node gets the blocks it lacks: "getblocks" is answered by "inv",   *)
(* "inv" by "getdata", "getdata" by the blocks, and the last block of a     *)
(* batch by one more "inv" that brings the next "getblocks".  Blocks are    *)
(* announced as they are accepted.  A node that has been stuck too long     *)
(* drops all connections and asks the next peers; the thread that watches   *)
(* for it waits for a slot for outbound connections first.                 *)
(*                                                                         *)
(* A connection delivers in order what it delivers, and can break.  Some    *)
(* peers announce blocks and answer nothing.  Whether the 10 seconds before *)
(* a block is asked for again are over, or the 20 seconds without a block   *)
(* that make a node stuck, is left open.  Blocks are valid; their           *)
(* acceptance is module BlockAcceptance.                                   *)
(***************************************************************************)
EXTENDS BlockTree, FiniteSets, SequencesExt

CONSTANTS
  Full, Silent,         \* nodes that run this code, and peers that do not answer
  Neighbours,           \* the peers of each node
  ProofOfStake,
  Initial,              \* the best block each node starts with
  nGetBlocksStep, nGetBlocksMax,    \* -getblocksstep, -getblocksmax
  Announcement,         \* bound: the blocks that peers announce and do not send
  nDownloaded,          \* height from which IsInitialBlockDownload() is false
  Opening,              \* nodes that choose whom to connect to (no -connect)
  nMaxOutbound,         \* slots for outbound connections
  MaxCuts               \* bound: connections that break by themselves, and
                        \* slow downloads that are taken for stuck

ASSUME DownloadAssumption ==
  /\ Full \cap Silent = {}
  /\ ProofOfStake \subseteq Block \ {Genesis}
  /\ Initial \in [Full -> Block]
  /\ Neighbours \in [Full -> SUBSET (Full \cup Silent)]
  /\ \A n, p \in Full : p \in Neighbours[n] <=> n \in Neighbours[p] \ {p}
  /\ Announcement \subseteq Block
  /\ Opening \subseteq Full
  /\ nGetBlocksStep \in Nat \ {0} /\ nGetBlocksMax \in Nat
  /\ nGetBlocksStep <= nGetBlocksMax
  /\ MaxCuts \in Nat /\ nMaxOutbound \in Nat

VARIABLES
  mapBlockIndex, mapOrphanBlocks, pindexBest,
  up,                   \* vNodes: the peers a node is connected to
  peer,                 \* a node's CNode of each peer
  msgs,                 \* sent over each connection and not handled yet
  mapAlreadyAskedFor,   \* the blocks with a time in it
  nAskedForBlocks,      \* ... 1 stands for what is larger
  toReconnect,          \* fForceReconnect: the connections still to close
  asleep,               \* ... before nAskedForBlocks is lowered
  slots,                \* grantOutbound: the peers whose connection has a slot
  nCuts

chainVars == <<mapBlockIndex, mapOrphanBlocks, pindexBest>>
stuckVars == <<nAskedForBlocks, toReconnect, asleep, slots, nCuts>>
downloadVars == <<chainVars, up, peer, msgs, mapAlreadyAskedFor, stuckVars>>

Node == Full \cup Silent

----------------------------------------------------------------------------
(* The tree of blocks *)

Highest(S) == CHOOSE x \in S : \A y \in S : nHeight[y] <= nHeight[x]

(* The blocks above Genesis on the way to a block. *)
Path == [b \in Block |->
           [h \in 1 .. nHeight[b] |-> CHOOSE x \in Chain[b] : nHeight[x] = h]]

(* CBlockLocator::GetBlockIndex: the last block in common; the chains are   *)
(* short enough for a locator to name all of theirs.                       *)
Fork(a, b) == Highest(Chain[a] \cap Chain[b])

After(x, b) == SubSeq(Path[b], nHeight[x] + 1, nHeight[b])

LastProofOfWork(b) == Highest(Chain[b] \ ProofOfStake)

(* The block of b's chain that the orphan blocks below b wait below. *)
OrphanRoot(orphans, b) ==
  Highest({x \in Chain[b] \ {Genesis} : pprev[x] \notin orphans})

(* What of s is at the positions in D, in its order. *)
Pick(s, D) ==
  LET upTo[i \in 0 .. Len(s)] ==
        IF i = 0 THEN <<>>
        ELSE IF i \in D THEN Append(upTo[i - 1], s[i]) ELSE upTo[i - 1]
  IN  upTo[Len(s)]

----------------------------------------------------------------------------
(* A connection as one end sees it *)

NewPeer ==
  [setInventoryKnown |-> {}, vInventoryToSend |-> <<>>,
   mapAskFor |-> <<>>,     \* what may be asked for now, in the order of its times
   later |-> {},           \* ... and what has been asked for within 10 seconds
   lastGetBlocks |-> <<NoBlock, NoBlock>>,
   hashContinue |-> NoBlock, nInvCountLoaedLast |-> 0]

CNode ==
  [setInventoryKnown : SUBSET Block, vInventoryToSend : Seq(Block),
   mapAskFor : Seq(Block), later : SUBSET Block,
   lastGetBlocks : (Block \cup {NoBlock}) \X (Block \cup {NoBlock}),
   hashContinue : Block \cup {NoBlock}, nInvCountLoaedLast : Nat]

Message ==
  [type : {"version"}] \cup [type : {"inv", "getdata"}, inv : Seq(Block)]
  \cup [type : {"block"}, block : Block]
  \cup [type : {"getblocks"}, begin : Block, end : Block \cup {NoBlock}]

AlreadyHave(n, b) == b \in mapBlockIndex[n] \cup mapOrphanBlocks[n]

PushInventory(c, s) ==
  [c EXCEPT !.vInventoryToSend =
     @ \o Pick(s, {i \in DOMAIN s : s[i] \notin c.setInventoryKnown})]

(* mutant: what has been asked for is not asked for again *)
AskForOnce(n, c, s, again) ==
  [c EXCEPT !.mapAskFor =
     @ \o Pick(s, {i \in DOMAIN s : s[i] \notin mapAlreadyAskedFor[n]})]

(* "again" are the blocks whose last request is less than 10 seconds old.   *)
AskFor(n, c, s, again) ==
  [c EXCEPT !.mapAskFor = @ \o Pick(s, {i \in DOMAIN s : s[i] \notin again}),
            !.later = @ \cup again]

Again(n, s) == SUBSET (Range(s) \cap mapAlreadyAskedFor[n])

AskedFor(n, s) == [mapAlreadyAskedFor EXCEPT ![n] = @ \cup Range(s)]

(* Requests for blocks, each a pair of begin and end, short of those that   *)
(* repeat the one before.                                                   *)
Filtered(c, reqs) ==
  Pick(reqs, {i \in DOMAIN reqs :
                reqs[i] # IF i = 1 THEN c.lastGetBlocks ELSE reqs[i - 1]})

Requested(c, reqs) ==
  [c EXCEPT !.lastGetBlocks = IF reqs = <<>> THEN @ ELSE reqs[Len(reqs)]]

GetBlocks(c, reqs) ==
  LET sent == Filtered(c, reqs) IN
    [i \in DOMAIN sent |-> [type |-> "getblocks", begin |-> sent[i][1], end |-> sent[i][2]]]

(* n handles the oldest message of p, and answers. *)
Received(n, p, type) ==
  /\ p \in up[n] /\ msgs[p][n] # <<>>
  /\ Head(msgs[p][n]).type = type

Answered(n, p, replies) ==
  msgs' = [msgs EXCEPT ![p][n] = Tail(@),
                       ![n][p] = IF p \in Silent THEN @ ELSE @ \o replies]

----------------------------------------------------------------------------
(* Connections *)

DownloadInit ==
  /\ mapBlockIndex = [n \in Full |-> Chain[Initial[n]]]
  /\ mapOrphanBlocks = [n \in Full |-> {}]
  /\ pindexBest = Initial
  /\ up = [n \in Full |-> {}]
  /\ peer = [n \in Full |-> [p \in Node |-> NewPeer]]
  /\ msgs = [p \in Node |-> [n \in Node |-> <<>>]]
  /\ mapAlreadyAskedFor = [n \in Full |-> {}]
  /\ nAskedForBlocks = [n \in Full |-> 0]
  /\ toReconnect = [n \in Full |-> {}]
  /\ asleep = [n \in Full |-> FALSE]
  /\ slots = [n \in Full |-> {}]
  /\ nCuts = 0

Hello == <<[type |-> "version"]>>

(* The thread that opens connections waits for one.  With -connect it only    *)
(* tries the addresses given, and does not watch the download.              *)
FreeSlot(n) == Cardinality(slots[n]) < nMaxOutbound

(* The thread that opens connections is the one that sleeps.  The first      *)
(* connection of a burst gets the slot, the others none while it lasts.     *)
Connect(n, p) ==
  /\ n \in Opening /\ ~ asleep[n]
  /\ p \notin up[n]
  /\ \/ FreeSlot(n) /\ slots' = [slots EXCEPT ![n] = @ \cup {p}]
     \/ slots[n] # {} /\ UNCHANGED slots
  /\ up' = [m \in Full |-> IF m = n THEN up[m] \cup {p} ELSE IF m = p THEN up[m] \cup {n} ELSE up[m]]
  /\ msgs' = [msgs EXCEPT ![p][n] = Hello, ![n][p] = IF p \in Silent THEN <<>> ELSE Hello]
  /\ UNCHANGED <<chainVars, peer, mapAlreadyAskedFor, nAskedForBlocks, toReconnect, asleep, nCuts>>

(* mutant: the socket stays open when the node is dropped *)
LeftOpen(n, p) ==
  /\ up' = [up EXCEPT ![n] = @ \ {p}]
  /\ msgs' = [msgs EXCEPT ![p][n] = <<>>]
  /\ peer' = [peer EXCEPT ![n][p] = NewPeer]
  /\ slots' = [slots EXCEPT ![n] = @ \ {p}]

(* Both ends forget the connection and what was on its way. *)
Closed(n, p) ==
  /\ up' = [m \in Full |-> IF m = n THEN up[m] \ {p} ELSE IF m = p THEN up[m] \ {n} ELSE up[m]]
  /\ msgs' = [msgs EXCEPT ![p][n] = <<>>, ![n][p] = <<>>]
  /\ peer' = [m \in Full |-> [q \in Node |-> IF {m, q} = {n, p} THEN NewPeer ELSE peer[m][q]]]
  /\ slots' = [m \in Full |-> IF m = n THEN slots[m] \ {p} ELSE IF m = p THEN slots[m] \ {n} ELSE slots[m]]

Cut(n, p) ==
  /\ p \in up[n] /\ nCuts < MaxCuts
  /\ nCuts' = nCuts + 1
  /\ Closed(n, p)
  /\ toReconnect' = [toReconnect EXCEPT ![n] = @ \ {p}]
  /\ UNCHANGED <<chainVars, mapAlreadyAskedFor, nAskedForBlocks, asleep>>

Reconnect(n, p) ==
  /\ p \in toReconnect[n]
  /\ toReconnect' = [toReconnect EXCEPT ![n] = @ \ {p}]
  /\ IF p \in up[n] THEN Closed(n, p) ELSE UNCHANGED <<up, msgs, peer, slots>>
  /\ UNCHANGED <<chainVars, mapAlreadyAskedFor, nAskedForBlocks, asleep, nCuts>>

InitialBlockDownload(n) == nHeight[pindexBest[n]] < nDownloaded

(* Nothing is going to come in. *)
NothingUnderWay(n) ==
  \A p \in up[n] :
    /\ msgs[p][n] = <<>> /\ msgs[n][p] = <<>>
    /\ peer[n][p].mapAskFor = <<>> /\ peer[n][p].later = {}
    /\ p \in Full => peer[p][n].vInventoryToSend = <<>>

(* No block has been accepted for 20 seconds, in the end because none comes, *)
(* or because it comes too slowly.                                          *)
NetworkStuck(n) ==
  /\ n \in Opening
  /\ InitialBlockDownload(n) /\ toReconnect[n] = {} /\ ~ asleep[n]
  /\ FreeSlot(n)
  /\ \/ NothingUnderWay(n) /\ UNCHANGED nCuts
     \/ ~ NothingUnderWay(n) /\ nCuts < MaxCuts /\ nCuts' = nCuts + 1
  /\ toReconnect' = [toReconnect EXCEPT ![n] = up[n]]
  /\ asleep' = [asleep EXCEPT ![n] = TRUE]
  /\ UNCHANGED <<chainVars, up, peer, msgs, mapAlreadyAskedFor, nAskedForBlocks, slots>>

(* mutant: the peers that come next are not asked *)
AskedAsBefore(n) == nAskedForBlocks

AskTheNext(n) == [nAskedForBlocks EXCEPT ![n] = -3]

WakeUp(n) ==
  /\ asleep[n]
  /\ asleep' = [asleep EXCEPT ![n] = FALSE]
  /\ nAskedForBlocks' = AskTheNext(n)
  /\ UNCHANGED <<chainVars, up, peer, msgs, mapAlreadyAskedFor, toReconnect, slots, nCuts>>

----------------------------------------------------------------------------
(* Messages *)

(* The first peer is asked for blocks, or a lone one. *)
Asks(n) ==
  \/ nAskedForBlocks[n] < 1
  \/ Cardinality(up[n]) <= 1

Version(n, p) ==
  /\ Received(n, p, "version")
  /\ LET reqs == IF Asks(n) THEN <<<<pindexBest[n], NoBlock>>>> ELSE <<>> IN
       /\ peer' = [peer EXCEPT ![n][p] = Requested(@, reqs)]
       /\ Answered(n, p, GetBlocks(peer[n][p], reqs))
  /\ nAskedForBlocks' =
       [nAskedForBlocks EXCEPT ![n] = IF Asks(n) /\ @ < 1 THEN @ + 1 ELSE @]
  /\ UNCHANGED <<chainVars, up, mapAlreadyAskedFor, toReconnect, asleep, slots, nCuts>>

(* What "inv" asks for when it names a block the node has. *)
RequestFor(n, b) ==
  IF b \in mapOrphanBlocks[n]
  THEN <<pindexBest[n], OrphanRoot(mapOrphanBlocks[n], b)>>
  ELSE <<b, NoBlock>>

Inv(n, p) ==
  /\ Received(n, p, "inv")
  /\ LET inv == Head(msgs[p][n]).inv
         new == Pick(inv, {i \in DOMAIN inv : ~ AlreadyHave(n, inv[i])})
         reqs == Pick([i \in DOMAIN inv |-> RequestFor(n, inv[i])],
                      {i \in DOMAIN inv : \/ inv[i] \in mapOrphanBlocks[n]
                                          \/ i = Len(inv) /\ inv[i] \in mapBlockIndex[n]})
         known == [peer[n][p] EXCEPT !.setInventoryKnown = @ \cup Range(inv)]
     IN /\ \E again \in Again(n, new) :
             peer' = [peer EXCEPT ![n][p] = Requested(AskFor(n, known, new, again), reqs)]
        /\ mapAlreadyAskedFor' = AskedFor(n, new)
        /\ Answered(n, p, GetBlocks(known, reqs))
  /\ UNCHANGED <<chainVars, up, stuckVars>>

(* The last block of a batch is followed by the last proof of work, which   *)
(* the other end asks for or holds as an orphan.                           *)
GetData(n, p) ==
  /\ Received(n, p, "getdata")
  /\ LET asked == Head(msgs[p][n]).inv
         inv == Pick(asked, {i \in DOMAIN asked : asked[i] \in mapBlockIndex[n]})
         blocks == [i \in DOMAIN inv |-> [type |-> "block", block |-> inv[i]]]
         last == {i \in DOMAIN inv : inv[i] = peer[n][p].hashContinue}
         more == [type |-> "inv", inv |-> <<LastProofOfWork(pindexBest[n])>>]
     IN IF last = {}
        THEN Answered(n, p, blocks) /\ UNCHANGED peer
        ELSE /\ Answered(n, p, InsertAt(blocks, Min(last) + 1, more))
             /\ peer' = [peer EXCEPT ![n][p].hashContinue = NoBlock]
  /\ UNCHANGED <<chainVars, up, mapAlreadyAskedFor, stuckVars>>

(* The blocks after the last in common, up to the end or the limit; at the  *)
(* end the best block too, if it is recent enough.                         *)
GetBlocksHandler(n, p) ==
  /\ Received(n, p, "getblocks")
  /\ LET m == Head(msgs[p][n])
         best == pindexBest[n]
         s == After(Fork(m.begin, best), best)
         nLimit == Min({nGetBlocksStep + peer[n][p].nInvCountLoaedLast, nGetBlocksMax})
         end == IF \E i \in DOMAIN s : s[i] = m.end
                THEN CHOOSE i \in DOMAIN s : s[i] = m.end ELSE Len(s) + 1
         c == [peer[n][p] EXCEPT !.nInvCountLoaedLast = nLimit]
     IN IF end <= Min({nLimit, Len(s)})
        THEN \E fRecent \in BOOLEAN :
               peer' = [peer EXCEPT ![n][p] = PushInventory(c,
                          SubSeq(s, 1, end - 1) \o IF fRecent /\ m.end # best THEN <<best>> ELSE <<>>)]
        ELSE peer' = [peer EXCEPT ![n][p] = PushInventory(
                        [c EXCEPT !.hashContinue = IF nLimit <= Len(s) THEN s[nLimit] ELSE @],
                        SubSeq(s, 1, Min({nLimit, Len(s)})))]
  /\ Answered(n, p, <<>>)
  /\ UNCHANGED <<chainVars, up, mapAlreadyAskedFor, stuckVars>>

(* mutant: the orphan blocks that wait for b are left where they are *)
WithoutOrphans(n, b) == {b}

(* ProcessBlock.  n accepts b and every orphan block that waits for it, and *)
(* announces to all its peers those that become the best block.             *)
WithOrphans(n, b) ==
  {b} \cup {o \in mapOrphanBlocks[n] :
              b \in Chain[o] /\ Chain[o] \subseteq mapBlockIndex[n] \cup mapOrphanBlocks[n] \cup {b}}

Announced(n, s, links) ==
  [q \in Node |-> IF q \in up[n] THEN PushInventory(links[q], s) ELSE links[q]]

Accept(n, b, links) ==
  LET new == WithOrphans(n, b) IN
    /\ mapBlockIndex' = [mapBlockIndex EXCEPT ![n] = @ \cup new]
    /\ mapOrphanBlocks' = [mapOrphanBlocks EXCEPT ![n] = @ \ new]
    /\ \E best \in new \cup {pindexBest[n]} :
         LET path == Path[best]
             better == {x \in Chain[best] \cap new :
                          bnChainTrust[x] > bnChainTrust[pindexBest[n]]}
         IN /\ \A x \in new : bnChainTrust[x] <= bnChainTrust[best]
            /\ best \in new => bnChainTrust[best] > bnChainTrust[pindexBest[n]]
            /\ pindexBest' = [pindexBest EXCEPT ![n] = best]
            /\ peer' = [peer EXCEPT ![n] =
                 Announced(n, Pick(path, {i \in DOMAIN path : path[i] \in better}), links)]

KnownFrom(n, p, b) == [peer[n] EXCEPT ![p].setInventoryKnown = @ \cup {b}]

AcceptedBlock(n, p) ==
  /\ Received(n, p, "block")
  /\ LET b == Head(msgs[p][n]).block IN
       /\ ~ AlreadyHave(n, b) /\ pprev[b] \in mapBlockIndex[n]
       /\ Accept(n, b, KnownFrom(n, p, b))
       /\ mapAlreadyAskedFor' = [mapAlreadyAskedFor EXCEPT ![n] = @ \ {b}]
  /\ Answered(n, p, <<>>)
  /\ UNCHANGED <<up, stuckVars>>

(* A block without its parent is held, what leads to it is asked for, and   *)
(* the block it waits for, unless the node is in its initial download; it   *)
(* may also count as such for 10 seconds after an old block.                *)
OrphanBlock(n, p) ==
  /\ Received(n, p, "block")
  /\ LET b == Head(msgs[p][n]).block
         orphans == mapOrphanBlocks[n] \cup {b}
         root == OrphanRoot(orphans, b)
         reqs == <<<<pindexBest[n], root>>>>
         c == KnownFrom(n, p, b)[p]
     IN /\ ~ AlreadyHave(n, b) /\ pprev[b] \notin mapBlockIndex[n]
        /\ mapOrphanBlocks' = [mapOrphanBlocks EXCEPT ![n] = orphans]
        /\ \E wanted \in {<<>>} \cup IF InitialBlockDownload(n) THEN {} ELSE {<<pprev[root]>>} :
             /\ \E again \in Again(n, wanted) :
                  peer' = [peer EXCEPT ![n][p] = AskFor(n, Requested(c, reqs), wanted, again)]
             /\ mapAlreadyAskedFor' = [AskedFor(n, wanted) EXCEPT ![n] = @ \ {b}]
        /\ Answered(n, p, GetBlocks(c, reqs))
  /\ UNCHANGED <<mapBlockIndex, pindexBest, up, stuckVars>>

KnownBlock(n, p) ==
  /\ Received(n, p, "block")
  /\ LET b == Head(msgs[p][n]).block IN
       /\ AlreadyHave(n, b)
       /\ peer' = [peer EXCEPT ![n] = KnownFrom(n, p, b)]
  /\ Answered(n, p, <<>>)
  /\ UNCHANGED <<chainVars, up, mapAlreadyAskedFor, stuckVars>>

----------------------------------------------------------------------------
(* SendMessages *)

Sent(n, p, type, inv) ==
  IF p \in Silent \/ inv = <<>> THEN <<>> ELSE <<[type |-> type, inv |-> inv]>>

SendMessages(n, p) ==
  /\ p \in up[n] /\ ~ Received(n, p, "version")
  /\ peer[n][p].vInventoryToSend # <<>> \/ peer[n][p].mapAskFor # <<>>
  /\ LET c == peer[n][p]
         v == c.vInventoryToSend
         inv == Pick(v, {i \in DOMAIN v : /\ v[i] \notin c.setInventoryKnown
                                          /\ \A j \in 1 .. i - 1 : v[j] # v[i]})
         ask == Pick(c.mapAskFor, {i \in DOMAIN c.mapAskFor : ~ AlreadyHave(n, c.mapAskFor[i])})
     IN /\ msgs' = [msgs EXCEPT ![n][p] = @ \o Sent(n, p, "inv", inv) \o Sent(n, p, "getdata", ask)]
        /\ peer' = [peer EXCEPT ![n][p].setInventoryKnown = @ \cup Range(inv),
                                ![n][p].vInventoryToSend = <<>>,
                                ![n][p].mapAskFor = <<>>]
        /\ mapAlreadyAskedFor' = AskedFor(n, ask)
  /\ UNCHANGED <<chainVars, up, stuckVars>>

(* The 10 seconds are over. *)
AskAgain(n, p, b) ==
  /\ b \in peer[n][p].later
  /\ peer' = [peer EXCEPT ![n][p].later = @ \ {b}, ![n][p].mapAskFor = Append(@, b)]
  /\ UNCHANGED <<chainVars, up, msgs, mapAlreadyAskedFor, stuckVars>>

(* A peer that does not answer announces a block all the same; bounded to    *)
(* those the node lacks, the others change nothing.                         *)
Announce(n, s, b) ==
  /\ s \in up[n] /\ ~ AlreadyHave(n, b)
  /\ msgs[s][n] = <<>> /\ b \notin peer[n][s].setInventoryKnown
  /\ msgs' = [msgs EXCEPT ![s][n] = <<[type |-> "inv", inv |-> <<b>>]>>]
  /\ UNCHANGED <<chainVars, up, peer, mapAlreadyAskedFor, stuckVars>>

----------------------------------------------------------------------------
Handle(n, p) ==
  \/ Version(n, p) \/ Inv(n, p) \/ GetData(n, p) \/ GetBlocksHandler(n, p)
  \/ AcceptedBlock(n, p) \/ OrphanBlock(n, p) \/ KnownBlock(n, p)

DownloadNext ==
  \E n \in Full :
    \/ NetworkStuck(n) \/ WakeUp(n)
    \/ \E s \in Silent, b \in Announcement : Announce(n, s, b)
    \/ \E p \in Neighbours[n] :
         \/ Connect(n, p) \/ Cut(n, p) \/ Reconnect(n, p)
         \/ Handle(n, p) \/ SendMessages(n, p)
         \/ \E b \in Block : AskAgain(n, p, b)

(* The thread that opens connections and watches the download goes on while  *)
(* it gets a slot, and then takes addresses at random, so that the turn of   *)
(* each comes.  The one that closes connections goes on, so does the one     *)
(* that handles messages, and time passes.                                  *)
Fairness ==
  \A n \in Full :
    /\ WF_downloadVars(WakeUp(n) \/ (NothingUnderWay(n) /\ NetworkStuck(n)))
    /\ \A p \in Neighbours[n] : SF_downloadVars(FreeSlot(n) /\ Connect(n, p))
    /\ WF_downloadVars(\E p \in Neighbours[n] : Reconnect(n, p))
    /\ WF_downloadVars(\E p \in Neighbours[n] :
         Handle(n, p) \/ SendMessages(n, p) \/ \E b \in Block : AskAgain(n, p, b))

DownloadSpec == DownloadInit /\ [][DownloadNext]_downloadVars /\ Fairness

----------------------------------------------------------------------------
(***************************************************************************)
(* Correctness                                                             *)
(***************************************************************************)
DownloadTypeOK ==
  /\ mapBlockIndex \in [Full -> SUBSET Block]
  /\ mapOrphanBlocks \in [Full -> SUBSET Block]
  /\ pindexBest \in [Full -> Block]
  /\ up \in [Full -> SUBSET Node]
  /\ peer \in [Full -> [Node -> CNode]]
  /\ msgs \in [Node -> [Node -> Seq(Message)]]
  /\ mapAlreadyAskedFor \in [Full -> SUBSET Block]
  /\ nAskedForBlocks \in [Full -> -3 .. 1]
  /\ toReconnect \in [Full -> SUBSET Node]
  /\ asleep \in [Full -> BOOLEAN]
  /\ slots \in [Full -> SUBSET Node]
  /\ nCuts \in 0 .. MaxCuts
  /\ \A n \in Full : /\ Chain[pindexBest[n]] \subseteq mapBlockIndex[n]
                     /\ mapOrphanBlocks[n] \cap mapBlockIndex[n] = {}
                     /\ up[n] \cup toReconnect[n] \subseteq Neighbours[n]
                     /\ slots[n] \subseteq up[n]
  /\ \A n, p \in Full : p \in up[n] <=> n \in up[p]

InFlight(p, n, type) == UNION {Range(m.inv) : m \in {x \in Range(msgs[p][n]) : x.type = type}}

BlocksInFlight(p, n) == {m.block : m \in {x \in Range(msgs[p][n]) : x.type = "block"}}

(* What a peer has announced is never announced again over the connection:  *)
(* so the node has it, or it is asked for or will be, whoever else was      *)
(* asked for it first.                                                      *)
AnnouncedIsFetched ==
  \A n, p \in Full : p \in up[n] =>
    \A b \in peer[p][n].setInventoryKnown :
      \/ AlreadyHave(n, b)
      \/ b \in Range(peer[n][p].mapAskFor) \cup peer[n][p].later
      \/ b \in InFlight(p, n, "inv") \cup InFlight(n, p, "getdata") \cup BlocksInFlight(p, n)

(* A block is an orphan only for want of a block the node lacks. *)
OrphansLackParent ==
  \A n \in Full : \A b \in mapOrphanBlocks[n] : pprev[b] \notin mapBlockIndex[n]

(* A node that is behind gets what its peers have, though those asked first  *)
(* do not answer and connections break, unless its connections take all     *)
(* slots for good: then the thread that watches the download waits.         *)
Downloaded ==
  \A n \in Opening : []<>FreeSlot(n) => <>[](nHeight[pindexBest[n]] >= nDownloaded)
============================================================================
