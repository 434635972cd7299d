--------------------------- MODULE DownloadProofs ---------------------------
(***************************************************************************)
(* That no announced block is lost and no orphan block is kept in vain,    *)
(* proved for any number of nodes and of peers that do not answer, any     *)
(* tree of blocks, any limits of a batch and any breaks of connections.    *)
(***************************************************************************)
EXTENDS Download, BlockTreeTheorems, SequenceTheorems

(* Numbers and sequences *)

(* A set of numbers with 0 and with the successor of every member has all.  *)
LEMMA CountingUp ==
  ASSUME NEW S \in SUBSET Nat, 0 \in S, \A n \in S : n + 1 \in S
  PROVE  S = Nat
<1>1. SUFFICES ASSUME Nat \ S # {} PROVE FALSE
  OBVIOUS
<1> DEFINE T == Nat \ S
<1>2. PICK h \in T : \A n \in T : ~ (<<n, h>> \in OpToRel(<, Nat))
  <2>1. IsWellFoundedOn(OpToRel(<, Nat), Nat)
    BY NatLessThanWellFounded
  <2>2. T \subseteq Nat /\ T # {}
    BY <1>1
  <2> HIDE DEF T
  <2> QED
    BY <2>1, <2>2, WFMin
<1>3. \A n \in T : ~ (n < h)
  BY <1>2 DEF OpToRel
<1>4. h # 0 /\ h - 1 \in Nat
  OBVIOUS
<1>5. h - 1 \in S
  BY <1>3, <1>4
<1> QED
  BY <1>4, <1>5

(* A set of numbers has a least one. *)
LEMMA LeastExists ==
  ASSUME NEW S \in SUBSET Nat, S # {}
  PROVE  Min(S) \in S /\ \A y \in S : Min(S) <= y
<1>1. PICK h \in S : \A n \in S : ~ (<<n, h>> \in OpToRel(<, Nat))
  <2>1. IsWellFoundedOn(OpToRel(<, Nat), Nat)
    BY NatLessThanWellFounded
  <2> QED
    BY <2>1, WFMin
<1>2. \A n \in S : h <= n
  <2>1. SUFFICES ASSUME NEW n \in S, n < h PROVE FALSE
    OBVIOUS
  <2>2. <<n, h>> \in OpToRel(<, Nat)
    BY <2>1 DEF OpToRel
  <2> QED
    BY <1>1, <2>2
<1> QED
  BY <1>2 DEF Min

LEMMA SingletonSeq ==
  ASSUME NEW A, NEW x \in A
  PROVE  << x >> \in Seq(A) /\ Range(<< x >>) = {x}
BY DEF Range

LEMMA RangeAppend ==
  ASSUME NEW A, NEW q \in Seq(A), NEW x \in A
  PROVE  Range(Append(q, x)) = Range(q) \cup {x}
<1>1. DOMAIN Append(q, x) = 1 .. Len(q) + 1 /\ DOMAIN q = 1 .. Len(q)
  OBVIOUS
<1>2. \A i \in 1 .. Len(q) : Append(q, x)[i] = q[i]
  OBVIOUS
<1>3. Append(q, x)[Len(q) + 1] = x
  OBVIOUS
<1>4. 1 .. Len(q) + 1 = (1 .. Len(q)) \cup {Len(q) + 1}
  OBVIOUS
<1> QED
  BY <1>1, <1>2, <1>3, <1>4 DEF Range

(* Pick takes from a sequence what is at the given positions. *)
LEMMA PickRange ==
  ASSUME NEW A, NEW s \in Seq(A), NEW D
  PROVE  /\ Pick(s, D) \in Seq(A)
         /\ Range(Pick(s, D)) = {s[i] : i \in DOMAIN s \cap D}
<1> DEFINE n == Len(s)
           Extended(q, i) == IF i \in D THEN Append(q, s[i]) ELSE q
           Steps(f, k) == f = [i \in 0 .. k |-> IF i = 0 THEN << >> ELSE Extended(f[i - 1], i)]
           f == CHOOSE g : Steps(g, n)
<1>1. Pick(s, D) = f[n]
  BY DEF Pick
<1>2. n \in Nat /\ DOMAIN s = 1 .. n /\ \A i \in 1 .. n : s[i] \in A
  OBVIOUS
<1>3. \E g : Steps(g, n)
  <2> DEFINE E == {k \in Nat : \E g : Steps(g, k)}
  <2>1. 0 \in E
    <3>1. Steps([i \in 0 .. 0 |-> << >>], 0)
      OBVIOUS
    <3> QED
      BY <3>1
  <2>2. ASSUME NEW k \in E PROVE k + 1 \in E
    <3>1. PICK g : Steps(g, k)
      OBVIOUS
    <3> DEFINE h == [i \in 0 .. k + 1 |-> IF i = k + 1 THEN Extended(g[k], k + 1) ELSE g[i]]
    <3> HIDE DEF Extended
    <3>2. ASSUME NEW i \in 0 .. k + 1
          PROVE  h[i] = IF i = 0 THEN << >> ELSE Extended(h[i - 1], i)
      <4>1. CASE i = 0
        BY <3>1, <4>1
      <4>2. CASE i = k + 1
        <5>1. k # k + 1 /\ k \in 0 .. k + 1 /\ h[k] = g[k]
          OBVIOUS
        <5> QED
          BY <4>2, <5>1
      <4>3. CASE i \in 1 .. k
        <5>1. i - 1 \in 0 .. k + 1 /\ i - 1 # k + 1 /\ h[i - 1] = g[i - 1] /\ h[i] = g[i]
          BY <4>3
        <5>2. g[i] = Extended(g[i - 1], i)
          BY <3>1, <4>3
        <5> QED
          BY <4>3, <5>1, <5>2
      <4> QED
        BY <4>1, <4>2, <4>3
    <3>3. Steps(h, k + 1)
      <4>1. DOMAIN h = 0 .. k + 1
        OBVIOUS
      <4>2. h = [i \in 0 .. k + 1 |-> h[i]]
        OBVIOUS
      <4> HIDE DEF h
      <4> QED
        BY <3>2, <4>1, <4>2
    <3>4. \E hh : Steps(hh, k + 1)
      <4> HIDE DEF h, Steps
      <4> QED
        BY <3>3
    <3> QED
      <4> HIDE DEF Steps
      <4> QED
        BY <3>4
  <2>3. E = Nat
    <3> HIDE DEF E
    <3> QED
      BY <2>1, <2>2, CountingUp DEF E
  <2> QED
    BY <1>2, <2>3
<1>4. Steps(f, n)
  <2> HIDE DEF Steps
  <2> QED
    BY <1>3
<1> DEFINE Good(k) == f[k] \in Seq(A) /\ Range(f[k]) = {s[i] : i \in (1 .. k) \cap D}
<1> HIDE DEF f
<1>5. f[0] = << >> /\ \A k \in 1 .. n : f[k] = Extended(f[k - 1], k)
  <2> HIDE DEF Extended
  <2>1. \A k \in 0 .. n : f[k] = IF k = 0 THEN << >> ELSE Extended(f[k - 1], k)
    BY <1>4
  <2> QED
    BY <1>2, <2>1
<1> DEFINE R == {k \in Nat : k <= n => Good(k)}
<1>6. 0 \in R
  <2>1. << >> \in Seq(A) /\ Range(<< >>) = {}
    BY DEF Range
  <2>2. 1 .. 0 = {}
    OBVIOUS
  <2>3. Good(0)
    BY <1>5, <2>1, <2>2
  <2> QED
    <3> HIDE DEF Good
    <3> QED
      BY <2>3
<1>7. ASSUME NEW k \in R PROVE k + 1 \in R
  <2>1. SUFFICES ASSUME k + 1 <= n PROVE Good(k + 1)
    OBVIOUS
  <2>2. Good(k) /\ k \in Nat /\ k + 1 \in 1 .. n /\ s[k + 1] \in A
    BY <1>2, <2>1
  <2>3. f[k + 1] = Extended(f[k], k + 1)
    BY <1>5, <2>2
  <2>4. 1 .. k + 1 = (1 .. k) \cup {k + 1}
    BY <2>2
  <2>5. CASE k + 1 \in D
    <3>1. f[k + 1] \in Seq(A) /\ Range(f[k + 1]) = Range(f[k]) \cup {s[k + 1]}
      BY <2>2, <2>3, <2>5, RangeAppend
    <3>2. {s[i] : i \in (1 .. k + 1) \cap D} = {s[i] : i \in (1 .. k) \cap D} \cup {s[k + 1]}
      BY <2>4, <2>5
    <3> QED
      BY <2>2, <3>1, <3>2
  <2>6. CASE k + 1 \notin D
    <3>1. f[k + 1] = f[k]
      BY <2>3, <2>6
    <3>2. {s[i] : i \in (1 .. k + 1) \cap D} = {s[i] : i \in (1 .. k) \cap D}
      BY <2>4, <2>6
    <3> QED
      BY <2>2, <3>1, <3>2
  <2> QED
    BY <2>5, <2>6
<1>8. R = Nat
  <2> HIDE DEF R
  <2> QED
    BY <1>6, <1>7, CountingUp DEF R
<1>9. Good(n)
  <2> HIDE DEF Good
  <2> QED
    BY <1>2, <1>8
<1> QED
  BY <1>1, <1>2, <1>9

----------------------------------------------------------------------------
(* Blocks *)

(* A set of blocks of one chain has a highest one.                         *)
LEMMA HighestIn ==
  ASSUME NEW b \in Block, NEW S \in SUBSET Chain[b], S # {}
  PROVE  Highest(S) \in S /\ \A y \in S : nHeight[y] <= nHeight[Highest(S)]
<1> DEFINE T == {nHeight[b] - nHeight[x] : x \in S}
<1>1. \A x \in S : x \in Block /\ nHeight[x] \in Nat /\ nHeight[x] <= nHeight[b]
  BY ChainEnds, ChainRises, BlockTreeAssumption
<1>2. nHeight[b] \in Nat
  BY BlockTreeAssumption
<1>3. T \subseteq Nat /\ T # {}
  BY <1>1, <1>2
<1>4. Min(T) \in T /\ \A d \in T : Min(T) <= d
  <2> HIDE DEF T
  <2> QED
    BY <1>3, LeastExists
<1>5. PICK x \in S : Min(T) = nHeight[b] - nHeight[x]
  BY <1>4
<1>6. ASSUME NEW y \in S PROVE nHeight[y] <= nHeight[x]
  <2>1. nHeight[b] - nHeight[y] \in T
    OBVIOUS
  <2>2. nHeight[b] - nHeight[x] <= nHeight[b] - nHeight[y]
    BY <1>4, <1>5, <2>1
  <2> QED
    BY <1>1, <1>2, <2>2
<1> QED
  BY <1>6 DEF Highest

(* A chain has a block at every height up to its own. *)
LEMMA HeightExists ==
  \A b \in Block : \A h \in 0 .. nHeight[b] : \E x \in Chain[b] : nHeight[x] = h
<1> DEFINE S == {b \in Block : \A h \in 0 .. nHeight[b] : \E x \in Chain[b] : nHeight[x] = h}
<1>1. Genesis \in S
  BY BlockTreeAssumption
<1>2. ASSUME NEW b \in Block \ {Genesis}, pprev[b] \in S PROVE b \in S
  <2>1. SUFFICES ASSUME NEW h \in 0 .. nHeight[b] PROVE \E x \in Chain[b] : nHeight[x] = h
    OBVIOUS
  <2>2. CASE h = nHeight[b]
    BY <2>2, ChainEnds
  <2>3. CASE h # nHeight[b]
    <3>1. h \in 0 .. nHeight[pprev[b]]
      BY <2>3, BlockTreeAssumption
    <3> QED
      BY <1>2, <3>1, BlockTreeAssumption
  <2> QED
    BY <2>2, <2>3
<1>3. S = Block
  <2> HIDE DEF S
  <2> QED
    BY <1>1, <1>2, BlockInduction DEF S
<1> QED
  BY <1>3

(* The path to a block is as long as the block is high.                    *)
LEMMA PathBlocks ==
  ASSUME NEW b \in Block
  PROVE  Path[b] \in Seq(Chain[b]) /\ Len(Path[b]) = nHeight[b]
<1>1. nHeight[b] \in Nat
  BY BlockTreeAssumption
<1>2. Path[b] = [h \in 1 .. nHeight[b] |-> CHOOSE x \in Chain[b] : nHeight[x] = h]
  BY DEF Path
<1>3. ASSUME NEW h \in 1 .. nHeight[b] PROVE Path[b][h] \in Chain[b]
  <2>1. \E x \in Chain[b] : nHeight[x] = h
    BY <1>1, HeightExists
  <2> QED
    BY <1>2, <2>1
<1>4. DOMAIN Path[b] = 1 .. nHeight[b]
  BY <1>2
<1>5. Path[b] \in [1 .. nHeight[b] -> Chain[b]]
  BY <1>2, <1>3
<1> QED
  BY <1>1, <1>5

(* What follows a block on a chain is of that chain.                       *)
LEMMA AfterBlocks ==
  ASSUME NEW x \in Block, NEW b \in Block
  PROVE  After(x, b) \in Seq(Chain[b])
<1>1. nHeight[x] \in Nat /\ nHeight[b] \in Nat
  BY BlockTreeAssumption
<1>2. \A i \in nHeight[x] + 1 .. nHeight[b] : Path[b][i] \in Chain[b]
  BY <1>1, PathBlocks
<1> DEFINE s == Path[b]
           first == nHeight[x] + 1
           last == nHeight[b]
<1>3. first \in Int /\ last \in Int /\ \A i \in first .. last : s[i] \in Chain[b]
  BY <1>1, <1>2
<1>4. SubSeq(s, first, last) \in Seq(Chain[b])
  <2> HIDE DEF s, first, last
  <2> QED
    BY <1>3, SubSeqProperties
<1> QED
  BY <1>4 DEF After

(* Two chains have a last block in common: Genesis at least.               *)
LEMMA ForkBlock ==
  ASSUME NEW a \in Block, NEW b \in Block
  PROVE  Fork(a, b) \in Block
<1>1. Genesis \in Chain[a] \cap Chain[b] /\ Chain[b] \subseteq Block
  BY ChainEnds
<1>2. Fork(a, b) \in Chain[a] \cap Chain[b]
  BY <1>1, HighestIn DEF Fork
<1> QED
  BY <1>1, <1>2

LEMMA LastProofOfWorkBlock ==
  ASSUME NEW b \in Block
  PROVE  LastProofOfWork(b) \in Chain[b]
<1>1. Genesis \in Chain[b] \ ProofOfStake
  BY ChainEnds, DownloadAssumption
<1> QED
  BY <1>1, HighestIn DEF LastProofOfWork

(* The walk down from an orphan block ends at one whose parent is not held. *)
LEMMA OrphanRootBlock ==
  ASSUME NEW b \in Block \ {Genesis}, NEW orphans, Genesis \notin orphans
  PROVE  /\ OrphanRoot(orphans, b) \in Chain[b] \ {Genesis}
         /\ pprev[OrphanRoot(orphans, b)] \notin orphans
<1>1. PICK y \in Block : IsNext(Genesis, y, b)
  BY ChainEnds, NextExists
<1> DEFINE S == {x \in Chain[b] \ {Genesis} : pprev[x] \notin orphans}
<1>2. y \in S
  BY <1>1 DEF IsNext, Connected
<1>3. Highest(S) \in S
  BY <1>2, HighestIn
<1> QED
  BY <1>3 DEF OrphanRoot

----------------------------------------------------------------------------
(* One end of a connection *)

Request == Block \X (Block \cup {NoBlock})

GetBlocksMessage ==
  [type : {"getblocks"}, begin : Block, end : Block \cup {NoBlock}]

(* PushInventory queues some of the blocks it is given.                    *)
LEMMA PushInventoryKeeps ==
  ASSUME NEW c \in CNode, NEW A \in SUBSET Block,
         c.vInventoryToSend \in Seq(A), NEW s \in Seq(A)
  PROVE  LET d == PushInventory(c, s) IN
           /\ d \in CNode /\ d.vInventoryToSend \in Seq(A)
           /\ d.setInventoryKnown = c.setInventoryKnown
           /\ d.mapAskFor = c.mapAskFor /\ d.later = c.later
<1> DEFINE t == Pick(s, {i \in DOMAIN s : s[i] \notin c.setInventoryKnown})
           v == c.vInventoryToSend \o t
<1>1. t \in Seq(A)
  BY PickRange
<1> HIDE DEF t
<1>2. v \in Seq(A) /\ v \in Seq(Block)
  BY <1>1, ConcatProperties, SeqMonotonic
<1> HIDE DEF v
<1>3. PushInventory(c, s) = [c EXCEPT !.vInventoryToSend = v]
  BY DEF PushInventory, v, t
<1> QED
  BY <1>2, <1>3 DEF CNode

Wanted(c) == Range(c.mapAskFor) \cup c.later

(* AskFor: every block is asked for now or within 10 seconds.              *)
LEMMA AskForKeeps ==
  ASSUME NEW c \in CNode, NEW n, NEW s \in Seq(Block), NEW again \in SUBSET Range(s)
  PROVE  LET d == AskFor(n, c, s, again) IN
           /\ d \in CNode
           /\ Wanted(d) = Wanted(c) \cup Range(s)
           /\ d.vInventoryToSend = c.vInventoryToSend
           /\ d.setInventoryKnown = c.setInventoryKnown
<1> DEFINE t == Pick(s, {i \in DOMAIN s : s[i] \notin again})
           v == c.mapAskFor \o t
<1>1. t \in Seq(Block) /\ Range(t) = Range(s) \ again
  <2> DEFINE D == {i \in DOMAIN s : s[i] \notin again}
  <2>1. t \in Seq(Block) /\ Range(t) = {s[i] : i \in DOMAIN s \cap D}
    BY PickRange
  <2> QED
    BY <2>1 DEF Range
<1> HIDE DEF t
<1>2. c.mapAskFor \in Seq(Block) /\ Range(s) \subseteq Block
  BY DEF CNode, Range
<1>3. v \in Seq(Block) /\ Range(v) = Range(c.mapAskFor) \cup Range(t)
  BY <1>1, <1>2, ConcatProperties, RangeConcatenation
<1> HIDE DEF v
<1>4. AskFor(n, c, s, again) = [c EXCEPT !.mapAskFor = v, !.later = @ \cup again]
  BY DEF AskFor, v, t
<1> QED
  BY <1>1, <1>2, <1>3, <1>4 DEF CNode, Wanted

(* PushGetBlocks sends requests and remembers the last one.                *)
LEMMA RequestedKeeps ==
  ASSUME NEW c \in CNode, NEW reqs \in Seq(Request)
  PROVE  /\ GetBlocks(c, reqs) \in Seq(GetBlocksMessage)
         /\ LET d == Requested(c, reqs) IN
              /\ d \in CNode
              /\ d.mapAskFor = c.mapAskFor /\ d.later = c.later
              /\ d.vInventoryToSend = c.vInventoryToSend
              /\ d.setInventoryKnown = c.setInventoryKnown
<1>1. GetBlocks(c, reqs) \in Seq(GetBlocksMessage)
  <2> DEFINE sent == Filtered(c, reqs)
  <2>1. sent \in Seq(Request)
    BY PickRange DEF Filtered
  <2> HIDE DEF sent
  <2>2. ASSUME NEW i \in DOMAIN sent
        PROVE  [type |-> "getblocks", begin |-> sent[i][1], end |-> sent[i][2]]
                  \in GetBlocksMessage
    <3>1. sent[i] \in Request
      BY <2>1
    <3> QED
      BY <3>1 DEF Request, GetBlocksMessage
  <2>3. DOMAIN sent = 1 .. Len(sent) /\ Len(sent) \in Nat
    BY <2>1
  <2> QED
    BY <2>2, <2>3 DEF GetBlocks, sent
<1>2. CASE reqs = << >>
  BY <1>1, <1>2 DEF Requested, CNode
<1>3. CASE reqs # << >>
  <2>1. reqs[Len(reqs)] \in (Block \cup {NoBlock}) \X (Block \cup {NoBlock})
    <3>1. reqs[Len(reqs)] \in Request
      BY <1>3
    <3> QED
      BY <3>1 DEF Request
  <2> QED
    BY <1>1, <1>3, <2>1 DEF Requested, CNode
<1> QED
  BY <1>2, <1>3

----------------------------------------------------------------------------
(* Messages *)

Have(n) == mapBlockIndex[n] \cup mapOrphanBlocks[n]

Asked(n, p) == Range(peer[n][p].mapAskFor) \cup peer[n][p].later

UnderWay(n, p) ==
  Asked(n, p) \cup InFlight(p, n, "inv") \cup InFlight(n, p, "getdata")
  \cup BlocksInFlight(p, n)

(* What p has told n of n has, or p has it and it is under way. *)
Fetched(n, p) ==
  \A b \in peer[p][n].setInventoryKnown :
    b \in Have(n) \/ (b \in mapBlockIndex[p] /\ b \in UnderWay(n, p))

(* A node that runs this code announces and sends what it has. *)
Honest(n, m) ==
  /\ m.type = "inv" => m.inv \in Seq(mapBlockIndex[n])
  /\ m.type = "block" => m.block \in mapBlockIndex[n]

TreeInv ==
  \A n \in Full :
    /\ \A b \in mapBlockIndex[n] : Chain[b] \subseteq mapBlockIndex[n]
    /\ \A o \in mapOrphanBlocks[n] : pprev[o] \notin mapBlockIndex[n]

LinkInv ==
  /\ \A n \in Full, p \in Node : p \notin up[n] => peer[n][p] = NewPeer
  /\ \A n \in Full, p \in Node : peer[n][p].vInventoryToSend \in Seq(mapBlockIndex[n])
  /\ \A n, p \in Full : \A m \in Range(msgs[n][p]) : Honest(n, m)

FetchInv == \A n, p \in Full : Fetched(n, p)

DownloadInv == DownloadTypeOK /\ TreeInv /\ LinkInv /\ FetchInv

(* A node is no neighbour of itself; nodes that run this code are of each other. *)
LEMMA NeighbourNodes ==
  /\ Node = Full \cup Silent
  /\ \A n \in Full : \A p \in Neighbours[n] :
       p \in Node /\ p # n /\ (p \in Full => n \in Neighbours[p])
BY DownloadAssumption DEF Node

LEMMA HeadOfRange ==
  ASSUME NEW S, NEW s \in Seq(S), s # << >>
  PROVE  Head(s) \in S /\ Tail(s) \in Seq(S) /\ Range(s) = Range(Tail(s)) \cup {Head(s)}
<1>1. s = << Head(s) >> \o Tail(s) /\ Head(s) \in S /\ Tail(s) \in Seq(S)
  OBVIOUS
<1>2. << Head(s) >> \in Seq(S) /\ Range(<< Head(s) >>) = {Head(s)}
  BY <1>1, SingletonSeq
<1> DEFINE first == << Head(s) >>
           rest == Tail(s)
<1>3. first \in Seq(S) /\ rest \in Seq(S)
  BY <1>1, <1>2
<1> HIDE DEF first, rest
<1>4. Range(first \o rest) = Range(first) \cup Range(rest)
  BY <1>3, RangeConcatenation
<1> QED
  BY <1>1, <1>2, <1>4 DEF first, rest

(* What is on its way after a message was handled and answered. *)
LEMMA AnsweredChannels ==
  ASSUME DownloadTypeOK, NEW n \in Full, NEW p \in Neighbours[n],
         NEW type, Received(n, p, type),
         NEW replies \in Seq(Message), Answered(n, p, replies)
  PROVE  /\ msgs' \in [Node -> [Node -> Seq(Message)]]
         /\ \A x, y \in Node :
              <<x, y>> # <<n, p>> /\ <<x, y>> # <<p, n>> => msgs'[x][y] = msgs[x][y]
         /\ Range(msgs[p][n]) = Range(msgs'[p][n]) \cup {Head(msgs[p][n])}
         /\ Head(msgs[p][n]) \in Message /\ Head(msgs[p][n]).type = type
         /\ p \in Full => Range(msgs'[n][p]) = Range(msgs[n][p]) \cup Range(replies)
<1>1. /\ n \in Node /\ p \in Node /\ p # n /\ (p \in Full => p \notin Silent)
      /\ msgs \in [Node -> [Node -> Seq(Message)]]
  BY NeighbourNodes, DownloadAssumption DEF DownloadTypeOK
<1> DEFINE s == msgs[p][n]
           t == msgs[n][p]
<1>2. s \in Seq(Message) /\ s # << >> /\ t \in Seq(Message) /\ Head(s).type = type
  BY <1>1 DEF Received
<1>3. Head(s) \in Message /\ Tail(s) \in Seq(Message) /\ Range(s) = Range(Tail(s)) \cup {Head(s)}
  BY <1>2, HeadOfRange
<1>4. t \o replies \in Seq(Message) /\ Range(t \o replies) = Range(t) \cup Range(replies)
  BY <1>2, RangeConcatenation
<1>5. /\ msgs'[p][n] = Tail(s)
      /\ msgs'[n][p] = IF p \in Silent THEN t ELSE t \o replies
      /\ \A x, y \in Node :
           <<x, y>> # <<n, p>> /\ <<x, y>> # <<p, n>> => msgs'[x][y] = msgs[x][y]
  BY <1>1 DEF Answered
<1>6. msgs' \in [Node -> [Node -> Seq(Message)]]
  BY <1>1, <1>2, <1>3, <1>4 DEF Answered
<1> QED
  BY <1>1, <1>2, <1>3, <1>4, <1>5, <1>6

(* The node only learns. *)
Grown ==
  /\ mapBlockIndex' \in [Full -> SUBSET Block]
  /\ \A x \in Full : mapBlockIndex[x] \subseteq mapBlockIndex'[x] /\ Have(x) \subseteq Have(x)'

(* Apart from what is to be announced, only one end of one connection       *)
(* changes.                                                                *)
OnlyEnd(n, p) ==
  /\ peer' \in [Full -> [Node -> CNode]]
  /\ \A x \in Full, q \in Node :
       /\ peer'[x][q].vInventoryToSend \in Seq(mapBlockIndex'[x])
       /\ <<x, q>> # <<n, p>> =>
            /\ peer'[x][q].setInventoryKnown = peer[x][q].setInventoryKnown
            /\ peer'[x][q].mapAskFor = peer[x][q].mapAskFor
            /\ peer'[x][q].later = peer[x][q].later

(* What the message that was handled stood for is taken over. *)
TakenOver(n, p, m, replies) ==
  /\ m.type = "inv" => Range(m.inv) \subseteq Have(n)' \cup Asked(n, p)'
  /\ m.type = "block" => m.block \in Have(n)'
  /\ m.type = "getdata" =>
       \A b \in Range(m.inv) \cap mapBlockIndex[n] :
         \E r \in Range(replies) : r.type = "block" /\ r.block = b

(* What was announced over the connection that a message came by.          *)
LEMMA HandledKeepsFetched ==
  ASSUME DownloadTypeOK, FetchInv, NEW n \in Full, NEW p \in Neighbours[n], p \in Full,
         NEW type, Received(n, p, type),
         NEW replies \in Seq(Message), Answered(n, p, replies),
         Grown, OnlyEnd(n, p), TakenOver(n, p, Head(msgs[p][n]), replies),
         peer'[n][p].setInventoryKnown \subseteq
            peer[n][p].setInventoryKnown \cup mapBlockIndex'[p],
         Asked(n, p) \subseteq Asked(n, p)'
  PROVE  FetchInv'
<1> DEFINE m == Head(msgs[p][n])
<1>1. /\ n \in Node /\ p \in Node /\ p # n /\ Full \subseteq Node
  BY NeighbourNodes
<1>2. /\ \A x, y \in Node :
           <<x, y>> # <<n, p>> /\ <<x, y>> # <<p, n>> => msgs'[x][y] = msgs[x][y]
      /\ Range(msgs[p][n]) = Range(msgs'[p][n]) \cup {m}
      /\ Range(msgs'[n][p]) = Range(msgs[n][p]) \cup Range(replies)
  BY AnsweredChannels
<1> HIDE DEF m
<1>3. SUFFICES ASSUME NEW x \in Full, NEW y \in Full,
                      NEW b \in peer'[y][x].setInventoryKnown
               PROVE  b \in Have(x)' \/ (b \in mapBlockIndex'[y] /\ b \in UnderWay(x, y)')
  BY DEF FetchInv, Fetched
<1>4. CASE x = n /\ y = p
  <2>1. b \in peer[p][n].setInventoryKnown
    BY <1>1, <1>3, <1>4 DEF OnlyEnd
  <2>2. b \in Have(n) \/ (b \in mapBlockIndex[p] /\ b \in UnderWay(n, p))
    BY <2>1 DEF FetchInv, Fetched
  <2>3. CASE b \in Have(n)
    BY <1>4, <2>3 DEF Grown
  <2>4. CASE b \in mapBlockIndex[p] /\ b \in UnderWay(n, p)
    <3>1. b \in mapBlockIndex'[p]
      BY <2>4 DEF Grown
    <3>2. CASE b \in Asked(n, p)
      BY <1>4, <3>1, <3>2 DEF UnderWay
    <3>3. CASE b \in InFlight(p, n, "inv")
      <4>1. PICK i \in Range(msgs[p][n]) : i.type = "inv" /\ b \in Range(i.inv)
        BY <3>3 DEF InFlight
      <4>2. CASE i = m
        BY <1>4, <3>1, <4>1, <4>2 DEF TakenOver, UnderWay, m
      <4>3. CASE i # m
        <5>1. b \in InFlight(p, n, "inv")'
          BY <1>2, <4>1, <4>3 DEF InFlight
        <5> QED
          BY <1>4, <3>1, <5>1 DEF UnderWay
      <4> QED
        BY <4>2, <4>3
    <3>4. CASE b \in InFlight(n, p, "getdata")
      <4>1. b \in InFlight(n, p, "getdata")'
        BY <1>2, <3>4 DEF InFlight
      <4> QED
        BY <1>4, <3>1, <4>1 DEF UnderWay
    <3>5. CASE b \in BlocksInFlight(p, n)
      <4>1. PICK i \in Range(msgs[p][n]) : i.type = "block" /\ b = i.block
        BY <3>5 DEF BlocksInFlight
      <4>2. CASE i = m
        BY <1>4, <4>1, <4>2 DEF TakenOver, m
      <4>3. CASE i # m
        <5>1. b \in BlocksInFlight(p, n)'
          BY <1>2, <4>1, <4>3 DEF BlocksInFlight
        <5> QED
          BY <1>4, <3>1, <5>1 DEF UnderWay
      <4> QED
        BY <4>2, <4>3
    <3> QED
      BY <2>4, <3>2, <3>3, <3>4, <3>5 DEF UnderWay
  <2> QED
    BY <2>2, <2>3, <2>4
<1>5. CASE x = p /\ y = n
  <2>1. CASE b \in mapBlockIndex'[p]
    BY <1>5, <2>1 DEF Have
  <2>2. CASE b \notin mapBlockIndex'[p]
    <3>1. b \in peer[n][p].setInventoryKnown
      BY <1>3, <1>5, <2>2
    <3>2. b \in Have(p) \/ (b \in mapBlockIndex[n] /\ b \in UnderWay(p, n))
      BY <3>1 DEF FetchInv, Fetched
    <3>3. CASE b \in Have(p)
      BY <1>5, <3>3 DEF Grown
    <3>4. CASE b \in mapBlockIndex[n] /\ b \in UnderWay(p, n)
      <4>1. b \in mapBlockIndex'[n]
        BY <3>4 DEF Grown
      <4>2. CASE b \in Asked(p, n)
        <5>1. Asked(p, n)' = Asked(p, n)
          BY <1>1 DEF OnlyEnd, Asked
        <5> QED
          BY <1>5, <4>1, <4>2, <5>1 DEF UnderWay
      <4>3. CASE b \in InFlight(n, p, "inv") \cup BlocksInFlight(n, p)
        <5>1. b \in InFlight(n, p, "inv")' \cup BlocksInFlight(n, p)'
          BY <1>2, <4>3 DEF InFlight, BlocksInFlight
        <5> QED
          BY <1>5, <4>1, <5>1 DEF UnderWay
      <4>4. CASE b \in InFlight(p, n, "getdata")
        <5>1. PICK i \in Range(msgs[p][n]) : i.type = "getdata" /\ b \in Range(i.inv)
          BY <4>4 DEF InFlight
        <5>2. CASE i = m
          <6>1. PICK r \in Range(replies) : r.type = "block" /\ r.block = b
            BY <3>4, <5>1, <5>2 DEF TakenOver, m
          <6>2. b \in BlocksInFlight(n, p)'
            BY <1>2, <6>1 DEF BlocksInFlight
          <6> QED
            BY <1>5, <4>1, <6>2 DEF UnderWay
        <5>3. CASE i # m
          <6>1. b \in InFlight(p, n, "getdata")'
            BY <1>2, <5>1, <5>3 DEF InFlight
          <6> QED
            BY <1>5, <4>1, <6>1 DEF UnderWay
        <5> QED
          BY <5>2, <5>3
      <4> QED
        BY <3>4, <4>2, <4>3, <4>4 DEF UnderWay
    <3> QED
      BY <3>2, <3>3, <3>4
  <2> QED
    BY <2>1, <2>2
<1>6. CASE ~ (x = n /\ y = p) /\ ~ (x = p /\ y = n)
  <2>1. /\ peer'[y][x].setInventoryKnown = peer[y][x].setInventoryKnown
        /\ Asked(x, y)' = Asked(x, y)
    BY <1>1, <1>6 DEF OnlyEnd, Asked
  <2>2. msgs'[x][y] = msgs[x][y] /\ msgs'[y][x] = msgs[y][x]
    BY <1>1, <1>2, <1>6
  <2>3. UnderWay(x, y)' = UnderWay(x, y)
    BY <2>1, <2>2 DEF UnderWay, InFlight, BlocksInFlight
  <2> QED
    BY <1>3, <2>1, <2>3 DEF FetchInv, Fetched, Grown
<1> QED
  BY <1>4, <1>5, <1>6

(* What was announced over connections where nothing was taken off.        *)
LEMMA OthersKeepFetched ==
  ASSUME FetchInv, Grown,
         \A x, y \in Full :
           /\ peer'[y][x].setInventoryKnown = peer[y][x].setInventoryKnown
           /\ Asked(x, y) \subseteq Asked(x, y)'
           /\ msgs'[x][y] = msgs[x][y]
  PROVE  FetchInv'
<1>1. SUFFICES ASSUME NEW x \in Full, NEW y \in Full, NEW b \in peer'[y][x].setInventoryKnown
               PROVE  b \in Have(x)' \/ (b \in mapBlockIndex'[y] /\ b \in UnderWay(x, y)')
  BY DEF FetchInv, Fetched
<1>2. b \in Have(x) \/ (b \in mapBlockIndex[y] /\ b \in UnderWay(x, y))
  BY <1>1 DEF FetchInv, Fetched
<1>3. UnderWay(x, y) \subseteq UnderWay(x, y)'
  BY DEF UnderWay, InFlight, BlocksInFlight
<1> QED
  BY <1>2, <1>3 DEF Grown

(* What a node has it keeps, so what it sent stays honest.                 *)
LEMMA HonestStays ==
  ASSUME DownloadTypeOK, Grown, NEW x \in Full, NEW m, Honest(x, m)
  PROVE  Honest(x, m)'
<1>1. mapBlockIndex[x] \subseteq mapBlockIndex'[x]
  BY DEF Grown
<1>2. m.inv \in Seq(mapBlockIndex[x]) => m.inv \in Seq(mapBlockIndex'[x])
  BY <1>1, SeqMonotonic
<1> QED
  BY <1>1, <1>2 DEF Honest

(* A handler keeps the invariants on connections if it answers what it has, *)
(* takes over what came and marks as known only what the other end has.    *)
LEMMA HandledKeepsLinks ==
  ASSUME DownloadInv, NEW n \in Full, NEW p \in Neighbours[n],
         NEW type, Received(n, p, type),
         NEW replies \in Seq(Message), Answered(n, p, replies),
         Grown, OnlyEnd(n, p), UNCHANGED up,
         \A q \in Node : q \notin up[n] => peer'[n][q] = peer[n][q],
         \A x \in Full \ {n} : peer'[x] = peer[x],
         \A r \in Range(replies) : Honest(n, r)',
         Asked(n, p) \subseteq Asked(n, p)',
         p \in Full => /\ TakenOver(n, p, Head(msgs[p][n]), replies)
                       /\ peer'[n][p].setInventoryKnown \subseteq
                            peer[n][p].setInventoryKnown \cup mapBlockIndex'[p]
  PROVE  LinkInv' /\ FetchInv'
<1>1. /\ n \in Node /\ p \in Node /\ p # n /\ Full \subseteq Node
      /\ DownloadTypeOK /\ LinkInv /\ FetchInv
  BY NeighbourNodes DEF DownloadInv
<1>2. /\ \A x, y \in Node :
           <<x, y>> # <<n, p>> /\ <<x, y>> # <<p, n>> => msgs'[x][y] = msgs[x][y]
      /\ Range(msgs[p][n]) = Range(msgs'[p][n]) \cup {Head(msgs[p][n])}
      /\ p \in Full => Range(msgs'[n][p]) = Range(msgs[n][p]) \cup Range(replies)
  <2>1. Range(msgs[p][n]) = Range(msgs'[p][n]) \cup {Head(msgs[p][n])}
    BY <1>1, AnsweredChannels
  <2>2. p \in Full => Range(msgs'[n][p]) = Range(msgs[n][p]) \cup Range(replies)
    BY <1>1, AnsweredChannels
  <2>3. \A x, y \in Node :
           <<x, y>> # <<n, p>> /\ <<x, y>> # <<p, n>> => msgs'[x][y] = msgs[x][y]
    BY <1>1, AnsweredChannels
  <2> QED
    BY <2>1, <2>2, <2>3
<1>3. ASSUME NEW x \in Full, NEW y \in Full, NEW m \in Range(msgs'[x][y])
      PROVE  Honest(x, m)'
  <2>1. CASE m \in Range(msgs[x][y])
    BY <1>1, <2>1, HonestStays DEF LinkInv
  <2>2. CASE m \notin Range(msgs[x][y])
    <3>1. x = n /\ y = p
      BY <1>1, <1>2, <1>3, <2>2
    <3> QED
      BY <1>2, <1>3, <2>2, <3>1
  <2> QED
    BY <2>1, <2>2
<1>4. \A x \in Full, q \in Node : q \notin up'[x] => peer'[x][q] = NewPeer
  BY <1>1 DEF LinkInv
<1>5. LinkInv'
  BY <1>3, <1>4 DEF LinkInv, OnlyEnd
<1>6. CASE p \in Full
  BY <1>1, <1>5, <1>6, HandledKeepsFetched
<1>7. CASE p \notin Full
  <2>1. ASSUME NEW x \in Full, NEW y \in Full
        PROVE  /\ peer'[y][x].setInventoryKnown = peer[y][x].setInventoryKnown
               /\ Asked(x, y) \subseteq Asked(x, y)'
               /\ msgs'[x][y] = msgs[x][y]
    BY <1>1, <1>2, <1>7 DEF OnlyEnd, Asked
  <2> QED
    BY <1>1, <1>5, <2>1, OthersKeepFetched
<1> QED
  BY <1>6, <1>7

----------------------------------------------------------------------------
(* ProcessBlock *)

(* The node's best chain is indexed, down to Genesis.                      *)
LEMMA GenesisInIndex ==
  ASSUME DownloadTypeOK, NEW n \in Full
  PROVE  /\ Genesis \in mapBlockIndex[n] /\ pindexBest[n] \in mapBlockIndex[n]
         /\ Genesis \notin mapOrphanBlocks[n]
BY ChainEnds DEF DownloadTypeOK

(* With the orphan blocks that wait for b, and no others, the index stays   *)
(* closed and no orphan is left whose parent has come in.                  *)
LEMMA WithOrphansCloses ==
  ASSUME DownloadTypeOK, TreeInv, NEW n \in Full, NEW b \in Block,
         b \notin Have(n), b # Genesis, pprev[b] \in mapBlockIndex[n]
  PROVE  LET new == WithOrphans(n, b)
             index == mapBlockIndex[n] \cup new
             orphans == mapOrphanBlocks[n] \ new
         IN /\ new \subseteq Block /\ b \in new
            /\ \A x \in index : Chain[x] \subseteq index
            /\ orphans \cap index = {}
            /\ \A o \in orphans : pprev[o] \notin index
            /\ Have(n) \subseteq index \cup orphans
<1> DEFINE new == WithOrphans(n, b)
           index == mapBlockIndex[n] \cup new
           orphans == mapOrphanBlocks[n] \ new
<1>1. /\ mapBlockIndex[n] \subseteq Block /\ mapOrphanBlocks[n] \subseteq Block
      /\ mapOrphanBlocks[n] \cap mapBlockIndex[n] = {}
      /\ Genesis \notin mapOrphanBlocks[n]
      /\ \A x \in mapBlockIndex[n] : Chain[x] \subseteq mapBlockIndex[n]
      /\ \A o \in mapOrphanBlocks[n] : pprev[o] \notin mapBlockIndex[n]
  BY GenesisInIndex DEF DownloadTypeOK, TreeInv
<1>2. Chain[b] = Chain[pprev[b]] \cup {b} /\ Chain[pprev[b]] \subseteq mapBlockIndex[n]
  BY <1>1, BlockTreeAssumption
<1>3. ASSUME NEW o \in new, o # b PROVE Chain[o] \subseteq index
  <2>1. /\ o \in mapOrphanBlocks[n] /\ b \in Chain[o] /\ o \in Block
        /\ Chain[o] \subseteq mapBlockIndex[n] \cup mapOrphanBlocks[n] \cup {b}
    BY <1>1, <1>3 DEF WithOrphans
  <2>2. SUFFICES ASSUME NEW y \in Chain[o], y \in mapOrphanBlocks[n] PROVE y \in new
    BY <2>1 DEF WithOrphans
  <2>3. Chain[y] \subseteq Chain[o]
    BY <2>1, ChainClosed
  <2>4. b \in Chain[y]
    <3>1. b \in Chain[y] \/ y \in Chain[b]
      BY <2>1, ChainOrdered
    <3>2. y \in Chain[b] => y \in mapBlockIndex[n] \/ y = b
      BY <1>2
    <3>3. y # b /\ y \notin mapBlockIndex[n]
      BY <1>1, <2>2 DEF Have
    <3> QED
      BY <3>1, <3>2, <3>3
  <2>5. Chain[y] \subseteq mapBlockIndex[n] \cup mapOrphanBlocks[n] \cup {b}
    BY <2>1, <2>3
  <2> QED
    BY <2>2, <2>4, <2>5 DEF WithOrphans
<1>4. b \in new /\ new \subseteq Block /\ Chain[b] \subseteq index
  BY <1>1, <1>2 DEF WithOrphans
<1>5. ASSUME NEW o \in orphans, pprev[o] \in index PROVE FALSE
  <2>1. o \in mapOrphanBlocks[n] /\ o \in Block \ {Genesis} /\ pprev[o] \in new
    BY <1>1, <1>5
  <2>2. Chain[o] = Chain[pprev[o]] \cup {o} /\ pprev[o] \in Block
    BY <2>1, BlockTreeAssumption
  <2>3. b \in Chain[pprev[o]]
    <3>1. CASE pprev[o] = b
      BY <3>1, ChainEnds
    <3>2. CASE pprev[o] # b
      BY <2>1, <3>2 DEF WithOrphans
    <3> QED
      BY <3>1, <3>2
  <2>4. Chain[pprev[o]] \subseteq mapBlockIndex[n] \cup mapOrphanBlocks[n] \cup {b}
    <3>1. CASE pprev[o] = b
      BY <1>2, <3>1
    <3>2. CASE pprev[o] # b
      BY <2>1, <3>2 DEF WithOrphans
    <3> QED
      BY <3>1, <3>2
  <2>5. o \in new
    BY <2>1, <2>2, <2>3, <2>4 DEF WithOrphans
  <2> QED
    BY <1>5, <2>5
<1>6. orphans \cap index = {}
  BY <1>1
<1>7. \A x \in index : Chain[x] \subseteq index
  BY <1>1, <1>3, <1>4
<1>8. Have(n) \subseteq index \cup orphans
  BY DEF Have
<1> QED
  BY <1>4, <1>5, <1>6, <1>7, <1>8

(* A new block whose parent the node has is accepted. *)
AcceptStep(n, b, links) ==
  /\ b \in Block \ {Genesis} /\ b \notin Have(n) /\ pprev[b] \in mapBlockIndex[n]
  /\ links \in [Node -> CNode]
  /\ \A q \in Node : links[q].vInventoryToSend \in Seq(mapBlockIndex[n])
  /\ Accept(n, b, links)

(* AcceptBlock: the index, the orphan blocks and the announcements after it. *)
LEMMA AcceptKeeps ==
  ASSUME DownloadTypeOK, TreeInv, NEW n \in Full, NEW b, NEW links, AcceptStep(n, b, links)
  PROVE  /\ Grown /\ TreeInv' /\ b \in Have(n)'
         /\ mapOrphanBlocks' \in [Full -> SUBSET Block]
         /\ pindexBest' \in [Full -> Block]
         /\ \A x \in Full : /\ Chain[pindexBest'[x]] \subseteq mapBlockIndex'[x]
                            /\ mapOrphanBlocks'[x] \cap mapBlockIndex'[x] = {}
         /\ peer' \in [Full -> [Node -> CNode]]
         /\ \A x \in Full \ {n} : peer'[x] = peer[x]
         /\ \A q \in Node :
              /\ peer'[n][q].vInventoryToSend \in Seq(mapBlockIndex'[n])
              /\ peer'[n][q].setInventoryKnown = links[q].setInventoryKnown
              /\ peer'[n][q].mapAskFor = links[q].mapAskFor
              /\ peer'[n][q].later = links[q].later
              /\ q \notin up[n] => peer'[n][q] = links[q]
<1> DEFINE new == WithOrphans(n, b)
           index == mapBlockIndex[n] \cup new
           orphans == mapOrphanBlocks[n] \ new
<1> USE DEF AcceptStep
<1>1. /\ new \subseteq Block /\ b \in new
      /\ \A x \in index : Chain[x] \subseteq index
      /\ orphans \cap index = {}
      /\ \A o \in orphans : pprev[o] \notin index
      /\ Have(n) \subseteq index \cup orphans
  BY WithOrphansCloses
<1> HIDE DEF new
<1>2. PICK best \in new \cup {pindexBest[n]} :
        /\ pindexBest' = [pindexBest EXCEPT ![n] = best]
        /\ \E D : peer' = [peer EXCEPT ![n] = Announced(n, Pick(Path[best], D), links)]
  <2>1. PICK best \in new \cup {pindexBest[n]} :
          /\ pindexBest' = [pindexBest EXCEPT ![n] = best]
          /\ peer' = [peer EXCEPT ![n] =
               Announced(n, Pick(Path[best],
                 {i \in DOMAIN Path[best] : Path[best][i] \in
                    {x \in Chain[best] \cap new :
                       bnChainTrust[x] > bnChainTrust[pindexBest[n]]}}), links)]
    BY DEF Accept, new
  <2> QED
    BY <2>1
<1>3. PICK D : peer' = [peer EXCEPT ![n] = Announced(n, Pick(Path[best], D), links)]
  BY <1>2
<1>4. /\ mapBlockIndex' = [mapBlockIndex EXCEPT ![n] = index]
      /\ mapOrphanBlocks' = [mapOrphanBlocks EXCEPT ![n] = orphans]
  BY DEF Accept, new
<1>5. /\ mapBlockIndex \in [Full -> SUBSET Block]
      /\ mapOrphanBlocks \in [Full -> SUBSET Block]
      /\ pindexBest \in [Full -> Block]
      /\ peer \in [Full -> [Node -> CNode]]
      /\ \A x \in Full : /\ Chain[pindexBest[x]] \subseteq mapBlockIndex[x]
                         /\ mapOrphanBlocks[x] \cap mapBlockIndex[x] = {}
  BY DEF DownloadTypeOK
<1>6. best \in index /\ best \in Block /\ Chain[best] \subseteq index /\ index \subseteq Block
  <2>1. pindexBest[n] \in mapBlockIndex[n] /\ pindexBest[n] \in Block
    BY <1>5, GenesisInIndex
  <2> QED
    BY <1>1, <1>2, <1>5, <2>1
<1>7. Pick(Path[best], D) \in Seq(index)
  <2>1. Path[best] \in Seq(index)
    BY <1>6, PathBlocks, SeqMonotonic
  <2> QED
    BY <2>1, PickRange
<1> DEFINE s == Pick(Path[best], D)
           f == Announced(n, s, links)
<1>8. \A q \in Node : links[q].vInventoryToSend \in Seq(index)
  BY SeqMonotonic
<1>9. /\ f \in [Node -> CNode]
      /\ \A q \in Node :
           /\ f[q].vInventoryToSend \in Seq(index)
           /\ f[q].setInventoryKnown = links[q].setInventoryKnown
           /\ f[q].mapAskFor = links[q].mapAskFor /\ f[q].later = links[q].later
           /\ q \notin up[n] => f[q] = links[q]
  <2>1. index \in SUBSET Block /\ s \in Seq(index)
    BY <1>6, <1>7
  <2>2. links \in [Node -> CNode]
    OBVIOUS
  <2>3. ASSUME NEW q \in Node
        PROVE  /\ f[q] \in CNode /\ f[q].vInventoryToSend \in Seq(index)
               /\ f[q].setInventoryKnown = links[q].setInventoryKnown
               /\ f[q].mapAskFor = links[q].mapAskFor /\ f[q].later = links[q].later
               /\ q \notin up[n] => f[q] = links[q]
    <3>1. links[q] \in CNode /\ links[q].vInventoryToSend \in Seq(index)
      BY <1>8, <2>2
    <3> DEFINE c == links[q]
    <3>2. f[q] = IF q \in up[n] THEN PushInventory(c, s) ELSE c
      BY DEF Announced
    <3> HIDE DEF s, index, c, f
    <3>3. LET d == PushInventory(c, s) IN
            /\ d \in CNode /\ d.vInventoryToSend \in Seq(index)
            /\ d.setInventoryKnown = c.setInventoryKnown
            /\ d.mapAskFor = c.mapAskFor /\ d.later = c.later
      BY <2>1, <3>1, PushInventoryKeeps DEF c
    <3>4. CASE q \in up[n]
      BY <3>2, <3>3, <3>4 DEF c
    <3>5. CASE q \notin up[n]
      BY <3>1, <3>2, <3>5 DEF c
    <3> QED
      BY <3>4, <3>5
  <2>4. f \in [Node -> CNode]
    BY <2>3 DEF Announced
  <2> QED
    BY <2>3, <2>4
<1> HIDE DEF f, index, orphans
<1>10. peer' = [peer EXCEPT ![n] = f]
  BY <1>3 DEF f
<1>11. /\ mapBlockIndex'[n] = index /\ mapOrphanBlocks'[n] = orphans
       /\ pindexBest'[n] = best /\ peer'[n] = f
       /\ \A x \in Full \ {n} :
            /\ mapBlockIndex'[x] = mapBlockIndex[x] /\ mapOrphanBlocks'[x] = mapOrphanBlocks[x]
            /\ pindexBest'[x] = pindexBest[x] /\ peer'[x] = peer[x]
  BY <1>2, <1>4, <1>5, <1>10
<1>12. orphans \subseteq Block
  BY <1>5 DEF orphans
<1>13. /\ mapBlockIndex' \in [Full -> SUBSET Block]
       /\ mapOrphanBlocks' \in [Full -> SUBSET Block]
       /\ pindexBest' \in [Full -> Block]
       /\ peer' \in [Full -> [Node -> CNode]]
  BY <1>2, <1>4, <1>5, <1>6, <1>9, <1>10, <1>12
<1>14. \A x \in Full : /\ Chain[pindexBest'[x]] \subseteq mapBlockIndex'[x]
                       /\ mapOrphanBlocks'[x] \cap mapBlockIndex'[x] = {}
  BY <1>1, <1>5, <1>6, <1>11
<1>15. Have(n) \subseteq Have(n)' /\ b \in Have(n)' /\ mapBlockIndex[n] \subseteq mapBlockIndex'[n]
  BY <1>1, <1>11 DEF Have, index
<1>16. Grown
  BY <1>11, <1>13, <1>15 DEF Grown, Have
<1>17. TreeInv'
  BY <1>1, <1>11 DEF TreeInv
<1> QED
  BY <1>9, <1>11, <1>13, <1>14, <1>15, <1>16, <1>17

----------------------------------------------------------------------------
(* Handlers that leave the blocks alone *)

(* The index and the orphan blocks, when the step leaves them alone.       *)
LEMMA SameBlocks ==
  ASSUME DownloadTypeOK, TreeInv, UNCHANGED chainVars
  PROVE  /\ Grown /\ TreeInv'
         /\ mapBlockIndex' \in [Full -> SUBSET Block]
         /\ mapOrphanBlocks' \in [Full -> SUBSET Block]
         /\ pindexBest' \in [Full -> Block]
         /\ \A x \in Full : /\ Chain[pindexBest'[x]] \subseteq mapBlockIndex'[x]
                            /\ mapOrphanBlocks'[x] \cap mapBlockIndex'[x] = {}
         /\ \A x \in Full : Have(x)' = Have(x)
BY DEF DownloadTypeOK, TreeInv, chainVars, Grown, Have

(* A step that replaces one end of a connection changes no other.          *)
LEMMA EndChanged ==
  ASSUME DownloadTypeOK, LinkInv, NEW n \in Full, NEW p \in Node, p \in up[n],
         NEW c \in CNode, c.vInventoryToSend \in Seq(mapBlockIndex[n]),
         peer' = [peer EXCEPT ![n][p] = c], Grown
  PROVE  /\ OnlyEnd(n, p) /\ peer'[n][p] = c
         /\ \A q \in Node : q \notin up[n] => peer'[n][q] = peer[n][q]
         /\ \A x \in Full \ {n} : peer'[x] = peer[x]
<1>1. peer \in [Full -> [Node -> CNode]]
  BY DEF DownloadTypeOK
<1>2. /\ peer' \in [Full -> [Node -> CNode]] /\ peer'[n][p] = c
      /\ \A q \in Node \ {p} : peer'[n][q] = peer[n][q]
      /\ \A x \in Full \ {n} : peer'[x] = peer[x]
  BY <1>1
<1>3. ASSUME NEW x \in Full, NEW q \in Node
      PROVE  peer'[x][q].vInventoryToSend \in Seq(mapBlockIndex'[x])
  <2>1. mapBlockIndex[x] \subseteq mapBlockIndex'[x]
    BY DEF Grown
  <2>2. peer'[x][q].vInventoryToSend \in Seq(mapBlockIndex[x])
    BY <1>2 DEF LinkInv
  <2> QED
    BY <2>1, <2>2, SeqMonotonic
<1>4. ASSUME NEW x \in Full, NEW q \in Node, <<x, q>> # <<n, p>>
      PROVE  peer'[x][q] = peer[x][q]
  BY <1>2, <1>4
<1>5. OnlyEnd(n, p)
  BY <1>2, <1>3, <1>4 DEF OnlyEnd
<1> QED
  BY <1>2, <1>5

(* What a handler is to do that leaves the blocks alone; c is the node's    *)
(* end of the connection after it.                                         *)
HandlerStep(n, p, type, replies, c) ==
  /\ Received(n, p, type) /\ Answered(n, p, replies)
  /\ UNCHANGED <<chainVars, up, toReconnect, asleep, slots, nCuts>>
  /\ mapAlreadyAskedFor' \in [Full -> SUBSET Block]
  /\ nAskedForBlocks' \in [Full -> -3 .. 1]
  /\ c \in CNode /\ c.vInventoryToSend \in Seq(mapBlockIndex[n])
  /\ peer' = [peer EXCEPT ![n][p] = c]
  /\ replies \in Seq(Message) /\ \A r \in Range(replies) : Honest(n, r)
  /\ Asked(n, p) \subseteq Range(c.mapAskFor) \cup c.later
  /\ p \in Full => c.setInventoryKnown \subseteq
                     peer[n][p].setInventoryKnown \cup mapBlockIndex[p]
  /\ type = "inv" => Range(Head(msgs[p][n]).inv) \subseteq
                       Have(n) \cup Range(c.mapAskFor) \cup c.later
  /\ type = "block" => Head(msgs[p][n]).block \in Have(n)
  /\ type = "getdata" =>
       \A b \in Range(Head(msgs[p][n]).inv) \cap mapBlockIndex[n] :
         \E r \in Range(replies) : r.type = "block" /\ r.block = b

(* A handler that does so keeps the invariant.                             *)
LEMMA HandlerKeepsInv ==
  ASSUME DownloadInv, NEW n \in Full, NEW p \in Neighbours[n],
         NEW type, NEW replies, NEW c, HandlerStep(n, p, type, replies, c)
  PROVE  DownloadInv'
<1> USE DEF HandlerStep
<1>1. DownloadTypeOK /\ TreeInv /\ LinkInv /\ FetchInv /\ p \in Node /\ p \in up[n]
  BY NeighbourNodes DEF DownloadInv, Received
<1>2. /\ Grown /\ TreeInv'
      /\ mapBlockIndex' \in [Full -> SUBSET Block]
      /\ mapOrphanBlocks' \in [Full -> SUBSET Block]
      /\ pindexBest' \in [Full -> Block]
      /\ \A x \in Full : /\ Chain[pindexBest'[x]] \subseteq mapBlockIndex'[x]
                         /\ mapOrphanBlocks'[x] \cap mapBlockIndex'[x] = {}
      /\ \A x \in Full : Have(x)' = Have(x)
  BY <1>1, SameBlocks
<1>3. /\ OnlyEnd(n, p) /\ peer'[n][p] = c
      /\ \A q \in Node : q \notin up[n] => peer'[n][q] = peer[n][q]
      /\ \A x \in Full \ {n} : peer'[x] = peer[x]
  BY <1>1, <1>2, EndChanged
<1>4. msgs' \in [Node -> [Node -> Seq(Message)]] /\ Head(msgs[p][n]).type = type
  BY <1>1, AnsweredChannels
<1>5. Asked(n, p)' = Range(c.mapAskFor) \cup c.later
  BY <1>3 DEF Asked
<1>6. TakenOver(n, p, Head(msgs[p][n]), replies)
  BY <1>2, <1>4, <1>5 DEF TakenOver
<1>7. \A r \in Range(replies) : Honest(n, r)'
  BY <1>1, <1>2, HonestStays
<1>8. mapBlockIndex' = mapBlockIndex
  BY DEF chainVars
<1>9. LinkInv' /\ FetchInv'
  BY <1>2, <1>3, <1>5, <1>6, <1>7, <1>8, HandledKeepsLinks
<1>10. DownloadTypeOK'
  BY <1>1, <1>2, <1>3, <1>4 DEF DownloadTypeOK, OnlyEnd
<1> QED
  BY <1>2, <1>9, <1>10 DEF DownloadInv

(* Requests claim nothing.                                                 *)
LEMMA RequestsHonest ==
  ASSUME NEW n \in Full, NEW q \in Seq(GetBlocksMessage)
  PROVE  q \in Seq(Message) /\ \A r \in Range(q) : Honest(n, r)
<1>1. GetBlocksMessage \subseteq Message
  BY DEF GetBlocksMessage, Message
<1>2. \A r \in GetBlocksMessage : r.type = "getblocks"
  BY DEF GetBlocksMessage
<1>3. q \in Seq(Message)
  BY <1>1, SeqMonotonic
<1>4. Range(q) \subseteq GetBlocksMessage
  BY RangeOfSeq
<1> QED
  BY <1>2, <1>3, <1>4 DEF Honest

(* Of the oldest message, and of the node's end of the connection. *)
LEMMA Receives ==
  ASSUME DownloadInv, NEW n \in Full, NEW p \in Neighbours[n],
         NEW type, Received(n, p, type)
  PROVE  /\ p \in Node /\ p \in up[n]
         /\ peer[n][p] \in CNode
         /\ peer[n][p].vInventoryToSend \in Seq(mapBlockIndex[n])
         /\ mapBlockIndex[n] \in SUBSET Block
         /\ pindexBest[n] \in mapBlockIndex[n] /\ pindexBest[n] \in Block
         /\ Head(msgs[p][n]) \in Message /\ Head(msgs[p][n]).type = type
         /\ p \in Full => Honest(p, Head(msgs[p][n]))
<1>1. /\ DownloadTypeOK /\ LinkInv /\ p \in Node /\ n \in Node /\ p \in up[n]
      /\ msgs[p][n] # << >> /\ Head(msgs[p][n]).type = type
  BY NeighbourNodes DEF DownloadInv, Received
<1>2. msgs[p][n] \in Seq(Message)
  BY <1>1 DEF DownloadTypeOK
<1>3. Head(msgs[p][n]) \in Message /\ Head(msgs[p][n]) \in Range(msgs[p][n])
  BY <1>1, <1>2, HeadOfRange
<1>4. pindexBest[n] \in mapBlockIndex[n]
  BY <1>1, GenesisInIndex
<1> QED
  BY <1>1, <1>3, <1>4 DEF DownloadTypeOK, LinkInv

(* "version": the node may ask for blocks.                                 *)
LEMMA VersionKeepsInv ==
  ASSUME DownloadInv, NEW n \in Full, NEW p \in Neighbours[n], Version(n, p)
  PROVE  DownloadInv'
<1> DEFINE c == peer[n][p]
           reqs == IF Asks(n) THEN << <<pindexBest[n], NoBlock>> >> ELSE << >>
           d == Requested(c, reqs)
           replies == GetBlocks(c, reqs)
<1>1. Received(n, p, "version")
  BY DEF Version
<1>2. /\ c \in CNode /\ c.vInventoryToSend \in Seq(mapBlockIndex[n])
      /\ pindexBest[n] \in Block
  BY <1>1, Receives
<1>3. reqs \in Seq(Request)
  <2>1. <<pindexBest[n], NoBlock>> \in Request
    BY <1>2 DEF Request
  <2> QED
    BY <2>1
<1>4. /\ peer' = [peer EXCEPT ![n][p] = d] /\ Answered(n, p, replies)
      /\ UNCHANGED <<chainVars, up, mapAlreadyAskedFor, toReconnect, asleep, slots, nCuts>>
      /\ nAskedForBlocks' =
           [nAskedForBlocks EXCEPT ![n] = IF Asks(n) /\ @ < 1 THEN @ + 1 ELSE @]
  BY DEF Version
<1>5. nAskedForBlocks' \in [Full -> -3 .. 1] /\ mapAlreadyAskedFor' \in [Full -> SUBSET Block]
  BY <1>4 DEF DownloadInv, DownloadTypeOK
<1> HIDE DEF reqs
<1>6. /\ replies \in Seq(GetBlocksMessage)
      /\ d \in CNode
      /\ d.mapAskFor = c.mapAskFor /\ d.later = c.later
      /\ d.vInventoryToSend = c.vInventoryToSend
      /\ d.setInventoryKnown = c.setInventoryKnown
  BY <1>2, <1>3, RequestedKeeps
<1> HIDE DEF replies, d
<1>7. replies \in Seq(Message) /\ \A r \in Range(replies) : Honest(n, r)
  BY <1>6, RequestsHonest
<1>8. Asked(n, p) = Range(d.mapAskFor) \cup d.later
  BY <1>6 DEF Asked
<1>9. HandlerStep(n, p, "version", replies, d)
  BY <1>1, <1>2, <1>4, <1>5, <1>6, <1>7, <1>8 DEF HandlerStep
<1> QED
  BY <1>9, HandlerKeepsInv

(* "block": the node has it already.                                       *)
LEMMA KnownBlockKeepsInv ==
  ASSUME DownloadInv, NEW n \in Full, NEW p \in Neighbours[n], KnownBlock(n, p)
  PROVE  DownloadInv'
<1> DEFINE b == Head(msgs[p][n]).block
           c == peer[n][p]
           d == [c EXCEPT !.setInventoryKnown = @ \cup {b}]
<1>1. Received(n, p, "block") /\ AlreadyHave(n, b)
  BY DEF KnownBlock
<1>2. /\ c \in CNode /\ c.vInventoryToSend \in Seq(mapBlockIndex[n])
      /\ Head(msgs[p][n]) \in Message /\ Head(msgs[p][n]).type = "block"
      /\ p \in Full => Honest(p, Head(msgs[p][n]))
      /\ p \in Node
  BY <1>1, Receives
<1>3. b \in Block /\ b \in Have(n)
  BY <1>1, <1>2 DEF Message, AlreadyHave, Have
<1>4. /\ d \in CNode /\ d.vInventoryToSend = c.vInventoryToSend
      /\ d.mapAskFor = c.mapAskFor /\ d.later = c.later
      /\ d.setInventoryKnown = c.setInventoryKnown \cup {b}
  BY <1>2, <1>3 DEF CNode
<1>5. p \in Full => b \in mapBlockIndex[p]
  BY <1>2 DEF Honest
<1>6. /\ peer' = [peer EXCEPT ![n] = [peer[n] EXCEPT ![p].setInventoryKnown = @ \cup {b}]]
      /\ Answered(n, p, << >>)
      /\ UNCHANGED <<chainVars, up, mapAlreadyAskedFor, stuckVars>>
  BY DEF KnownBlock, KnownFrom
<1>7. peer' = [peer EXCEPT ![n][p] = d]
  BY <1>2, <1>6 DEF DownloadInv, DownloadTypeOK
<1>8. /\ nAskedForBlocks' \in [Full -> -3 .. 1] /\ mapAlreadyAskedFor' \in [Full -> SUBSET Block]
      /\ UNCHANGED <<chainVars, up, toReconnect, asleep, slots, nCuts>>
  BY <1>6 DEF DownloadInv, DownloadTypeOK, stuckVars
<1>9. << >> \in Seq(Message) /\ \A r \in Range(<< >>) : Honest(n, r)
  BY DEF Range
<1>10. Asked(n, p) = Range(d.mapAskFor) \cup d.later
  BY <1>4 DEF Asked
<1> HIDE DEF d, b
<1>11. HandlerStep(n, p, "block", << >>, d)
  BY <1>1, <1>2, <1>3, <1>4, <1>5, <1>6, <1>7, <1>8, <1>9, <1>10 DEF HandlerStep, b
<1> QED
  BY <1>11, HandlerKeepsInv

(* "inv": what is new is asked for, so that it stays under way.            *)
LEMMA InvKeepsInv ==
  ASSUME DownloadInv, NEW n \in Full, NEW p \in Neighbours[n], Inv(n, p)
  PROVE  DownloadInv'
<1> DEFINE inv == Head(msgs[p][n]).inv
           new == Pick(inv, {i \in DOMAIN inv : ~ AlreadyHave(n, inv[i])})
           all == [i \in DOMAIN inv |-> RequestFor(n, inv[i])]
           reqs == Pick(all, {i \in DOMAIN inv :
                               \/ inv[i] \in mapOrphanBlocks[n]
                               \/ i = Len(inv) /\ inv[i] \in mapBlockIndex[n]})
           c == peer[n][p]
           known == [c EXCEPT !.setInventoryKnown = @ \cup Range(inv)]
           replies == GetBlocks(known, reqs)
<1>1. Received(n, p, "inv")
  BY DEF Inv
<1>2. /\ c \in CNode /\ c.vInventoryToSend \in Seq(mapBlockIndex[n])
      /\ Head(msgs[p][n]) \in Message /\ Head(msgs[p][n]).type = "inv"
      /\ p \in Full => Honest(p, Head(msgs[p][n]))
      /\ pindexBest[n] \in Block
  BY <1>1, Receives
<1>3. inv \in Seq(Block) /\ (p \in Full => inv \in Seq(mapBlockIndex[p]))
  BY <1>2 DEF Message, Honest
<1>4. PICK again \in Again(n, new) :
        peer' = [peer EXCEPT ![n][p] = Requested(AskFor(n, known, new, again), reqs)]
  BY DEF Inv
<1>5. /\ mapAlreadyAskedFor' = AskedFor(n, new)
      /\ Answered(n, p, replies)
      /\ UNCHANGED <<chainVars, up, stuckVars>>
  BY DEF Inv
<1>6. /\ new \in Seq(Block)
      /\ Range(inv) \subseteq Have(n) \cup Range(new)
  <2> DEFINE D == {i \in DOMAIN inv : ~ AlreadyHave(n, inv[i])}
  <2>1. new \in Seq(Block) /\ Range(new) = {inv[i] : i \in DOMAIN inv \cap D}
    <3> HIDE DEF inv
    <3> QED
      BY <1>3, PickRange
  <2> QED
    BY <2>1 DEF Range, AlreadyHave, Have
<1>7. reqs \in Seq(Request)
  <2>1. ASSUME NEW b \in Block PROVE RequestFor(n, b) \in Request
    <3>1. CASE b \in mapOrphanBlocks[n]
      <4>1. Genesis \notin mapOrphanBlocks[n]
        BY GenesisInIndex DEF DownloadInv
      <4>2. OrphanRoot(mapOrphanBlocks[n], b) \in Block
        BY <3>1, <4>1, OrphanRootBlock, ChainEnds
      <4> QED
        BY <1>2, <3>1, <4>2 DEF RequestFor, Request
    <3>2. CASE b \notin mapOrphanBlocks[n]
      BY <3>2 DEF RequestFor, Request
    <3> QED
      BY <3>1, <3>2
  <2>2. all \in Seq(Request)
    <3>1. DOMAIN inv = 1 .. Len(inv) /\ Len(inv) \in Nat
      BY <1>3
    <3>2. \A i \in DOMAIN inv : RequestFor(n, inv[i]) \in Request
      BY <1>3, <2>1
    <3> HIDE DEF inv
    <3> QED
      BY <3>1, <3>2
  <2> QED
    <3> HIDE DEF all
    <3> QED
      BY <2>2, PickRange
<1>8. /\ known \in CNode /\ known.vInventoryToSend = c.vInventoryToSend
      /\ known.mapAskFor = c.mapAskFor /\ known.later = c.later
      /\ known.setInventoryKnown = c.setInventoryKnown \cup Range(inv)
  <2>1. Range(inv) \subseteq Block
    BY <1>3, RangeOfSeq
  <2> HIDE DEF inv
  <2> QED
    BY <1>2, <2>1 DEF CNode
<1> DEFINE a == AskFor(n, known, new, again)
           d == Requested(a, reqs)
<1>9. again \subseteq Range(new)
  BY DEF Again
<1> HIDE DEF new, known, reqs
<1>10. /\ a \in CNode
       /\ Range(a.mapAskFor) \cup a.later =
            Range(known.mapAskFor) \cup known.later \cup Range(new)
       /\ a.vInventoryToSend = known.vInventoryToSend
       /\ a.setInventoryKnown = known.setInventoryKnown
  <2>1. AskFor(n, known, new, again) \in CNode
    BY <1>6, <1>8, <1>9, AskForKeeps
  <2>2. Wanted(a) = Wanted(known) \cup Range(new)
    BY <1>6, <1>8, <1>9, AskForKeeps
  <2>3. a.vInventoryToSend = known.vInventoryToSend /\ a.setInventoryKnown = known.setInventoryKnown
    BY DEF AskFor
  <2> QED
    BY <2>1, <2>2, <2>3 DEF Wanted
<1> HIDE DEF a
<1>11. /\ d \in CNode
       /\ d.mapAskFor = a.mapAskFor /\ d.later = a.later
       /\ d.vInventoryToSend = a.vInventoryToSend
       /\ d.setInventoryKnown = a.setInventoryKnown
  BY <1>7, <1>10, RequestedKeeps
<1>12. replies \in Seq(GetBlocksMessage)
  BY <1>7, <1>8, RequestedKeeps
<1> HIDE DEF d, replies
<1>13. replies \in Seq(Message) /\ \A r \in Range(replies) : Honest(n, r)
  BY <1>12, RequestsHonest
<1>14. peer' = [peer EXCEPT ![n][p] = d]
  BY <1>4 DEF d, a
<1>15. Range(d.mapAskFor) \cup d.later = Asked(n, p) \cup Range(new)
  BY <1>8, <1>10, <1>11 DEF Asked
<1>16. p \in Full => Range(inv) \subseteq mapBlockIndex[p]
  BY <1>3, RangeOfSeq
<1>17. /\ nAskedForBlocks' \in [Full -> -3 .. 1]
       /\ UNCHANGED <<chainVars, up, toReconnect, asleep, slots, nCuts>>
  BY <1>5 DEF DownloadInv, DownloadTypeOK, stuckVars
<1>18. mapAlreadyAskedFor' \in [Full -> SUBSET Block]
  <2>1. Range(new) \subseteq Block
    BY <1>6, RangeOfSeq
  <2> QED
    BY <1>5, <2>1 DEF AskedFor, DownloadInv, DownloadTypeOK
<1>19. HandlerStep(n, p, "inv", replies, d)
  BY <1>1, <1>2, <1>5, <1>6, <1>8, <1>10, <1>11, <1>13, <1>14, <1>15, <1>16, <1>17, <1>18
     DEF HandlerStep
<1> QED
  BY <1>19, HandlerKeepsInv

(* What is in a sequence after something was put into it.                  *)
LEMMA InsertAtRange ==
  ASSUME NEW S, NEW s \in Seq(S), NEW e \in S, NEW k \in 1 .. Len(s) + 1
  PROVE  InsertAt(s, k, e) \in Seq(S) /\ Range(InsertAt(s, k, e)) = Range(s) \cup {e}
<1> DEFINE a == SubSeq(s, 1, k - 1)
           z == SubSeq(s, k, Len(s))
           l == Len(s)
           o == <<e>>
<1>1. o \in Seq(S) /\ Range(o) = {e}
  BY DEF Range
<1>2. a \in Seq(S) /\ z \in Seq(S) /\ a \o z = s
  <2>1. l \in Nat /\ k - 1 \in 0 .. l /\ k \in Int /\ \A i \in 1 .. l : s[i] \in S
    OBVIOUS
  <2>2. a \in Seq(S) /\ z \in Seq(S)
    BY <2>1, SubSeqProperties
  <2> DEFINE j == k - 1
  <2>3. j + 1 = k /\ 1 \in 1 .. l + 1 /\ j \in 1 - 1 .. l /\ l \in j .. l
    BY <2>1
  <2>4. SubSeq(s, 1, j) \o SubSeq(s, j + 1, l) = SubSeq(s, 1, l)
    <3> HIDE DEF j
    <3> QED
      BY <2>3, ConcatAdjacentSubSeq
  <2>5. SubSeq(s, 1, l) = s
    BY SubSeqFull
  <2> QED
    BY <2>2, <2>3, <2>4, <2>5
<1> HIDE DEF a, z, o
<1>3. a \o o \in Seq(S) /\ Range(a \o o) = Range(a) \cup Range(o)
  BY <1>1, <1>2, ConcatProperties, RangeConcatenation
<1> DEFINE q == a \o o
<1>4. q \o z \in Seq(S) /\ Range(q \o z) = Range(q) \cup Range(z)
  <2> HIDE DEF q
  <2>1. q \in Seq(S)
    BY <1>3 DEF q
  <2> QED
    BY <1>2, <2>1, ConcatProperties, RangeConcatenation
<1>5. Range(s) = Range(a) \cup Range(z)
  BY <1>2, RangeConcatenation
<1>6. InsertAt(s, k, e) = (a \o o) \o z
  BY DEF InsertAt, a, z, o
<1> QED
  BY <1>1, <1>3, <1>4, <1>5, <1>6

(* "getdata": the blocks go out that the node has, and one more "inv" may. *)
LEMMA GetDataKeepsInv ==
  ASSUME DownloadInv, NEW n \in Full, NEW p \in Neighbours[n], GetData(n, p)
  PROVE  DownloadInv'
<1> DEFINE asked == Head(msgs[p][n]).inv
           inv == Pick(asked, {i \in DOMAIN asked : asked[i] \in mapBlockIndex[n]})
           blocks == [i \in DOMAIN inv |-> [type |-> "block", block |-> inv[i]]]
           c == peer[n][p]
           last == {i \in DOMAIN inv : inv[i] = c.hashContinue}
           more == [type |-> "inv", inv |-> << LastProofOfWork(pindexBest[n]) >>]
<1>1. Received(n, p, "getdata")
  BY DEF GetData
<1>2. /\ c \in CNode /\ c.vInventoryToSend \in Seq(mapBlockIndex[n])
      /\ Head(msgs[p][n]) \in Message /\ Head(msgs[p][n]).type = "getdata"
      /\ pindexBest[n] \in Block /\ p \in Node
      /\ mapBlockIndex[n] \subseteq Block
      /\ Chain[pindexBest[n]] \subseteq mapBlockIndex[n]
  BY <1>1, Receives DEF DownloadInv, DownloadTypeOK
<1>3. asked \in Seq(Block)
  BY <1>2 DEF Message
<1>4. /\ inv \in Seq(Block)
      /\ \A i \in DOMAIN inv : inv[i] \in mapBlockIndex[n]
      /\ \A b \in Range(asked) \cap mapBlockIndex[n] : \E i \in DOMAIN inv : inv[i] = b
  <2> DEFINE D == {i \in DOMAIN asked : asked[i] \in mapBlockIndex[n]}
  <2>1. inv \in Seq(Block) /\ Range(inv) = {asked[i] : i \in DOMAIN asked \cap D}
    <3> HIDE DEF asked
    <3> QED
      BY <1>3, PickRange
  <2> QED
    BY <2>1 DEF Range
<1> DEFINE BlockMessage == [type : {"block"}, block : Block]
<1>5. DOMAIN inv = 1 .. Len(inv) /\ Len(inv) \in Nat
  BY <1>4
<1> HIDE DEF inv
<1>6. blocks \in Seq(BlockMessage) /\ Len(blocks) = Len(inv)
  BY <1>4, <1>5
<1>7. blocks \in Seq(Message)
  <2>1. BlockMessage \subseteq Message
    BY DEF Message
  <2> HIDE DEF BlockMessage, blocks
  <2> QED
    BY <1>6, <2>1, SeqMonotonic
<1>8. /\ \A r \in Range(blocks) : Honest(n, r)
      /\ \A b \in Range(asked) \cap mapBlockIndex[n] :
           \E r \in Range(blocks) : r.type = "block" /\ r.block = b
  <2>1. \A r \in Range(blocks) : \E i \in DOMAIN inv : r = [type |-> "block", block |-> inv[i]]
    BY DEF Range
  <2>2. \A i \in DOMAIN inv : [type |-> "block", block |-> inv[i]] \in Range(blocks)
    BY DEF Range
  <2>3. \A i \in DOMAIN inv : Honest(n, [type |-> "block", block |-> inv[i]])
    BY <1>4 DEF Honest
  <2>4. \A r \in Range(blocks) : Honest(n, r)
    BY <2>1, <2>3
  <2>5. ASSUME NEW b \in Range(asked) \cap mapBlockIndex[n]
        PROVE  \E r \in Range(blocks) : r.type = "block" /\ r.block = b
    <3>1. PICK i \in DOMAIN inv : inv[i] = b
      BY <1>4
    <3>2. [type |-> "block", block |-> inv[i]] \in Range(blocks)
      BY <2>2
    <3> QED
      BY <3>1, <3>2
  <2> QED
    BY <2>4, <2>5
<1>9. more \in Message /\ Honest(n, more)
  <2>1. LastProofOfWork(pindexBest[n]) \in mapBlockIndex[n]
    BY <1>2, LastProofOfWorkBlock
  <2>2. LastProofOfWork(pindexBest[n]) \in Block
    BY <1>2, <2>1
  <2> DEFINE x == LastProofOfWork(pindexBest[n])
  <2>3. << x >> \in Seq(Block) /\ << x >> \in Seq(mapBlockIndex[n])
    <3>1. x \in Block /\ x \in mapBlockIndex[n]
      BY <2>1, <2>2
    <3> HIDE DEF x
    <3> QED
      BY <3>1, SingletonSeq
  <2> HIDE DEF x
  <2>4. more = [type |-> "inv", inv |-> << x >>]
    BY DEF x
  <2> QED
    BY <2>3, <2>4 DEF Message, Honest
<1>10. /\ UNCHANGED <<chainVars, up, toReconnect, asleep, slots, nCuts>>
       /\ mapAlreadyAskedFor' \in [Full -> SUBSET Block]
       /\ nAskedForBlocks' \in [Full -> -3 .. 1]
  BY DEF GetData, DownloadInv, DownloadTypeOK, stuckVars
<1>11. Asked(n, p) = Range(c.mapAskFor) \cup c.later
  BY DEF Asked
<1>12. CASE last = {}
  <2>1. Answered(n, p, blocks) /\ peer' = peer
    BY <1>12 DEF GetData, inv
  <2>2. peer' = [peer EXCEPT ![n][p] = c]
    BY <1>2, <2>1 DEF DownloadInv, DownloadTypeOK
  <2>3. c.setInventoryKnown \subseteq peer[n][p].setInventoryKnown \cup mapBlockIndex[p]
    OBVIOUS
  <2> HIDE DEF blocks, c
  <2>4. HandlerStep(n, p, "getdata", blocks, c)
    BY <1>1, <1>2, <1>7, <1>8, <1>10, <1>11, <2>1, <2>2, <2>3 DEF HandlerStep
  <2> QED
    BY <2>4, HandlerKeepsInv
<1>13. CASE last # {}
  <2> DEFINE replies == InsertAt(blocks, Min(last) + 1, more)
             d == [c EXCEPT !.hashContinue = NoBlock]
  <2>1. Answered(n, p, replies) /\ peer' = [peer EXCEPT ![n][p].hashContinue = NoBlock]
    BY <1>13 DEF GetData, inv
  <2>2. peer' = [peer EXCEPT ![n][p] = d]
    BY <1>2, <2>1 DEF DownloadInv, DownloadTypeOK
  <2>3. Min(last) + 1 \in 1 .. Len(blocks) + 1
    <3>1. Min(last) \in last
      <4>1. last \in SUBSET Nat
        BY <1>5
      <4> HIDE DEF last
      <4> QED
        BY <1>13, <4>1, LeastExists
    <3> QED
      BY <1>5, <1>6, <3>1
  <2> HIDE DEF blocks, more, last
  <2>4. replies \in Seq(Message) /\ Range(replies) = Range(blocks) \cup {more}
    BY <1>7, <1>9, <2>3, InsertAtRange
  <2>5. d \in CNode /\ d.vInventoryToSend = c.vInventoryToSend /\ d.mapAskFor = c.mapAskFor
        /\ d.later = c.later /\ d.setInventoryKnown = c.setInventoryKnown
    BY <1>2 DEF CNode
  <2> HIDE DEF replies, d
  <2>6. HandlerStep(n, p, "getdata", replies, d)
    BY <1>1, <1>2, <1>8, <1>9, <1>10, <1>11, <2>1, <2>2, <2>4, <2>5 DEF HandlerStep
  <2> QED
    BY <2>6, HandlerKeepsInv
<1> QED
  BY <1>12, <1>13

LEMMA FirstOf ==
  ASSUME NEW A, NEW s \in Seq(A), NEW k \in 0 .. Len(s)
  PROVE  SubSeq(s, 1, k) \in Seq(A)
<1>1. 1 \in Int /\ k \in Int /\ \A i \in 1 .. k : s[i] \in A
  OBVIOUS
<1> QED
  BY <1>1, SubSeqProperties

LEMMA MinOfTwo ==
  ASSUME NEW a \in Nat, NEW b \in Nat
  PROVE  Min({a, b}) \in {a, b} /\ Min({a, b}) <= a /\ Min({a, b}) <= b
<1>1. {a, b} \in SUBSET Nat /\ {a, b} # {}
  OBVIOUS
<1> QED
  BY <1>1, LeastExists

(* "getblocks": blocks of the best chain are queued for announcement.      *)
LEMMA GetBlocksHandlerKeepsInv ==
  ASSUME DownloadInv, NEW n \in Full, NEW p \in Neighbours[n], GetBlocksHandler(n, p)
  PROVE  DownloadInv'
<1> DEFINE m == Head(msgs[p][n])
           best == pindexBest[n]
           s == After(Fork(m.begin, best), best)
           c0 == peer[n][p]
           step == nGetBlocksStep + c0.nInvCountLoaedLast
           nLimit == Min({step, nGetBlocksMax})
           end == IF \E i \in DOMAIN s : s[i] = m.end
                  THEN CHOOSE i \in DOMAIN s : s[i] = m.end ELSE Len(s) + 1
           c == [c0 EXCEPT !.nInvCountLoaedLast = nLimit]
           most == Min({nLimit, Len(s)})
           index == mapBlockIndex[n]
<1>1. Received(n, p, "getblocks")
  BY DEF GetBlocksHandler
<1>2. /\ c0 \in CNode /\ c0.vInventoryToSend \in Seq(index)
      /\ m \in Message /\ m.type = "getblocks"
      /\ best \in Block /\ best \in index /\ index \in SUBSET Block
  BY <1>1, Receives
<1>3. s \in Seq(index)
  <2>1. m.begin \in Block
    BY <1>2 DEF Message
  <2>2. s \in Seq(Chain[best])
    BY <1>2, <2>1, AfterBlocks, ForkBlock
  <2>3. Chain[best] \subseteq index
    BY DEF DownloadInv, DownloadTypeOK
  <2> HIDE DEF s, best, index
  <2> QED
    BY <2>2, <2>3, SeqMonotonic
<1>4. nLimit \in Nat \ {0}
  <2>1. c0.nInvCountLoaedLast \in Nat
    BY <1>2 DEF CNode
  <2>2. step \in Nat \ {0} /\ nGetBlocksMax \in Nat \ {0}
    BY <2>1, DownloadAssumption
  <2> HIDE DEF step
  <2> QED
    BY <2>2, MinOfTwo
<1>5. most \in 0 .. Len(s)
  <2>1. Len(s) \in Nat
    BY <1>3
  <2> HIDE DEF s, nLimit
  <2> QED
    BY <1>4, <2>1, MinOfTwo
<1>6. end \in 1 .. Len(s) + 1
  <2> HIDE DEF s, m
  <2> QED
    BY <1>3
<1>7. \E d \in CNode :
        /\ peer' = [peer EXCEPT ![n][p] = d]
        /\ d.vInventoryToSend \in Seq(index)
        /\ d.setInventoryKnown = c0.setInventoryKnown
        /\ d.mapAskFor = c0.mapAskFor /\ d.later = c0.later
  <2>1. /\ c \in CNode /\ c.vInventoryToSend = c0.vInventoryToSend
        /\ c.setInventoryKnown = c0.setInventoryKnown
        /\ c.mapAskFor = c0.mapAskFor /\ c.later = c0.later
    <3> HIDE DEF nLimit, c0
    <3> QED
      BY <1>2, <1>4 DEF CNode
  <2>2. CASE end <= most
    <3>1. PICK fRecent \in BOOLEAN :
            peer' = [peer EXCEPT ![n][p] = PushInventory(c,
                       SubSeq(s, 1, end - 1) \o IF fRecent /\ m.end # best THEN <<best>> ELSE << >>)]
      BY <2>2 DEF GetBlocksHandler
    <3> DEFINE tail == IF fRecent /\ m.end # best THEN <<best>> ELSE << >>
               first == SubSeq(s, 1, end - 1)
               q == first \o tail
    <3>2. tail \in Seq(index)
      <4> HIDE DEF best, m, index
      <4>1. <<best>> \in Seq(index)
        BY <1>2, SingletonSeq
      <4>2. << >> \in Seq(index)
        OBVIOUS
      <4> QED
        BY <4>1, <4>2
    <3>3. first \in Seq(index)
      <4>1. end - 1 \in 0 .. Len(s)
        <5>1. Len(s) \in Nat
          BY <1>3
        <5> HIDE DEF end, s
        <5> QED
          BY <1>6, <5>1
      <4> HIDE DEF end, s
      <4> QED
        BY <1>3, <4>1, FirstOf
    <3> HIDE DEF first, tail
    <3>4. q \in Seq(index)
      BY <3>2, <3>3, ConcatProperties
    <3>5. peer' = [peer EXCEPT ![n][p] = PushInventory(c, q)]
      BY <3>1 DEF first, tail
    <3> HIDE DEF q, c
    <3>6. LET d == PushInventory(c, q) IN
            /\ d \in CNode /\ d.vInventoryToSend \in Seq(index)
            /\ d.setInventoryKnown = c.setInventoryKnown
            /\ d.mapAskFor = c.mapAskFor /\ d.later = c.later
      BY <1>2, <2>1, <3>4, PushInventoryKeeps
    <3> QED
      BY <2>1, <3>5, <3>6
  <2>3. CASE ~ (end <= most)
    <3> DEFINE e == [c EXCEPT !.hashContinue = IF nLimit <= Len(s) THEN s[nLimit] ELSE @]
               q == SubSeq(s, 1, most)
    <3>1. peer' = [peer EXCEPT ![n][p] = PushInventory(e, q)]
      BY <2>3 DEF GetBlocksHandler
    <3>2. q \in Seq(index)
      <4> HIDE DEF s, most
      <4> QED
        BY <1>3, <1>5, FirstOf
    <3>3. nLimit <= Len(s) => s[nLimit] \in Block
      <4>1. Len(s) \in Nat /\ \A i \in 1 .. Len(s) : s[i] \in Block
        BY <1>2, <1>3
      <4> HIDE DEF s, nLimit
      <4> QED
        BY <1>4, <4>1
    <3>4. /\ e \in CNode /\ e.vInventoryToSend = c.vInventoryToSend
          /\ e.setInventoryKnown = c.setInventoryKnown
          /\ e.mapAskFor = c.mapAskFor /\ e.later = c.later
      <4> HIDE DEF s, nLimit, c
      <4> QED
        BY <2>1, <3>3 DEF CNode
    <3> HIDE DEF q, e
    <3>5. e.vInventoryToSend \in Seq(index)
      BY <1>2, <2>1, <3>4
    <3>6. LET d == PushInventory(e, q) IN
            /\ d \in CNode /\ d.vInventoryToSend \in Seq(index)
            /\ d.setInventoryKnown = e.setInventoryKnown
            /\ d.mapAskFor = e.mapAskFor /\ d.later = e.later
      BY <1>2, <3>2, <3>4, <3>5, PushInventoryKeeps
    <3> HIDE DEF c
    <3> QED
      BY <2>1, <3>1, <3>4, <3>6
  <2> QED
    BY <2>2, <2>3
<1>8. PICK d \in CNode :
        /\ peer' = [peer EXCEPT ![n][p] = d]
        /\ d.vInventoryToSend \in Seq(index)
        /\ d.setInventoryKnown = c0.setInventoryKnown
        /\ d.mapAskFor = c0.mapAskFor /\ d.later = c0.later
  BY <1>7
<1>9. /\ Answered(n, p, << >>)
      /\ UNCHANGED <<chainVars, up, mapAlreadyAskedFor, stuckVars>>
  BY DEF GetBlocksHandler
<1>10. /\ UNCHANGED <<chainVars, up, toReconnect, asleep, slots, nCuts>>
       /\ mapAlreadyAskedFor' \in [Full -> SUBSET Block]
       /\ nAskedForBlocks' \in [Full -> -3 .. 1]
  BY <1>9 DEF DownloadInv, DownloadTypeOK, stuckVars
<1>11. << >> \in Seq(Message) /\ \A r \in Range(<< >>) : Honest(n, r)
  BY DEF Range
<1>12. Asked(n, p) = Range(d.mapAskFor) \cup d.later
  BY <1>8 DEF Asked
<1> HIDE DEF m
<1>13. HandlerStep(n, p, "getblocks", << >>, d)
  BY <1>1, <1>8, <1>9, <1>10, <1>11, <1>12 DEF HandlerStep
<1> QED
  BY <1>13, HandlerKeepsInv

(* "block": the block is new and its parent is indexed.                    *)
LEMMA AcceptedBlockKeepsInv ==
  ASSUME DownloadInv, NEW n \in Full, NEW p \in Neighbours[n], AcceptedBlock(n, p)
  PROVE  DownloadInv'
<1> DEFINE b == Head(msgs[p][n]).block
           links == KnownFrom(n, p, b)
<1>1. Received(n, p, "block")
  BY DEF AcceptedBlock
<1>2. /\ DownloadTypeOK /\ TreeInv /\ p \in Node /\ p \in up[n]
      /\ Head(msgs[p][n]) \in Message /\ Head(msgs[p][n]).type = "block"
      /\ p \in Full => Honest(p, Head(msgs[p][n]))
  BY <1>1, Receives DEF DownloadInv
<1>3. /\ b \in Block /\ b \notin Have(n) /\ pprev[b] \in mapBlockIndex[n]
      /\ p \in Full => b \in mapBlockIndex[p]
  BY <1>2 DEF AcceptedBlock, Message, AlreadyHave, Have, Honest
<1>4. b # Genesis
  BY <1>2, <1>3, GenesisInIndex DEF Have
<1>5. /\ links \in [Node -> CNode]
      /\ \A q \in Node :
           /\ links[q].vInventoryToSend = peer[n][q].vInventoryToSend
           /\ links[q].mapAskFor = peer[n][q].mapAskFor /\ links[q].later = peer[n][q].later
           /\ q # p => links[q] = peer[n][q]
      /\ links[p].setInventoryKnown = peer[n][p].setInventoryKnown \cup {b}
  <2>1. peer[n] \in [Node -> CNode]
    BY <1>2 DEF DownloadTypeOK
  <2> DEFINE f == peer[n]
             c == [f[p] EXCEPT !.setInventoryKnown = @ \cup {b}]
  <2> HIDE DEF b
  <2>2. links = [f EXCEPT ![p] = c]
    BY <1>2, <2>1 DEF KnownFrom
  <2>3. f[p] \in CNode
    BY <1>2, <2>1
  <2>4. /\ c \in CNode /\ c.vInventoryToSend = f[p].vInventoryToSend
        /\ c.mapAskFor = f[p].mapAskFor /\ c.later = f[p].later
        /\ c.setInventoryKnown = f[p].setInventoryKnown \cup {b}
    <3> HIDE DEF f
    <3> QED
      BY <1>3, <2>3 DEF CNode
  <2> HIDE DEF c, links, f
  <2>5. links \in [Node -> CNode]
    BY <1>2, <2>1, <2>2, <2>4 DEF f
  <2>6. links[p] = c /\ \A q \in Node : q # p => links[q] = f[q]
    BY <1>2, <2>1, <2>2 DEF f
  <2>7. \A q \in Node :
           /\ links[q].vInventoryToSend = f[q].vInventoryToSend
           /\ links[q].mapAskFor = f[q].mapAskFor /\ links[q].later = f[q].later
    BY <2>4, <2>6
  <2> QED
    BY <2>4, <2>5, <2>6, <2>7 DEF f
<1>6. \A q \in Node : links[q].vInventoryToSend \in Seq(mapBlockIndex[n])
  BY <1>5 DEF DownloadInv, LinkInv
<1>7. /\ Accept(n, b, links) /\ Answered(n, p, << >>)
      /\ mapAlreadyAskedFor' = [mapAlreadyAskedFor EXCEPT ![n] = @ \ {b}]
      /\ UNCHANGED <<up, stuckVars>>
  BY DEF AcceptedBlock
<1> HIDE DEF b, links
<1>8. /\ Grown /\ TreeInv' /\ b \in Have(n)'
      /\ mapOrphanBlocks' \in [Full -> SUBSET Block]
      /\ pindexBest' \in [Full -> Block]
      /\ \A x \in Full : /\ Chain[pindexBest'[x]] \subseteq mapBlockIndex'[x]
                         /\ mapOrphanBlocks'[x] \cap mapBlockIndex'[x] = {}
      /\ peer' \in [Full -> [Node -> CNode]]
      /\ \A x \in Full \ {n} : peer'[x] = peer[x]
      /\ \A q \in Node :
           /\ peer'[n][q].vInventoryToSend \in Seq(mapBlockIndex'[n])
           /\ peer'[n][q].setInventoryKnown = links[q].setInventoryKnown
           /\ peer'[n][q].mapAskFor = links[q].mapAskFor
           /\ peer'[n][q].later = links[q].later
           /\ q \notin up[n] => peer'[n][q] = links[q]
  <2>1. AcceptStep(n, b, links)
    BY <1>3, <1>4, <1>5, <1>6, <1>7 DEF AcceptStep
  <2> QED
    BY <1>2, <2>1, AcceptKeeps
<1>9. OnlyEnd(n, p)
  <2>1. ASSUME NEW x \in Full, NEW q \in Node
        PROVE  peer'[x][q].vInventoryToSend \in Seq(mapBlockIndex'[x])
    <3>1. CASE x = n
      BY <1>8, <3>1
    <3>2. CASE x # n
      <4>1. peer[x][q].vInventoryToSend \in Seq(mapBlockIndex[x])
        BY DEF DownloadInv, LinkInv
      <4>2. mapBlockIndex[x] \subseteq mapBlockIndex'[x]
        BY <1>8 DEF Grown
      <4>3. peer'[x] = peer[x]
        BY <1>8, <3>2
      <4> QED
        BY <4>1, <4>2, <4>3, SeqMonotonic
    <3> QED
      BY <3>1, <3>2
  <2>2. ASSUME NEW x \in Full, NEW q \in Node, <<x, q>> # <<n, p>>
        PROVE  /\ peer'[x][q].setInventoryKnown = peer[x][q].setInventoryKnown
               /\ peer'[x][q].mapAskFor = peer[x][q].mapAskFor
               /\ peer'[x][q].later = peer[x][q].later
    <3>1. CASE x = n
      <4>1. q # p
        BY <2>2, <3>1
      <4> QED
        BY <1>5, <1>8, <3>1, <4>1
    <3>2. CASE x # n
      BY <1>8, <3>2
    <3> QED
      BY <3>1, <3>2
  <2> QED
    BY <1>8, <2>1, <2>2 DEF OnlyEnd
<1>10. Asked(n, p)' = Asked(n, p)
  BY <1>2, <1>5, <1>8 DEF Asked
<1>11. TakenOver(n, p, Head(msgs[p][n]), << >>)
  BY <1>2, <1>8 DEF TakenOver, b
<1>12. p \in Full => peer'[n][p].setInventoryKnown \subseteq
                       peer[n][p].setInventoryKnown \cup mapBlockIndex'[p]
  <2>1. peer'[n][p].setInventoryKnown = peer[n][p].setInventoryKnown \cup {b}
    BY <1>2, <1>5, <1>8
  <2>2. p \in Full => b \in mapBlockIndex'[p]
    BY <1>3, <1>8 DEF Grown
  <2> QED
    BY <2>1, <2>2
<1>13. \A q \in Node : q \notin up[n] => peer'[n][q] = peer[n][q]
  BY <1>2, <1>5, <1>8
<1>14. << >> \in Seq(Message) /\ \A r \in Range(<< >>) : Honest(n, r)'
  BY DEF Range
<1>15. UNCHANGED up
  BY <1>7
<1>16. LinkInv' /\ FetchInv'
  BY <1>1, <1>7, <1>8, <1>9, <1>10, <1>11, <1>12, <1>13, <1>14, <1>15, HandledKeepsLinks
<1>17. msgs' \in [Node -> [Node -> Seq(Message)]]
  BY <1>1, <1>2, <1>7, <1>14, AnsweredChannels
<1>18. mapAlreadyAskedFor' \in [Full -> SUBSET Block]
  BY <1>2, <1>7 DEF DownloadTypeOK
<1>19. DownloadTypeOK'
  BY <1>2, <1>7, <1>8, <1>17, <1>18 DEF DownloadTypeOK, Grown, stuckVars
<1> QED
  BY <1>8, <1>16, <1>19 DEF DownloadInv

(* "block": the block is new and its parent is not indexed.                *)
LEMMA OrphanBlockKeepsInv ==
  ASSUME DownloadInv, NEW n \in Full, NEW p \in Neighbours[n], OrphanBlock(n, p)
  PROVE  DownloadInv'
<1> DEFINE b == Head(msgs[p][n]).block
           orphans == mapOrphanBlocks[n] \cup {b}
           root == OrphanRoot(orphans, b)
           reqs == << <<pindexBest[n], root>> >>
           c0 == peer[n][p]
           c == [c0 EXCEPT !.setInventoryKnown = @ \cup {b}]
           replies == GetBlocks(c, reqs)
           e == Requested(c, reqs)
<1>1. Received(n, p, "block")
  BY DEF OrphanBlock
<1>2. /\ DownloadTypeOK /\ TreeInv /\ LinkInv /\ p \in Node /\ p \in up[n]
      /\ c0 \in CNode /\ c0.vInventoryToSend \in Seq(mapBlockIndex[n])
      /\ pindexBest[n] \in Block
      /\ Head(msgs[p][n]) \in Message /\ Head(msgs[p][n]).type = "block"
      /\ p \in Full => Honest(p, Head(msgs[p][n]))
  BY <1>1, Receives DEF DownloadInv
<1>3. /\ b \in Block /\ b \notin Have(n) /\ pprev[b] \notin mapBlockIndex[n]
      /\ p \in Full => b \in mapBlockIndex[p]
  BY <1>2 DEF OrphanBlock, Message, AlreadyHave, Have, Honest
<1>4. /\ mapOrphanBlocks' = [mapOrphanBlocks EXCEPT ![n] = orphans]
      /\ Answered(n, p, replies)
      /\ UNCHANGED <<mapBlockIndex, pindexBest, up, stuckVars>>
  <2>1. KnownFrom(n, p, b)[p] = c
    BY <1>2 DEF KnownFrom, DownloadTypeOK
  <2> QED
    BY <2>1 DEF OrphanBlock
<1>5A. PICK wanted \in {<< >>, << pprev[root] >>} :
        /\ \E again \in SUBSET Range(wanted) :
             peer' = [peer EXCEPT ![n][p] = AskFor(n, e, wanted, again)]
        /\ mapAlreadyAskedFor' = [AskedFor(n, wanted) EXCEPT ![n] = @ \ {b}]
  <2>1. KnownFrom(n, p, b)[p] = c
    BY <1>2 DEF KnownFrom, DownloadTypeOK
  <2>2. PICK wanted \in {<< >>} \cup IF InitialBlockDownload(n) THEN {} ELSE {<<pprev[root]>>} :
          /\ \E again \in Again(n, wanted) :
               peer' = [peer EXCEPT ![n][p] = AskFor(n, Requested(KnownFrom(n, p, b)[p], reqs), wanted, again)]
          /\ mapAlreadyAskedFor' = [AskedFor(n, wanted) EXCEPT ![n] = @ \ {b}]
    BY DEF OrphanBlock
  <2> HIDE DEF c, reqs, b, root
  <2> QED
    BY <2>1, <2>2 DEF Again
<1>5. PICK again \in SUBSET Range(wanted) :
        peer' = [peer EXCEPT ![n][p] = AskFor(n, e, wanted, again)]
  BY <1>5A
<1>6. root \in Block \ {Genesis} /\ pprev[root] \in Block
  <2>1. b # Genesis /\ Genesis \notin orphans
    BY <1>2, <1>3, GenesisInIndex DEF Have
  <2>2. root \in Chain[b] \ {Genesis}
    <3> HIDE DEF orphans, b
    <3> QED
      BY <1>3, <2>1, OrphanRootBlock
  <2> HIDE DEF root
  <2> QED
    BY <1>3, <2>2, ChainEnds, BlockTreeAssumption
<1>7. reqs \in Seq(Request)
  <2>1. <<pindexBest[n], root>> \in Request
    BY <1>2, <1>6 DEF Request
  <2> HIDE DEF root
  <2> QED
    BY <2>1, SingletonSeq
<1>8. wanted \in Seq(Block)
  <2> HIDE DEF root
  <2>1. <<pprev[root]>> \in Seq(Block)
    BY <1>6, SingletonSeq
  <2>2. << >> \in Seq(Block)
    OBVIOUS
  <2> QED
    BY <1>5A, <2>1, <2>2
<1>9. /\ c \in CNode /\ c.vInventoryToSend = c0.vInventoryToSend
      /\ c.mapAskFor = c0.mapAskFor /\ c.later = c0.later
      /\ c.setInventoryKnown = c0.setInventoryKnown \cup {b}
  <2> HIDE DEF b, c0
  <2> QED
    BY <1>2, <1>3 DEF CNode
<1> HIDE DEF c, reqs, orphans, b
<1>10. /\ e \in CNode /\ e.vInventoryToSend = c.vInventoryToSend
       /\ e.mapAskFor = c.mapAskFor /\ e.later = c.later
       /\ e.setInventoryKnown = c.setInventoryKnown
       /\ replies \in Seq(GetBlocksMessage)
  BY <1>7, <1>9, RequestedKeeps
<1> HIDE DEF e, replies
<1> DEFINE d == AskFor(n, e, wanted, again)
<1>11. /\ d \in CNode /\ d.vInventoryToSend = e.vInventoryToSend
       /\ d.setInventoryKnown = e.setInventoryKnown
       /\ Wanted(e) \subseteq Wanted(d)
  <2>1. /\ d \in CNode /\ d.vInventoryToSend = e.vInventoryToSend
        /\ d.setInventoryKnown = e.setInventoryKnown
    BY <1>5, <1>8, <1>10, AskForKeeps
  <2>2. Wanted(d) = Wanted(e) \cup Range(wanted)
    BY <1>5, <1>8, <1>10, AskForKeeps
  <2> HIDE DEF d
  <2> QED
    BY <2>1, <2>2
<1>12. peer' = [peer EXCEPT ![n][p] = d]
  BY <1>5
<1> HIDE DEF d
<1>13. replies \in Seq(Message) /\ \A r \in Range(replies) : Honest(n, r)
  BY <1>10, RequestsHonest
<1>14. /\ mapBlockIndex' = mapBlockIndex /\ pindexBest' = pindexBest
       /\ mapOrphanBlocks \in [Full -> SUBSET Block]
       /\ mapOrphanBlocks'[n] = orphans
       /\ \A x \in Full \ {n} : mapOrphanBlocks'[x] = mapOrphanBlocks[x]
       /\ mapOrphanBlocks' \in [Full -> SUBSET Block]
  BY <1>2, <1>3, <1>4 DEF DownloadTypeOK, orphans
<1>15. Grown /\ b \in Have(n)'
  BY <1>2, <1>14 DEF Grown, Have, DownloadTypeOK, orphans
<1>16. TreeInv'
  BY <1>2, <1>3, <1>14 DEF TreeInv, orphans
<1>17. /\ OnlyEnd(n, p) /\ peer'[n][p] = d
       /\ \A q \in Node : q \notin up[n] => peer'[n][q] = peer[n][q]
       /\ \A x \in Full \ {n} : peer'[x] = peer[x]
  <2>1. d.vInventoryToSend \in Seq(mapBlockIndex[n])
    BY <1>2, <1>9, <1>10, <1>11
  <2> QED
    BY <1>2, <1>11, <1>12, <1>15, <2>1, EndChanged
<1>18. Asked(n, p) \subseteq Asked(n, p)'
  BY <1>9, <1>10, <1>11, <1>17 DEF Asked, Wanted
<1>19. TakenOver(n, p, Head(msgs[p][n]), replies)
  BY <1>2, <1>15 DEF TakenOver, b
<1>20. p \in Full => peer'[n][p].setInventoryKnown \subseteq
                       peer[n][p].setInventoryKnown \cup mapBlockIndex'[p]
  BY <1>3, <1>9, <1>10, <1>11, <1>14, <1>17
<1>21. \A r \in Range(replies) : Honest(n, r)'
  BY <1>2, <1>13, <1>15, HonestStays
<1>22. UNCHANGED up
  BY <1>4
<1>23. LinkInv' /\ FetchInv'
  BY <1>1, <1>4, <1>13, <1>15, <1>17, <1>18, <1>19, <1>20, <1>21, <1>22, HandledKeepsLinks
<1>24. msgs' \in [Node -> [Node -> Seq(Message)]]
  BY <1>1, <1>2, <1>4, <1>13, AnsweredChannels
<1>25. mapAlreadyAskedFor' \in [Full -> SUBSET Block]
  <2>1. Range(wanted) \subseteq Block
    BY <1>8, RangeOfSeq
  <2> DEFINE f == AskedFor(n, wanted)
  <2>2. f \in [Full -> SUBSET Block]
    BY <1>2, <2>1 DEF DownloadTypeOK, AskedFor
  <2>3. mapAlreadyAskedFor' = [f EXCEPT ![n] = f[n] \ {b}]
    BY <1>5A
  <2> HIDE DEF f
  <2>4. f[n] \ {b} \in SUBSET Block
    BY <2>2
  <2> QED
    BY <2>2, <2>3, <2>4
<1>26. \A x \in Full : mapOrphanBlocks'[x] \cap mapBlockIndex'[x] = {}
  <2>1. \A x \in Full : mapOrphanBlocks[x] \cap mapBlockIndex[x] = {}
    BY <1>2 DEF DownloadTypeOK
  <2>2. orphans \cap mapBlockIndex[n] = {}
    BY <1>3, <2>1 DEF Have, orphans
  <2> QED
    BY <1>14, <2>1, <2>2
<1>27. DownloadTypeOK'
  <2>1. peer' \in [Full -> [Node -> CNode]]
    BY <1>17 DEF OnlyEnd
  <2> QED
    BY <1>2, <1>4, <1>14, <1>24, <1>25, <1>26, <2>1 DEF DownloadTypeOK, stuckVars
<1> QED
  BY <1>16, <1>23, <1>27 DEF DownloadInv

----------------------------------------------------------------------------
(* SendMessages *)

(* The blocks that messages of a type name. *)
Named(q, type) == UNION {Range(m.inv) : m \in {x \in Range(q) : x.type = type}}

(* What a step is to do that only sends q in place of what was on its way,  *)
(* and leaves d as the node's end of the connection.                       *)
SendStep(n, p, q, d) ==
  /\ p \in up[n]
  /\ msgs' = [msgs EXCEPT ![n][p] = q] /\ peer' = [peer EXCEPT ![n][p] = d]
  /\ UNCHANGED <<chainVars, up, stuckVars>>
  /\ mapAlreadyAskedFor' \in [Full -> SUBSET Block]
  /\ d \in CNode /\ d.vInventoryToSend \in Seq(mapBlockIndex[n])
  /\ q \in Seq(Message)
  /\ p \in Full =>
       /\ Range(msgs[n][p]) \subseteq Range(q)
       /\ \A r \in Range(q) : Honest(n, r)
       /\ d.setInventoryKnown \subseteq
            peer[n][p].setInventoryKnown \cup (mapBlockIndex[n] \cap Named(q, "inv"))
       /\ Asked(n, p) \subseteq
            Have(n) \cup Range(d.mapAskFor) \cup d.later \cup Named(q, "getdata")

(* A step that does so keeps the invariant.                                *)
LEMMA SendKeepsInv ==
  ASSUME DownloadInv, NEW n \in Full, NEW p \in Neighbours[n],
         NEW q, NEW d, SendStep(n, p, q, d)
  PROVE  DownloadInv'
<1> USE DEF SendStep
<1>1. /\ DownloadTypeOK /\ TreeInv /\ LinkInv /\ FetchInv
      /\ p \in Node /\ n \in Node /\ p # n /\ Full \subseteq Node
  BY NeighbourNodes DEF DownloadInv
<1>2. /\ Grown /\ TreeInv' /\ \A x \in Full : Have(x)' = Have(x)
      /\ mapBlockIndex' = mapBlockIndex
  BY <1>1, SameBlocks DEF chainVars
<1>3. /\ OnlyEnd(n, p) /\ peer'[n][p] = d
      /\ \A q1 \in Node : q1 \notin up[n] => peer'[n][q1] = peer[n][q1]
      /\ \A x \in Full \ {n} : peer'[x] = peer[x]
  BY <1>1, <1>2, EndChanged
<1>4. /\ msgs' \in [Node -> [Node -> Seq(Message)]]
      /\ msgs'[n][p] = q
      /\ \A x, y \in Node : <<x, y>> # <<n, p>> => msgs'[x][y] = msgs[x][y]
  BY <1>1 DEF DownloadTypeOK
<1>5. LinkInv'
  <2>1. \A x \in Full, y \in Node : y \notin up'[x] => peer'[x][y] = NewPeer
    BY <1>1, <1>3 DEF LinkInv
  <2>2. ASSUME NEW x \in Full, NEW y \in Full, NEW m \in Range(msgs'[x][y])
        PROVE  Honest(x, m)'
    <3>1. Honest(x, m)
      <4>1. CASE x = n /\ y = p
        BY <1>4, <2>2, <4>1
      <4>2. CASE ~ (x = n /\ y = p)
        BY <1>1, <1>4, <2>2, <4>2 DEF LinkInv
      <4> QED
        BY <4>1, <4>2
    <3> QED
      BY <1>1, <1>2, <3>1, HonestStays
  <2> QED
    BY <1>3, <2>1, <2>2 DEF LinkInv, OnlyEnd
<1>6. ASSUME NEW x \in Full, NEW y \in Full, NEW b \in peer'[y][x].setInventoryKnown
      PROVE  b \in Have(x)' \/ (b \in mapBlockIndex'[y] /\ b \in UnderWay(x, y)')
  <2>1. b \in peer[y][x].setInventoryKnown =>
          b \in Have(x) \/ (b \in mapBlockIndex[y] /\ b \in UnderWay(x, y))
    BY <1>1 DEF FetchInv, Fetched
  <2>2. CASE x = p /\ y = n
    <3>1. CASE b \in peer[n][p].setInventoryKnown
      <4>1. UnderWay(p, n) \subseteq UnderWay(p, n)'
        <5>1. Asked(p, n)' = Asked(p, n)
          BY <1>1, <1>3, <2>2 DEF OnlyEnd, Asked
        <5>2. msgs'[p][n] = msgs[p][n] /\ Range(msgs[n][p]) \subseteq Range(msgs'[n][p])
          BY <1>1, <1>4, <2>2
        <5> QED
          BY <5>1, <5>2 DEF UnderWay, InFlight, BlocksInFlight
      <4> QED
        BY <1>2, <2>1, <2>2, <3>1, <4>1
    <3>2. CASE b \notin peer[n][p].setInventoryKnown
      <4>1. b \in mapBlockIndex[n] /\ b \in Named(q, "inv")
        BY <1>3, <1>6, <2>2, <3>2
      <4>2. b \in InFlight(n, p, "inv")'
        BY <1>4, <4>1 DEF InFlight, Named
      <4> QED
        BY <1>2, <2>2, <4>1, <4>2 DEF UnderWay
    <3> QED
      BY <3>1, <3>2
  <2>3. CASE x = n /\ y = p
    <3>1. b \in peer[p][n].setInventoryKnown
      BY <1>1, <1>3, <1>6, <2>3 DEF OnlyEnd
    <3>2. Asked(n, p)' = Range(d.mapAskFor) \cup d.later
      BY <1>3 DEF Asked
    <3>3. Named(q, "getdata") \subseteq UnderWay(n, p)'
      BY <1>4 DEF Named, UnderWay, InFlight
    <3>4. UnderWay(n, p) \ Asked(n, p) \subseteq UnderWay(n, p)'
      <4>1. msgs'[p][n] = msgs[p][n] /\ Range(msgs[n][p]) \subseteq Range(msgs'[n][p])
        BY <1>1, <1>4, <2>3
      <4> QED
        BY <4>1 DEF UnderWay, InFlight, BlocksInFlight
    <3>5. Asked(n, p) \subseteq Have(n) \cup UnderWay(n, p)'
      <4>1. Asked(n, p) \subseteq Have(n) \cup Asked(n, p)' \cup Named(q, "getdata")
        BY <2>3, <3>2
      <4>2. Asked(n, p)' \subseteq UnderWay(n, p)'
        BY DEF UnderWay
      <4> QED
        BY <3>3, <4>1, <4>2
    <3> QED
      BY <1>2, <2>1, <2>3, <3>1, <3>4, <3>5
  <2>4. CASE ~ (x = p /\ y = n) /\ ~ (x = n /\ y = p)
    <3>1. /\ peer'[y][x].setInventoryKnown = peer[y][x].setInventoryKnown
          /\ Asked(x, y)' = Asked(x, y)
      BY <1>1, <1>3, <2>4 DEF OnlyEnd, Asked
    <3>2. msgs'[x][y] = msgs[x][y] /\ msgs'[y][x] = msgs[y][x]
      BY <1>1, <1>4, <2>4
    <3>3. UnderWay(x, y)' = UnderWay(x, y)
      BY <3>1, <3>2 DEF UnderWay, InFlight, BlocksInFlight
    <3> QED
      BY <1>2, <1>6, <2>1, <3>1, <3>3
  <2> QED
    BY <2>2, <2>3, <2>4
<1>7. FetchInv'
  BY <1>6 DEF FetchInv, Fetched
<1>8. DownloadTypeOK'
  <2>1. peer' \in [Full -> [Node -> CNode]]
    BY <1>3 DEF OnlyEnd
  <2> QED
    BY <1>1, <1>4, <2>1 DEF DownloadTypeOK, chainVars, stuckVars
<1> QED
  BY <1>2, <1>5, <1>7, <1>8 DEF DownloadInv

(* A message names what it was made of; a silent peer gets none.           *)
LEMMA SentNames ==
  ASSUME NEW n, NEW p, NEW type \in {"inv", "getdata"}, NEW s \in Seq(Block)
  PROVE  /\ Sent(n, p, type, s) \in Seq(Message)
         /\ \A r \in Range(Sent(n, p, type, s)) : r.type = type /\ r.inv = s
         /\ p \notin Silent => Range(s) \subseteq Named(Sent(n, p, type, s), type)
<1> DEFINE m == [type |-> type, inv |-> s]
<1>1. m \in Message /\ m.type = type /\ m.inv = s
  BY DEF Message
<1> HIDE DEF m
<1>2. << m >> \in Seq(Message) /\ Range(<< m >>) = {m}
  BY <1>1, SingletonSeq
<1>3. << >> \in Seq(Message) /\ Range(<< >>) = {}
  BY DEF Range
<1>4. Sent(n, p, type, s) = IF p \in Silent \/ s = << >> THEN << >> ELSE << m >>
  BY DEF Sent, m
<1>5. Range(s) \subseteq Named(<< m >>, type)
  BY <1>1, <1>2 DEF Named
<1>6. CASE p \in Silent \/ s = << >>
  BY <1>3, <1>4, <1>6
<1>7. CASE ~ (p \in Silent \/ s = << >>)
  BY <1>1, <1>2, <1>4, <1>5, <1>7
<1> QED
  BY <1>6, <1>7

(* SendMessages: what was to be asked for is asked for, or has come in.    *)
LEMMA SendMessagesKeepsInv ==
  ASSUME DownloadInv, NEW n \in Full, NEW p \in Neighbours[n], SendMessages(n, p)
  PROVE  DownloadInv'
<1> DEFINE c == peer[n][p]
           v == c.vInventoryToSend
           a == c.mapAskFor
           inv == Pick(v, {i \in DOMAIN v : /\ v[i] \notin c.setInventoryKnown
                                            /\ \A j \in 1 .. i - 1 : v[j] # v[i]})
           ask == Pick(a, {i \in DOMAIN a : ~ AlreadyHave(n, a[i])})
           t == msgs[n][p]
           invs == Sent(n, p, "inv", inv)
           asks == Sent(n, p, "getdata", ask)
           q == t \o invs \o asks
           d == [c EXCEPT !.setInventoryKnown = @ \cup Range(inv),
                          !.vInventoryToSend = << >>, !.mapAskFor = << >>]
           index == mapBlockIndex[n]
<1>1. /\ DownloadTypeOK /\ LinkInv /\ p \in Node /\ n \in Node /\ p \in up[n]
      /\ p \in Full => p \notin Silent
  BY NeighbourNodes, DownloadAssumption DEF DownloadInv, SendMessages
<1>2. /\ c \in CNode /\ v \in Seq(index) /\ a \in Seq(Block) /\ t \in Seq(Message)
      /\ index \in SUBSET Block
  BY <1>1 DEF DownloadTypeOK, LinkInv, CNode
<1>3. /\ msgs' = [msgs EXCEPT ![n][p] = q]
      /\ mapAlreadyAskedFor' = AskedFor(n, ask)
      /\ UNCHANGED <<chainVars, up, stuckVars>>
  BY DEF SendMessages
<1>4. peer' = [peer EXCEPT ![n][p] = d]
  BY <1>1 DEF SendMessages, DownloadTypeOK
<1>5. inv \in Seq(index) /\ inv \in Seq(Block)
  <2>1. inv \in Seq(index)
    <3> HIDE DEF v, c, index
    <3> QED
      BY <1>2, PickRange
  <2> HIDE DEF inv, index
  <2> QED
    BY <1>2, <2>1, SeqMonotonic
<1>6. ask \in Seq(Block) /\ Range(a) \subseteq Have(n) \cup Range(ask)
  <2> DEFINE D == {i \in DOMAIN a : ~ AlreadyHave(n, a[i])}
  <2>1. ask \in Seq(Block) /\ Range(ask) = {a[i] : i \in DOMAIN a \cap D}
    <3> HIDE DEF a
    <3> QED
      BY <1>2, PickRange
  <2> QED
    BY <2>1 DEF Range, AlreadyHave, Have
<1> HIDE DEF inv, ask
<1>7. /\ invs \in Seq(Message)
      /\ \A r \in Range(invs) : r.type = "inv" /\ r.inv = inv
      /\ p \notin Silent => Range(inv) \subseteq Named(invs, "inv")
  BY <1>5, SentNames
<1>8. /\ asks \in Seq(Message)
      /\ \A r \in Range(asks) : r.type = "getdata" /\ r.inv = ask
      /\ p \notin Silent => Range(ask) \subseteq Named(asks, "getdata")
  BY <1>6, SentNames
<1> HIDE DEF invs, asks
<1>9. q \in Seq(Message) /\ Range(q) = Range(t) \cup Range(invs) \cup Range(asks)
  <2> HIDE DEF t
  <2> DEFINE u == t \o invs
  <2>1. u \in Seq(Message) /\ Range(u) = Range(t) \cup Range(invs)
    BY <1>2, <1>7, ConcatProperties, RangeConcatenation
  <2>2. q = u \o asks
    BY DEF u
  <2> HIDE DEF u, q
  <2>3. u \o asks \in Seq(Message) /\ Range(u \o asks) = Range(u) \cup Range(asks)
    BY <1>8, <2>1, ConcatProperties, RangeConcatenation
  <2> QED
    BY <2>1, <2>2, <2>3
<1>10. /\ d \in CNode /\ d.vInventoryToSend = << >>
       /\ d.setInventoryKnown = c.setInventoryKnown \cup Range(inv)
       /\ d.mapAskFor = << >> /\ d.later = c.later
  <2>1. Range(inv) \subseteq Block
    BY <1>5, RangeOfSeq
  <2>2. << >> \in Seq(Block)
    OBVIOUS
  <2> HIDE DEF c
  <2> QED
    BY <1>2, <2>1, <2>2 DEF CNode
<1> HIDE DEF q, d
<1>11. d.vInventoryToSend \in Seq(index)
  BY <1>10
<1>12. p \in Full =>
         /\ Range(t) \subseteq Range(q)
         /\ \A r \in Range(q) : Honest(n, r)
         /\ Range(inv) \subseteq index \cap Named(q, "inv")
         /\ Range(ask) \subseteq Named(q, "getdata")
  <2>1. Range(inv) \subseteq index
    BY <1>5, RangeOfSeq
  <2>2. Named(invs, "inv") \subseteq Named(q, "inv")
    BY <1>9 DEF Named
  <2>3. Named(asks, "getdata") \subseteq Named(q, "getdata")
    BY <1>9 DEF Named
  <2>4. p \in Full => \A r \in Range(t) : Honest(n, r)
    BY <1>1 DEF LinkInv
  <2>5. \A r \in Range(invs) : Honest(n, r)
    BY <1>5, <1>7 DEF Honest
  <2>6. \A r \in Range(asks) : Honest(n, r)
    BY <1>8 DEF Honest
  <2> HIDE DEF t, index
  <2>7. p \in Full => \A r \in Range(q) : Honest(n, r)
    BY <1>9, <2>4, <2>5, <2>6
  <2> QED
    BY <1>1, <1>7, <1>8, <1>9, <2>1, <2>2, <2>3, <2>7
<1>13. Asked(n, p) \subseteq Have(n) \cup Range(ask) \cup d.later
  BY <1>6, <1>10 DEF Asked
<1>14. mapAlreadyAskedFor' \in [Full -> SUBSET Block]
  <2>1. Range(ask) \subseteq Block
    BY <1>6, RangeOfSeq
  <2> QED
    BY <1>1, <1>3, <2>1 DEF DownloadTypeOK, AskedFor
<1>15. SendStep(n, p, q, d)
  BY <1>1, <1>3, <1>4, <1>9, <1>10, <1>11, <1>12, <1>13, <1>14 DEF SendStep
<1> QED
  BY <1>15, SendKeepsInv

(* What is asked for again was asked for. *)
LEMMA AskAgainKeepsInv ==
  ASSUME DownloadInv, NEW n \in Full, NEW p \in Neighbours[n],
         NEW b \in Block, AskAgain(n, p, b)
  PROVE  DownloadInv'
<1> DEFINE c == peer[n][p]
           a == c.mapAskFor
           d == [c EXCEPT !.later = @ \ {b}, !.mapAskFor = Append(@, b)]
<1>1. DownloadTypeOK /\ LinkInv /\ p \in Node /\ n \in Node
  BY NeighbourNodes DEF DownloadInv
<1>2. /\ c \in CNode /\ c.vInventoryToSend \in Seq(mapBlockIndex[n])
      /\ a \in Seq(Block) /\ msgs[n][p] \in Seq(Message)
  BY <1>1 DEF DownloadTypeOK, LinkInv, CNode
<1>3. p \in up[n]
  <2>1. c # NewPeer
    BY DEF AskAgain, NewPeer
  <2> QED
    BY <1>1, <2>1 DEF LinkInv
<1>4. Append(a, b) \in Seq(Block) /\ Range(Append(a, b)) = Range(a) \cup {b}
  <2> HIDE DEF a
  <2> QED
    BY <1>2, RangeAppend
<1>5. /\ d \in CNode /\ d.vInventoryToSend = c.vInventoryToSend
      /\ d.setInventoryKnown = c.setInventoryKnown
      /\ d.later = c.later \ {b} /\ d.mapAskFor = Append(a, b)
  BY <1>2, <1>4 DEF CNode
<1>6. /\ peer' = [peer EXCEPT ![n][p] = d]
      /\ UNCHANGED <<chainVars, up, msgs, mapAlreadyAskedFor, stuckVars>>
  <2> DEFINE l == Append(a, b)
  <2>1. peer \in [Full -> [Node -> CNode]]
    BY <1>1 DEF DownloadTypeOK
  <2>2. peer' = [peer EXCEPT ![n][p].later = @ \ {b}, ![n][p].mapAskFor = l]
    BY <1>1, <2>1 DEF AskAgain, CNode
  <2> HIDE DEF l
  <2>3. [c EXCEPT !.later = @ \ {b}, !.mapAskFor = l] = d
    BY DEF l
  <2>4. peer' = [peer EXCEPT ![n][p] = [c EXCEPT !.later = @ \ {b}, !.mapAskFor = l]]
    BY <1>1, <2>1, <2>2
  <2> HIDE DEF d
  <2> QED
    BY <2>3, <2>4 DEF AskAgain
<1>7. msgs' = [msgs EXCEPT ![n][p] = msgs[n][p]]
  BY <1>1, <1>6 DEF DownloadTypeOK
<1> HIDE DEF d
<1>8. Asked(n, p) \subseteq Range(d.mapAskFor) \cup d.later
  BY <1>4, <1>5 DEF Asked
<1>9. p \in Full => \A r \in Range(msgs[n][p]) : Honest(n, r)
  BY <1>1 DEF LinkInv
<1>10. mapAlreadyAskedFor' \in [Full -> SUBSET Block]
  BY <1>1, <1>6 DEF DownloadTypeOK
<1>11. SendStep(n, p, msgs[n][p], d)
  BY <1>2, <1>3, <1>5, <1>6, <1>7, <1>8, <1>9, <1>10 DEF SendStep
<1> QED
  BY <1>11, SendKeepsInv

(* A peer that does not answer announces a block.                          *)
LEMMA AnnounceKeepsInv ==
  ASSUME DownloadInv, NEW n \in Full, NEW s \in Silent, NEW b \in Announcement,
         Announce(n, s, b)
  PROVE  DownloadInv'
<1>1. /\ DownloadTypeOK /\ TreeInv /\ LinkInv /\ FetchInv
      /\ s \in Node /\ n \in Node /\ s \notin Full /\ Full \subseteq Node /\ b \in Block
  BY DownloadAssumption DEF DownloadInv, Node
<1> DEFINE m == [type |-> "inv", inv |-> << b >>]
<1>2. << m >> \in Seq(Message)
  <2>1. << b >> \in Seq(Block)
    BY <1>1, SingletonSeq
  <2>2. m \in Message
    BY <2>1 DEF Message
  <2> HIDE DEF m
  <2> QED
    BY <2>2, SingletonSeq
<1>3. /\ msgs' = [msgs EXCEPT ![s][n] = << m >>]
      /\ UNCHANGED <<chainVars, up, peer, mapAlreadyAskedFor, stuckVars>>
  BY DEF Announce
<1> HIDE DEF m
<1>4. /\ msgs' \in [Node -> [Node -> Seq(Message)]]
      /\ \A x, y \in Full : msgs'[x][y] = msgs[x][y]
  BY <1>1, <1>2, <1>3 DEF DownloadTypeOK
<1>5. Grown /\ TreeInv' /\ mapBlockIndex' = mapBlockIndex
  BY <1>1, <1>3, SameBlocks DEF chainVars
<1>6. FetchInv'
  <2>1. \A x, y \in Full :
          /\ peer'[y][x].setInventoryKnown = peer[y][x].setInventoryKnown
          /\ Asked(x, y) \subseteq Asked(x, y)'
    BY <1>3 DEF Asked
  <2> QED
    BY <1>1, <1>4, <1>5, <2>1, OthersKeepFetched
<1>7. LinkInv'
  BY <1>1, <1>3, <1>4, <1>5 DEF LinkInv, Honest
<1>8. DownloadTypeOK'
  BY <1>1, <1>3, <1>4 DEF DownloadTypeOK, chainVars, stuckVars
<1> QED
  BY <1>5, <1>6, <1>7, <1>8 DEF DownloadInv

----------------------------------------------------------------------------
(* Connections *)

(* The node gives up on its peers, and later asks the next ones.           *)
LEMMA StuckKeepsInv ==
  ASSUME DownloadInv, NEW n \in Full, NetworkStuck(n) \/ WakeUp(n)
  PROVE  DownloadInv'
<1>1. /\ DownloadTypeOK /\ TreeInv /\ LinkInv /\ FetchInv
  BY DEF DownloadInv
<1>2. UNCHANGED <<chainVars, up, peer, msgs, mapAlreadyAskedFor, slots>>
  BY DEF NetworkStuck, WakeUp
<1>3. TreeInv' /\ LinkInv' /\ FetchInv'
  BY <1>1, <1>2 DEF TreeInv, LinkInv, FetchInv, Fetched, Honest, Have, UnderWay, Asked,
                    InFlight, BlocksInFlight, chainVars
<1>4. /\ nAskedForBlocks' \in [Full -> -3 .. 1] /\ asleep' \in [Full -> BOOLEAN]
      /\ toReconnect' \in [Full -> SUBSET Node]
      /\ \A x \in Full : toReconnect'[x] \subseteq Neighbours[x]
  <2>1. CASE NetworkStuck(n)
    BY <1>1, <2>1 DEF DownloadTypeOK, NetworkStuck
  <2>2. CASE WakeUp(n)
    BY <1>1, <2>2 DEF DownloadTypeOK, WakeUp, AskTheNext
  <2> QED
    BY <2>1, <2>2
<1>5. nCuts' \in 0 .. MaxCuts
  BY <1>1, DownloadAssumption DEF DownloadTypeOK, NetworkStuck, WakeUp
<1>6. DownloadTypeOK'
  BY <1>1, <1>2, <1>4, <1>5 DEF DownloadTypeOK, chainVars
<1> QED
  BY <1>3, <1>6 DEF DownloadInv

Ends(x, y, n, p) == (x = n /\ y = p) \/ (x = p /\ y = n)

(* A connection starts, or is over: both ends know nothing of each other,   *)
(* and nothing but a greeting is on its way.                               *)
FreshLink(n, p) ==
  /\ UNCHANGED <<chainVars, mapAlreadyAskedFor>>
  /\ peer' \in [Full -> [Node -> CNode]]
  /\ \A x \in Full, y \in Node :
       /\ Ends(x, y, n, p) => peer'[x][y] = NewPeer
       /\ ~ Ends(x, y, n, p) => peer'[x][y] = peer[x][y] /\ (y \in up'[x] <=> y \in up[x])
  /\ msgs' \in [Node -> [Node -> Seq(Message)]]
  /\ \A x, y \in Node :
       /\ Ends(x, y, n, p) => \A r \in Range(msgs'[x][y]) : r.type = "version"
       /\ ~ Ends(x, y, n, p) => msgs'[x][y] = msgs[x][y]
  /\ up' \in [Full -> SUBSET Node]
  /\ \A x \in Full : up'[x] \subseteq Neighbours[x]
  /\ \A x, y \in Full : y \in up'[x] <=> x \in up'[y]

(* A connection that starts or is over takes its announcements with it.    *)
LEMMA FreshLinkKeepsInv ==
  ASSUME DownloadInv, NEW n \in Full, NEW p \in Neighbours[n], FreshLink(n, p),
         toReconnect' \in [Full -> SUBSET Node],
         \A x \in Full : toReconnect'[x] \subseteq Neighbours[x],
         slots' \in [Full -> SUBSET Node], \A x \in Full : slots'[x] \subseteq up'[x],
         nCuts' \in 0 .. MaxCuts, UNCHANGED <<nAskedForBlocks, asleep>>
  PROVE  DownloadInv'
<1> USE DEF FreshLink
<1>1. DownloadTypeOK /\ TreeInv /\ LinkInv /\ FetchInv /\ Full \subseteq Node
  BY NeighbourNodes DEF DownloadInv
<1>2. Grown /\ TreeInv' /\ mapBlockIndex' = mapBlockIndex
  BY <1>1, SameBlocks DEF chainVars
<1>3. LinkInv'
  <2>0. \A x \in Full, y \in Node : Ends(x, y, n, p) => peer'[x][y] = NewPeer
    OBVIOUS
  <2>1. ASSUME NEW x \in Full, NEW y \in Node, y \notin up'[x] PROVE peer'[x][y] = NewPeer
    <3>1. CASE Ends(x, y, n, p)
      BY <2>0, <3>1
    <3>2. CASE ~ Ends(x, y, n, p)
      <4>1. peer'[x][y] = peer[x][y] /\ (y \in up'[x] <=> y \in up[x])
        BY <3>2
      <4>2. y \notin up[x]
        BY <2>1, <4>1
      <4>3. peer[x][y] = NewPeer
        BY <1>1, <4>2 DEF LinkInv
      <4> QED
        BY <4>1, <4>3
    <3> QED
      BY <3>1, <3>2
  <2>2. ASSUME NEW x \in Full, NEW y \in Node
        PROVE  peer'[x][y].vInventoryToSend \in Seq(mapBlockIndex'[x])
    <3>1. NewPeer.vInventoryToSend = << >>
      BY DEF NewPeer
    <3>2. CASE Ends(x, y, n, p)
      <4>1. peer'[x][y].vInventoryToSend = << >>
        BY <2>0, <3>1, <3>2
      <4>2. << >> \in Seq(mapBlockIndex'[x])
        OBVIOUS
      <4> QED
        BY <4>1, <4>2
    <3>3. CASE ~ Ends(x, y, n, p)
      BY <1>1, <1>2, <3>3 DEF LinkInv
    <3> QED
      BY <3>2, <3>3
  <2>3. ASSUME NEW x \in Full, NEW y \in Full, NEW m \in Range(msgs'[x][y])
        PROVE  Honest(x, m)'
    <3>1. CASE Ends(x, y, n, p)
      <4>1. m.type = "version"
        BY <1>1, <2>3, <3>1
      <4> QED
        BY <4>1 DEF Honest
    <3>2. CASE ~ Ends(x, y, n, p)
      BY <1>1, <1>2, <2>3, <3>2 DEF LinkInv, Honest
    <3> QED
      BY <3>1, <3>2
  <2> QED
    BY <2>1, <2>2, <2>3 DEF LinkInv
<1>4. ASSUME NEW x \in Full, NEW y \in Full PROVE Fetched(x, y)'
  <2>1. CASE Ends(x, y, n, p)
    <3>1. Ends(y, x, n, p)
      BY <2>1 DEF Ends
    <3>2. peer'[y][x] = NewPeer
      BY <1>1, <3>1
    <3>3. NewPeer.setInventoryKnown = {}
      BY DEF NewPeer
    <3> QED
      BY <3>2, <3>3 DEF Fetched
  <2>2. CASE ~ Ends(x, y, n, p)
    <3>1. ~ Ends(y, x, n, p)
      BY <2>2 DEF Ends
    <3>2. peer'[y][x] = peer[y][x] /\ peer'[x][y] = peer[x][y]
      BY <1>1, <2>2, <3>1
    <3>3. msgs'[y][x] = msgs[y][x] /\ msgs'[x][y] = msgs[x][y]
      BY <1>1, <2>2, <3>1
    <3>4. UnderWay(x, y)' = UnderWay(x, y)
      BY <3>2, <3>3 DEF UnderWay, Asked, InFlight, BlocksInFlight
    <3>5. Fetched(x, y)
      BY <1>1 DEF FetchInv
    <3> QED
      BY <1>2, <3>2, <3>4, <3>5 DEF Fetched, Grown
  <2> QED
    BY <2>1, <2>2
<1>5. FetchInv'
  BY <1>4 DEF FetchInv
<1>6. DownloadTypeOK'
  BY <1>1 DEF DownloadTypeOK, chainVars
<1> QED
  BY <1>2, <1>3, <1>5, <1>6 DEF DownloadInv

LEMMA NewPeerType == NewPeer \in CNode
BY DEF NewPeer, CNode

(* A connection starts.                                                    *)
LEMMA ConnectKeepsInv ==
  ASSUME DownloadInv, NEW n \in Full, NEW p \in Neighbours[n], Connect(n, p)
  PROVE  DownloadInv'
<1>1. /\ DownloadTypeOK /\ LinkInv /\ Full \subseteq Node
      /\ n \in Node /\ p \in Node /\ p # n /\ (p \in Full => n \in Neighbours[p])
  BY NeighbourNodes DEF DownloadInv
<1>2. /\ p \notin up[n]
      /\ up' = [m \in Full |-> IF m = n THEN up[m] \cup {p}
                               ELSE IF m = p THEN up[m] \cup {n} ELSE up[m]]
      /\ msgs' = [msgs EXCEPT ![p][n] = Hello, ![n][p] = IF p \in Silent THEN << >> ELSE Hello]
      /\ \/ slots' = [slots EXCEPT ![n] = @ \cup {p}]
         \/ UNCHANGED slots
      /\ UNCHANGED <<chainVars, peer, mapAlreadyAskedFor, nAskedForBlocks, toReconnect,
                     asleep, nCuts>>
  BY DEF Connect
<1>3. Hello \in Seq(Message) /\ \A r \in Range(Hello) : r.type = "version"
  <2> DEFINE m == [type |-> "version"]
  <2>1. m \in Message /\ m.type = "version"
    BY DEF Message
  <2> HIDE DEF m
  <2>2. << m >> \in Seq(Message) /\ Range(<< m >>) = {m}
    BY <2>1, SingletonSeq
  <2> QED
    BY <2>1, <2>2 DEF Hello, m
<1>4. << >> \in Seq(Message) /\ Range(<< >>) = {}
  BY DEF Range
<1> DEFINE h == IF p \in Silent THEN << >> ELSE Hello
<1>5. h \in Seq(Message) /\ \A r \in Range(h) : r.type = "version"
  BY <1>3, <1>4
<1> HIDE DEF h
<1>6. msgs' = [msgs EXCEPT ![p][n] = Hello, ![n][p] = h]
  BY <1>2 DEF h
<1>7. /\ msgs' \in [Node -> [Node -> Seq(Message)]]
      /\ msgs'[p][n] = Hello /\ msgs'[n][p] = h
      /\ \A x, y \in Node :
           <<x, y>> # <<n, p>> /\ <<x, y>> # <<p, n>> => msgs'[x][y] = msgs[x][y]
  BY <1>1, <1>3, <1>5, <1>6 DEF DownloadTypeOK
<1>8. \A x, y \in Node :
        /\ Ends(x, y, n, p) => \A r \in Range(msgs'[x][y]) : r.type = "version"
        /\ ~ Ends(x, y, n, p) => msgs'[x][y] = msgs[x][y]
  BY <1>3, <1>5, <1>7 DEF Ends
<1>9. /\ up' \in [Full -> SUBSET Node]
      /\ \A x \in Full : up'[x] \subseteq Neighbours[x]
      /\ \A x, y \in Full : y \in up'[x] <=> x \in up'[y]
      /\ \A x \in Full, y \in Node : ~ Ends(x, y, n, p) => (y \in up'[x] <=> y \in up[x])
  <2>1. /\ up \in [Full -> SUBSET Node] /\ \A x \in Full : up[x] \subseteq Neighbours[x]
        /\ \A x, y \in Full : y \in up[x] <=> x \in up[y]
    BY <1>1 DEF DownloadTypeOK
  <2>2. \A x \in Full, y \in Node : y \in up'[x] <=> (y \in up[x] \/ Ends(x, y, n, p))
    BY <1>1, <1>2, <2>1 DEF Ends
  <2>3. up' \in [Full -> SUBSET Node]
    BY <1>1, <1>2, <2>1
  <2>4. \A x \in Full : up'[x] \subseteq Neighbours[x]
    BY <1>1, <1>2, <2>1
  <2>5. \A x, y \in Full : y \in up'[x] <=> x \in up'[y]
    BY <1>1, <2>1, <2>2 DEF Ends
  <2> QED
    BY <2>2, <2>3, <2>4, <2>5
<1>10. peer \in [Full -> [Node -> CNode]] /\ peer' = peer
  BY <1>1, <1>2 DEF DownloadTypeOK
<1>11. \A x \in Full, y \in Node : Ends(x, y, n, p) => peer[x][y] = NewPeer
  <2>1. peer[n][p] = NewPeer
    BY <1>1, <1>2 DEF LinkInv
  <2>2. p \in Full => peer[p][n] = NewPeer
    <3>1. p \in Full => n \notin up[p]
      BY <1>1, <1>2 DEF DownloadTypeOK
    <3> QED
      BY <1>1, <3>1 DEF LinkInv
  <2> QED
    BY <2>1, <2>2 DEF Ends
<1>12. FreshLink(n, p)
  <2>1. \A x \in Full, y \in Node :
          /\ Ends(x, y, n, p) => peer'[x][y] = NewPeer
          /\ ~ Ends(x, y, n, p) => peer'[x][y] = peer[x][y] /\ (y \in up'[x] <=> y \in up[x])
    BY <1>9, <1>10, <1>11
  <2>2. UNCHANGED <<chainVars, mapAlreadyAskedFor>>
    BY <1>2
  <2> QED
    BY <1>7, <1>8, <1>9, <1>10, <2>1, <2>2 DEF FreshLink
<1>13. /\ toReconnect' \in [Full -> SUBSET Node]
       /\ \A x \in Full : toReconnect'[x] \subseteq Neighbours[x]
       /\ nCuts' \in 0 .. MaxCuts /\ UNCHANGED <<nAskedForBlocks, asleep>>
  BY <1>1, <1>2 DEF DownloadTypeOK
<1>14. slots' \in [Full -> SUBSET Node] /\ \A x \in Full : slots'[x] \subseteq up'[x]
  <2>1. slots \in [Full -> SUBSET Node] /\ \A x \in Full : slots[x] \subseteq up[x]
    BY <1>1 DEF DownloadTypeOK
  <2>2. p \in up'[n] /\ \A x \in Full : up[x] \subseteq up'[x]
    BY <1>2
  <2> QED
    BY <1>1, <1>2, <2>1, <2>2
<1> QED
  BY <1>12, <1>13, <1>14, FreshLinkKeepsInv

(* A connection is closed at both ends.                                    *)
LEMMA ClosedFresh ==
  ASSUME DownloadInv, NEW n \in Full, NEW p \in Neighbours[n], Closed(n, p),
         UNCHANGED <<chainVars, mapAlreadyAskedFor>>
  PROVE  FreshLink(n, p)
<1>1. /\ DownloadTypeOK /\ LinkInv /\ Full \subseteq Node
      /\ n \in Node /\ p \in Node /\ p # n /\ (p \in Full => n \in Neighbours[p])
  BY NeighbourNodes DEF DownloadInv
<1>2. /\ up' = [m \in Full |-> IF m = n THEN up[m] \ {p}
                               ELSE IF m = p THEN up[m] \ {n} ELSE up[m]]
      /\ msgs' = [msgs EXCEPT ![p][n] = << >>, ![n][p] = << >>]
      /\ peer' = [m \in Full |-> [q \in Node |->
                    IF {m, q} = {n, p} THEN NewPeer ELSE peer[m][q]]]
  BY DEF Closed
<1>3. << >> \in Seq(Message) /\ Range(<< >>) = {}
  BY DEF Range
<1>4. /\ msgs' \in [Node -> [Node -> Seq(Message)]]
      /\ msgs'[p][n] = << >> /\ msgs'[n][p] = << >>
      /\ \A x, y \in Node :
           <<x, y>> # <<n, p>> /\ <<x, y>> # <<p, n>> => msgs'[x][y] = msgs[x][y]
  BY <1>1, <1>2, <1>3 DEF DownloadTypeOK
<1>5. \A x, y \in Node :
        /\ Ends(x, y, n, p) => \A r \in Range(msgs'[x][y]) : r.type = "version"
        /\ ~ Ends(x, y, n, p) => msgs'[x][y] = msgs[x][y]
  BY <1>3, <1>4 DEF Ends
<1>6. /\ up' \in [Full -> SUBSET Node]
      /\ \A x \in Full : up'[x] \subseteq Neighbours[x]
      /\ \A x, y \in Full : y \in up'[x] <=> x \in up'[y]
      /\ \A x \in Full, y \in Node : ~ Ends(x, y, n, p) => (y \in up'[x] <=> y \in up[x])
  <2>1. /\ up \in [Full -> SUBSET Node] /\ \A x \in Full : up[x] \subseteq Neighbours[x]
        /\ \A x, y \in Full : y \in up[x] <=> x \in up[y]
    BY <1>1 DEF DownloadTypeOK
  <2>2. \A x \in Full, y \in Node : y \in up'[x] <=> (y \in up[x] /\ ~ Ends(x, y, n, p))
    BY <1>1, <1>2, <2>1 DEF Ends
  <2>3. up' \in [Full -> SUBSET Node]
    BY <1>1, <1>2, <2>1
  <2>4. \A x \in Full : up'[x] \subseteq Neighbours[x]
    BY <1>1, <1>2, <2>1
  <2>5. \A x, y \in Full : y \in up'[x] <=> x \in up'[y]
    BY <1>1, <2>1, <2>2 DEF Ends
  <2> QED
    BY <2>2, <2>3, <2>4, <2>5
<1>7. peer' \in [Full -> [Node -> CNode]]
  BY <1>1, <1>2, NewPeerType DEF DownloadTypeOK
<1>8. \A x \in Full, y \in Node :
        /\ Ends(x, y, n, p) => peer'[x][y] = NewPeer
        /\ ~ Ends(x, y, n, p) => peer'[x][y] = peer[x][y]
  <2>1. \A x \in Full, y \in Node :
          peer'[x][y] = IF {x, y} = {n, p} THEN NewPeer ELSE peer[x][y]
    BY <1>2
  <2>2. ASSUME NEW x \in Full, NEW y \in Node
        PROVE  {x, y} = {n, p} <=> Ends(x, y, n, p)
    BY DEF Ends
  <2> QED
    BY <2>1, <2>2
<1> QED
  BY <1>4, <1>5, <1>6, <1>7, <1>8 DEF FreshLink

(* A connection that is closed gives its slot back.                        *)
LEMMA ClosedSlots ==
  ASSUME DownloadTypeOK, NEW n \in Full, NEW p, Closed(n, p)
  PROVE  slots' \in [Full -> SUBSET Node] /\ \A x \in Full : slots'[x] \subseteq up'[x]
BY DEF DownloadTypeOK, Closed

(* A connection breaks.                                                    *)
LEMMA CutKeepsInv ==
  ASSUME DownloadInv, NEW n \in Full, NEW p \in Neighbours[n], Cut(n, p)
  PROVE  DownloadInv'
<1>1. DownloadTypeOK
  BY DEF DownloadInv
<1>2. FreshLink(n, p)
  BY ClosedFresh DEF Cut
<1>3. /\ toReconnect' \in [Full -> SUBSET Node]
      /\ \A x \in Full : toReconnect'[x] \subseteq Neighbours[x]
      /\ UNCHANGED <<nAskedForBlocks, asleep>>
  BY <1>1 DEF DownloadTypeOK, Cut
<1>4. nCuts' \in 0 .. MaxCuts
  BY <1>1, DownloadAssumption DEF DownloadTypeOK, Cut
<1>5. slots' \in [Full -> SUBSET Node] /\ \A x \in Full : slots'[x] \subseteq up'[x]
  BY <1>1, ClosedSlots DEF Cut
<1> QED
  BY <1>2, <1>3, <1>4, <1>5, FreshLinkKeepsInv

(* A connection is closed for the node's own reasons.                      *)
LEMMA ReconnectKeepsInv ==
  ASSUME DownloadInv, NEW n \in Full, NEW p \in Neighbours[n], Reconnect(n, p)
  PROVE  DownloadInv'
<1>1. DownloadTypeOK /\ TreeInv /\ LinkInv /\ FetchInv
  BY DEF DownloadInv
<1>2. /\ toReconnect' \in [Full -> SUBSET Node]
      /\ \A x \in Full : toReconnect'[x] \subseteq Neighbours[x]
      /\ UNCHANGED <<chainVars, mapAlreadyAskedFor, nAskedForBlocks, asleep, nCuts>>
  BY <1>1 DEF DownloadTypeOK, Reconnect
<1>3. nCuts' \in 0 .. MaxCuts
  BY <1>1, <1>2 DEF DownloadTypeOK
<1>4. CASE p \in up[n]
  <2>1. FreshLink(n, p)
    BY <1>2, <1>4, ClosedFresh DEF Reconnect
  <2>2. slots' \in [Full -> SUBSET Node] /\ \A x \in Full : slots'[x] \subseteq up'[x]
    BY <1>1, <1>4, ClosedSlots DEF Reconnect
  <2> QED
    BY <1>2, <1>3, <2>1, <2>2, FreshLinkKeepsInv
<1>5. CASE p \notin up[n]
  <2>1. UNCHANGED <<up, msgs, peer, slots>>
    BY <1>5 DEF Reconnect
  <2>2. TreeInv' /\ LinkInv' /\ FetchInv'
    BY <1>1, <1>2, <2>1 DEF TreeInv, LinkInv, FetchInv, Fetched, Honest, Have, UnderWay, Asked,
                            InFlight, BlocksInFlight, chainVars
  <2>3. DownloadTypeOK'
    BY <1>1, <1>2, <2>1 DEF DownloadTypeOK, chainVars
  <2> QED
    BY <2>2, <2>3 DEF DownloadInv
<1> QED
  BY <1>4, <1>5

----------------------------------------------------------------------------
(* The specification *)

(* The invariant holds when the nodes start.                               *)
LEMMA InitInv == DownloadInit => DownloadInv
<1> SUFFICES ASSUME DownloadInit PROVE DownloadInv
  OBVIOUS
<1> USE DEF DownloadInit
<1>1. \A n \in Full : Initial[n] \in Block /\ Chain[Initial[n]] \subseteq Block
  BY DownloadAssumption, ChainEnds
<1>2. << >> \in Seq(Message) /\ Range(<< >>) = {}
  BY DEF Range
<1>3. DownloadTypeOK
  <2>1. /\ mapBlockIndex \in [Full -> SUBSET Block]
        /\ mapOrphanBlocks \in [Full -> SUBSET Block]
        /\ pindexBest \in [Full -> Block]
        /\ \A n \in Full : /\ Chain[pindexBest[n]] \subseteq mapBlockIndex[n]
                           /\ mapOrphanBlocks[n] \cap mapBlockIndex[n] = {}
    BY <1>1, DownloadAssumption
  <2>2. /\ up \in [Full -> SUBSET Node] /\ toReconnect \in [Full -> SUBSET Node]
        /\ \A n \in Full : up[n] \cup toReconnect[n] \subseteq Neighbours[n]
        /\ \A n, p \in Full : p \in up[n] <=> n \in up[p]
        /\ slots \in [Full -> SUBSET Node] /\ \A n \in Full : slots[n] \subseteq up[n]
    OBVIOUS
  <2>3. peer \in [Full -> [Node -> CNode]]
    BY NewPeerType
  <2>4. msgs \in [Node -> [Node -> Seq(Message)]]
    BY <1>2
  <2>5. /\ mapAlreadyAskedFor \in [Full -> SUBSET Block]
        /\ nAskedForBlocks \in [Full -> -3 .. 1] /\ asleep \in [Full -> BOOLEAN]
        /\ nCuts \in 0 .. MaxCuts
    BY DownloadAssumption
  <2> QED
    BY <2>1, <2>2, <2>3, <2>4, <2>5 DEF DownloadTypeOK
<1>4. TreeInv
  BY <1>1, ChainClosed DEF TreeInv
<1>5. \A n \in Full, p \in Node : peer[n][p] = NewPeer
  OBVIOUS
<1>6. LinkInv
  <2>1. NewPeer.vInventoryToSend = << >>
    BY DEF NewPeer
  <2>2. \A n, p \in Full : Range(msgs[n][p]) = {}
    <3>1. \A n, p \in Node : msgs[n][p] = << >>
      OBVIOUS
    <3>2. Full \subseteq Node
      BY DEF Node
    <3> QED
      BY <1>2, <3>1, <3>2
  <2>3. ASSUME NEW n \in Full, NEW p \in Node
        PROVE  peer[n][p].vInventoryToSend \in Seq(mapBlockIndex[n])
    <3>1. peer[n][p].vInventoryToSend = << >>
      BY <1>5, <2>1
    <3>2. << >> \in Seq(mapBlockIndex[n])
      OBVIOUS
    <3> QED
      BY <3>1, <3>2
  <2> QED
    BY <1>5, <2>2, <2>3 DEF LinkInv
<1>7. FetchInv
  <2>1. NewPeer.setInventoryKnown = {}
    BY DEF NewPeer
  <2> QED
    BY <1>5, <2>1 DEF FetchInv, Fetched, Node
<1> QED
  BY <1>3, <1>4, <1>6, <1>7 DEF DownloadInv

(* The invariant is kept by every step.                                    *)
LEMMA StepInv == DownloadInv /\ [DownloadNext]_downloadVars => DownloadInv'
<1> SUFFICES ASSUME DownloadInv, [DownloadNext]_downloadVars PROVE DownloadInv'
  OBVIOUS
<1>1. CASE UNCHANGED downloadVars
  BY <1>1 DEF DownloadInv, DownloadTypeOK, TreeInv, LinkInv, FetchInv, Fetched, Honest, Have,
              UnderWay, Asked, InFlight, BlocksInFlight, downloadVars, chainVars, stuckVars
<1>2. CASE DownloadNext
  <2>1. PICK n \in Full :
          \/ NetworkStuck(n) \/ WakeUp(n)
          \/ \E s \in Silent, b \in Announcement : Announce(n, s, b)
          \/ \E p \in Neighbours[n] :
               \/ Connect(n, p) \/ Cut(n, p) \/ Reconnect(n, p)
               \/ Handle(n, p) \/ SendMessages(n, p)
               \/ \E b \in Block : AskAgain(n, p, b)
    BY <1>2 DEF DownloadNext
  <2>2. CASE NetworkStuck(n) \/ WakeUp(n)
    BY <2>2, StuckKeepsInv
  <2>3. CASE \E s \in Silent, b \in Announcement : Announce(n, s, b)
    BY <2>3, AnnounceKeepsInv
  <2>4. ASSUME NEW p \in Neighbours[n], Connect(n, p) PROVE DownloadInv'
    BY <2>4, ConnectKeepsInv
  <2>5. ASSUME NEW p \in Neighbours[n], Cut(n, p) PROVE DownloadInv'
    BY <2>5, CutKeepsInv
  <2>6. ASSUME NEW p \in Neighbours[n], Reconnect(n, p) PROVE DownloadInv'
    BY <2>6, ReconnectKeepsInv
  <2>7. ASSUME NEW p \in Neighbours[n], Handle(n, p) PROVE DownloadInv'
    BY <2>7, VersionKeepsInv, InvKeepsInv, GetDataKeepsInv, GetBlocksHandlerKeepsInv,
       AcceptedBlockKeepsInv, OrphanBlockKeepsInv, KnownBlockKeepsInv DEF Handle
  <2>8. ASSUME NEW p \in Neighbours[n], SendMessages(n, p) PROVE DownloadInv'
    BY <2>8, SendMessagesKeepsInv
  <2>9. ASSUME NEW p \in Neighbours[n], NEW b \in Block, AskAgain(n, p, b) PROVE DownloadInv'
    BY <2>9, AskAgainKeepsInv
  <2> QED
    BY <2>1, <2>2, <2>3, <2>4, <2>5, <2>6, <2>7, <2>8, <2>9
<1> QED
  BY <1>1, <1>2

(* The inductive invariant: the tree, the connections, what is announced.  *)
LEMMA DownloadInvHolds == DownloadSpec => []DownloadInv
<1>1. DownloadInit => DownloadInv
  BY InitInv
<1>2. DownloadInv /\ [DownloadNext]_downloadVars => DownloadInv'
  BY StepInv
<1> QED
  BY <1>1, <1>2, PTL DEF DownloadSpec

(* The node's view of blocks, peers and messages keeps its shape: the best  *)
(* chain is indexed, a block is an orphan or indexed and never both, and    *)
(* both ends agree whether they are connected.                             *)
THEOREM DownloadTypes == DownloadSpec => []DownloadTypeOK
<1>1. DownloadInv => DownloadTypeOK
  BY DEF DownloadInv
<1> QED
  BY <1>1, DownloadInvHolds, PTL

(* AlreadyHave, AskFor and setInventoryKnown: what a peer has announced the *)
(* node has, or it is asked for or will be, whichever peers were asked      *)
(* first and whatever connections broke.                                   *)
THEOREM NoAnnouncementIsLost == DownloadSpec => []AnnouncedIsFetched
<1>1. DownloadInv => AnnouncedIsFetched
  BY DEF DownloadInv, FetchInv, Fetched, AnnouncedIsFetched, AlreadyHave, Have, UnderWay, Asked
<1> QED
  BY <1>1, DownloadInvHolds, PTL

(* ProcessBlock: when a block comes in, all the orphan blocks above it are  *)
(* accepted with it, so none is left that waits for nothing.               *)
THEOREM OrphansWait == DownloadSpec => []OrphansLackParent
<1>1. DownloadInv => OrphansLackParent
  BY DEF DownloadInv, TreeInv, OrphansLackParent
<1> QED
  BY <1>1, DownloadInvHolds, PTL

=============================================================================
