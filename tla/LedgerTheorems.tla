-------------------------- MODULE LedgerTheorems --------------------------
(***************************************************************************)
(* The operators of BestChain on the transaction index and on the pnext    *)
(* pointers, taken one call at a time: connecting the next block turns the *)
(* replay of a valid chain into the replay of the longer chain, which is   *)
(* valid, and disconnecting the last block undoes exactly that.            *)
(***************************************************************************)
EXTENDS BestChain, BlockTreeTheorems

(* FreshInValidChain for a block that ConnectInputs lets through: the first *)
(* of its transactions that is on the chain already would need an input     *)
(* that its earlier instance spent, and the block cannot have created that  *)
(* again.                                                                   *)
LEMMA FreshIfConnected ==
  ASSUME NEW b \in Block \ {Genesis}, NEW ix \in [Tx -> CTxIndex],
         pprev[b] \in ValidChain, IsReplay(ix, pprev[b]), ConnectBlock(ix, b),
         NEW t \in BlockTxs(b), NEW x \in Connected(pprev[b])
  PROVE  t \notin BlockTxs(x) /\ t \notin SpentBy(x)
<1>1. Connected(b) = Connected(pprev[b]) \cup {b} /\ b \notin Connected(pprev[b])
      /\ pprev[b] \in Block
  BY ConnectedGrows
<1>2. vtx[b] \in Seq(Tx) /\ vin \in [Tx -> SUBSET Tx]
  BY TransactionAssumption
<1> DEFINE Again(i) == \E y \in Connected(pprev[b]) : vtx[b][i] \in BlockTxs(y)
<1> DEFINE T == {i \in DOMAIN vtx[b] : Again(i)}
<1>3. ASSUME NEW i \in T, \A j \in T : ~ (j < i)
      PROVE  FALSE
  <2>1. PICK y \in Connected(pprev[b]) : vtx[b][i] \in BlockTxs(y)
    BY <1>3
  <2>2. i \in DOMAIN vtx[b] /\ vtx[b][i] \in BlockTxs(b)
    BY <1>3 DEF BlockTxs
  <2>3. PICK u \in vin[vtx[b][i]] : TRUE
    BY <1>1, <2>1, <2>2, HeightInCoinbase
  <2>4. u \in SpentBy(y) /\ u \in Tx
    BY <1>2, <2>1, <2>2, <2>3 DEF SpentBy
  <2>5. PICK z \in Connected(pprev[b]) : u \in BlockTxs(z)
    BY <2>4, SpentWasCreated
  <2>6. ASSUME NEW j \in 1..(i - 1), vtx[b][j] = u
        PROVE  FALSE
    <3>1. j \in DOMAIN vtx[b] /\ j < i
      BY <1>2, <2>2
    <3>2. j \in T
      BY <2>5, <2>6, <3>1
    <3> QED
      BY <1>3, <3>1, <3>2
  <2>7. Spendable(ix, u)
    BY <2>2, <2>3, <2>6 DEF ConnectBlock, InputsConnect
  <2>8. ix[u].vSpent = y /\ y # NoBlock
    BY <1>1, <2>4, ChainEnds, BlockTreeAssumption DEF IsReplay, Connected
  <2> QED
    BY <2>7, <2>8 DEF Spendable
<1>4. T = {}
  <2>1. SUFFICES ASSUME T # {} PROVE FALSE
    OBVIOUS
  <2>2. T \subseteq Nat
    BY <1>2
  <2>3. PICK h \in T : \A n \in T : ~ (<<n, h>> \in OpToRel(<, Nat))
    <3>1. IsWellFoundedOn(OpToRel(<, Nat), Nat)
      BY NatLessThanWellFounded
    <3> HIDE DEF T
    <3> QED
      BY <2>1, <2>2, <3>1, WFMin
  <2>4. \A n \in T : ~ (n < h)
    <3> HIDE DEF T
    <3> QED
      BY <2>2, <2>3 DEF OpToRel
  <2> QED
    BY <1>3, <2>4
<1>5. \A y \in Connected(pprev[b]) : t \notin BlockTxs(y)
  BY <1>4 DEF BlockTxs
<1> QED
  BY <1>5, SpentWasCreated

----------------------------------------------------------------------------
(* Connecting keeps the records well typed, and so does disconnecting. *)
LEMMA IndexTypes ==
  ASSUME NEW b \in Block, NEW ix \in [Tx -> CTxIndex]
  PROVE  /\ ConnectIndex(ix, b) \in [Tx -> CTxIndex]
         /\ DisconnectIndex(ix, b) \in [Tx -> CTxIndex]
<1>1. \A t \in Tx : ix[t].pos \in Block \cup {NoBlock} /\ ix[t].vSpent \in Block \cup {NoBlock}
  BY DEF CTxIndex
<1>2. ConnectIndex(ix, b) \in [Tx -> CTxIndex]
  BY <1>1 DEF ConnectIndex, CTxIndex
<1>3. ASSUME NEW t \in Tx
      PROVE  [ix[t] EXCEPT !.vSpent = NoBlock] \in CTxIndex
  BY DEF CTxIndex
<1>4. DisconnectIndex(ix, b) \in [Tx -> CTxIndex]
  BY <1>3 DEF DisconnectIndex, NoRecord, CTxIndex
<1> QED
  BY <1>2, <1>4

(* Connecting the block after a valid chain: the longer chain is valid. *)
LEMMA ConnectValid ==
  ASSUME NEW b \in Block \ {Genesis}, NEW ix \in [Tx -> CTxIndex],
         pprev[b] \in ValidChain, IsReplay(ix, pprev[b]), ConnectBlock(ix, b)
  PROVE  b \in ValidChain
<1>1. Connected(b) = Connected(pprev[b]) \cup {b} /\ b \notin Connected(pprev[b])
      /\ pprev[b] \in Block
  BY ConnectedGrows
<1>2. SUFFICES ValidBlock(b)
  BY <1>1 DEF ValidChain
<1>3. SUFFICES ASSUME NEW i \in DOMAIN vtx[b], NEW t \in vin[vtx[b][i]]
               PROVE  /\ CreatedBefore(b, i, t)
                      /\ ~ SpentBefore(b, i, t)
                      /\ t \in Generated => Mature(b, t)
  BY DEF ValidBlock, ConnectBlock
<1> DEFINE queued == \E j \in 1..(i - 1) : vtx[b][j] = t
<1>4. vtx[b] \in Seq(Tx) /\ vin \in [Tx -> SUBSET Tx]
  BY TransactionAssumption
<1>5. i \in 1..Len(vtx[b]) /\ vtx[b][i] \in Tx /\ t \in Tx
  BY <1>4
<1>6. /\ queued \/ Spendable(ix, t)
      /\ \A j \in 1..(i - 1) : t \notin vin[vtx[b][j]]
      /\ t \in Generated => ~ TooYoung(b, IF queued THEN b ELSE ix[t].pos)
  BY DEF ConnectBlock, InputsConnect
<1>7. queued => t \in BlockTxs(b)
  BY <1>4, <1>5 DEF BlockTxs
<1>8. /\ ix[t].pos \in Connected(pprev[b]) \cup {NoBlock}
      /\ \A x \in Connected(pprev[b]) : /\ t \in BlockTxs(x) <=> ix[t].pos = x
                                        /\ t \in SpentBy(x) <=> ix[t].vSpent = x
  BY <1>5 DEF IsReplay
<1>9. \A x \in Connected(b) : x \in Block /\ x # NoBlock
  BY ChainEnds, BlockTreeAssumption DEF Connected
<1>10. ~ queued => /\ ix[t].pos \in Connected(pprev[b])
                   /\ t \in BlockTxs(ix[t].pos)
                   /\ ix[t].vSpent = NoBlock
                   /\ t \notin BlockTxs(b)
  <2>1. ~ queued => /\ ix[t].pos \in Connected(pprev[b])
                    /\ t \in BlockTxs(ix[t].pos)
                    /\ ix[t].vSpent = NoBlock
    BY <1>6, <1>8 DEF Spendable
  <2> QED
    BY <2>1, FreshIfConnected
<1>11. CreatedBefore(b, i, t)
  BY <1>10 DEF CreatedBefore
<1>12. ~ SpentBefore(b, i, t)
  <2>1. SUFFICES ASSUME NEW x \in Connected(pprev[b]), t \in SpentBy(x) PROVE FALSE
    BY <1>6 DEF SpentBefore
  <2>2. ix[t].vSpent = x /\ x # NoBlock
    BY <2>1, <1>1, <1>8, <1>9
  <2> QED
    BY <2>1, <2>2, <1>7, <1>10, FreshIfConnected
<1>13. ASSUME t \in Generated
       PROVE  Mature(b, t)
  <2>1. SUFFICES ASSUME NEW y \in Connected(b), t \in BlockTxs(y)
                 PROVE  nHeight[b] - nHeight[y] >= nCoinbaseMaturity
    BY DEF Mature
  <2>2. y = (IF queued THEN b ELSE ix[t].pos)
    <3>1. CASE queued
      BY <3>1, <2>1, <1>1, <1>7, FreshIfConnected
    <3>2. CASE ~ queued
      BY <3>2, <2>1, <1>1, <1>8, <1>10
    <3> QED
      BY <3>1, <3>2
  <2>3. ~ TooYoung(b, y)
    BY <1>6, <1>13, <2>2
  <2>4. y \in Chain[b] /\ ~ (nHeight[b] - nHeight[y] < nCoinbaseMaturity)
    BY <2>3 DEF TooYoung, Connected
  <2>5. nHeight[b] \in Nat /\ nHeight[y] \in Nat /\ nCoinbaseMaturity \in Nat
    BY <1>9, BlockTreeAssumption, TransactionAssumption
  <2> QED
    BY <2>4, <2>5
<1> QED
  BY <1>11, <1>12, <1>13

(* ... and the records are its replay. *)
LEMMA ConnectReplay ==
  ASSUME NEW b \in Block \ {Genesis}, NEW ix \in [Tx -> CTxIndex],
         pprev[b] \in ValidChain, IsReplay(ix, pprev[b]), ConnectBlock(ix, b)
  PROVE  IsReplay(ConnectIndex(ix, b), b)
<1>1. Connected(b) = Connected(pprev[b]) \cup {b} /\ b \notin Connected(pprev[b])
  BY ConnectedGrows
<1>2. SUFFICES ASSUME NEW t \in Tx
      PROVE  /\ ConnectIndex(ix, b)[t].pos \in Connected(b) \cup {NoBlock}
             /\ ConnectIndex(ix, b)[t].vSpent \in Connected(b) \cup {NoBlock}
             /\ \A x \in Connected(b) :
                  /\ t \in BlockTxs(x) <=> ConnectIndex(ix, b)[t].pos = x
                  /\ t \in SpentBy(x) <=> ConnectIndex(ix, b)[t].vSpent = x
  BY DEF IsReplay
<1>3. /\ ix[t].pos \in Connected(pprev[b]) \cup {NoBlock}
      /\ ix[t].vSpent \in Connected(pprev[b]) \cup {NoBlock}
      /\ \A x \in Connected(pprev[b]) : /\ t \in BlockTxs(x) <=> ix[t].pos = x
                                        /\ t \in SpentBy(x) <=> ix[t].vSpent = x
  BY DEF IsReplay
<1>4. \A x \in Connected(b) : x # NoBlock
  BY ChainEnds, BlockTreeAssumption DEF Connected
<1>5. /\ ConnectIndex(ix, b)[t].pos = IF t \in BlockTxs(b) THEN b ELSE ix[t].pos
      /\ ConnectIndex(ix, b)[t].vSpent =
           IF t \in SpentBy(b) THEN b
           ELSE IF t \in BlockTxs(b) THEN NoBlock ELSE ix[t].vSpent
  BY DEF ConnectIndex
<1>6. t \in BlockTxs(b) => \A x \in Connected(pprev[b]) : t \notin BlockTxs(x) /\ t \notin SpentBy(x)
  BY FreshIfConnected
<1>7. t \in SpentBy(b) => \A x \in Connected(pprev[b]) : t \notin SpentBy(x)
  <2>1. SUFFICES ASSUME t \in SpentBy(b), NEW x \in Connected(pprev[b]), t \in SpentBy(x)
                 PROVE  FALSE
    OBVIOUS
  <2>2. b \in ValidChain
    BY ConnectValid
  <2>3. ValidBlock(b)
    BY <1>1, <2>2 DEF ValidChain
  <2>4. PICK i \in DOMAIN vtx[b] : t \in vin[vtx[b][i]]
    BY <2>1 DEF SpentBy, BlockTxs
  <2> QED
    BY <2>1, <2>3, <2>4 DEF ValidBlock, SpentBefore
<1>8. \A x \in Connected(b) : t \in BlockTxs(x) <=> ConnectIndex(ix, b)[t].pos = x
  BY <1>1, <1>3, <1>4, <1>5, <1>6
<1>9. \A x \in Connected(b) : t \in SpentBy(x) <=> ConnectIndex(ix, b)[t].vSpent = x
  BY <1>1, <1>3, <1>4, <1>5, <1>6, <1>7
<1> QED
  BY <1>1, <1>3, <1>5, <1>8, <1>9

(* The other direction of ConnectValid: on the replay of the chain before   *)
(* it, ConnectBlock refuses no valid block.                                 *)
LEMMA ConnectSucceeds ==
  ASSUME NEW b \in ValidChain, b # Genesis, NEW ix \in [Tx -> CTxIndex],
         IsReplay(ix, pprev[b])
  PROVE  ConnectBlock(ix, b)
<1>1. /\ b \in Block \ {Genesis} /\ b \in Connected(b) /\ b # NoBlock
      /\ Connected(b) = Connected(pprev[b]) \cup {b}
  BY ConnectedGrows, BlockTreeAssumption DEF ValidChain
<1>2. ValidBlock(b)
  BY <1>1 DEF ValidChain
<1>3. vtx[b] \in Seq(Tx) /\ vin \in [Tx -> SUBSET Tx]
  BY <1>1, TransactionAssumption
<1>4. \A x \in Connected(b) : x \in Block /\ x # NoBlock
  BY <1>1, ChainEnds, BlockTreeAssumption DEF Connected
<1>5. NoOverwrite(ix, b)
  <2>1. SUFFICES ASSUME NEW t \in BlockTxs(b) PROVE ix[t].pos = NoBlock
    BY DEF NoOverwrite
  <2>2. t \in Tx
    BY <1>3 DEF BlockTxs
  <2>3. \A x \in Connected(pprev[b]) : t \notin BlockTxs(x)
    BY <1>1, FreshInValidChain
  <2> QED
    BY <2>2, <2>3 DEF IsReplay
<1>6. InputsConnect(ix, b)
  <2>1. SUFFICES ASSUME NEW i \in DOMAIN vtx[b], NEW t \in vin[vtx[b][i]]
        PROVE  LET queued == \E j \in 1..(i - 1) : vtx[b][j] = t
               IN  /\ queued \/ Spendable(ix, t)
                   /\ \A j \in 1..(i - 1) : t \notin vin[vtx[b][j]]
                   /\ t \in Generated =>
                        ~ TooYoung(b, IF queued THEN b ELSE ix[t].pos)
    BY DEF InputsConnect
  <2> DEFINE queued == \E j \in 1..(i - 1) : vtx[b][j] = t
  <2>2. i \in 1..Len(vtx[b]) /\ vtx[b][i] \in Tx /\ t \in Tx
    BY <1>3
  <2>3. CreatedBefore(b, i, t) /\ ~ SpentBefore(b, i, t) /\ (t \in Generated => Mature(b, t))
    BY <1>2 DEF ValidBlock
  <2>4. ~ queued => /\ Spendable(ix, t)
                    /\ ix[t].pos \in Connected(pprev[b]) /\ t \in BlockTxs(ix[t].pos)
    <3>1. SUFFICES ASSUME ~ queued
                   PROVE  /\ Spendable(ix, t)
                          /\ ix[t].pos \in Connected(pprev[b]) /\ t \in BlockTxs(ix[t].pos)
      OBVIOUS
    <3>2. PICK y \in Connected(pprev[b]) : t \in BlockTxs(y)
      BY <2>3, <3>1 DEF CreatedBefore
    <3>3. ix[t].pos = y /\ y # NoBlock
      BY <1>1, <1>4, <2>2, <3>2 DEF IsReplay
    <3>4. ix[t].vSpent = NoBlock
      BY <2>2, <2>3 DEF IsReplay, SpentBefore
    <3> QED
      BY <3>2, <3>3, <3>4 DEF Spendable
  <2>5. \A j \in 1..(i - 1) : t \notin vin[vtx[b][j]]
    BY <2>3 DEF SpentBefore
  <2>6. ASSUME t \in Generated PROVE ~ TooYoung(b, IF queued THEN b ELSE ix[t].pos)
    <3> DEFINE y == IF queued THEN b ELSE ix[t].pos
    <3>1. queued => t \in BlockTxs(b)
      BY <1>3, <2>2 DEF BlockTxs
    <3>2. y \in Connected(b) /\ t \in BlockTxs(y)
      BY <1>1, <2>4, <3>1
    <3>3. nHeight[b] - nHeight[y] >= nCoinbaseMaturity
      BY <2>3, <2>6, <3>2 DEF Mature
    <3>4. nHeight[b] \in Nat /\ nHeight[y] \in Nat /\ nCoinbaseMaturity \in Nat
      BY <1>1, <1>4, <3>2, BlockTreeAssumption, TransactionAssumption
    <3>5. ~ (nHeight[b] - nHeight[y] < nCoinbaseMaturity)
      BY <3>3, <3>4
    <3> HIDE DEF y
    <3> QED
      BY <3>5 DEF TooYoung, y
  <2> QED
    BY <2>4, <2>5, <2>6
<1> QED
  BY <1>2, <1>5, <1>6 DEF ConnectBlock, ValidBlock

(* Disconnecting the last block of a valid chain leaves the replay of the   *)
(* chain before it.                                                         *)
LEMMA DisconnectReplay ==
  ASSUME NEW b \in ValidChain, b # Genesis, NEW ix \in [Tx -> CTxIndex],
         IsReplay(ix, b)
  PROVE  IsReplay(DisconnectIndex(ix, b), pprev[b])
<1>1. b \in Block \ {Genesis}
  BY DEF ValidChain
<1>2. /\ Connected(b) = Connected(pprev[b]) \cup {b} /\ b \notin Connected(pprev[b])
      /\ pprev[b] \in Chain[b]
  BY <1>1, ConnectedGrows, ChainEnds
<1>3. pprev[b] \in ValidChain
  BY <1>2, ValidPrefix
<1>4. SUFFICES ASSUME NEW t \in Tx
      PROVE  /\ DisconnectIndex(ix, b)[t].pos \in Connected(pprev[b]) \cup {NoBlock}
             /\ DisconnectIndex(ix, b)[t].vSpent \in Connected(pprev[b]) \cup {NoBlock}
             /\ \A x \in Connected(pprev[b]) :
                  /\ t \in BlockTxs(x) <=> DisconnectIndex(ix, b)[t].pos = x
                  /\ t \in SpentBy(x) <=> DisconnectIndex(ix, b)[t].vSpent = x
  BY DEF IsReplay
<1>5. /\ ix[t].pos \in Connected(b) \cup {NoBlock}
      /\ ix[t].vSpent \in Connected(b) \cup {NoBlock}
      /\ \A x \in Connected(b) : /\ t \in BlockTxs(x) <=> ix[t].pos = x
                                 /\ t \in SpentBy(x) <=> ix[t].vSpent = x
  BY DEF IsReplay
<1>6. \A x \in Connected(b) : x # NoBlock
  BY <1>1, ChainEnds, BlockTreeAssumption DEF Connected
<1>7. t \in BlockTxs(b) => \A x \in Connected(pprev[b]) : t \notin BlockTxs(x) /\ t \notin SpentBy(x)
  BY <1>1, <1>3, FreshInValidChain
<1>8. CASE t \in BlockTxs(b)
  <2>1. DisconnectIndex(ix, b)[t] = NoRecord
    BY <1>8 DEF DisconnectIndex
  <2> QED
    BY <1>2, <1>6, <1>7, <1>8, <2>1 DEF NoRecord
<1>9. CASE t \notin BlockTxs(b)
  <2>1. /\ DisconnectIndex(ix, b)[t].pos = ix[t].pos
        /\ DisconnectIndex(ix, b)[t].vSpent =
             IF t \in SpentBy(b) THEN NoBlock ELSE ix[t].vSpent
    BY <1>9 DEF DisconnectIndex, CTxIndex
  <2> QED
    BY <1>2, <1>5, <1>6, <1>9, <2>1
<1> QED
  BY <1>8, <1>9

(* Disconnecting the last block of a chain cannot fail for its contents: on *)
(* the replay of a valid chain every input still has its record.            *)
LEMMA DisconnectSucceeds ==
  ASSUME NEW b \in ValidChain, b # Genesis, NEW ix \in [Tx -> CTxIndex],
         IsReplay(ix, b)
  PROVE  DisconnectBlock(ix, b)
<1>1. b \in Block \ {Genesis} /\ b \in Connected(b)
  BY ChainEnds DEF ValidChain, Connected
<1>2. SUFFICES ASSUME NEW i \in DOMAIN vtx[b], NEW t \in vin[vtx[b][i]]
               PROVE  /\ ix[t].pos # NoBlock
                      /\ \A j \in DOMAIN vtx[b] : j > i => vtx[b][j] # t
  BY DEF DisconnectBlock
<1>3. vtx[b] \in Seq(Tx) /\ vin \in [Tx -> SUBSET Tx]
  BY <1>1, TransactionAssumption
<1>4. i \in 1..Len(vtx[b]) /\ vtx[b][i] \in Tx /\ t \in Tx
  BY <1>3
<1>5. t \in SpentBy(b)
  BY DEF SpentBy, BlockTxs
<1>6. PICK y \in Connected(b) : t \in BlockTxs(y)
  BY <1>1, <1>5, SpentWasCreated
<1>7. ix[t].pos = y /\ y # NoBlock
  BY <1>1, <1>4, <1>6, ChainEnds, BlockTreeAssumption DEF IsReplay, Connected
<1>8. CreatedBefore(b, i, t)
  BY <1>1 DEF ValidChain, ValidBlock
<1>9. ASSUME NEW j \in DOMAIN vtx[b], j > i, vtx[b][j] = t
      PROVE  FALSE
  <2>1. t \in BlockTxs(b)
    BY <1>9 DEF BlockTxs
  <2>2. PICK k \in 1..(i - 1) : vtx[b][k] = t
    <3>1. pprev[b] \in ValidChain
      BY <1>1, ConnectedGrows, ChainEnds, ValidPrefix
    <3> QED
      BY <1>1, <1>8, <2>1, <3>1, FreshInValidChain DEF CreatedBefore
  <2>3. k \in DOMAIN vtx[b] /\ k # j
    BY <1>3, <1>4, <1>9, <2>2
  <2> QED
    BY <1>1, <1>9, <2>2, <2>3, TransactionAssumption
<1> QED
  BY <1>7, <1>9

(* The outputs a replay shows unspent are those its chain leaves unspent. *)
LEMMA ReplayUnspent ==
  ASSUME NEW b \in ValidChain, NEW ix \in [Tx -> CTxIndex], IsReplay(ix, b)
  PROVE  {t \in Tx : ix[t].pos # NoBlock /\ ix[t].vSpent = NoBlock} = Unspent(b)
<1>1. \A x \in Connected(b) : x # NoBlock
  BY ChainEnds, BlockTreeAssumption DEF Connected, ValidChain
<1>2. ASSUME NEW t \in Tx
      PROVE  /\ ix[t].pos # NoBlock <=> \E x \in Connected(b) : t \in BlockTxs(x)
             /\ ix[t].vSpent = NoBlock <=> \A x \in Connected(b) : t \notin SpentBy(x)
  BY <1>1 DEF IsReplay
<1> QED
  BY <1>2 DEF Unspent

----------------------------------------------------------------------------
(* The links of a chain, after its next block is connected... *)
LEMMA ConnectLinks ==
  ASSUME NEW b \in Block \ {Genesis}, NEW nx \in [Block -> Block \cup {NoBlock}],
         LinksTo(nx, pprev[b])
  PROVE  LinksTo([nx EXCEPT ![b] = NoBlock, ![pprev[b]] = b], b)
<1> DEFINE nxt == [nx EXCEPT ![b] = NoBlock, ![pprev[b]] = b]
<1>1. /\ pprev[b] \in Block
      /\ Connected(b) = Connected(pprev[b]) \cup {b}
      /\ Chain[pprev[b]] = Chain[b] \ {b}
      /\ b \notin Chain[pprev[b]]
  BY ConnectedGrows
<1>2. pprev[b] \in Chain[pprev[b]] /\ pprev[b] # b
  BY <1>1, ChainEnds
<1>3. SUFFICES ASSUME NEW x \in Block
               PROVE  IF x \in Chain[b] \ {b} THEN IsNext(x, nxt[x], b)
                      ELSE nxt[x] = NoBlock
  BY DEF LinksTo
<1>4. IF x \in Chain[pprev[b]] \ {pprev[b]} THEN IsNext(x, nx[x], pprev[b])
      ELSE nx[x] = NoBlock
  BY DEF LinksTo
<1>5. CASE x = pprev[b]
  <2>1. nxt[x] = b
    BY <1>1, <1>2, <1>5
  <2> QED
    BY <1>1, <1>2, <1>5, <2>1 DEF IsNext
<1>6. CASE x = b
  BY <1>2, <1>6
<1>7. CASE x # b /\ x # pprev[b]
  <2>1. nxt[x] = nx[x]
    BY <1>7
  <2> QED
    BY <1>1, <1>4, <1>7, <2>1 DEF IsNext
<1> QED
  BY <1>5, <1>6, <1>7

(* ... and after its last block is disconnected. *)
LEMMA DisconnectLinks ==
  ASSUME NEW b \in Block \ {Genesis}, NEW nx \in [Block -> Block \cup {NoBlock}],
         LinksTo(nx, b)
  PROVE  LinksTo(DisconnectNext(nx, b), pprev[b])
<1>1. /\ pprev[b] \in Block
      /\ Connected(b) = Connected(pprev[b]) \cup {b}
      /\ Chain[pprev[b]] = Chain[b] \ {b}
  BY ConnectedGrows
<1>2. SUFFICES ASSUME NEW x \in Block
               PROVE  IF x \in Chain[pprev[b]] \ {pprev[b]}
                      THEN IsNext(x, DisconnectNext(nx, b)[x], pprev[b])
                      ELSE DisconnectNext(nx, b)[x] = NoBlock
  BY DEF LinksTo
<1>3. IF x \in Chain[b] \ {b} THEN IsNext(x, nx[x], b) ELSE nx[x] = NoBlock
  BY DEF LinksTo
<1>4. DisconnectNext(nx, b)[x] = IF x = pprev[b] THEN NoBlock ELSE nx[x]
  BY <1>1 DEF DisconnectNext
<1> QED
  BY <1>1, <1>3, <1>4 DEF IsNext

(* The pointers after Reorganize has relinked both branches. *)
LEMMA RelinkedLinks ==
  ASSUME pindexBest \in Block, pindexIntermediate \in Block,
         pnext \in [Block -> Block \cup {NoBlock}], LinksTo(pnext, pindexBest)
  PROVE  LinksTo(RelinkedPnext, pindexIntermediate)
<1>1. /\ Chain[pindexBest] \subseteq Block /\ Chain[pindexIntermediate] \subseteq Block
      /\ Genesis \in Chain[pindexBest] /\ Genesis \in Chain[pindexIntermediate]
  BY ChainEnds
<1>2. /\ vConnect \subseteq Connected(pindexIntermediate)
      /\ vDisconnect \subseteq Connected(pindexBest)
  BY <1>1 DEF vConnect, vDisconnect, Connected
<1>3. SUFFICES ASSUME NEW x \in Block
               PROVE  IF x \in Chain[pindexIntermediate] \ {pindexIntermediate}
                      THEN IsNext(x, RelinkedPnext[x], pindexIntermediate)
                      ELSE RelinkedPnext[x] = NoBlock
  BY DEF LinksTo
<1>4. RelinkedPnext[x] = IF \E y \in vConnect : pprev[y] = x
                         THEN CHOOSE y \in vConnect : pprev[y] = x
                         ELSE IF \E y \in vDisconnect : pprev[y] = x
                         THEN NoBlock
                         ELSE pnext[x]
  BY DEF RelinkedPnext
<1>5. IF x \in Chain[pindexBest] \ {pindexBest} THEN IsNext(x, pnext[x], pindexBest)
      ELSE pnext[x] = NoBlock
  BY DEF LinksTo
<1>6. CASE \E y \in vConnect : pprev[y] = x
  <2>1. RelinkedPnext[x] \in vConnect /\ pprev[RelinkedPnext[x]] = x
    BY <1>4, <1>6
  <2>2. IsNext(x, RelinkedPnext[x], pindexIntermediate)
    BY <1>2, <2>1 DEF IsNext
  <2>3. x \in Chain[pindexIntermediate] \ {pindexIntermediate}
    BY <1>2, <2>1, ParentOnChain
  <2> QED
    BY <2>2, <2>3
<1>7. CASE /\ ~ \E y \in vConnect : pprev[y] = x
           /\ x \in Chain[pindexIntermediate] \ {pindexIntermediate}
  <2>1. PICK y \in Block : IsNext(x, y, pindexIntermediate)
    BY <1>7, NextExists
  <2>2. y \in Chain[pindexBest] /\ y \in Chain[pindexIntermediate] /\ y # Genesis
        /\ pprev[y] = x
    BY <1>7, <2>1 DEF IsNext, vConnect, Connected
  <2>3. IsNext(x, y, pindexBest) /\ x \in Chain[pindexBest] \ {pindexBest}
    <3>1. y \in Connected(pindexBest)
      BY <2>2 DEF Connected
    <3> QED
      BY <2>2, <3>1, ParentOnChain
  <2>4. ~ \E z \in vDisconnect : pprev[z] = x
    <3>1. SUFFICES ASSUME NEW z \in vDisconnect, pprev[z] = x PROVE FALSE
      OBVIOUS
    <3>2. IsNext(x, z, pindexBest)
      BY <1>2, <3>1 DEF IsNext
    <3>3. z = y
      BY <2>3, <3>2, NextUnique
    <3> QED
      BY <2>2, <3>3 DEF vDisconnect
  <2>5. RelinkedPnext[x] = pnext[x]
    BY <1>4, <1>7, <2>4
  <2>6. IsNext(x, pnext[x], pindexBest)
    BY <1>5, <2>3
  <2>7. pnext[x] = y
    BY <2>3, <2>6, NextUnique
  <2> QED
    BY <1>7, <2>1, <2>5, <2>7
<1>8. CASE /\ ~ \E y \in vConnect : pprev[y] = x
           /\ x \notin Chain[pindexIntermediate] \ {pindexIntermediate}
  <2>1. SUFFICES ASSUME ~ \E y \in vDisconnect : pprev[y] = x
                 PROVE  pnext[x] = NoBlock
    BY <1>4, <1>8
  <2>2. SUFFICES ASSUME x \in Chain[pindexBest] \ {pindexBest} PROVE FALSE
    BY <1>5
  <2>3. PICK z \in Block : IsNext(x, z, pindexBest)
    BY <2>2, NextExists
  <2>4. z \in Connected(pindexBest) /\ pprev[z] = x
    BY <2>3 DEF IsNext
  <2>5. z \in Connected(pindexIntermediate)
    BY <2>1, <2>4 DEF vDisconnect, Connected
  <2> QED
    BY <1>8, <2>4, <2>5, ParentOnChain
<1> QED
  BY <1>6, <1>7, <1>8
============================================================================
