--------------------------- MODULE MempoolProofs ---------------------------
(***************************************************************************)
(* The memory pool, the orphan transactions and the block template stay in *)
(* step with each other and with the chain: for every tree of blocks, every*)
(* set of transactions, every order in which they arrive and every way the *)
(* chain moves.                                                            *)
(***************************************************************************)
EXTENDS Mempool, BlockTreeTheorems, FiniteSetTheorems

----------------------------------------------------------------------------
(* The pool and its index mapNextTx *)

LEMMA AddKeeps ==
  ASSUME NEW P \in SUBSET Tx, NEW S \in SUBSET Tx, NEW next \in [Tx -> Tx \cup {NoTx}],
         SpendsOnce(P, next),
         \A t \in S : \A o \in vin[t] : next[o] = NoTx,
         \A t, u \in S : \A o \in vin[t] \cap vin[u] : t = u
  PROVE  /\ AddedNext(S, next) \in [Tx -> Tx \cup {NoTx}]
         /\ SpendsOnce(P \cup S, AddedNext(S, next))
<1> DEFINE added == AddedNext(S, next)
<1>1. ASSUME NEW o \in Tx, NEW t \in S, o \in vin[t] PROVE added[o] = t
  <2> DEFINE u == CHOOSE x \in S : o \in vin[x]
  <2>1. u \in S /\ o \in vin[u]
    BY <1>1
  <2>2. u = t
    BY <1>1, <2>1
  <2> QED
    BY <1>1, <2>2 DEF AddedNext
<1>2. ASSUME NEW o \in Tx, ~ \E t \in S : o \in vin[t] PROVE added[o] = next[o]
  BY <1>2 DEF AddedNext
<1>3. ASSUME NEW o \in Tx PROVE added[o] \in Tx \cup {NoTx}
  BY <1>1, <1>2
<1>4. added \in [Tx -> Tx \cup {NoTx}]
  BY <1>3 DEF AddedNext
<1>5. ASSUME NEW o \in Tx, NEW t \in Tx PROVE added[o] = t <=> t \in P \cup S /\ o \in vin[t]
  <2>1. CASE \E x \in S : o \in vin[x]
    <3>1. PICK x \in S : o \in vin[x]
      BY <2>1
    <3>2. added[o] = x /\ next[o] = NoTx
      BY <1>1, <3>1
    <3>3. ~ (t \in P /\ o \in vin[t])
      BY <3>2, MempoolAssumption DEF SpendsOnce
    <3> QED
      BY <3>1, <3>2, <3>3
  <2>2. CASE ~ \E x \in S : o \in vin[x]
    BY <1>2, <2>2 DEF SpendsOnce
  <2> QED
    BY <2>1, <2>2
<1> QED
  BY <1>4, <1>5 DEF SpendsOnce

LEMMA RemoveKeeps ==
  ASSUME NEW P \in SUBSET Tx, NEW R \in SUBSET P, NEW next \in [Tx -> Tx \cup {NoTx}],
         SpendsOnce(P, next)
  PROVE  /\ RemovedNext(R, next) \in [Tx -> Tx \cup {NoTx}]
         /\ SpendsOnce(P \ R, RemovedNext(R, next))
<1> DEFINE left == RemovedNext(R, next)
<1>1. left \in [Tx -> Tx \cup {NoTx}]
  BY DEF RemovedNext
<1>2. ASSUME NEW o \in Tx, NEW t \in Tx PROVE left[o] = t <=> t \in P \ R /\ o \in vin[t]
  <2>1. CASE \E x \in R : o \in vin[x]
    <3>1. PICK x \in R : o \in vin[x]
      BY <2>1
    <3>2. left[o] = NoTx /\ next[o] = x
      BY <3>1 DEF RemovedNext, SpendsOnce
    <3>3. t \in P /\ o \in vin[t] => t = x
      BY <3>2 DEF SpendsOnce
    <3> QED
      BY <3>1, <3>2, <3>3, MempoolAssumption
  <2>2. CASE ~ \E x \in R : o \in vin[x]
    <3>1. left[o] = next[o]
      BY <2>2 DEF RemovedNext
    <3> QED
      BY <2>2, <3>1 DEF SpendsOnce
  <2> QED
    BY <2>1, <2>2
<1> QED
  BY <1>1, <1>2 DEF SpendsOnce

----------------------------------------------------------------------------
(* The ledger below *)
LedgerInv ==
  /\ best \in ValidChain
  /\ unspent = Unspent(best)

LEMMA LedgerInvInit == MempoolInit => LedgerInv
<1>1. Genesis \in ValidChain /\ Unspent(Genesis) = {}
  BY BlockTreeAssumption DEF ValidChain, Connected, Unspent
<1> QED
  BY <1>1 DEF MempoolInit, LedgerInit, LedgerInv

(* Only SetBestChain moves it. *)
LEMMA LedgerStep ==
  [MempoolNext]_poolVars => (\E b \in Block : NewBestChain(b)) \/ UNCHANGED ledgerVars
BY DEF MempoolNext, poolVars, AcceptTx, AddOrphanTx, AcceptOrphanTx, RefuseOrphanTx,
   NextParent, EndOfQueue, ReadTarget, StartCollecting, Collect, CreateCoinStake,
   BlockReady, BlockDone

LEMMA LedgerInvStep == LedgerInv /\ [MempoolNext]_poolVars => LedgerInv'
<1>1. ASSUME LedgerInv, NEW b \in Block, NewBestChain(b) PROVE LedgerInv'
  BY <1>1 DEF NewBestChain, MoveTo, LedgerInv
<1>2. LedgerInv /\ UNCHANGED ledgerVars => LedgerInv'
  BY DEF ledgerVars, LedgerInv, Unspent, ValidChain
<1> QED
  BY <1>1, <1>2, LedgerStep

----------------------------------------------------------------------------
(* The pool *)
PoolInv ==
  /\ mapTx \subseteq Tx
  /\ mapNextTx \in [Tx -> Tx \cup {NoTx}]
  /\ PoolSpendsOnce
  /\ PoolNotInChain

(* accept lets a transaction in only if nothing in the pool spends what it  *)
(* spends and the chain does not have it.                                   *)
LEMMA AcceptKeepsPool ==
  ASSUME PoolInv, NEW t \in Tx, Acceptable(t), addUnchecked(t), UNCHANGED ledgerVars
  PROVE  PoolInv'
<1>1. ~ InChain(t) /\ \A o \in vin[t] : mapNextTx[o] = NoTx
  BY DEF Acceptable, IsNew, IsNewInPool, Conflicts
<1>2. /\ mapNextTx' \in [Tx -> Tx \cup {NoTx}]
      /\ SpendsOnce(mapTx', mapNextTx')
  <2>1. SpendsOnce(mapTx, mapNextTx) /\ mapTx \in SUBSET Tx /\ {t} \in SUBSET Tx
        /\ mapNextTx \in [Tx -> Tx \cup {NoTx}]
    BY DEF PoolInv, PoolSpendsOnce
  <2>2. /\ \A u \in {t} : \A o \in vin[u] : mapNextTx[o] = NoTx
        /\ \A u, v \in {t} : \A o \in vin[u] \cap vin[v] : u = v
    BY <1>1
  <2> QED
    BY <2>1, <2>2, AddKeeps DEF addUnchecked
<1>3. \A u \in mapTx' : ~ InChain(u)'
  BY <1>1 DEF addUnchecked, PoolInv, PoolNotInChain, InChain, ledgerVars
<1> QED
  BY <1>2, <1>3 DEF PoolInv, PoolSpendsOnce, PoolNotInChain, addUnchecked

(* A move of the chain. *)
LEMMA MoveKeepsPool ==
  ASSUME LedgerInv, PoolInv, NEW b \in Block, NewBestChain(b)
  PROVE  PoolInv'
<1> DEFINE S == vResurrect(b)
           R == TxsOf(vConnect(b)) \cap (mapTx \cup S)
<1>1. best \in ValidChain /\ best \in Block /\ b \in ValidChain /\ best' = b
  BY DEF LedgerInv, ValidChain, NewBestChain, MoveTo
<1>2. Chain[best] \subseteq Block /\ Genesis \in Chain[b] /\ Chain[b] \subseteq Block
  BY <1>1, ChainEnds
<1>3. vDisconnect(b) \subseteq Connected(best)
  BY <1>2 DEF vDisconnect, Connected
<1>4. ASSUME NEW t \in S
      PROVE  /\ \E x \in vDisconnect(b) : t \in BlockTxs(x)
             /\ t \in Tx /\ vin[t] # {} /\ \A o \in vin[t] : mapNextTx[o] = NoTx
  <2>1. PICK x \in vDisconnect(b) : t \in BlockTxs(x)
    BY DEF vResurrect, TxsOf
  <2>2. x \in Block
    BY <1>2, <2>1 DEF vDisconnect
  <2>3. t \in Tx
    BY <2>1, <2>2, TransactionAssumption DEF BlockTxs
  <2> QED
    BY <2>1, <2>3 DEF vResurrect, IsNewInPool, Conflicts
<1>5. ASSUME NEW t \in S, NEW u \in S, NEW o \in vin[t] \cap vin[u] PROVE t = u
  <2>1. PICK x \in Connected(best) : t \in BlockTxs(x)
    BY <1>3, <1>4
  <2>2. PICK y \in Connected(best) : u \in BlockTxs(y)
    BY <1>3, <1>4
  <2> QED
    BY <1>1, <2>1, <2>2, OneSpender
<1>6. /\ AddedNext(S, mapNextTx) \in [Tx -> Tx \cup {NoTx}]
      /\ SpendsOnce(mapTx \cup S, AddedNext(S, mapNextTx))
  <2>1. S \in SUBSET Tx /\ \A t \in S : \A o \in vin[t] : mapNextTx[o] = NoTx
    BY <1>4
  <2>2. \A t, u \in S : \A o \in vin[t] \cap vin[u] : t = u
    BY <1>5
  <2>3. /\ mapTx \in SUBSET Tx /\ mapNextTx \in [Tx -> Tx \cup {NoTx}]
        /\ SpendsOnce(mapTx, mapNextTx)
    BY DEF PoolInv, PoolSpendsOnce
  <2> QED
    BY <2>1, <2>2, <2>3, AddKeeps
<1>7. /\ mapNextTx' \in [Tx -> Tx \cup {NoTx}]
      /\ SpendsOnce((mapTx \cup S) \ R, mapNextTx')
  <2>1. mapTx \cup S \in SUBSET Tx /\ R \in SUBSET (mapTx \cup S)
    BY <1>4 DEF PoolInv
  <2>2. mapNextTx' = RemovedNext(R, AddedNext(S, mapNextTx))
    BY DEF NewBestChain
  <2> QED
    BY <1>6, <2>1, <2>2, RemoveKeeps
<1>8. mapTx' = (mapTx \cup S) \ R
  BY DEF NewBestChain, PoolAfter
<1>9. ASSUME NEW t \in mapTx', NEW x \in Connected(b), t \in BlockTxs(x) PROVE FALSE
  <2>1. x \in Chain[best] /\ x \in Connected(best)
    BY <1>9, <1>8 DEF TxsOf, vConnect, Connected
  <2>2. t \notin mapTx
    BY <1>9, <2>1 DEF PoolInv, PoolNotInChain, InChain
  <2>3. t \in S
    BY <1>8, <1>9, <2>2
  <2>4. PICK y \in vDisconnect(b) : t \in BlockTxs(y)
    BY <1>4, <2>3
  <2>5. PICK o \in vin[t] : TRUE
    BY <1>4, <2>3
  <2>6. x = y
    BY <1>1, <1>3, <1>9, <2>1, <2>4, <2>5, OneSpender
  <2> QED
    BY <2>4, <2>6 DEF vDisconnect, Connected
<1>10. PoolNotInChain'
  BY <1>1, <1>9 DEF PoolNotInChain, InChain
<1> QED
  BY <1>4, <1>7, <1>8, <1>10 DEF PoolInv, PoolSpendsOnce

LEMMA PoolInvStep ==
  ASSUME LedgerInv, PoolInv, [MempoolNext]_poolVars
  PROVE  PoolInv'
<1>1. ASSUME UNCHANGED <<ledgerVars, pool>> PROVE PoolInv'
  BY <1>1 DEF ledgerVars, pool, PoolInv, PoolSpendsOnce, SpendsOnce, PoolNotInChain, InChain
<1>2. ASSUME NEW t \in Tx, AcceptTx(t) \/ AcceptOrphanTx(t) PROVE PoolInv'
  BY <1>2, AcceptKeepsPool DEF AcceptTx, AcceptOrphanTx
<1>3. ASSUME NEW t \in Tx,
             AddOrphanTx(t) \/ RefuseOrphanTx(t) \/ Collect(t) \/ CreateCoinStake(t)
      PROVE  PoolInv'
  BY <1>1, <1>3 DEF AddOrphanTx, RefuseOrphanTx, Collect, CreateCoinStake
<1>4. CASE NextParent \/ EndOfQueue \/ ReadTarget \/ StartCollecting \/ BlockReady \/ BlockDone
  BY <1>1, <1>4 DEF NextParent, EndOfQueue, ReadTarget, StartCollecting, BlockReady, BlockDone
<1>5. ASSUME NEW b \in Block, NewBestChain(b) PROVE PoolInv'
  BY <1>5, MoveKeepsPool
<1>6. CASE UNCHANGED poolVars
  BY <1>1, <1>6 DEF poolVars
<1> QED
  BY <1>2, <1>3, <1>4, <1>5, <1>6 DEF MempoolNext

LEMMA PoolInvAlways == MempoolSpec => [](LedgerInv /\ PoolInv)
<1>1. MempoolInit => PoolInv
  BY MempoolAssumption DEF MempoolInit, PoolInv, PoolSpendsOnce, SpendsOnce, PoolNotInChain
<1>2. LedgerInv /\ PoolInv /\ [MempoolNext]_poolVars => LedgerInv' /\ PoolInv'
  BY LedgerInvStep, PoolInvStep
<1> QED
  BY <1>1, <1>2, LedgerInvInit, PTL DEF MempoolSpec

(* mapNextTx is exactly what the pool spends: accept never lets two         *)
(* transactions spend one output and, after any reorganization, refuses     *)
(* none for a transaction that is gone.                                     *)
THEOREM PoolIndexed == MempoolSpec => []PoolSpendsOnce
BY PoolInvAlways, PTL DEF PoolInv

(* What Reorganize puts back and what SetBestChain takes out leave nothing  *)
(* in the pool that the chain has.                                          *)
THEOREM PoolUnconfirmed == MempoolSpec => []PoolNotInChain
BY PoolInvAlways, PTL DEF PoolInv

----------------------------------------------------------------------------
(* The orphan transactions *)
OrphanInv ==
  /\ mapOrphanTransactions \subseteq Tx
  /\ OrphanIndex

LEMMA OrphanInvStep ==
  ASSUME OrphanInv, [MempoolNext]_poolVars
  PROVE  OrphanInv'
<1>1. ASSUME UNCHANGED orphans PROVE OrphanInv'
  BY <1>1 DEF orphans, OrphanInv, OrphanIndex
<1>2. ASSUME NEW t \in Tx, AddOrphanTx(t) PROVE OrphanInv'
  <2>1. mapOrphanTransactions' \subseteq mapOrphanTransactions \cup {t}
    BY <1>2 DEF AddOrphanTx, LimitOrphanTxSize
  <2>2. \A o \in Tx : mapOrphanTransactionsByPrev'[o] =
          ((IF o \in vin[t] THEN {t} ELSE {}) \cup mapOrphanTransactionsByPrev[o])
          \ ((mapOrphanTransactions \cup {t}) \ mapOrphanTransactions')
    BY <1>2 DEF AddOrphanTx
  <2>3. ASSUME NEW o \in Tx, NEW u \in Tx
        PROVE  u \in mapOrphanTransactionsByPrev'[o]
                 <=> u \in mapOrphanTransactions' /\ o \in vin[u]
    BY <2>1, <2>2 DEF OrphanInv, OrphanIndex
  <2> QED
    BY <2>1, <2>3 DEF OrphanInv, OrphanIndex
<1>3. ASSUME EndOfQueue PROVE OrphanInv'
  BY <1>3 DEF EndOfQueue, EraseOrphanTx, OrphanInv, OrphanIndex
<1>4. ASSUME NEW t \in Tx, AcceptTx(t) \/ AcceptOrphanTx(t) \/ RefuseOrphanTx(t)
             \/ Collect(t) \/ CreateCoinStake(t)
      PROVE  OrphanInv'
  BY <1>1, <1>4 DEF AcceptTx, AcceptOrphanTx, RefuseOrphanTx, Collect, CreateCoinStake
<1>5. CASE NextParent \/ ReadTarget \/ StartCollecting \/ BlockReady \/ BlockDone
           \/ (\E b \in Block : NewBestChain(b)) \/ UNCHANGED poolVars
  BY <1>1, <1>5 DEF NextParent, ReadTarget, StartCollecting, BlockReady, BlockDone,
     NewBestChain, poolVars
<1> QED
  BY <1>2, <1>3, <1>4, <1>5 DEF MempoolNext

(* AddOrphanTx, EraseOrphanTx and the eviction of LimitOrphanTxSize keep    *)
(* the two maps of orphan transactions in step.                             *)
THEOREM OrphansIndexed == MempoolSpec => []OrphanIndex
<1>1. MempoolInit => OrphanInv
  BY DEF MempoolInit, OrphanInv, OrphanIndex
<1>2. OrphanInv /\ [MempoolNext]_poolVars => OrphanInv'
  BY OrphanInvStep
<1> QED
  BY <1>1, <1>2, PTL DEF MempoolSpec, OrphanInv

----------------------------------------------------------------------------
(* The block template *)
TemplateInv ==
  /\ miner \in {"idle", "target", "collect", "ready"}
  /\ template \in Seq(Tx)
  /\ miner \in {"idle", "target"} => template = <<>>
  /\ miner = "collect" => hashPrevBlock = best
  /\ miner \in {"collect", "ready"} => ConnectTo(template, hashPrevBlock)

(* What CreateNewBlock appends connects to what it has collected so far:    *)
(* the checks against vSpent, setDependsOn and mapTestPool are enough.      *)
LEMMA CollectConnects ==
  ASSUME LedgerInv, PoolInv, template \in Seq(Tx), ConnectTo(template, best),
         NEW t \in Tx, Collect(t)
  PROVE  ConnectTo(Append(template, t), best)
<1> DEFINE n == Len(template)
           longer == Append(template, t)
<1>1. /\ n \in Nat /\ DOMAIN template = 1..n /\ DOMAIN longer = 1..(n + 1)
      /\ longer[n + 1] = t /\ \A j \in 1..n : longer[j] = template[j]
  OBVIOUS
<1>2. /\ best \in Block /\ best \in ValidChain /\ unspent = Unspent(best)
      /\ nHeight[best] \in Nat
  BY BlockTreeAssumption DEF LedgerInv, ValidChain
<1>3. \A x \in Connected(best) : t \notin BlockTxs(x)
  BY DEF Collect, PoolInv, PoolNotInChain, InChain
<1>4. ASSUME NEW o \in vin[t]
      PROVE  /\ \/ \E x \in Connected(best) : o \in BlockTxs(x)
                \/ \E j \in 1..n : longer[j] = o
             /\ \A x \in Connected(best) : o \notin SpentBy(x)
             /\ \A j \in 1..n : o \notin vin[longer[j]]
             /\ \A x \in Connected(best) : o \in BlockTxs(x) \cap Generated =>
                  nHeight[best] + 1 - nHeight[x] >= nCoinbaseMaturity
  <2>1. UnspentFor(o) /\ ~ TooYoungFor(best, o)
    BY DEF Collect
  <2>2. ASSUME o \in unspent PROVE /\ \E x \in Connected(best) : o \in BlockTxs(x)
                                   /\ \A x \in Connected(best) : o \notin SpentBy(x)
    BY <1>1, <1>2, <2>2 DEF Unspent
  <2>3. ASSUME o \in Collected PROVE /\ \E j \in 1..n : longer[j] = o
                                     /\ \A x \in Connected(best) : o \notin SpentBy(x)
    <3>1. PICK j \in 1..n : template[j] = o
      BY <1>1, <2>3 DEF Collected
    <3>2. \A x \in Connected(best) : o \notin BlockTxs(x)
      BY <1>1, <3>1 DEF ConnectTo
    <3> QED
      BY <1>1, <1>2, <3>1, <3>2, SpentWasCreated
  <2>4. \A j \in 1..n : o \notin vin[longer[j]]
    BY <1>1, <2>1 DEF UnspentFor, Collected
  <2>5. ASSUME NEW x \in Connected(best), o \in BlockTxs(x) \cap Generated
        PROVE  nHeight[best] + 1 - nHeight[x] >= nCoinbaseMaturity
    <3>1. x \in Block /\ nHeight[x] \in Nat
      BY <1>2, ChainEnds, BlockTreeAssumption DEF Connected
    <3>2. ~ (nHeight[best] - nHeight[x] < nCoinbaseMaturity)
      BY <2>1, <2>5 DEF TooYoungFor
    <3> QED
      BY <1>2, <3>1, <3>2, TransactionAssumption
  <2> QED
    BY <2>1, <2>2, <2>3, <2>4, <2>5 DEF UnspentFor
<1>5. ASSUME NEW i \in 1..n
      PROVE  /\ longer[i] = template[i]
             /\ \A j \in 1..(i - 1) : longer[j] = template[j]
  BY <1>1
<1> HIDE DEF longer, n
<1> SUFFICES ASSUME NEW i \in DOMAIN longer
             PROVE /\ \A x \in Connected(best) : longer[i] \notin BlockTxs(x)
                   /\ \A o \in vin[longer[i]] :
                        /\ \/ \E x \in Connected(best) : o \in BlockTxs(x)
                           \/ \E j \in 1..(i - 1) : longer[j] = o
                        /\ \A x \in Connected(best) : o \notin SpentBy(x)
                        /\ \A j \in 1..(i - 1) : o \notin vin[longer[j]]
                        /\ \A x \in Connected(best) : o \in BlockTxs(x) \cap Generated =>
                             nHeight[best] + 1 - nHeight[x] >= nCoinbaseMaturity
  BY DEF ConnectTo, longer
<1>6. CASE i = n + 1
  <2>1. 1..(i - 1) = 1..n /\ longer[i] = t
    BY <1>1, <1>6
  <2> QED
    BY <1>3, <1>4, <2>1
<1>7. CASE i \in 1..n
  <2>1. i \in DOMAIN template
    BY <1>1, <1>7
  <2> QED
    BY <1>5, <1>7, <2>1 DEF ConnectTo
<1> QED
  BY <1>1, <1>6, <1>7

(* A coinstake in the making: it would connect to the tip it was made on.   *)
StakeInv ==
  coinstake # NoTx =>
    /\ coinstake \in Tx
    /\ stakePrev \in Block
    /\ ConnectTo(<<coinstake>>, stakePrev)

(* CreateCoinStake takes coins that its tip leaves unspent, so that it is   *)
(* not on that tip's chain itself.                                          *)
LEMMA StakeConnects ==
  ASSUME LedgerInv, NEW t \in Tx, CreateCoinStake(t)
  PROVE  best \in Block /\ ConnectTo(<<t>>, best)
<1>1. /\ best \in Block /\ unspent = Unspent(best) /\ vin[t] # {} /\ vin[t] \subseteq Tx
      /\ nHeight[best] \in Nat /\ nCoinbaseMaturity \in Nat
  BY BlockTreeAssumption, TransactionAssumption DEF LedgerInv, ValidChain, CreateCoinStake
<1>2. ASSUME NEW o \in vin[t]
      PROVE  /\ \E x \in Connected(best) : o \in BlockTxs(x)
             /\ \A x \in Connected(best) : o \notin SpentBy(x)
  BY <1>1 DEF CreateCoinStake, Unspent
<1>3. ASSUME NEW o \in vin[t], NEW x \in Connected(best), o \in BlockTxs(x) \cap Generated
      PROVE  nHeight[best] + 1 - nHeight[x] >= nCoinbaseMaturity
  <2>1. x \in Block /\ nHeight[x] \in Nat
    BY <1>1, ChainEnds, BlockTreeAssumption DEF Connected
  <2>2. ~ (nHeight[best] - nHeight[x] < nCoinbaseMaturity)
    BY <1>3 DEF CreateCoinStake, TooYoungFor
  <2> QED
    BY <1>1, <2>1, <2>2
<1>4. ASSUME NEW x \in Connected(best) PROVE t \notin BlockTxs(x)
  <2>1. PICK o \in vin[t] : o \notin SpentBy(x)
    BY <1>1, <1>2
  <2> QED
    BY <2>1 DEF SpentBy
<1> QED
  BY <1>1, <1>2, <1>3, <1>4 DEF ConnectTo

LEMMA StakeInvStep ==
  ASSUME LedgerInv, StakeInv, [MempoolNext]_poolVars
  PROVE  StakeInv'
<1>1. ASSUME UNCHANGED <<coinstake, stakePrev>> PROVE StakeInv'
  BY <1>1 DEF StakeInv, ConnectTo
<1>2. ASSUME NEW t \in Tx, AcceptTx(t) \/ AddOrphanTx(t) \/ AcceptOrphanTx(t)
             \/ RefuseOrphanTx(t) \/ Collect(t)
      PROVE  StakeInv'
  BY <1>1, <1>2 DEF AcceptTx, AddOrphanTx, AcceptOrphanTx, RefuseOrphanTx, Collect, mining
<1>3. CASE NextParent \/ EndOfQueue \/ ReadTarget \/ StartCollecting \/ BlockReady
           \/ (\E b \in Block : NewBestChain(b)) \/ UNCHANGED poolVars
  BY <1>1, <1>3 DEF NextParent, EndOfQueue, ReadTarget, StartCollecting, BlockReady,
     NewBestChain, poolVars, mining
<1>4. ASSUME NEW t \in Tx, CreateCoinStake(t) PROVE StakeInv'
  <2>1. ConnectTo(<<t>>, best) /\ best \in Block
    BY <1>4, StakeConnects
  <2>2. coinstake' = t /\ stakePrev' = best
    BY <1>4 DEF CreateCoinStake
  <2> QED
    BY <2>1, <2>2 DEF StakeInv, ConnectTo
<1>5. CASE BlockDone
  BY <1>5 DEF BlockDone, StakeInv
<1> QED
  BY <1>2, <1>3, <1>4, <1>5 DEF MempoolNext

(* What is collected with it connects behind it if it spends other outputs. *)
LEMMA StakeFirst ==
  ASSUME NEW t \in Tx, template \in Seq(Tx), NEW b \in Block,
         ConnectTo(<<t>>, b), ConnectTo(template, b),
         \A u \in Collected : vin[u] \cap vin[t] = {}
  PROVE  ConnectTo(<<t>> \o template, b)
<1> DEFINE n == Len(template)
           block == <<t>> \o template
<1>1. /\ n \in Nat /\ DOMAIN template = 1..n /\ DOMAIN block = 1..(n + 1)
      /\ block[1] = t /\ \A i \in 1..n : block[i + 1] = template[i]
  BY DEF ConnectTo
<1> HIDE DEF block, n
<1> SUFFICES ASSUME NEW i \in DOMAIN block
             PROVE /\ \A x \in Connected(b) : block[i] \notin BlockTxs(x)
                   /\ \A o \in vin[block[i]] :
                        /\ \/ \E x \in Connected(b) : o \in BlockTxs(x)
                           \/ \E j \in 1..(i - 1) : block[j] = o
                        /\ \A x \in Connected(b) : o \notin SpentBy(x)
                        /\ \A j \in 1..(i - 1) : o \notin vin[block[j]]
                        /\ \A x \in Connected(b) : o \in BlockTxs(x) \cap Generated =>
                             nHeight[b] + 1 - nHeight[x] >= nCoinbaseMaturity
  BY DEF ConnectTo, block
<1>2. CASE i = 1
  <2>1. 1 \in DOMAIN <<t>> /\ <<t>>[1] = t /\ 1..(1 - 1) = {}
    OBVIOUS
  <2> QED
    BY <1>1, <1>2, <2>1 DEF ConnectTo
<1>3. CASE i # 1
  <2>1. PICK k \in 1..n : i = k + 1 /\ block[i] = template[k] /\ k \in DOMAIN template
    <3>1. i - 1 \in 1..n /\ i = (i - 1) + 1
      BY <1>1, <1>3
    <3> QED
      BY <1>1, <3>1
  <2>2. \A j \in 1..(i - 1) : j = 1 \/ (j - 1 \in 1..(k - 1) /\ block[j] = template[j - 1])
    <3>1. ASSUME NEW j \in 1..(i - 1), j # 1
          PROVE  j - 1 \in 1..(k - 1) /\ j - 1 \in 1..n /\ j = (j - 1) + 1
      BY <1>1, <2>1, <3>1
    <3> QED
      BY <1>1, <3>1
  <2>3. \A j \in 1..(k - 1) : j + 1 \in 1..(i - 1) /\ block[j + 1] = template[j]
    BY <1>1, <2>1
  <2>4. ASSUME NEW o \in vin[template[k]]
        PROVE  /\ \/ \E x \in Connected(b) : o \in BlockTxs(x)
                  \/ \E j \in 1..(i - 1) : block[j] = o
               /\ \A j \in 1..(i - 1) : o \notin vin[block[j]]
    <3>1. /\ \/ \E x \in Connected(b) : o \in BlockTxs(x)
             \/ \E j \in 1..(k - 1) : template[j] = o
          /\ \A j \in 1..(k - 1) : o \notin vin[template[j]]
      BY <2>1, <2>4 DEF ConnectTo
    <3>2. template[k] \in Collected
      BY <2>1 DEF Collected
    <3>3. o \notin vin[t]
      BY <2>4, <3>2
    <3> QED
      BY <1>1, <2>2, <2>3, <3>1, <3>3
  <2> QED
    BY <2>1, <2>4 DEF ConnectTo
<1> QED
  BY <1>2, <1>3

LEMMA TemplateInvStep ==
  ASSUME LedgerInv, PoolInv, TemplateInv, [MempoolNext]_poolVars
  PROVE  TemplateInv'
<1>1. ASSUME UNCHANGED mining, UNCHANGED best \/ miner # "collect" PROVE TemplateInv'
  BY <1>1 DEF mining, TemplateInv, ConnectTo
<1>2. ASSUME NEW t \in Tx, AcceptTx(t) \/ AddOrphanTx(t) \/ AcceptOrphanTx(t) \/ RefuseOrphanTx(t)
      PROVE  TemplateInv'
  BY <1>1, <1>2 DEF AcceptTx, AddOrphanTx, AcceptOrphanTx, RefuseOrphanTx, ledgerVars
<1>3. CASE NextParent \/ EndOfQueue \/ UNCHANGED poolVars
  BY <1>1, <1>3 DEF NextParent, EndOfQueue, ledgerVars, poolVars
<1>4. ASSUME NEW b \in Block, NewBestChain(b) PROVE TemplateInv'
  BY <1>1, <1>4 DEF NewBestChain, Unlocked
<1>5. ASSUME ReadTarget \/ BlockDone \/ \E t \in Tx : CreateCoinStake(t) PROVE TemplateInv'
  <2>1. miner' \in {"idle", "target"} /\ template' = <<>>
    BY <1>5 DEF ReadTarget, BlockDone, CreateCoinStake, TemplateInv
  <2> QED
    BY <2>1 DEF TemplateInv
<1>6. CASE StartCollecting
  BY <1>6 DEF StartCollecting, TemplateInv, ConnectTo, ledgerVars
<1>7. CASE BlockReady
  BY <1>7 DEF BlockReady, TemplateInv, ConnectTo
<1>8. ASSUME NEW t \in Tx, Collect(t) PROVE TemplateInv'
  <2>1. /\ miner = "collect" /\ miner' = "collect" /\ template' = Append(template, t)
        /\ best' = best /\ hashPrevBlock' = hashPrevBlock /\ hashPrevBlock = best
        /\ template \in Seq(Tx) /\ ConnectTo(template, best)
    BY <1>8 DEF Collect, TemplateInv, ledgerVars
  <2>2. ConnectTo(template', best)
    BY <1>8, <2>1, CollectConnects
  <2>3. ConnectTo(template, hashPrevBlock)'
    BY <2>1, <2>2 DEF ConnectTo
  <2> QED
    BY <2>1, <2>3 DEF TemplateInv
<1> QED
  BY <1>2, <1>3, <1>4, <1>5, <1>6, <1>7, <1>8 DEF MempoolNext

(* A block that CreateNewBlock built and CheckWork does not refuse as stale *)
(* spends nothing the chain does not have, nothing twice and nothing too    *)
(* young, whatever happened to the pool and the chain while it was solved.  *)
(* With a coinstake that needs StakeHolds: between CreateCoinStake and the  *)
(* lock the chain did not move, and no spend of the same coins came in.     *)
THEOREM MinedBlockConnects == MempoolSpec => []TemplateConnects
<1>1. MempoolInit => TemplateInv /\ StakeInv
  BY DEF MempoolInit, TemplateInv, StakeInv, ConnectTo
<1>2. LedgerInv /\ PoolInv /\ TemplateInv /\ StakeInv /\ [MempoolNext]_poolVars
        => TemplateInv' /\ StakeInv'
  BY TemplateInvStep, StakeInvStep
<1>3. ASSUME TemplateInv, StakeInv PROVE TemplateConnects
  <2>1. SUFFICES ASSUME miner = "ready", hashPrevBlock = best
                 PROVE  /\ ConnectTo(template, best)
                        /\ coinstake # NoTx /\ StakeHolds => ConnectTo(BlockVtx, best)
    BY DEF TemplateConnects
  <2>2. ConnectTo(template, best) /\ template \in Seq(Tx)
    BY <1>3, <2>1 DEF TemplateInv
  <2>3. ASSUME coinstake # NoTx, StakeHolds PROVE ConnectTo(BlockVtx, best)
    <3>1. /\ coinstake \in Tx /\ best \in Block /\ ConnectTo(<<coinstake>>, best)
          /\ \A u \in Collected : vin[u] \cap vin[coinstake] = {}
      BY <1>3, <2>1, <2>3 DEF StakeInv, StakeHolds
    <3> QED
      BY <2>2, <2>3, <3>1, StakeFirst DEF BlockVtx
  <2> QED
    BY <2>2, <2>3
<1> QED
  BY <1>1, <1>2, <1>3, PoolInvAlways, PTL DEF MempoolSpec

----------------------------------------------------------------------------
(* The loop over vWorkQueue *)
LoopInv ==
  /\ vWorkQueue \in Seq(Tx)
  /\ work \in 0..Len(vWorkQueue)
  /\ work = 0 <=> vWorkQueue = <<>>
  /\ vWorkQueue = <<>> => tried = {} /\ vEraseQueue = {}

(* What the loop still owes an orphan that spends something it has got      *)
(* accepted: a place further on, or here if the orphan has not had its turn.*)
Owed(o) ==
  \E i \in work..Len(vWorkQueue) : vWorkQueue[i] \in vin[o] /\ (i = work => o \notin tried)

RetryInv ==
  \A o \in mapOrphanTransactions \ vEraseQueue :
    (\E i \in DOMAIN vWorkQueue : vWorkQueue[i] \in vin[o]) => MissingInputs(o) \/ Owed(o)

LEMMA LoopInvStep ==
  ASSUME LoopInv, [MempoolNext]_poolVars
  PROVE  LoopInv'
<1>1. ASSUME UNCHANGED message PROVE LoopInv'
  BY <1>1 DEF message, LoopInv
<1>2. ASSUME NEW t \in Tx, AcceptTx(t) PROVE LoopInv'
  BY <1>2 DEF AcceptTx, LoopInv
<1>3. ASSUME NEW t \in Tx, AcceptOrphanTx(t) \/ RefuseOrphanTx(t) PROVE LoopInv'
  BY <1>3 DEF AcceptOrphanTx, RefuseOrphanTx, IsNextOrphan, LoopInv
<1>4. CASE NextParent
  BY <1>4 DEF NextParent, LoopInv
<1>5. CASE EndOfQueue
  BY <1>5 DEF EndOfQueue, LoopInv
<1>6. ASSUME NEW t \in Tx, AddOrphanTx(t) \/ Collect(t) \/ CreateCoinStake(t) PROVE LoopInv'
  BY <1>1, <1>6 DEF AddOrphanTx, Collect, CreateCoinStake
<1>7. CASE ReadTarget \/ StartCollecting \/ BlockReady \/ BlockDone
           \/ (\E b \in Block : NewBestChain(b)) \/ UNCHANGED poolVars
  BY <1>1, <1>7 DEF ReadTarget, StartCollecting, BlockReady, BlockDone, NewBestChain, poolVars
<1> QED
  BY <1>2, <1>3, <1>4, <1>5, <1>6, <1>7 DEF MempoolNext

LEMMA RetryInvStep ==
  ASSUME OrphanInv, LoopInv, RetryInv, [MempoolNext]_poolVars
  PROVE  RetryInv'
<1>1. ASSUME UNCHANGED <<message, orphans, ledgerVars, pool>> PROVE RetryInv'
  BY <1>1 DEF message, orphans, ledgerVars, pool, RetryInv, Owed, MissingInputs, InChain
<1>2. ASSUME vWorkQueue' = <<>> PROVE RetryInv'
  BY <1>2 DEF RetryInv
<1>3. ASSUME NEW t \in Tx, AcceptTx(t) PROVE RetryInv'
  <2>1. vWorkQueue' = <<t>> /\ work' = 1 /\ tried' = {}
    BY <1>3 DEF AcceptTx, Unlocked, LoopInv
  <2> QED
    BY <2>1 DEF RetryInv, Owed
<1>4. ASSUME NEW t \in Tx, AcceptOrphanTx(t) PROVE RetryInv'
  <2>1. /\ vWorkQueue' = Append(vWorkQueue, t) /\ work' = work /\ tried' = tried \cup {t}
        /\ vEraseQueue' = vEraseQueue \cup {t} /\ mapTx' = mapTx \cup {t}
        /\ mapOrphanTransactions' = mapOrphanTransactions /\ best' = best
    BY <1>4 DEF AcceptOrphanTx, addUnchecked, orphans, ledgerVars
  <2>2. /\ vWorkQueue \in Seq(Tx) /\ work \in 1..Len(vWorkQueue)
        /\ vWorkQueue' \in Seq(Tx) /\ Len(vWorkQueue') = Len(vWorkQueue) + 1
        /\ vWorkQueue'[Len(vWorkQueue) + 1] = t
        /\ \A i \in 1..Len(vWorkQueue) : vWorkQueue'[i] = vWorkQueue[i]
    BY <1>4, <2>1 DEF AcceptOrphanTx, IsNextOrphan, LoopInv
  <2>3. SUFFICES ASSUME NEW o \in mapOrphanTransactions \ vEraseQueue, o # t,
                        NEW i \in 1..(Len(vWorkQueue) + 1), vWorkQueue'[i] \in vin[o]
                 PROVE  MissingInputs(o)' \/ Owed(o)'
    BY <2>1, <2>2 DEF RetryInv
  <2>4. CASE t \in vin[o]
    <3>1. Len(vWorkQueue) + 1 \in work'..Len(vWorkQueue') /\ Len(vWorkQueue) + 1 # work'
      BY <2>1, <2>2
    <3> QED
      BY <2>2, <2>4, <3>1 DEF Owed
  <2>5. CASE t \notin vin[o]
    <3>1. MissingInputs(o) \/ Owed(o)
      BY <2>2, <2>3, <2>5 DEF RetryInv
    <3>2. MissingInputs(o) => MissingInputs(o)'
      BY <2>1, <2>5 DEF MissingInputs, InChain
    <3>3. Owed(o) => Owed(o)'
      BY <2>1, <2>2, <2>3 DEF Owed
    <3> QED
      BY <3>1, <3>2, <3>3
  <2> QED
    BY <2>4, <2>5
<1>5. ASSUME NEW t \in Tx, RefuseOrphanTx(t) PROVE RetryInv'
  <2>1. /\ vWorkQueue' = vWorkQueue /\ work' = work /\ tried' = tried \cup {t}
        /\ vEraseQueue' = vEraseQueue \/ vEraseQueue' = vEraseQueue \cup {t}
        /\ t \in vEraseQueue' \/ MissingInputs(t)
        /\ mapTx' = mapTx /\ mapOrphanTransactions' = mapOrphanTransactions /\ best' = best
    BY <1>5 DEF RefuseOrphanTx, pool, orphans, ledgerVars
  <2>2. \A o : MissingInputs(o)' <=> MissingInputs(o)
    BY <2>1 DEF MissingInputs, InChain
  <2>3. \A o : o # t => (Owed(o)' <=> Owed(o))
    BY <2>1 DEF Owed
  <2> QED
    BY <2>1, <2>2, <2>3 DEF RetryInv
<1>6. CASE NextParent
  <2>1. /\ vWorkQueue' = vWorkQueue /\ work' = work + 1 /\ tried' = {}
        /\ vEraseQueue' = vEraseQueue /\ mapTx' = mapTx
        /\ mapOrphanTransactions' = mapOrphanTransactions /\ best' = best
        /\ Spenders \subseteq tried
    BY <1>6 DEF NextParent, pool, orphans, ledgerVars
  <2>2. work \in 1..Len(vWorkQueue) /\ Len(vWorkQueue) \in Nat /\ vWorkQueue[work] \in Tx
    BY <1>6 DEF NextParent, LoopInv
  <2>3. \A o : MissingInputs(o)' <=> MissingInputs(o)
    BY <2>1 DEF MissingInputs, InChain
  <2>4. ASSUME NEW o \in mapOrphanTransactions, Owed(o) PROVE Owed(o)'
    <3>1. PICK i \in work..Len(vWorkQueue) : vWorkQueue[i] \in vin[o] /\ (i = work => o \notin tried)
      BY <2>4 DEF Owed
    <3>2. i # work
      BY <2>1, <2>2, <3>1 DEF Spenders, OrphanInv, OrphanIndex
    <3>3. i \in work'..Len(vWorkQueue')
      BY <2>1, <2>2, <3>2
    <3> QED
      BY <2>1, <3>1, <3>3 DEF Owed
  <2> QED
    BY <2>1, <2>3, <2>4 DEF RetryInv
<1>7. CASE EndOfQueue
  BY <1>2, <1>7 DEF EndOfQueue
<1>8. ASSUME NEW t \in Tx, AddOrphanTx(t) PROVE RetryInv'
  BY <1>2, <1>8 DEF AddOrphanTx, Unlocked, message
<1>9. ASSUME NEW b \in Block, NewBestChain(b) PROVE RetryInv'
  BY <1>2, <1>9 DEF NewBestChain, Unlocked, message
<1>10. ASSUME NEW t \in Tx, Collect(t) \/ CreateCoinStake(t) PROVE RetryInv'
  BY <1>1, <1>10 DEF Collect, CreateCoinStake
<1>11. CASE ReadTarget \/ StartCollecting \/ BlockReady \/ BlockDone \/ UNCHANGED poolVars
  BY <1>1, <1>11 DEF ReadTarget, StartCollecting, BlockReady, BlockDone, poolVars
<1> QED
  BY <1>3, <1>4, <1>5, <1>6, <1>7, <1>8, <1>9, <1>10, <1>11 DEF MempoolNext

(* One pass over vWorkQueue is enough, although an orphan that is tried     *)
(* early may get its last missing input later in the same pass.             *)
THEOREM OrphansAreRetried == MempoolSpec => OrphansRetried
<1> DEFINE Retried ==
      vWorkQueue # <<>> /\ vWorkQueue' = <<>> =>
        \A o \in mapOrphanTransactions' :
          (\E i \in DOMAIN vWorkQueue : vWorkQueue[i] \in vin[o]) => MissingInputs(o)
<1>1. MempoolInit => OrphanInv /\ LoopInv /\ RetryInv
  BY DEF MempoolInit, OrphanInv, OrphanIndex, LoopInv, RetryInv
<1>2. OrphanInv /\ LoopInv /\ RetryInv /\ [MempoolNext]_poolVars
        => OrphanInv' /\ LoopInv' /\ RetryInv'
  BY OrphanInvStep, LoopInvStep, RetryInvStep
<1>3. ASSUME OrphanInv, LoopInv, RetryInv, [MempoolNext]_poolVars PROVE Retried
  <2>1. SUFFICES ASSUME vWorkQueue # <<>>, vWorkQueue' = <<>>,
                        NEW o \in mapOrphanTransactions',
                        \E i \in DOMAIN vWorkQueue : vWorkQueue[i] \in vin[o]
                 PROVE  MissingInputs(o)
    OBVIOUS
  <2>2. EndOfQueue
    <3>1. \A t \in Tx : ~ AcceptTx(t) /\ ~ AcceptOrphanTx(t)
      <4>1. \A t : Len(<<t>>) # 0 /\ Len(Append(vWorkQueue, t)) # 0
        BY <1>3 DEF LoopInv
      <4> QED
        BY <2>1, <4>1 DEF AcceptTx, AcceptOrphanTx
    <3>2. vWorkQueue' # vWorkQueue
      BY <2>1
    <3>3. ASSUME NEW t \in Tx,
                 AddOrphanTx(t) \/ RefuseOrphanTx(t) \/ Collect(t) \/ CreateCoinStake(t)
          PROVE  FALSE
      BY <3>2, <3>3 DEF AddOrphanTx, RefuseOrphanTx, Collect, CreateCoinStake, message
    <3>4. ASSUME NextParent \/ ReadTarget \/ StartCollecting \/ BlockReady \/ BlockDone
                 \/ (\E b \in Block : NewBestChain(b)) \/ UNCHANGED poolVars
          PROVE  FALSE
      BY <3>2, <3>4 DEF NextParent, ReadTarget, StartCollecting, BlockReady, BlockDone,
         NewBestChain, message, poolVars
    <3> QED
      BY <1>3, <2>1, <3>1, <3>3, <3>4 DEF MempoolNext
  <2>3. o \in mapOrphanTransactions \ vEraseQueue /\ work = Len(vWorkQueue) /\ Spenders \subseteq tried
    BY <2>2 DEF EndOfQueue, EraseOrphanTx, QueueEnds
  <2>4. work \in Nat /\ work # 0 /\ vWorkQueue[work] \in Tx
    BY <1>3, <2>1, <2>3 DEF LoopInv
  <2>5. ~ Owed(o)
    <3>1. SUFFICES ASSUME NEW i \in work..Len(vWorkQueue), vWorkQueue[i] \in vin[o],
                          i = work => o \notin tried
                   PROVE  FALSE
      BY DEF Owed
    <3>2. i = work
      BY <2>3, <2>4
    <3> QED
      BY <1>3, <2>3, <2>4, <3>1, <3>2 DEF Spenders, OrphanInv, OrphanIndex
  <2> QED
    BY <1>3, <2>1, <2>3, <2>5 DEF RetryInv
<1> QED
  BY <1>1, <1>2, <1>3, PTL DEF MempoolSpec, OrphansRetried

----------------------------------------------------------------------------
(* Types *)
OrphanTypeOK ==
  /\ IsFiniteSet(mapOrphanTransactions)
  /\ Cardinality(mapOrphanTransactions) <= MAX_ORPHAN_TRANSACTIONS
  /\ mapOrphanTransactionsByPrev \in [Tx -> SUBSET Tx]

MessageTypeOK ==
  /\ tried \subseteq Tx
  /\ vEraseQueue \subseteq Tx

MiningTypeOK ==
  /\ pindexPrev \in Block \cup {NoBlock}
  /\ coinstake \in Tx \cup {NoTx}
  /\ stakePrev \in Block \cup {NoBlock}
  /\ hashPrevBlock \in Block \cup {NoBlock}

LEMMA LimitKeepsSize ==
  ASSUME NEW S, IsFiniteSet(S), Cardinality(S) <= MAX_ORPHAN_TRANSACTIONS,
         NEW t, NEW T \in LimitOrphanTxSize(S \cup {t})
  PROVE  IsFiniteSet(T) /\ Cardinality(T) <= MAX_ORPHAN_TRANSACTIONS
<1> DEFINE held == S \cup {t}
<1>1. /\ IsFiniteSet(held) /\ Cardinality(held) \in Nat /\ Cardinality(S) \in Nat
      /\ Cardinality(held) <= Cardinality(S) + 1
  BY FS_AddElement, FS_CardinalityType
<1>2. CASE Cardinality(held) <= MAX_ORPHAN_TRANSACTIONS
  <2>1. ~ Cardinality(held) > MAX_ORPHAN_TRANSACTIONS
    BY <1>1, <1>2, MempoolAssumption
  <2> QED
    BY <1>1, <1>2, <2>1 DEF LimitOrphanTxSize
<1>3. CASE Cardinality(held) > MAX_ORPHAN_TRANSACTIONS
  <2>1. PICK x \in held : T = held \ {x}
    BY <1>3 DEF LimitOrphanTxSize
  <2>2. IsFiniteSet(T) /\ Cardinality(T) = Cardinality(held) - 1
    BY <1>1, <2>1, FS_RemoveElement
  <2> QED
    BY <1>1, <2>2, MempoolAssumption
<1> QED
  BY <1>1, <1>2, <1>3, MempoolAssumption

LEMMA OrphanTypeStep ==
  ASSUME OrphanTypeOK, OrphanInv, [MempoolNext]_poolVars
  PROVE  OrphanTypeOK'
<1>1. ASSUME UNCHANGED orphans PROVE OrphanTypeOK'
  BY <1>1 DEF orphans, OrphanTypeOK
<1>2. ASSUME NEW t \in Tx, AddOrphanTx(t) PROVE OrphanTypeOK'
  <2>1. mapOrphanTransactions' \in LimitOrphanTxSize(mapOrphanTransactions \cup {t})
    BY <1>2 DEF AddOrphanTx
  <2>2. /\ IsFiniteSet(mapOrphanTransactions')
        /\ Cardinality(mapOrphanTransactions') <= MAX_ORPHAN_TRANSACTIONS
    BY <2>1, LimitKeepsSize DEF OrphanTypeOK
  <2>3. mapOrphanTransactionsByPrev' \in [Tx -> SUBSET Tx]
    BY <1>2 DEF AddOrphanTx, OrphanTypeOK
  <2> QED
    BY <2>2, <2>3 DEF OrphanTypeOK
<1>3. CASE EndOfQueue
  <2>1. mapOrphanTransactions' \subseteq mapOrphanTransactions
    BY <1>3 DEF EndOfQueue, EraseOrphanTx
  <2>2. /\ IsFiniteSet(mapOrphanTransactions')
        /\ Cardinality(mapOrphanTransactions') <= Cardinality(mapOrphanTransactions)
    BY <2>1, FS_Subset DEF OrphanTypeOK
  <2>3. /\ Cardinality(mapOrphanTransactions) \in Nat
        /\ Cardinality(mapOrphanTransactions') \in Nat
    BY <2>2, FS_CardinalityType DEF OrphanTypeOK
  <2>4. mapOrphanTransactionsByPrev' \in [Tx -> SUBSET Tx]
    BY <1>3 DEF EndOfQueue, EraseOrphanTx, OrphanTypeOK
  <2> QED
    BY <2>2, <2>3, <2>4, MempoolAssumption DEF OrphanTypeOK
<1>4. ASSUME NEW t \in Tx, AcceptTx(t) \/ AcceptOrphanTx(t) \/ RefuseOrphanTx(t)
             \/ Collect(t) \/ CreateCoinStake(t)
      PROVE  OrphanTypeOK'
  BY <1>1, <1>4 DEF AcceptTx, AcceptOrphanTx, RefuseOrphanTx, Collect, CreateCoinStake
<1>5. CASE NextParent \/ ReadTarget \/ StartCollecting \/ BlockReady \/ BlockDone
           \/ (\E b \in Block : NewBestChain(b)) \/ UNCHANGED poolVars
  BY <1>1, <1>5 DEF NextParent, ReadTarget, StartCollecting, BlockReady, BlockDone,
     NewBestChain, poolVars
<1> QED
  BY <1>2, <1>3, <1>4, <1>5 DEF MempoolNext

LEMMA MessageTypeStep == MessageTypeOK /\ [MempoolNext]_poolVars => MessageTypeOK'
BY DEF MessageTypeOK, MempoolNext, poolVars, message, AcceptTx, AddOrphanTx, AcceptOrphanTx,
   RefuseOrphanTx, NextParent, EndOfQueue, ReadTarget, StartCollecting, Collect,
   CreateCoinStake, BlockReady, BlockDone, NewBestChain

LEMMA MiningTypeStep ==
  ASSUME LedgerInv, MiningTypeOK, [MempoolNext]_poolVars
  PROVE  MiningTypeOK'
BY DEF LedgerInv, ValidChain, MiningTypeOK, MempoolNext, poolVars, mining, AcceptTx, AddOrphanTx,
   AcceptOrphanTx, RefuseOrphanTx, NextParent, EndOfQueue, ReadTarget, StartCollecting,
   Collect, CreateCoinStake, BlockReady, BlockDone, NewBestChain

(* Every variable of the pool, the orphans, the message under way and the   *)
(* template keeps its type, and the orphans their limit.                    *)
THEOREM PoolTypeCorrect == MempoolSpec => []MempoolTypeOK
<1> DEFINE TypeInv == /\ OrphanInv /\ LoopInv /\ TemplateInv
                      /\ OrphanTypeOK /\ MessageTypeOK /\ MiningTypeOK
<1>1. MempoolInit => TypeInv
  <2>1. MempoolInit => OrphanTypeOK
    BY FS_EmptySet, MempoolAssumption DEF MempoolInit, OrphanTypeOK
  <2> QED
    BY <2>1 DEF MempoolInit, OrphanInv, OrphanIndex, LoopInv, TemplateInv, ConnectTo,
       MessageTypeOK, MiningTypeOK
<1>2. LedgerInv /\ PoolInv /\ TypeInv /\ [MempoolNext]_poolVars => TypeInv'
  BY OrphanInvStep, LoopInvStep, TemplateInvStep, OrphanTypeStep, MessageTypeStep, MiningTypeStep
<1>3. LedgerInv /\ PoolInv /\ TypeInv => MempoolTypeOK
  BY DEF LedgerInv, ValidChain, Unspent, PoolInv, OrphanInv, LoopInv, TemplateInv,
     OrphanTypeOK, MessageTypeOK, MiningTypeOK, MempoolTypeOK
<1> QED
  BY <1>1, <1>2, <1>3, PoolInvAlways, PTL DEF MempoolSpec
============================================================================
