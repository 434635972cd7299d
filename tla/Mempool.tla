------------------------------ MODULE Mempool ------------------------------
(***************************************************************************)
(* The transactions that are in no block yet: CTxMemPool, the orphan       *)
(* transactions whose inputs are not known, and the block template that    *)
(* CreateNewBlock builds from the pool.  The best chain below is the       *)
(* ledger, which moves in the steps SetBestChain commits; every move takes *)
(* the new blocks' transactions out of the pool and puts those of the      *)
(* abandoned blocks back.                                                  *)
(*                                                                         *)
(* cs_main is held over the handling of a message and over the collection  *)
(* of transactions into a block, but not between the two reads of          *)
(* pindexBest in CreateNewBlock, where the wallet makes the coinstake of a  *)
(* proof-of-stake block, nor while the block is being solved.              *)
(***************************************************************************)
EXTENDS Ledger, FiniteSets

CONSTANTS
  NoTx,                     \* no transaction spends an output
  Nonstandard,              \* refused for what is in them: CheckTransaction,
                            \* IsStandard
  MAX_ORPHAN_TRANSACTIONS

ASSUME MempoolAssumption ==
  /\ NoTx \notin Tx
  /\ Nonstandard \subseteq Tx
  /\ MAX_ORPHAN_TRANSACTIONS \in Nat

VARIABLES
  mapTx,                        \* the pool
  mapNextTx,                    \* who in the pool spends an output
  mapOrphanTransactions,
  mapOrphanTransactionsByPrev,  \* the orphans that spend an output
  vWorkQueue,                   \* what the tx message under way got accepted
  work,                         \* the loop's place in vWorkQueue
  tried,                        \* the orphans already seen at that place
  vEraseQueue,
  miner,                        \* where CreateNewBlock is
  pindexPrev,                   \* the tip the template's target is for
  coinstake,                    \* vtx[1] of a proof-of-stake block
  stakePrev,                    \* the tip its coins were chosen on (history)
  hashPrevBlock,                \* the tip the template is built on
  template                      \* the transactions collected so far

pool == <<mapTx, mapNextTx>>
orphans == <<mapOrphanTransactions, mapOrphanTransactionsByPrev>>
message == <<vWorkQueue, work, tried, vEraseQueue>>
mining == <<miner, pindexPrev, coinstake, stakePrev, hashPrevBlock, template>>
poolVars == <<ledgerVars, pool, orphans, message, mining>>

----------------------------------------------------------------------------
(* The transaction index has a record of t, or the pool has t. *)
InChain(t) == \E x \in Connected(best) : t \in BlockTxs(x)

(* Spends a coinbase or coinstake of the last nCoinbaseMaturity blocks.     *)
TooYoungFor(b, t) ==
  t \in Generated /\ \E y \in Connected(b) : /\ t \in BlockTxs(y)
                                             /\ nHeight[b] - nHeight[y] < nCoinbaseMaturity

MissingInputs(t) == \E o \in vin[t] : ~ InChain(o) /\ o \notin mapTx

(* A transaction of the pool spends one of its inputs. *)
Conflicts(t) == \E o \in vin[t] : mapNextTx[o] # NoTx

(* CTxMemPool::accept up to FetchInputs, for fCheckInputs = false... *)
IsNewInPool(t) ==
  /\ vin[t] # {} /\ t \notin Generated \cup Nonstandard
  /\ t \notin mapTx /\ ~ Conflicts(t)

(* ... and for true. *)
IsNew(t) == IsNewInPool(t) /\ ~ InChain(t)

(* The rest of CTxMemPool::accept. *)
InputsConnect(t) ==
  \A o \in vin[t] : InChain(o) => o \in unspent /\ ~ TooYoungFor(best, o)

Acceptable(t) == IsNew(t) /\ ~ MissingInputs(t) /\ InputsConnect(t)

(* mutant: what a transaction spends is not noted *)
KeepNext(S, next) == next

(* What mapNextTx becomes when the transactions of S come in, no two of     *)
(* which spend the same output...                                           *)
AddedNext(S, next) ==
  [o \in Tx |-> IF \E t \in S : o \in vin[t] THEN CHOOSE t \in S : o \in vin[t]
                ELSE next[o]]

(* ... and when those of S, all in the pool, are removed. *)
RemovedNext(S, next) ==
  [o \in Tx |-> IF \E t \in S : o \in vin[t] THEN NoTx ELSE next[o]]

addUnchecked(t) == mapTx' = mapTx \cup {t} /\ mapNextTx' = AddedNext({t}, mapNextTx)
----------------------------------------------------------------------------
MempoolInit ==
  /\ LedgerInit
  /\ mapTx = {}
  /\ mapNextTx = [o \in Tx |-> NoTx]
  /\ mapOrphanTransactions = {}
  /\ mapOrphanTransactionsByPrev = [o \in Tx |-> {}]
  /\ vWorkQueue = <<>>
  /\ work = 0
  /\ tried = {}
  /\ vEraseQueue = {}
  /\ miner = "idle"
  /\ pindexPrev = NoBlock
  /\ coinstake = NoTx
  /\ stakePrev = NoBlock
  /\ hashPrevBlock = NoBlock
  /\ template = <<>>

(* cs_main is free. *)
Unlocked == vWorkQueue = <<>> /\ miner # "collect"

(* A tx message whose transaction is accepted. *)
AcceptTx(t) ==
  /\ Unlocked
  /\ Acceptable(t)
  /\ addUnchecked(t)
  /\ vWorkQueue' = <<t>>
  /\ work' = 1
  /\ vEraseQueue' = {t}
  /\ UNCHANGED <<ledgerVars, orphans, tried, mining>>

(* mutant: the index by previous transaction keeps it *)
EraseOrphanTxOnly(S) ==
  /\ mapOrphanTransactions' = mapOrphanTransactions \ S
  /\ UNCHANGED mapOrphanTransactionsByPrev

EraseOrphanTx(S) ==
  /\ mapOrphanTransactions' = mapOrphanTransactions \ S
  /\ mapOrphanTransactionsByPrev' =
       [o \in Tx |-> mapOrphanTransactionsByPrev[o] \ (S \cap mapOrphanTransactions)]

(* mutant: the limit is not enforced *)
KeepAll(held) == {held}

(* LimitOrphanTxSize throws random ones out. *)
LimitOrphanTxSize(held) ==
  IF Cardinality(held) > MAX_ORPHAN_TRANSACTIONS THEN {held \ {x} : x \in held} ELSE {held}

(* A tx message whose transaction is kept until its inputs are known; one of *)
(* more than 5000 bytes is ignored, which is no step.                        *)
AddOrphanTx(t) ==
  /\ Unlocked
  /\ IsNew(t) /\ MissingInputs(t)
  /\ t \notin mapOrphanTransactions
  /\ mapOrphanTransactions' \in LimitOrphanTxSize(mapOrphanTransactions \cup {t})
  /\ mapOrphanTransactionsByPrev' =
       [o \in Tx |-> ((IF o \in vin[t] THEN {t} ELSE {}) \cup mapOrphanTransactionsByPrev[o])
                     \ ((mapOrphanTransactions \cup {t}) \ mapOrphanTransactions')]
  /\ UNCHANGED <<ledgerVars, pool, message, mining>>

(* The orphans that spend the transaction the loop is at... *)
Spenders == mapOrphanTransactionsByPrev[vWorkQueue[work]]

IsNextOrphan(o) == vWorkQueue # <<>> /\ o \in Spenders \ tried

(* ... are taken one by one: accepted... *)
AcceptOrphanTx(o) ==
  /\ IsNextOrphan(o)
  /\ Acceptable(o)
  /\ addUnchecked(o)
  /\ vWorkQueue' = Append(vWorkQueue, o)
  /\ vEraseQueue' = vEraseQueue \cup {o}
  /\ tried' = tried \cup {o}
  /\ UNCHANGED <<ledgerVars, orphans, work, mining>>

(* ... or to be dropped, unless other inputs are still missing.  Fees, the   *)
(* rate limit and signatures may fail for any whose inputs are known.       *)
RefuseOrphanTx(o) ==
  /\ IsNextOrphan(o)
  /\ vEraseQueue' = IF IsNew(o) /\ MissingInputs(o) THEN vEraseQueue ELSE vEraseQueue \cup {o}
  /\ tried' = tried \cup {o}
  /\ UNCHANGED <<ledgerVars, pool, orphans, vWorkQueue, work, mining>>

NextParent ==
  /\ work < Len(vWorkQueue)
  /\ Spenders \subseteq tried
  /\ work' = work + 1
  /\ tried' = {}
  /\ UNCHANGED <<ledgerVars, pool, orphans, vWorkQueue, vEraseQueue, mining>>

(* mutant: only the orphans of the transaction in the message are tried *)
EndsAfterFirst == vWorkQueue # <<>>

QueueEnds == vWorkQueue # <<>> /\ work = Len(vWorkQueue)

EndOfQueue ==
  /\ QueueEnds
  /\ Spenders \subseteq tried
  /\ EraseOrphanTx(vEraseQueue)
  /\ vWorkQueue' = <<>>
  /\ work' = 0
  /\ vEraseQueue' = {}
  /\ tried' = {}
  /\ UNCHANGED <<ledgerVars, pool, mining>>

----------------------------------------------------------------------------
(* The blocks a move of the best chain to b takes off and puts on. *)
vDisconnect(b) == Chain[best] \ Chain[b]
vConnect(b) == Chain[b] \ Chain[best]

TxsOf(B) == UNION {BlockTxs(x) : x \in B}

(* Transactions of the blocks taken off come back, unless the pool has      *)
(* spent their inputs by another.  No two of them spend the same output:    *)
(* they were in one valid chain.  Their inputs are not checked.             *)
vResurrect(b) == {t \in TxsOf(vDisconnect(b)) : IsNewInPool(t)}

(* mutant: in the other order *)
RemovedThenResurrected(b) == (mapTx \ TxsOf(vConnect(b))) \cup vResurrect(b)

(* First the resurrected ones come in, then those in the new blocks go. *)
PoolAfter(b) == (mapTx \cup vResurrect(b)) \ TxsOf(vConnect(b))

(* SetBestChain commits: the next block, or a reorganization. *)
NewBestChain(b) ==
  /\ Unlocked
  /\ b \in Block \ {Genesis}
  /\ pprev[b] = best \/ best \notin Chain[b]
  /\ UNCHANGED broken
  /\ MoveTo(b)
  /\ mapTx' = PoolAfter(b)
  /\ mapNextTx' = RemovedNext(TxsOf(vConnect(b)) \cap (mapTx \cup vResurrect(b)),
                              AddedNext(vResurrect(b), mapNextTx))
  /\ UNCHANGED <<orphans, message, mining>>

----------------------------------------------------------------------------
(* CreateNewBlock reads the tip for the target, without a lock, and then,   *)
(* holding cs_main, for the block.                                          *)
ReadTarget ==
  /\ miner = "idle"
  /\ miner' = "target"
  /\ pindexPrev' = best
  /\ UNCHANGED <<ledgerVars, pool, orphans, message, coinstake, stakePrev,
                 hashPrevBlock, template>>

(* In between, under cs_wallet alone, CreateCoinStake stakes coins that the *)
(* wallet holds as unspent and mature.  The wallet follows the chain; of    *)
(* what the pool spends of it CreateCoinStake need not have been told yet.  *)
CreateCoinStake(t) ==
  /\ miner = "target" /\ coinstake = NoTx
  /\ t \in Generated /\ vin[t] # {}
  /\ \A o \in vin[t] : o \in unspent /\ ~ TooYoungFor(best, o)
  /\ coinstake' = t
  /\ stakePrev' = best
  /\ UNCHANGED <<ledgerVars, pool, orphans, message, miner, pindexPrev,
                 hashPrevBlock, template>>

StartCollecting ==
  /\ Unlocked /\ miner = "target"
  /\ miner' = "collect"
  /\ hashPrevBlock' = best
  /\ UNCHANGED <<ledgerVars, pool, orphans, message, pindexPrev, coinstake, stakePrev, template>>

Collected == {template[i] : i \in DOMAIN template}

(* setDependsOn: the inputs that only the pool has. *)
DependsOn(t) == {o \in vin[t] : ~ InChain(o)}

(* mutant: that an input exists is enough *)
ExistsFor(o) == InChain(o) \/ o \in Collected

(* FetchInputs and ConnectInputs against the index and mapTestPool, which   *)
(* knows what was collected and nothing of the coinstake.                   *)
UnspentFor(o) ==
  /\ o \in unspent \cup Collected
  /\ \A t \in Collected : o \notin vin[t]

(* The next transaction off the priority queue, in whatever order; one that *)
(* is too big, or does not connect, is left out.                            *)
Collect(t) ==
  /\ miner = "collect"
  /\ t \in mapTx \ Collected
  /\ DependsOn(t) \subseteq Collected
  /\ \A o \in vin[t] : UnspentFor(o) /\ ~ TooYoungFor(best, o)
  /\ template' = Append(template, t)
  /\ UNCHANGED <<ledgerVars, pool, orphans, message, miner, pindexPrev, coinstake, stakePrev,
                 hashPrevBlock>>

BlockReady ==
  /\ miner = "collect"
  /\ miner' = "ready"
  /\ UNCHANGED <<ledgerVars, pool, orphans, message, pindexPrev, coinstake, stakePrev,
                 hashPrevBlock, template>>

(* The transactions of the block after its coinbase. *)
BlockVtx == IF coinstake = NoTx THEN template ELSE <<coinstake>> \o template

(* The block is solved and given to CheckWork, which refuses a stale one,   *)
(* or the miner gives up and starts again.                                  *)
BlockDone ==
  /\ Unlocked /\ miner = "ready"
  /\ miner' = "idle"
  /\ pindexPrev' = NoBlock
  /\ coinstake' = NoTx
  /\ stakePrev' = NoBlock
  /\ hashPrevBlock' = NoBlock
  /\ template' = <<>>
  /\ UNCHANGED <<ledgerVars, pool, orphans, message>>

MempoolNext ==
  \/ \E t \in Tx : AcceptTx(t) \/ AddOrphanTx(t) \/ AcceptOrphanTx(t) \/ RefuseOrphanTx(t)
  \/ NextParent \/ EndOfQueue
  \/ \E b \in Block : NewBestChain(b)
  \/ ReadTarget \/ StartCollecting \/ BlockReady \/ BlockDone
  \/ \E t \in Tx : CreateCoinStake(t) \/ Collect(t)

MempoolSpec == MempoolInit /\ [][MempoolNext]_poolVars
----------------------------------------------------------------------------
(***************************************************************************)
(* Correctness                                                             *)
(***************************************************************************)
MempoolTypeOK ==
  /\ best \in Block
  /\ unspent \subseteq Tx
  /\ mapTx \subseteq Tx
  /\ mapNextTx \in [Tx -> Tx \cup {NoTx}]
  /\ mapOrphanTransactions \subseteq Tx
  /\ Cardinality(mapOrphanTransactions) <= MAX_ORPHAN_TRANSACTIONS
  /\ mapOrphanTransactionsByPrev \in [Tx -> SUBSET Tx]
  /\ vWorkQueue \in Seq(Tx)
  /\ work \in 0..Len(vWorkQueue) /\ (work = 0 <=> vWorkQueue = <<>>)
  /\ tried \subseteq Tx
  /\ vEraseQueue \subseteq Tx
  /\ miner \in {"idle", "target", "collect", "ready"}
  /\ pindexPrev \in Block \cup {NoBlock}
  /\ coinstake \in Tx \cup {NoTx}
  /\ stakePrev \in Block \cup {NoBlock}
  /\ hashPrevBlock \in Block \cup {NoBlock}
  /\ template \in Seq(Tx)

SpendsOnce(P, next) == \A o, t \in Tx : next[o] = t <=> t \in P /\ o \in vin[t]

(* mapNextTx is exactly what the pool spends, so the pool never spends an   *)
(* output twice and never refuses a transaction for one that is gone.       *)
PoolSpendsOnce == SpendsOnce(mapTx, mapNextTx)

(* Nothing is in the pool and in the chain, however the chain moves.        *)
PoolNotInChain == \A t \in mapTx : ~ InChain(t)

(* The index of orphans by previous transaction is that of the orphans.     *)
OrphanIndex ==
  \A o, t \in Tx :
    t \in mapOrphanTransactionsByPrev[o] <=> t \in mapOrphanTransactions /\ o \in vin[t]

(* "Recursively process any orphan transactions that depended on this one": *)
(* when a message has been handled, an orphan that spends a transaction it  *)
(* got accepted, directly or on the way, still misses another input.        *)
OrphansRetried ==
  [][vWorkQueue # <<>> /\ vWorkQueue' = <<>> =>
       \A o \in mapOrphanTransactions' :
         (\E i \in DOMAIN vWorkQueue : vWorkQueue[i] \in vin[o]) => MissingInputs(o)]_poolVars

(* The transactions txs, in this order, make a valid block on top of b:     *)
(* they spend only what the chain or an earlier one of them has created,    *)
(* nothing twice and nothing immature, and are not in the chain already.    *)
ConnectTo(txs, b) ==
  \A i \in DOMAIN txs :
    /\ \A x \in Connected(b) : txs[i] \notin BlockTxs(x)
    /\ \A o \in vin[txs[i]] :
         /\ \/ \E x \in Connected(b) : o \in BlockTxs(x)
            \/ \E j \in 1..(i - 1) : txs[j] = o
         /\ \A x \in Connected(b) : o \notin SpentBy(x)
         /\ \A j \in 1..(i - 1) : o \notin vin[txs[j]]
         /\ \A x \in Connected(b) :
              o \in BlockTxs(x) \cap Generated => nHeight[b] + 1 - nHeight[x] >= nCoinbaseMaturity

(* The tip the coins were staked on is the one the block is built on, and   *)
(* no spend of them came into the pool in between and was collected.        *)
StakeHolds ==
  /\ stakePrev = hashPrevBlock
  /\ \A t \in Collected : vin[t] \cap vin[coinstake] = {}

(* A solved block that CheckWork does not refuse as stale connects: what is *)
(* collected always, a coinstake and all with it unless CreateNewBlock was  *)
(* overtaken between CreateCoinStake and its lock, which it does not see.   *)
TemplateConnects ==
  miner = "ready" /\ hashPrevBlock = best =>
    /\ ConnectTo(template, best)
    /\ coinstake # NoTx /\ StakeHolds => ConnectTo(BlockVtx, best)

(* CreateNewBlock: "all transactions in the memory pool should connect to   *)
(* either transactions in the chain or other transactions in the memory     *)
(* pool".                                                                   *)
PoolConnects == \A t \in mapTx : ~ MissingInputs(t)
============================================================================
