----------------------------- MODULE BestChain -----------------------------
(***************************************************************************)
(* How the node keeps its best chain: CBlock::AddToBlockIndex,             *)
(* SetBestChain, SetBestChainInner, Reorganize, ConnectBlock and           *)
(* DisconnectBlock of main.cpp, over the tables of blkindex.dat (CTxDB).   *)
(*                                                                         *)
(* One thread at a time runs this code, holding cs_main; what it can meet  *)
(* is a crash.  A step of the specification is therefore a stretch of the  *)
(* code between two points where a crash leaves different things on disk:  *)
(* a commit of the database, or one block of the uncommitted transaction   *)
(* that Reorganize works in.                                               *)
(***************************************************************************)
EXTENDS BlockTree

CONSTANTS
  Checkpointable,   \* blocks a sync-checkpoint may ask SetBestChain for
  MayFail,          \* blocks whose connection may also fail for a reason that
                    \* is not in the block: a read or write error
  TxnMayFail,       \* blocks the database may not begin or commit a
                    \* transaction for, or not read as a postponed block
  MayCrash          \* TRUE when the process may die and be started again

ASSUME FaultAssumption ==
  /\ Checkpointable \subseteq Block
  /\ MayFail \subseteq Block
  /\ TxnMayFail \subseteq Block
  /\ MayCrash \in BOOLEAN

VARIABLES
  \* In memory
  mapBlockIndex,        \* accepted blocks (their records are on disk as well)
  pnext,                \* CBlockIndex::pnext of every block
  pindexBest,           \* the best block; hashBestChain, nBestHeight and
                        \* bnBestChainTrust are always assigned with it
  \* Committed in blkindex.dat
  hashNext,             \* CDiskBlockIndex::hashNext of every block
  hashBestChain,        \* the "hashBestChain" record
  txindex,              \* the "tx" records: one CTxIndex for each transaction
  bnBestInvalidTrust,   \* written through by InvalidChainFound
  \* The database transaction Reorganize works in
  txnNext,              \* hashNext as the transaction sees it
  txnIndex,             \* txindex as the transaction sees it
  \* Where the thread in SetBestChain is
  pc,
  pindexNew,            \* the block SetBestChain was called for
  pindexIntermediate,   \* the block Reorganize was called for
  cursor,               \* the last block (dis)connected: end of the chain so far
  \* History
  fGap                  \* a postponed reconnect has failed (see ConnectFails)

memory == <<mapBlockIndex, pnext, pindexBest>>
disk == <<hashNext, hashBestChain, txindex>>
txn == <<txnNext, txnIndex>>
work == <<pindexNew, pindexIntermediate, cursor>>
vars == <<memory, disk, bnBestInvalidTrust, txn, pc, work, fGap>>

----------------------------------------------------------------------------
(***************************************************************************)
(* CTxIndex: the block that holds the transaction and the block that holds *)
(* the spender of its output (vSpent).  A disk position is abstracted to   *)
(* the block it lies in.  No record: pos is NoBlock.                       *)
(***************************************************************************)
CTxIndex == [pos : Block \cup {NoBlock}, vSpent : Block \cup {NoBlock}]

NoRecord == [pos |-> NoBlock, vSpent |-> NoBlock]

(* BIP30: refuse to overwrite a transaction that is not completely spent. *)
NoOverwrite(ix, b) ==
  \A t \in BlockTxs(b) : ix[t].pos # NoBlock => ix[t].vSpent # NoBlock

(* mutant: the record is there, spent or not *)
SpendableIfIndexed(ix, t) == ix[t].pos # NoBlock

Spendable(ix, t) == ix[t].pos # NoBlock /\ ix[t].vSpent = NoBlock

(* mutant: one block too few *)
TooYoungByOne(b, pos) ==
  \E x \in Chain[b] : nHeight[b] - nHeight[x] < nCoinbaseMaturity - 1 /\ x = pos

(* The walk from b towards Genesis meets the block at pos too early. *)
TooYoung(b, pos) ==
  \E x \in Chain[b] : nHeight[b] - nHeight[x] < nCoinbaseMaturity /\ x = pos

(* FetchInputs and ConnectInputs for every transaction of b in order.  What *)
(* an earlier transaction of the block queued hides the record on disk.     *)
InputsConnect(ix, b) ==
  \A i \in DOMAIN vtx[b] : \A t \in vin[vtx[b][i]] :
    LET queued == \E j \in 1..(i - 1) : vtx[b][j] = t
    IN  /\ queued \/ Spendable(ix, t)
        /\ \A j \in 1..(i - 1) : t \notin vin[vtx[b][j]]
        /\ t \in Generated => ~ TooYoung(b, IF queued THEN b ELSE ix[t].pos)

(* Whether ConnectBlock succeeds on the records ix, and what it writes. *)
ConnectBlock(ix, b) == b \notin BadBlock /\ NoOverwrite(ix, b) /\ InputsConnect(ix, b)

ConnectIndex(ix, b) ==
  [t \in Tx |->
    [pos    |-> IF t \in BlockTxs(b) THEN b ELSE ix[t].pos,
     vSpent |-> IF t \in SpentBy(b) THEN b
                ELSE IF t \in BlockTxs(b) THEN NoBlock ELSE ix[t].vSpent]]

ConnectNext(nx, b) == [nx EXCEPT ![b] = pnext[b], ![pprev[b]] = b]

(* The same for DisconnectBlock: transactions in reverse order, each giving *)
(* its inputs back, then losing its own record.                             *)
DisconnectBlock(ix, b) ==
  \A i \in DOMAIN vtx[b] : \A t \in vin[vtx[b][i]] :
    /\ ix[t].pos # NoBlock
    /\ \A j \in DOMAIN vtx[b] : j > i => vtx[b][j] # t

(* mutant: the inputs stay spent *)
DisconnectIndexKeepsSpent(ix, b) ==
  [t \in Tx |-> IF t \in BlockTxs(b) THEN NoRecord ELSE ix[t]]

DisconnectIndex(ix, b) ==
  [t \in Tx |-> IF t \in BlockTxs(b) THEN NoRecord
                ELSE IF t \in SpentBy(b) THEN [ix[t] EXCEPT !.vSpent = NoBlock]
                ELSE ix[t]]

(* mutant: the parent's record keeps pointing at b *)
DisconnectNextKeepsLink(nx, b) == nx

DisconnectNext(nx, b) == [nx EXCEPT ![pprev[b]] = NoBlock]

IsInMainChain(b) == pnext[b] # NoBlock \/ b = pindexBest

(* mutant: the last one instead of the greatest *)
InvalidChainFoundLast(b) == bnBestInvalidTrust' = bnChainTrust[b]

InvalidChainFound(b) ==
  bnBestInvalidTrust' = IF bnChainTrust[b] > bnBestInvalidTrust
                        THEN bnChainTrust[b] ELSE bnBestInvalidTrust

----------------------------------------------------------------------------
Init ==
  /\ mapBlockIndex = {Genesis}
  /\ pnext = [b \in Block |-> NoBlock]
  /\ pindexBest = Genesis
  /\ hashNext = [b \in Block |-> NoBlock]
  /\ hashBestChain = Genesis
  /\ txindex = [t \in Tx |-> NoRecord]
  /\ bnBestInvalidTrust = 0
  /\ txnNext = hashNext
  /\ txnIndex = txindex
  /\ pc = "idle"
  /\ pindexNew = NoBlock
  /\ pindexIntermediate = NoBlock
  /\ cursor = NoBlock
  /\ fGap = FALSE

(* mutant: the longest chain instead of the one with most trust *)
IsHigher(b) == nHeight[b] > nHeight[pindexBest]

HasMoreTrust(b) == bnChainTrust[b] > bnChainTrust[pindexBest]

(* AcceptBlock's last part and AddToBlockIndex: the block enters the index, *)
(* in memory and on disk, and SetBestChain is called if it has most trust.  *)
AddToBlockIndex(b) ==
  /\ pc = "idle"
  /\ b \in Block \ mapBlockIndex
  /\ pprev[b] \in mapBlockIndex
  /\ mapBlockIndex' = mapBlockIndex \cup {b}
  /\ IF HasMoreTrust(b)
     THEN pc' = "SetBestChain" /\ pindexNew' = b
     ELSE UNCHANGED <<pc, pindexNew>>
  /\ UNCHANGED <<pnext, pindexBest, disk, bnBestInvalidTrust, txn,
                 pindexIntermediate, cursor, fGap>>

(* Checkpoints::ProcessSyncCheckpoint, AcceptPendingSyncCheckpoint and      *)
(* ResetSyncCheckpoint call SetBestChain for a block that is not in the     *)
(* main chain, whatever its trust.                                          *)
DemandCheckpoint(b) ==
  /\ pc = "idle"
  /\ b \in Checkpointable \cap mapBlockIndex
  /\ ~ IsInMainChain(b)
  /\ pc' = "SetBestChain"
  /\ pindexNew' = b
  /\ UNCHANGED <<memory, disk, bnBestInvalidTrust, txn,
                 pindexIntermediate, cursor, fGap>>

----------------------------------------------------------------------------
(* SetBestChain gives up: nothing of its transaction reaches the disk. *)
Abort ==
  /\ txnNext' = hashNext
  /\ txnIndex' = txindex
  /\ pc' = "idle"
  /\ pindexNew' = NoBlock
  /\ pindexIntermediate' = NoBlock
  /\ cursor' = NoBlock

(* mutant: the record is not written *)
KeepHashBestChain(b) == hashBestChain' = hashBestChain

WriteHashBestChain(b) == hashBestChain' = b

(* SetBestChainInner: connect b in one transaction and commit it. *)
Attach(b) ==
  /\ ConnectBlock(txindex, b)
  /\ txindex' = ConnectIndex(txindex, b)
  /\ hashNext' = ConnectNext(hashNext, b)
  /\ WriteHashBestChain(b)
  /\ txnIndex' = txindex'
  /\ txnNext' = hashNext'
  /\ pnext' = [pnext EXCEPT ![pprev[b]] = b]
  /\ cursor' = b

(* The block extends the best chain. *)
ExtendBestChain ==
  /\ pc = "SetBestChain"
  /\ pindexNew # Genesis
  /\ pprev[pindexNew] = pindexBest
  /\ Attach(pindexNew)
  /\ pc' = "Postponed"
  /\ UNCHANGED <<mapBlockIndex, pindexBest, bnBestInvalidTrust,
                 pindexNew, pindexIntermediate, fGap>>

ExtendFails ==
  /\ pc = "SetBestChain"
  /\ pindexNew # Genesis
  /\ pprev[pindexNew] = pindexBest
  /\ ~ ConnectBlock(txindex, pindexNew) \/ pindexNew \in MayFail
  /\ InvalidChainFound(pindexNew)
  /\ Abort
  /\ UNCHANGED <<memory, disk, fGap>>

(* TxnBegin fails, or TxnCommit of a block that extends the best chain:     *)
(* SetBestChain gives up too, but without InvalidChainFound.                *)
TransactionFails ==
  /\ pc = "SetBestChain"
  /\ pindexNew \in TxnMayFail
  /\ Abort
  /\ UNCHANGED <<memory, disk, bnBestInvalidTrust, fGap>>

(* The block is on another branch: the blocks above the first one that has  *)
(* more trust than the best chain are postponed, and Reorganize is called   *)
(* for that one.                                                            *)
StartReorganize(x) ==
  /\ pc = "SetBestChain"
  /\ pindexNew # Genesis => pprev[pindexNew] # pindexBest
  /\ x \in Chain[pindexNew]
  /\ \A y \in Chain[pindexNew] \ Chain[x] :
        bnChainTrust[pprev[y]] > bnChainTrust[pindexBest]
  /\ x # Genesis => bnChainTrust[pprev[x]] <= bnChainTrust[pindexBest]
  /\ pindexIntermediate' = x
  /\ cursor' = pindexBest
  /\ pc' = "Reorganize"
  /\ UNCHANGED <<memory, disk, bnBestInvalidTrust, txn, pindexNew, fGap>>

(* One iteration of Reorganize's first loop. *)
Disconnect ==
  /\ pc = "Reorganize"
  /\ cursor \notin Chain[pindexIntermediate]
  /\ DisconnectBlock(txnIndex, cursor)
  /\ txnIndex' = DisconnectIndex(txnIndex, cursor)
  /\ txnNext' = DisconnectNext(txnNext, cursor)
  /\ cursor' = pprev[cursor]
  /\ UNCHANGED <<memory, disk, bnBestInvalidTrust, pc,
                 pindexNew, pindexIntermediate, fGap>>

(* One iteration of its second loop, for the block b of the new branch. *)
Connect(b) ==
  /\ pc = "Reorganize"
  /\ cursor \in Chain[pindexIntermediate]
  /\ IsNext(cursor, b, pindexIntermediate)
  /\ ConnectBlock(txnIndex, b)
  /\ txnIndex' = ConnectIndex(txnIndex, b)
  /\ txnNext' = ConnectNext(txnNext, b)
  /\ cursor' = b
  /\ UNCHANGED <<memory, disk, bnBestInvalidTrust, pc,
                 pindexNew, pindexIntermediate, fGap>>

(* A block of either loop fails, or after both the record or the commit. *)
ReorganizeFails ==
  /\ pc = "Reorganize"
  /\ IF cursor \in Chain[pindexIntermediate]
     THEN \/ \E b \in Chain[pindexIntermediate] :
               /\ IsNext(cursor, b, pindexIntermediate)
               /\ ~ ConnectBlock(txnIndex, b) \/ b \in MayFail
          \/ cursor = pindexIntermediate /\ cursor \in MayFail \cup TxnMayFail
     ELSE ~ DisconnectBlock(txnIndex, cursor) \/ cursor \in MayFail
  /\ InvalidChainFound(pindexNew)
  /\ Abort
  /\ UNCHANGED <<memory, disk, fGap>>

(* The blocks Reorganize disconnects and connects. *)
vDisconnect == Chain[pindexBest] \ Chain[pindexIntermediate]

vConnect == Chain[pindexIntermediate] \ Chain[pindexBest]

(* mutant: only the new branch is linked *)
LinkedPnext ==
  [b \in Block |-> IF \E y \in vConnect : pprev[y] = b
                  THEN CHOOSE y \in vConnect : pprev[y] = b
                  ELSE pnext[b]]

RelinkedPnext ==
  [b \in Block |-> IF \E y \in vConnect : pprev[y] = b
                  THEN CHOOSE y \in vConnect : pprev[y] = b
                  ELSE IF \E y \in vDisconnect : pprev[y] = b
                  THEN NoBlock
                  ELSE pnext[b]]

(* Both loops are done: hashBestChain is written, the transaction commits,  *)
(* and only then do the pnext pointers follow.                              *)
CommitReorganize ==
  /\ pc = "Reorganize"
  /\ cursor = pindexIntermediate
  /\ txindex' = txnIndex
  /\ hashNext' = txnNext
  /\ WriteHashBestChain(pindexIntermediate)
  /\ pnext' = RelinkedPnext
  /\ pc' = "Postponed"
  /\ UNCHANGED <<mapBlockIndex, pindexBest, bnBestInvalidTrust, txn, work, fGap>>

----------------------------------------------------------------------------
(* The postponed blocks, each in a transaction of its own. *)
ConnectPostponed(b) ==
  /\ pc = "Postponed"
  /\ IsNext(cursor, b, pindexNew)
  /\ Attach(b)
  /\ UNCHANGED <<mapBlockIndex, pindexBest, bnBestInvalidTrust, pc,
                 pindexNew, pindexIntermediate, fGap>>

NewBest ==
  /\ pindexBest' = pindexNew
  /\ pc' = "idle"
  /\ pindexNew' = NoBlock
  /\ pindexIntermediate' = NoBlock
  /\ cursor' = NoBlock

(* SetBestChain goes on after the loop either way: pindexNew becomes the    *)
(* best block even if a postponed block, and so every later one, failed.    *)
(* InvalidChainFound is for a block that did not connect, not for one that  *)
(* could not be read, or whose transaction did not begin or commit.         *)
PostponedFails(b) ==
  /\ pc = "Postponed"
  /\ IsNext(cursor, b, pindexNew)
  /\ \/ (~ ConnectBlock(txindex, b) \/ b \in MayFail) /\ InvalidChainFound(b)
     \/ b \in TxnMayFail /\ UNCHANGED bnBestInvalidTrust
  /\ NewBest
  /\ fGap' = TRUE
  /\ UNCHANGED <<mapBlockIndex, pnext, disk, txn>>

NewBestBlock ==
  /\ pc = "Postponed"
  /\ cursor = pindexNew
  /\ NewBest
  /\ UNCHANGED <<mapBlockIndex, pnext, disk, bnBestInvalidTrust, txn, fGap>>

----------------------------------------------------------------------------
(* mutant: the block whose connection was under way *)
LoadedTarget == pindexNew

LoadedBest == hashBestChain

(* The process dies anywhere, and LoadBlockIndex reads the disk again.  An  *)
(* open transaction is lost; what was committed is not.                     *)
Restart ==
  /\ MayCrash
  /\ pnext' = hashNext
  /\ pindexBest' = LoadedBest
  /\ Abort
  /\ UNCHANGED <<mapBlockIndex, disk, bnBestInvalidTrust, fGap>>

----------------------------------------------------------------------------
(* What the thread inside SetBestChain does next. *)
SetBestChainStep ==
  \/ ExtendBestChain \/ ExtendFails \/ TransactionFails
  \/ \E x \in Block : StartReorganize(x)
  \/ Disconnect \/ (\E b \in Block : Connect(b)) \/ ReorganizeFails
  \/ CommitReorganize
  \/ \E b \in Block : ConnectPostponed(b) \/ PostponedFails(b)
  \/ NewBestBlock

Next ==
  \/ \E b \in Block : AddToBlockIndex(b) \/ DemandCheckpoint(b)
  \/ SetBestChainStep
  \/ Restart

(* The thread holds cs_main until SetBestChain returns, and its loops do    *)
(* not wait for anything.  Nothing makes a block arrive.                    *)
Spec == Init /\ [][Next]_vars /\ WF_vars(SetBestChainStep)
----------------------------------------------------------------------------
(***************************************************************************)
(* Correctness                                                             *)
(***************************************************************************)
TypeOK ==
  /\ mapBlockIndex \subseteq Block
  /\ pnext \in [Block -> Block \cup {NoBlock}]
  /\ pindexBest \in Block
  /\ hashNext \in [Block -> Block \cup {NoBlock}]
  /\ hashBestChain \in Block
  /\ txindex \in [Tx -> CTxIndex]
  /\ bnBestInvalidTrust \in Nat
  /\ txnNext \in [Block -> Block \cup {NoBlock}]
  /\ txnIndex \in [Tx -> CTxIndex]
  /\ pc \in {"idle", "SetBestChain", "Reorganize", "Postponed"}
  /\ pindexNew \in Block \cup {NoBlock}
  /\ pindexIntermediate \in Block \cup {NoBlock}
  /\ cursor \in Block \cup {NoBlock}
  /\ fGap \in BOOLEAN

(* nx holds the successor of every block on the way to b, and nothing else. *)
LinksTo(nx, b) ==
  \A x \in Block : IF x \in Chain[b] \ {b} THEN IsNext(x, nx[x], b)
                   ELSE nx[x] = NoBlock

(* ix is what connecting the blocks of b's chain, and no other, leaves. *)
IsReplay(ix, b) ==
  \A t \in Tx :
    /\ ix[t].pos \in Connected(b) \cup {NoBlock}
    /\ ix[t].vSpent \in Connected(b) \cup {NoBlock}
    /\ \A x \in Connected(b) :
          /\ t \in BlockTxs(x) <=> ix[t].pos = x
          /\ t \in SpentBy(x) <=> ix[t].vSpent = x

(* At every point where the process may die, the transaction index on disk  *)
(* is the replay of the chain on disk: no reorganization, finished, aborted *)
(* or cut off by a crash, loses or keeps a spent pointer it should not.     *)
DiskIndexIsReplay == ~ fGap => IsReplay(txindex, hashBestChain)

(* The chain on disk obeys the rules on its own terms: no output is spent   *)
(* twice, before it exists or before it is mature, however many branches    *)
(* the node has been on.                                                    *)
DiskChainValid == ~ fGap => hashBestChain \in ValidChain

(* The hashNext records lead from Genesis to the hashBestChain record:      *)
(* LoadBlockIndexGuts rebuilds pnext from them after a crash.               *)
DiskChainLinked == ~ fGap => LinksTo(hashNext, hashBestChain)

(* pnext leads along the chain that is being built, and nowhere else: a     *)
(* block is IsInMainChain exactly if it is on the best chain.               *)
MainChainLinked ==
  ~ fGap => LinksTo(pnext, IF pc = "Postponed" THEN cursor ELSE pindexBest)

(* Between calls memory and disk agree on the best block. *)
BestIsOnDisk == ~ fGap /\ pc = "idle" => pindexBest = hashBestChain

(* Between calls no accepted block ends a valid chain of more trust than    *)
(* the best chain.  For a node that has neither crashed nor been moved by a *)
(* checkpoint.                                                              *)
MostTrusted ==
  pc = "idle" => \A b \in mapBlockIndex \cap ValidChain :
                    bnChainTrust[b] <= bnChainTrust[pindexBest]

(* An accepted chain of more trust than the best one that was left aside is *)
(* one InvalidChainFound has recorded, so GetWarnings can compare with it.  *)
(* For a database that begins and commits every transaction: one that does  *)
(* not (TransactionFails) leaves the chain aside without a record.          *)
LeftAsideIsRecorded ==
  pc = "idle" => \A b \in mapBlockIndex :
                    \/ bnChainTrust[b] <= bnChainTrust[pindexBest]
                    \/ bnChainTrust[b] <= bnBestInvalidTrust

(* Every accepted valid block is overtaken by, or becomes, the best block:  *)
(* SetBestChain always ends, also when it disconnects and reconnects.       *)
Converges ==
  \A b \in ValidChain :
    b \in mapBlockIndex ~> bnChainTrust[pindexBest] >= bnChainTrust[b]

(* The database implements the abstract ledger. *)
LedgerOnDisk ==
  INSTANCE Ledger WITH
    best <- hashBestChain,
    unspent <- {t \in Tx : txindex[t].pos # NoBlock /\ txindex[t].vSpent = NoBlock},
    broken <- fGap

ImplementsLedger == LedgerOnDisk!LedgerSpec

(* main.h: "pnext will only point forward to the longest branch, or will be *)
(* null if the block is not part of the longest chain", so between calls    *)
(* the pointers lead to pindexBest.                                         *)
PnextLeadsToBest == pc = "idle" => LinksTo(pnext, pindexBest)
============================================================================
