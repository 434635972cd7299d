-------------------------- MODULE BestChainProofs --------------------------
(***************************************************************************)
(* Invariants of BestChain for every tree of blocks, every set of bad      *)
(* blocks, and any pattern of crashes, read errors and checkpoints; what   *)
(* holds of the choice of the best chain when some of these do not happen; *)
(* and that BestChain implements Ledger.                                   *)
(***************************************************************************)
EXTENDS LedgerTheorems

----------------------------------------------------------------------------
(* Type correctness *)

(* What the thread works on is there while it works on it. *)
WorkTyped ==
  /\ pc # "idle" => pindexNew \in Block
  /\ pc = "Reorganize" => pindexIntermediate \in Block /\ cursor \in Block
  /\ pc = "Postponed" => cursor \in Block

TypeInv == TypeOK /\ WorkTyped

LEMMA NextTypes ==
  ASSUME NEW b \in Block \ {Genesis}, NEW nx \in [Block -> Block \cup {NoBlock}],
         pnext \in [Block -> Block \cup {NoBlock}]
  PROVE  /\ ConnectNext(nx, b) \in [Block -> Block \cup {NoBlock}]
         /\ DisconnectNext(nx, b) \in [Block -> Block \cup {NoBlock}]
BY BlockTreeAssumption DEF ConnectNext, DisconnectNext

LEMMA RelinkedType ==
  ASSUME pindexIntermediate \in Block, pnext \in [Block -> Block \cup {NoBlock}]
  PROVE  RelinkedPnext \in [Block -> Block \cup {NoBlock}]
<1>1. vConnect \subseteq Block
  BY ChainEnds DEF vConnect
<1> QED
  BY <1>1 DEF RelinkedPnext

LEMMA TypeInvInit == Init => TypeInv
<1>1. NoRecord \in CTxIndex
  BY DEF NoRecord, CTxIndex
<1> SUFFICES ASSUME Init PROVE TypeInv
  OBVIOUS
<1>2. txindex \in [Tx -> CTxIndex] /\ txnIndex \in [Tx -> CTxIndex]
  BY <1>1 DEF Init
<1>3. /\ pnext \in [Block -> Block \cup {NoBlock}]
      /\ hashNext \in [Block -> Block \cup {NoBlock}]
      /\ txnNext \in [Block -> Block \cup {NoBlock}]
  BY DEF Init
<1>4. pc = "idle" /\ fGap \in BOOLEAN
  BY DEF Init
<1> QED
  BY <1>2, <1>3, <1>4, BlockTreeAssumption DEF Init, TypeInv, TypeOK, WorkTyped

LEMMA TypeInvStep == TypeInv /\ [Next]_vars => TypeInv'
<1> SUFFICES ASSUME TypeInv, [Next]_vars PROVE TypeInv'
  OBVIOUS
<1> USE DEF TypeInv, TypeOK, WorkTyped
<1>1. ASSUME NEW b \in Block, AddToBlockIndex(b) PROVE TypeInv'
  BY <1>1 DEF AddToBlockIndex, disk, txn
<1>2. ASSUME NEW b \in Block, DemandCheckpoint(b) PROVE TypeInv'
  BY <1>2 DEF DemandCheckpoint, memory, disk, txn
<1>3. ASSUME NEW b \in Block \ {Genesis}, Attach(b)
      PROVE  /\ txindex' \in [Tx -> CTxIndex] /\ txnIndex' \in [Tx -> CTxIndex]
             /\ hashNext' \in [Block -> Block \cup {NoBlock}]
             /\ txnNext' \in [Block -> Block \cup {NoBlock}]
             /\ pnext' \in [Block -> Block \cup {NoBlock}]
             /\ hashBestChain' \in Block /\ cursor' \in Block
  BY <1>3, IndexTypes, NextTypes, BlockTreeAssumption DEF Attach, WriteHashBestChain
<1>4. ASSUME NEW b \in Block, InvalidChainFound(b)
      PROVE  bnBestInvalidTrust' \in Nat
  BY <1>4, BlockTreeAssumption DEF InvalidChainFound
<1>5. CASE ExtendBestChain
  <2>1. pindexNew \in Block \ {Genesis} /\ Attach(pindexNew)
    BY <1>5 DEF ExtendBestChain
  <2> QED
    BY <1>3, <1>5, <2>1 DEF ExtendBestChain
<1>6. CASE ExtendFails
  <2>1. bnBestInvalidTrust' \in Nat
    BY <1>4, <1>6 DEF ExtendFails
  <2> QED
    BY <1>6, <2>1 DEF ExtendFails, Abort, memory, disk
<1>6a. CASE TransactionFails
  BY <1>6a DEF TransactionFails, Abort, memory, disk
<1>7. ASSUME NEW x \in Block, StartReorganize(x) PROVE TypeInv'
  BY <1>7 DEF StartReorganize, memory, disk, txn
<1>8. CASE Disconnect
  <2>1. cursor \in Block \ {Genesis} /\ pprev[cursor] \in Block
    BY <1>8, ChainEnds, BlockTreeAssumption DEF Disconnect
  <2>2. /\ txnIndex' \in [Tx -> CTxIndex]
        /\ txnNext' \in [Block -> Block \cup {NoBlock}]
    BY <1>8, <2>1, IndexTypes, NextTypes DEF Disconnect
  <2> QED
    BY <1>8, <2>1, <2>2 DEF Disconnect, memory, disk
<1>9. ASSUME NEW b \in Block, Connect(b) PROVE TypeInv'
  <2>1. b \in Block \ {Genesis}
    BY <1>9 DEF Connect, IsNext, Connected
  <2>2. /\ txnIndex' \in [Tx -> CTxIndex]
        /\ txnNext' \in [Block -> Block \cup {NoBlock}]
    BY <1>9, <2>1, IndexTypes, NextTypes DEF Connect
  <2> QED
    BY <1>9, <2>1, <2>2 DEF Connect, memory, disk
<1>10. CASE ReorganizeFails
  <2>1. bnBestInvalidTrust' \in Nat
    BY <1>4, <1>10 DEF ReorganizeFails
  <2> QED
    BY <1>10, <2>1 DEF ReorganizeFails, Abort, memory, disk
<1>11. CASE CommitReorganize
  BY <1>11, RelinkedType DEF CommitReorganize, WriteHashBestChain, txn, work
<1>12. ASSUME NEW b \in Block, ConnectPostponed(b) PROVE TypeInv'
  <2>1. b \in Block \ {Genesis} /\ Attach(b)
    BY <1>12 DEF ConnectPostponed, IsNext, Connected
  <2> QED
    BY <1>3, <1>12, <2>1 DEF ConnectPostponed
<1>13. ASSUME NEW b \in Block, PostponedFails(b) PROVE TypeInv'
  <2>1. bnBestInvalidTrust' \in Nat
    BY <1>4, <1>13 DEF PostponedFails
  <2> QED
    BY <1>13, <2>1 DEF PostponedFails, NewBest, disk, txn
<1>14. CASE NewBestBlock
  BY <1>14 DEF NewBestBlock, NewBest, disk, txn
<1>15. CASE Restart
  BY <1>15 DEF Restart, Abort, LoadedBest, disk
<1>16. CASE UNCHANGED vars
  BY <1>16 DEF vars, memory, disk, txn, work
<1> QED
  BY <1>1, <1>2, <1>5, <1>6, <1>7, <1>8, <1>9, <1>10, <1>11, <1>12, <1>13, <1>14,
     <1>15, <1>16, <1>6a DEF Next, SetBestChainStep

LEMMA TypeInvAlways == Spec => []TypeInv
BY TypeInvInit, TypeInvStep, PTL DEF Spec

(* Every variable keeps its type: in particular cursor never walks off      *)
(* Genesis and Reorganize never runs without its target.                    *)
THEOREM TypeCorrect == Spec => []TypeOK
<1>1. TypeInv => TypeOK
  BY DEF TypeInv
<1> QED
  BY <1>1, TypeInvAlways, PTL

----------------------------------------------------------------------------
(* Safety *)

(* The end of the chain memory and disk are at. *)
Tip == IF pc = "Postponed" THEN cursor ELSE pindexBest

(* What is committed belongs together. *)
DiskInv ==
  /\ hashBestChain \in ValidChain
  /\ IsReplay(txindex, hashBestChain)
  /\ LinksTo(hashNext, hashBestChain)

(* Memory follows the disk. *)
MemoryInv ==
  /\ LinksTo(pnext, Tip)
  /\ hashBestChain = Tip

(* An open transaction holds the chain that ends at cursor: on the way down *)
(* the best chain, then up the other branch, above the fork.                *)
TxnInv ==
  IF pc = "Reorganize"
  THEN /\ cursor \in ValidChain
       /\ IsReplay(txnIndex, cursor)
       /\ LinksTo(txnNext, cursor)
       /\ cursor \notin Chain[pindexIntermediate] => cursor \in Chain[pindexBest]
       /\ cursor \in Chain[pindexIntermediate] =>
            \A y \in Connected(pindexIntermediate) :
               pprev[y] = cursor => y \notin Chain[pindexBest]
  ELSE /\ txnIndex = txindex
       /\ txnNext = hashNext

CoreInv == DiskInv /\ MemoryInv /\ TxnInv

(* The inductive invariant.  fGap is never reset, so nothing need be said   *)
(* of a node that has been through a failed postponed reconnect.            *)
IInv == TypeInv /\ (~ fGap => CoreInv)

LEMMA GenesisValid == Genesis \in ValidChain /\ Connected(Genesis) = {}
BY BlockTreeAssumption DEF ValidChain, Connected

LEMMA IInvInit == Init => IInv
<1> SUFFICES ASSUME Init PROVE IInv
  OBVIOUS
<1>1. TypeInv
  BY TypeInvInit
<1>2. LinksTo(hashNext, Genesis) /\ LinksTo(pnext, Genesis)
  BY BlockTreeAssumption DEF Init, LinksTo
<1>3. IsReplay(txindex, Genesis)
  BY GenesisValid DEF Init, IsReplay, NoRecord
<1> QED
  BY <1>1, <1>2, <1>3, GenesisValid
     DEF Init, IInv, CoreInv, DiskInv, MemoryInv, TxnInv, Tip

(* SetBestChainInner moves disk and memory from a block to its child. *)
LEMMA AttachMoves ==
  ASSUME NEW b \in Block \ {Genesis}, TypeOK, DiskInv, hashBestChain = pprev[b],
         LinksTo(pnext, pprev[b]), Attach(b)
  PROVE  /\ DiskInv'
         /\ LinksTo(pnext', b)
         /\ hashBestChain' = b /\ cursor' = b
         /\ txnIndex' = txindex' /\ txnNext' = hashNext'
<1> USE DEF TypeOK
<1>1. /\ ConnectBlock(txindex, b)
      /\ txindex' = ConnectIndex(txindex, b)
      /\ hashNext' = ConnectNext(hashNext, b)
      /\ hashBestChain' = b
      /\ pnext' = [pnext EXCEPT ![pprev[b]] = b]
      /\ cursor' = b /\ txnIndex' = txindex' /\ txnNext' = hashNext'
  BY DEF Attach, WriteHashBestChain
<1>2. pnext[b] = NoBlock /\ pprev[b] \in Block /\ pprev[b] # b
  BY ConnectedGrows, ChainEnds DEF LinksTo
<1>3. b \in ValidChain /\ IsReplay(txindex', b)
  BY <1>1, ConnectValid, ConnectReplay DEF DiskInv
<1>4. LinksTo(hashNext', b)
  BY <1>1, <1>2, ConnectLinks DEF DiskInv, ConnectNext
<1>5. LinksTo(pnext', b)
  <2>1. pnext' = [pnext EXCEPT ![b] = NoBlock, ![pprev[b]] = b]
    BY <1>1, <1>2
  <2> QED
    BY <2>1, ConnectLinks
<1> QED
  BY <1>1, <1>3, <1>4, <1>5 DEF DiskInv

(* One block off the open transaction. *)
LEMMA DisconnectStep ==
  ASSUME TypeInv, CoreInv, Disconnect
  PROVE  CoreInv'
<1> USE DEF TypeInv, TypeOK, WorkTyped
<1>1. /\ cursor \in ValidChain /\ cursor \in Block \ {Genesis} /\ cursor \in Chain[pindexBest]
      /\ pindexIntermediate \in Block
  BY ChainEnds DEF Disconnect, CoreInv, TxnInv
<1>2. IsReplay(txnIndex', pprev[cursor])
  BY <1>1, DisconnectReplay DEF Disconnect, CoreInv, TxnInv
<1>3. LinksTo(txnNext', pprev[cursor])
  BY <1>1, DisconnectLinks DEF Disconnect, CoreInv, TxnInv
<1>4. pprev[cursor] \in ValidChain
  BY <1>1, ConnectedGrows, ChainEnds, ValidPrefix
<1>5. pprev[cursor] \in Chain[pindexBest]
  BY <1>1, ParentOnChain DEF Connected
<1>6. ASSUME NEW y \in Connected(pindexIntermediate), pprev[y] = pprev[cursor]
      PROVE  y \notin Chain[pindexBest]
  <2>1. SUFFICES ASSUME y \in Chain[pindexBest] PROVE FALSE
    OBVIOUS
  <2>2. /\ IsNext(pprev[cursor], y, pindexBest)
        /\ IsNext(pprev[cursor], cursor, pindexBest)
    BY <1>1, <1>6, <2>1 DEF IsNext, Connected
  <2>3. y = cursor
    BY <2>2, NextUnique
  <2> QED
    BY <1>6, <2>3 DEF Disconnect, Connected
<1>7. /\ cursor' = pprev[cursor]
      /\ UNCHANGED <<memory, disk, pc, pindexIntermediate>>
      /\ pc = "Reorganize"
  BY DEF Disconnect
<1>8. TxnInv'
  BY <1>2, <1>3, <1>4, <1>5, <1>6, <1>7 DEF TxnInv, memory, disk
<1>9. DiskInv' /\ MemoryInv'
  BY <1>7 DEF CoreInv, DiskInv, MemoryInv, Tip, memory, disk
<1> QED
  BY <1>8, <1>9 DEF CoreInv

(* One block onto it. *)
LEMMA ConnectStep ==
  ASSUME NEW b \in Block, TypeInv, CoreInv, Connect(b)
  PROVE  CoreInv'
<1> USE DEF TypeInv, TypeOK, WorkTyped
<1>1. /\ b \in Block \ {Genesis} /\ pprev[b] = cursor
      /\ b \in Connected(pindexIntermediate) /\ pindexIntermediate \in Block
      /\ cursor \in Chain[pindexIntermediate]
      /\ ConnectBlock(txnIndex, b)
  BY DEF Connect, IsNext, Connected
<1>2. b \notin Chain[pindexBest]
  BY <1>1 DEF Connect, CoreInv, TxnInv
<1>3. pnext[b] = NoBlock
  BY <1>2 DEF Connect, CoreInv, MemoryInv, Tip, LinksTo
<1>4. b \in ValidChain /\ IsReplay(txnIndex', b)
  BY <1>1, ConnectValid, ConnectReplay DEF Connect, CoreInv, TxnInv
<1>5. LinksTo(txnNext', b)
  BY <1>1, <1>3, ConnectLinks DEF Connect, CoreInv, TxnInv, ConnectNext
<1>6. ASSUME NEW y \in Connected(pindexIntermediate), pprev[y] = b
      PROVE  y \notin Chain[pindexBest]
  <2>1. SUFFICES ASSUME y \in Connected(pindexBest) PROVE FALSE
    BY <1>6 DEF Connected
  <2> QED
    BY <1>2, <1>6, <2>1, ParentOnChain
<1>7. /\ cursor' = b
      /\ UNCHANGED <<memory, disk, pc, pindexIntermediate>>
      /\ pc = "Reorganize"
  BY DEF Connect
<1>8. b \in Chain[pindexIntermediate]
  BY <1>1 DEF Connected
<1>9. TxnInv'
  BY <1>4, <1>5, <1>6, <1>7, <1>8 DEF TxnInv, memory, disk
<1>10. DiskInv' /\ MemoryInv'
  BY <1>7 DEF CoreInv, DiskInv, MemoryInv, Tip, memory, disk
<1> QED
  BY <1>9, <1>10 DEF CoreInv

LEMMA IInvStep == IInv /\ [Next]_vars => IInv'
<1> SUFFICES ASSUME IInv, [Next]_vars PROVE IInv'
  OBVIOUS
<1>1. TypeInv /\ TypeInv'
  BY TypeInvStep DEF IInv
<1>2. SUFFICES ASSUME ~ fGap' PROVE CoreInv'
  BY <1>1 DEF IInv
<1>3. ~ fGap
  BY <1>2 DEF Next, SetBestChainStep, AddToBlockIndex, DemandCheckpoint, ExtendBestChain,
       ExtendFails, TransactionFails, StartReorganize, Disconnect, Connect, ReorganizeFails,
       CommitReorganize, ConnectPostponed, PostponedFails, NewBestBlock, Restart, vars
<1>4. CoreInv
  BY <1>3 DEF IInv
<1> USE DEF TypeInv, TypeOK, WorkTyped
<1>5. ASSUME Abort, UNCHANGED <<memory, disk>>, pc # "Postponed" PROVE CoreInv'
  BY <1>4, <1>5 DEF Abort, CoreInv, DiskInv, MemoryInv, TxnInv, Tip, memory, disk
<1>6. ASSUME NEW b \in Block, AddToBlockIndex(b) PROVE CoreInv'
  BY <1>4, <1>6 DEF AddToBlockIndex, CoreInv, DiskInv, MemoryInv, TxnInv, Tip, disk, txn
<1>7. ASSUME NEW b \in Block, DemandCheckpoint(b) PROVE CoreInv'
  BY <1>4, <1>7 DEF DemandCheckpoint, CoreInv, DiskInv, MemoryInv, TxnInv, Tip,
       memory, disk, txn
<1>8. CASE ExtendBestChain
  <2>1. /\ pindexNew \in Block \ {Genesis} /\ Attach(pindexNew)
        /\ pprev[pindexNew] = pindexBest /\ pc = "SetBestChain" /\ pc' = "Postponed"
    BY <1>1, <1>8 DEF ExtendBestChain
  <2>2. DiskInv /\ hashBestChain = pprev[pindexNew] /\ LinksTo(pnext, pprev[pindexNew])
    BY <1>4, <2>1 DEF CoreInv, MemoryInv, Tip
  <2> QED
    BY <1>1, <2>1, <2>2, AttachMoves DEF CoreInv, MemoryInv, TxnInv, Tip
<1>9. CASE ExtendFails \/ TransactionFails
  BY <1>5, <1>9 DEF ExtendFails, TransactionFails
<1>10. ASSUME NEW x \in Block, StartReorganize(x) PROVE CoreInv'
  <2>1. /\ pc = "SetBestChain" /\ pc' = "Reorganize" /\ cursor' = pindexBest
        /\ pindexIntermediate' = x /\ UNCHANGED <<memory, disk, txn>>
    BY <1>10 DEF StartReorganize
  <2>2. ASSUME NEW y \in Connected(x), pprev[y] = pindexBest
        PROVE  y \notin Chain[pindexBest]
    <3>1. y \in Block \ {Genesis}
      BY ChainEnds DEF Connected
    <3> QED
      BY <2>2, <3>1, ConnectedGrows
  <2>3. pindexBest \in Chain[pindexBest]
    BY <1>1, ChainEnds
  <2> QED
    BY <1>4, <2>1, <2>2, <2>3
       DEF CoreInv, DiskInv, MemoryInv, TxnInv, Tip, memory, disk, txn
<1>11. CASE Disconnect
  BY <1>1, <1>4, <1>11, DisconnectStep
<1>12. ASSUME NEW b \in Block, Connect(b) PROVE CoreInv'
  BY <1>1, <1>4, <1>12, ConnectStep
<1>13. CASE ReorganizeFails
  BY <1>5, <1>13 DEF ReorganizeFails
<1>14. CASE CommitReorganize
  <2>1. /\ pc = "Reorganize" /\ pc' = "Postponed" /\ cursor = pindexIntermediate
        /\ cursor' = cursor /\ hashBestChain' = cursor
        /\ txindex' = txnIndex /\ hashNext' = txnNext /\ UNCHANGED txn
        /\ pnext' = RelinkedPnext
    BY <1>14 DEF CommitReorganize, WriteHashBestChain, work
  <2>2. LinksTo(RelinkedPnext, cursor)
    BY <1>1, <1>4, <2>1, RelinkedLinks DEF CoreInv, MemoryInv, Tip
  <2> QED
    BY <1>4, <2>1, <2>2 DEF CoreInv, DiskInv, MemoryInv, TxnInv, Tip, txn
<1>15. ASSUME NEW b \in Block, ConnectPostponed(b) PROVE CoreInv'
  <2>1. /\ b \in Block \ {Genesis} /\ Attach(b) /\ pprev[b] = cursor
        /\ pc = "Postponed" /\ pc' = pc
    BY <1>15 DEF ConnectPostponed, IsNext, Connected
  <2>2. DiskInv /\ hashBestChain = pprev[b] /\ LinksTo(pnext, pprev[b])
    BY <1>4, <2>1 DEF CoreInv, MemoryInv, Tip
  <2> QED
    BY <1>1, <2>1, <2>2, AttachMoves DEF CoreInv, MemoryInv, TxnInv, Tip
<1>16. ASSUME NEW b \in Block, PostponedFails(b) PROVE CoreInv'
  BY <1>2, <1>16 DEF PostponedFails
<1>17. CASE NewBestBlock
  BY <1>4, <1>17 DEF NewBestBlock, NewBest, CoreInv, DiskInv, MemoryInv, TxnInv, Tip,
       disk, txn
<1>18. CASE Restart
  BY <1>4, <1>18 DEF Restart, Abort, LoadedBest, CoreInv, DiskInv, MemoryInv, TxnInv, Tip, disk
<1>19. CASE UNCHANGED vars
  BY <1>4, <1>19 DEF vars, memory, disk, txn, work, CoreInv, DiskInv, MemoryInv, TxnInv, Tip
<1> QED
  BY <1>6, <1>7, <1>8, <1>9, <1>10, <1>11, <1>12, <1>13, <1>14, <1>15, <1>16, <1>17,
     <1>18, <1>19 DEF Next, SetBestChainStep

LEMMA IInvAlways == Spec => []IInv
BY IInvInit, IInvStep, PTL DEF Spec

(* At every instant, whatever was aborted or cut off, the index on disk is  *)
(* the replay of the chain on disk (CTxDB, Reorganize, ConnectBlock).       *)
THEOREM IndexIsReplay == Spec => []DiskIndexIsReplay
<1>1. IInv => DiskIndexIsReplay
  BY DEF IInv, CoreInv, DiskInv, DiskIndexIsReplay
<1> QED
  BY <1>1, IInvAlways, PTL

(* The chain on disk has no double spend, no spend of an output that is not *)
(* there, and no spend of a generated output before maturity.               *)
THEOREM ChainOnDiskValid == Spec => []DiskChainValid
<1>1. IInv => DiskChainValid
  BY DEF IInv, CoreInv, DiskInv, DiskChainValid
<1> QED
  BY <1>1, IInvAlways, PTL

(* The successor records on disk lead to the best block on disk. *)
THEOREM ChainOnDiskLinked == Spec => []DiskChainLinked
<1>1. IInv => DiskChainLinked
  BY DEF IInv, CoreInv, DiskInv, DiskChainLinked
<1> QED
  BY <1>1, IInvAlways, PTL

(* pnext leads along the best chain and is null everywhere else, which is   *)
(* what IsInMainChain relies on.                                            *)
THEOREM PnextIsBestChain == Spec => []MainChainLinked
<1>1. IInv => MainChainLinked
  BY DEF IInv, CoreInv, MemoryInv, Tip, MainChainLinked
<1> QED
  BY <1>1, IInvAlways, PTL

(* Between calls of SetBestChain, memory and disk have the same best block. *)
THEOREM MemoryAgreesWithDisk == Spec => []BestIsOnDisk
<1>1. IInv => BestIsOnDisk
  BY DEF IInv, CoreInv, MemoryInv, Tip, BestIsOnDisk
<1> QED
  BY <1>1, IInvAlways, PTL
----------------------------------------------------------------------------
(* Failures *)

(* Only a bad block on the way to the new one makes SetBestChain give up... *)
LEMMA FailsForCause ==
  ASSUME MayFail = {}, TxnMayFail = {}, TypeInv, CoreInv,
         pc = "Reorganize" => pindexIntermediate \in Chain[pindexNew],
         ExtendFails \/ TransactionFails \/ ReorganizeFails
  PROVE  pindexNew \notin ValidChain
<1> USE DEF TypeInv, TypeOK, WorkTyped
<1>1. pc # "idle" /\ pindexNew \in Block
  BY DEF ExtendFails, TransactionFails, ReorganizeFails
<1>2. CASE ExtendFails
  <2>1. /\ pprev[pindexNew] = pindexBest /\ pindexNew # Genesis
        /\ ~ ConnectBlock(txindex, pindexNew) /\ pc = "SetBestChain"
    BY <1>2 DEF ExtendFails
  <2>2. IsReplay(txindex, pprev[pindexNew])
    BY <2>1 DEF CoreInv, DiskInv, MemoryInv, Tip
  <2> QED
    BY <2>1, <2>2, ConnectSucceeds
<1>3. CASE ReorganizeFails
  <2>1. /\ pc = "Reorganize" /\ cursor \in ValidChain /\ IsReplay(txnIndex, cursor)
        /\ pindexIntermediate \in Block /\ pindexIntermediate \in Chain[pindexNew]
    BY <1>3 DEF ReorganizeFails, CoreInv, TxnInv
  <2>2. SUFFICES ASSUME pindexNew \in ValidChain PROVE FALSE
    OBVIOUS
  <2>3. CASE cursor \in Chain[pindexIntermediate]
    <3>1. PICK b \in Chain[pindexIntermediate] :
                 IsNext(cursor, b, pindexIntermediate) /\ ~ ConnectBlock(txnIndex, b)
      BY <1>3, <2>3 DEF ReorganizeFails
    <3>2. b \in Chain[pindexNew] /\ b # Genesis /\ pprev[b] = cursor
      BY <1>1, <2>1, <3>1, ChainClosed DEF IsNext, Connected
    <3>3. b \in ValidChain
      BY <2>2, <3>2, ValidPrefix
    <3> QED
      BY <2>1, <3>1, <3>2, <3>3, ConnectSucceeds
  <2>4. CASE cursor \notin Chain[pindexIntermediate]
    <3>1. cursor # Genesis /\ ~ DisconnectBlock(txnIndex, cursor)
      BY <1>3, <2>1, <2>4, ChainEnds DEF ReorganizeFails
    <3> QED
      BY <2>1, <3>1, DisconnectSucceeds
  <2> QED
    BY <2>3, <2>4
<1>4. ~ TransactionFails
  BY DEF TransactionFails
<1> QED
  BY <1>2, <1>3, <1>4

(* ... or leave postponed blocks out. *)
LEMMA PostponedFailsForCause ==
  ASSUME MayFail = {}, TxnMayFail = {}, TypeInv, CoreInv, NEW b \in Block, PostponedFails(b)
  PROVE  pindexNew \notin ValidChain
<1> USE DEF TypeInv, TypeOK, WorkTyped
<1>1. SUFFICES ASSUME pindexNew \in ValidChain PROVE FALSE
  OBVIOUS
<1>2. /\ b \in Chain[pindexNew] /\ b # Genesis /\ pprev[b] = cursor
      /\ ~ ConnectBlock(txindex, b) /\ pc = "Postponed"
  BY DEF PostponedFails, IsNext, Connected
<1>3. IsReplay(txindex, pprev[b])
  BY <1>2 DEF CoreInv, DiskInv, MemoryInv, Tip
<1> QED
  BY <1>1, <1>2, <1>3, ValidPrefix, ConnectSucceeds

----------------------------------------------------------------------------
(* The choice of the best chain *)

(* Every block but the one SetBestChain is working for has less trust than  *)
(* the best block or has been recorded, and SetBestChain works for a block  *)
(* of more trust only.                                                      *)
LeftInv ==
  /\ \A b \in mapBlockIndex :
        \/ pc # "idle" /\ b = pindexNew
        \/ bnChainTrust[b] <= bnChainTrust[pindexBest]
        \/ bnChainTrust[b] <= bnBestInvalidTrust
  /\ pc # "idle" => bnChainTrust[pindexNew] > bnChainTrust[pindexBest]

LEMMA LeftInvStep ==
  ASSUME Checkpointable = {}, TxnMayFail = {}, ~ MayCrash, TypeInv, LeftInv, [Next]_vars
  PROVE  LeftInv'
<1> USE DEF TypeInv, TypeOK, WorkTyped
<1>1. /\ \A b \in Block : bnChainTrust[b] \in Nat
      /\ bnBestInvalidTrust \in Nat /\ pindexBest \in Block /\ mapBlockIndex \subseteq Block
  BY BlockTreeAssumption
<1>2. ASSUME NEW b \in Block, InvalidChainFound(b)
      PROVE  /\ bnBestInvalidTrust' \in Nat
             /\ bnBestInvalidTrust' >= bnBestInvalidTrust
             /\ bnBestInvalidTrust' >= bnChainTrust[b]
  BY <1>1, <1>2 DEF InvalidChainFound
<1>3. ASSUME UNCHANGED <<mapBlockIndex, pindexBest, bnBestInvalidTrust, pindexNew>>,
             pc = "idle" <=> pc' = "idle"
      PROVE  LeftInv'
  BY <1>3 DEF LeftInv
<1>4. ASSUME pindexNew \in Block, pc # "idle", InvalidChainFound(pindexNew),
             pc' = "idle", UNCHANGED <<mapBlockIndex, pindexBest>>
      PROVE  LeftInv'
  <2>1. ASSUME NEW b \in mapBlockIndex
        PROVE  \/ bnChainTrust[b] <= bnChainTrust[pindexBest]
               \/ bnChainTrust[b] <= bnBestInvalidTrust'
    <3>1. CASE b = pindexNew
      BY <1>2, <1>4, <3>1
    <3>2. CASE b # pindexNew
      BY <1>1, <1>2, <1>4, <3>2 DEF LeftInv
    <3> QED
      BY <3>1, <3>2
  <2> QED
    BY <1>4, <2>1 DEF LeftInv
<1>5. ASSUME pindexNew \in Block, pc # "idle", pindexBest' = pindexNew, pc' = "idle",
             UNCHANGED mapBlockIndex,
             bnBestInvalidTrust' \in Nat, bnBestInvalidTrust' >= bnBestInvalidTrust
      PROVE  LeftInv'
  <2>1. ASSUME NEW b \in mapBlockIndex
        PROVE  \/ bnChainTrust[b] <= bnChainTrust[pindexNew]
               \/ bnChainTrust[b] <= bnBestInvalidTrust'
    BY <1>1, <1>5 DEF LeftInv
  <2> QED
    BY <1>5, <2>1 DEF LeftInv
<1>6. ASSUME NEW b \in Block, AddToBlockIndex(b) PROVE LeftInv'
  <2>1. CASE HasMoreTrust(b)
    BY <1>1, <1>6, <2>1 DEF AddToBlockIndex, HasMoreTrust, LeftInv
  <2>2. CASE ~ HasMoreTrust(b)
    BY <1>1, <1>6, <2>2 DEF AddToBlockIndex, HasMoreTrust, LeftInv
  <2> QED
    BY <2>1, <2>2
<1>7. ASSUME NEW b \in Block, DemandCheckpoint(b) PROVE LeftInv'
  BY <1>7 DEF DemandCheckpoint
<1>8. ASSUME \/ ExtendBestChain \/ (\E x \in Block : StartReorganize(x))
             \/ Disconnect \/ (\E b \in Block : Connect(b)) \/ CommitReorganize
             \/ (\E b \in Block : ConnectPostponed(b)) \/ UNCHANGED vars
      PROVE  LeftInv'
  BY <1>3, <1>8 DEF ExtendBestChain, StartReorganize, Disconnect, Connect,
     CommitReorganize, ConnectPostponed, vars, memory, work
<1>9. CASE ExtendFails \/ ReorganizeFails
  BY <1>4, <1>9 DEF ExtendFails, ReorganizeFails, Abort, memory
<1>9a. ~ TransactionFails
  BY DEF TransactionFails
<1>10. ASSUME NEW b \in Block, PostponedFails(b) PROVE LeftInv'
  BY <1>2, <1>5, <1>10 DEF PostponedFails, NewBest
<1>11. CASE NewBestBlock
  BY <1>1, <1>5, <1>11 DEF NewBestBlock, NewBest
<1>12. CASE Restart
  BY <1>12 DEF Restart
<1> QED
  BY <1>6, <1>7, <1>8, <1>9, <1>10, <1>11, <1>12, <1>9a DEF Next, SetBestChainStep

(* Without crashes and checkpoints InvalidChainFound records every chain of *)
(* more trust that was given up, also when a read error or a postponed      *)
(* block was the reason and the best block is one that did not connect, as  *)
(* long as the database begins and commits its transactions.                *)
THEOREM LeftAside ==
  ASSUME Checkpointable = {}, TxnMayFail = {}, ~ MayCrash
  PROVE  Spec => []LeftAsideIsRecorded
<1>1. Init => LeftInv
  BY BlockTreeAssumption DEF Init, LeftInv
<1>2. TypeInv /\ LeftInv /\ [Next]_vars => LeftInv'
  BY LeftInvStep
<1>3. LeftInv => LeftAsideIsRecorded
  BY DEF LeftInv, LeftAsideIsRecorded
<1> QED
  BY <1>1, <1>2, <1>3, TypeInvAlways, PTL DEF Spec

(* If nothing fails but for what is in a block, the block Reorganize is     *)
(* called for is the new one or one on the way to it that was tried before  *)
(* and is invalid.  So Reorganize commits for the new block only, and       *)
(* nothing is left to postpone.                                             *)
MostInv ==
  /\ ~ fGap
  /\ \A b \in mapBlockIndex : Chain[b] \subseteq mapBlockIndex
  /\ \A b \in mapBlockIndex \cap ValidChain :
        \/ pc # "idle" /\ b = pindexNew
        \/ bnChainTrust[b] <= bnChainTrust[pindexBest]
  /\ pc # "idle" => /\ pindexNew \in mapBlockIndex
                    /\ bnChainTrust[pindexNew] > bnChainTrust[pindexBest]
  /\ pc = "Reorganize" => /\ pindexIntermediate \in Chain[pindexNew]
                          /\ bnChainTrust[pindexIntermediate] > bnChainTrust[pindexBest]
  /\ pc = "Postponed" => cursor = pindexNew

LEMMA MostInvStep ==
  ASSUME Checkpointable = {}, MayFail = {}, TxnMayFail = {}, ~ MayCrash,
         IInv, MostInv, [Next]_vars
  PROVE  MostInv'
<1> USE DEF TypeInv, TypeOK, WorkTyped
<1>1. /\ \A b \in Block : bnChainTrust[b] \in Nat
      /\ pindexBest \in Block /\ mapBlockIndex \subseteq Block
      /\ TypeInv /\ CoreInv
  BY BlockTreeAssumption DEF IInv, MostInv
<1>2. ASSUME NEW b \in Block, AddToBlockIndex(b) PROVE MostInv'
  <2>1. b # Genesis
    <3>1. pprev[b] \in Block
      BY <1>1, <1>2 DEF AddToBlockIndex
    <3>2. pprev[b] \in mapBlockIndex => Genesis \in mapBlockIndex
      BY <3>1, ChainEnds DEF MostInv
    <3> QED
      BY <1>2, <3>2 DEF AddToBlockIndex
  <2>2. Chain[b] \subseteq mapBlockIndex \cup {b}
    BY <1>2, <2>1, BlockTreeAssumption DEF AddToBlockIndex, MostInv
  <2>3. \A x \in mapBlockIndex' : Chain[x] \subseteq mapBlockIndex'
    BY <1>2, <2>2 DEF AddToBlockIndex, MostInv
  <2>4. CASE HasMoreTrust(b)
    BY <1>1, <1>2, <2>3, <2>4 DEF AddToBlockIndex, HasMoreTrust, MostInv, ValidChain
  <2>5. CASE ~ HasMoreTrust(b)
    BY <1>1, <1>2, <2>3, <2>5 DEF AddToBlockIndex, HasMoreTrust, MostInv, ValidChain
  <2> QED
    BY <2>4, <2>5
<1>3. ASSUME NEW b \in Block, DemandCheckpoint(b) PROVE MostInv'
  BY <1>3 DEF DemandCheckpoint
<1>4. CASE ExtendBestChain
  BY <1>4 DEF ExtendBestChain, Attach, MostInv, ValidChain
<1>5. CASE ExtendFails \/ TransactionFails \/ ReorganizeFails
  <2>1. pindexNew \notin ValidChain
    BY <1>1, <1>5, FailsForCause DEF MostInv
  <2> QED
    BY <1>1, <1>5, <2>1 DEF ExtendFails, TransactionFails, ReorganizeFails, Abort, memory,
       MostInv, ValidChain
<1>6. ASSUME NEW x \in Block, StartReorganize(x) PROVE MostInv'
  <2>1. /\ x \in Chain[pindexNew] /\ pindexNew \in Block /\ pc = "SetBestChain"
        /\ bnChainTrust[pindexNew] > bnChainTrust[pindexBest]
        /\ \A y \in Chain[pindexNew] \ Chain[x] :
              bnChainTrust[pprev[y]] > bnChainTrust[pindexBest]
    BY <1>1, <1>6 DEF StartReorganize, MostInv
  <2>2. bnChainTrust[x] > bnChainTrust[pindexBest]
    <3>1. CASE x = pindexNew
      BY <2>1, <3>1
    <3>2. CASE x # pindexNew
      <4>1. PICK y \in Block : IsNext(x, y, pindexNew)
        BY <2>1, <3>2, NextExists
      <4>2. y \in Chain[pindexNew] /\ y \in Block \ {Genesis} /\ pprev[y] = x
        BY <4>1 DEF IsNext, Connected
      <4>3. y \notin Chain[x]
        BY <4>2, ConnectedGrows
      <4> QED
        BY <2>1, <4>2, <4>3
    <3> QED
      BY <3>1, <3>2
  <2> QED
    BY <1>6, <2>1, <2>2 DEF StartReorganize, memory, MostInv, ValidChain
<1>7. ASSUME \/ Disconnect \/ (\E b \in Block : Connect(b)) \/ UNCHANGED vars
      PROVE  MostInv'
  BY <1>7 DEF Disconnect, Connect, vars, memory, work, MostInv, ValidChain
<1>8. CASE CommitReorganize
  <2>1. /\ pc = "Reorganize" /\ cursor = pindexIntermediate /\ cursor \in ValidChain
        /\ pindexNew \in mapBlockIndex /\ cursor \in Chain[pindexNew]
        /\ bnChainTrust[cursor] > bnChainTrust[pindexBest]
    BY <1>1, <1>8 DEF CommitReorganize, CoreInv, TxnInv, MostInv
  <2>2. cursor \in mapBlockIndex /\ cursor \in Block
    BY <1>1, <2>1 DEF MostInv
  <2>3. cursor = pindexNew
    BY <1>1, <2>1, <2>2 DEF MostInv
  <2> QED
    BY <1>8, <2>3 DEF CommitReorganize, work, MostInv, ValidChain
<1>9. ASSUME NEW b \in Block, ConnectPostponed(b) \/ PostponedFails(b)
      PROVE  FALSE
  <2>1. pc = "Postponed" /\ cursor = pindexNew /\ cursor \in Block /\ IsNext(cursor, b, cursor)
    BY <1>1, <1>9 DEF ConnectPostponed, PostponedFails, MostInv
  <2> QED
    BY <2>1, ParentOnChain DEF IsNext
<1>10. CASE NewBestBlock
  BY <1>1, <1>10 DEF NewBestBlock, NewBest, MostInv, ValidChain
<1>11. CASE Restart
  BY <1>11 DEF Restart
<1> QED
  BY <1>2, <1>3, <1>4, <1>5, <1>6, <1>7, <1>8, <1>9, <1>10, <1>11 DEF Next, SetBestChainStep

LEMMA MostInvAlways ==
  ASSUME Checkpointable = {}, MayFail = {}, TxnMayFail = {}, ~ MayCrash
  PROVE  Spec => []MostInv
<1>1. Init => MostInv
  BY BlockTreeAssumption DEF Init, MostInv
<1>2. IInv /\ MostInv /\ [Next]_vars => MostInv'
  BY MostInvStep
<1> QED
  BY <1>1, <1>2, IInvAlways, PTL DEF Spec

(* If only bad blocks fail, then whatever branches arrive in whatever order *)
(* no valid chain that the node has is better than the one it is on.        *)
THEOREM BestIsMostTrusted ==
  ASSUME Checkpointable = {}, MayFail = {}, TxnMayFail = {}, ~ MayCrash
  PROVE  Spec => []MostTrusted
<1>1. MostInv => MostTrusted
  BY DEF MostInv, MostTrusted
<1> QED
  BY <1>1, MostInvAlways, PTL

(* Nor does it ever take a block for the best one that it has not connected *)
(* (fGap): that takes a read error, a crash or a checkpoint first.          *)
THEOREM NoGap ==
  ASSUME Checkpointable = {}, MayFail = {}, TxnMayFail = {}, ~ MayCrash
  PROVE  Spec => []PnextLeadsToBest
<1>1. IInv /\ MostInv => PnextLeadsToBest
  BY DEF IInv, CoreInv, MemoryInv, Tip, MostInv, PnextLeadsToBest
<1> QED
  BY <1>1, MostInvAlways, IInvAlways, PTL

----------------------------------------------------------------------------
(* BestChain implements Ledger: the block database, seen as a best block    *)
(* and a set of unspent outputs, changes only by moving to another valid    *)
(* chain in one step.                                                       *)

(* A block the node may move to. *)
Deserves(b) ==
  \/ bnChainTrust[b] > bnChainTrust[pindexBest]
  \/ \E c \in Checkpointable : b \in Chain[c]

(* SetBestChain, and Reorganize in it, run only for such a block. *)
CauseInv ==
  /\ pc = "SetBestChain" => Deserves(pindexNew)
  /\ pc = "Reorganize" => Deserves(pindexIntermediate)

(* The first block that has more trust than the best chain deserves it as   *)
(* the block it was found from does.                                        *)
LEMMA IntermediateDeserves ==
  ASSUME NEW x \in Block, TypeInv, CauseInv, StartReorganize(x)
  PROVE  Deserves(x)
<1> USE DEF TypeInv, TypeOK, WorkTyped
<1>1. /\ pindexNew \in Block /\ Deserves(pindexNew)
      /\ x \in Chain[pindexNew]
      /\ \A y \in Chain[pindexNew] \ Chain[x] :
            bnChainTrust[pprev[y]] > bnChainTrust[pindexBest]
  BY DEF StartReorganize, CauseInv
<1>2. CASE x = pindexNew
  BY <1>1, <1>2
<1>3. CASE \E c \in Checkpointable : pindexNew \in Chain[c]
  BY <1>1, <1>3, ChainClosed, FaultAssumption DEF Deserves
<1>4. CASE x # pindexNew /\ bnChainTrust[pindexNew] > bnChainTrust[pindexBest]
  <2>1. PICK y \in Block : IsNext(x, y, pindexNew)
    BY <1>1, <1>4, NextExists
  <2>2. y \in Chain[pindexNew] /\ y \in Block \ {Genesis} /\ pprev[y] = x
    BY <2>1 DEF IsNext, Connected
  <2>3. y \notin Chain[x]
    BY <2>2, ConnectedGrows
  <2> QED
    BY <1>1, <2>2, <2>3 DEF Deserves
<1> QED
  BY <1>1, <1>2, <1>3, <1>4 DEF Deserves

LEMMA CauseInvStep == TypeInv /\ CauseInv /\ [Next]_vars => CauseInv'
<1> SUFFICES ASSUME TypeInv, CauseInv, [Next]_vars PROVE CauseInv'
  OBVIOUS
<1>1. ASSUME NEW b \in Block, AddToBlockIndex(b) PROVE CauseInv'
  BY <1>1 DEF AddToBlockIndex, HasMoreTrust, CauseInv, Deserves
<1>2. ASSUME NEW b \in Block, DemandCheckpoint(b) PROVE CauseInv'
  <2>1. b \in Checkpointable /\ b \in Chain[b]
    BY <1>2, ChainEnds DEF DemandCheckpoint
  <2> QED
    BY <1>2, <2>1 DEF DemandCheckpoint, CauseInv, Deserves
<1>3. ASSUME NEW x \in Block, StartReorganize(x) PROVE CauseInv'
  <2>1. Deserves(x)
    BY <1>3, IntermediateDeserves
  <2> QED
    BY <1>3, <2>1 DEF StartReorganize, memory, CauseInv, Deserves
<1>4. ASSUME \/ Disconnect
             \/ \E b \in Block : Connect(b)
             \/ UNCHANGED vars
      PROVE  CauseInv'
  BY <1>4 DEF Disconnect, Connect, vars, memory, work, CauseInv, Deserves
<1>5. ASSUME \/ ExtendBestChain \/ ExtendFails \/ TransactionFails \/ ReorganizeFails
             \/ CommitReorganize \/ NewBestBlock \/ Restart
             \/ \E b \in Block : ConnectPostponed(b) \/ PostponedFails(b)
      PROVE  pc' \in {"idle", "Postponed"}
  BY <1>5 DEF ExtendBestChain, ExtendFails, TransactionFails, ReorganizeFails, CommitReorganize,
       NewBestBlock, NewBest, Restart, Abort, ConnectPostponed, PostponedFails
<1> QED
  BY <1>1, <1>2, <1>3, <1>4, <1>5 DEF Next, SetBestChainStep, CauseInv

----------------------------------------------------------------------------
(* The instance speaks of the same blocks. *)
LEMMA SameChains ==
  /\ LedgerOnDisk!ValidChain = ValidChain
  /\ \A b \in Block : LedgerOnDisk!Unspent(b) = Unspent(b)
BY DEF LedgerOnDisk!ValidChain, LedgerOnDisk!ValidBlock, LedgerOnDisk!CreatedBefore,
   LedgerOnDisk!SpentBefore, LedgerOnDisk!Mature, LedgerOnDisk!BlockTxs,
   LedgerOnDisk!SpentBy, LedgerOnDisk!Connected, LedgerOnDisk!Unspent,
   ValidChain, ValidBlock, CreatedBefore, SpentBefore, Mature, BlockTxs, SpentBy,
   Connected, Unspent

LEMMA LedgerStarts == Init => LedgerOnDisk!LedgerInit
BY DEF Init, NoRecord, LedgerOnDisk!LedgerInit

(* A step that leaves the disk at a block that deserves it is a MoveTo. *)
LEMMA MovesTo ==
  ASSUME NEW b \in Block, IInv', ~ fGap, ~ fGap', hashBestChain' = b,
         \/ bnChainTrust[b] > bnChainTrust[hashBestChain]
         \/ \E c \in Checkpointable : b \in Chain[c]
  PROVE  LedgerOnDisk!LedgerNext
<1>1. b \in ValidChain /\ IsReplay(txindex', b) /\ txindex' \in [Tx -> CTxIndex]
  BY DEF IInv, CoreInv, DiskInv, TypeInv, TypeOK
<1>2. {t \in Tx : txindex'[t].pos # NoBlock /\ txindex'[t].vSpent = NoBlock} = Unspent(b)
  BY <1>1, ReplayUnspent
<1>3. LedgerOnDisk!MoveTo(b)
  BY <1>1, <1>2, SameChains DEF LedgerOnDisk!MoveTo
<1> QED
  BY <1>3 DEF LedgerOnDisk!LedgerNext

LEMMA LedgerSteps ==
  IInv /\ CauseInv /\ IInv' /\ [Next]_vars =>
    [LedgerOnDisk!LedgerNext]_(LedgerOnDisk!ledgerVars)
<1> SUFFICES ASSUME IInv, CauseInv, IInv', [Next]_vars
             PROVE  [LedgerOnDisk!LedgerNext]_(LedgerOnDisk!ledgerVars)
  OBVIOUS
<1>1. CASE fGap'
  BY <1>1 DEF LedgerOnDisk!LedgerNext
<1>2. CASE ~ fGap'
  <2>1. ~ fGap
    BY <1>2 DEF Next, SetBestChainStep, AddToBlockIndex, DemandCheckpoint,
         ExtendBestChain, ExtendFails, TransactionFails, StartReorganize, Disconnect, Connect,
         ReorganizeFails, CommitReorganize, ConnectPostponed, PostponedFails,
         NewBestBlock, Restart, vars
  <2>2. CoreInv /\ TypeInv
    BY <2>1 DEF IInv
  <2> USE DEF TypeInv, TypeOK, WorkTyped
  <2>3. ASSUME UNCHANGED <<hashBestChain, txindex, fGap>>
        PROVE  UNCHANGED LedgerOnDisk!ledgerVars
    BY <2>3 DEF LedgerOnDisk!ledgerVars
  <2>4. CASE ExtendBestChain
    <3>1. /\ pindexNew \in Block \ {Genesis} /\ hashBestChain' = pindexNew
          /\ pprev[pindexNew] = hashBestChain
      BY <2>2, <2>4 DEF ExtendBestChain, Attach, WriteHashBestChain, CoreInv,
           MemoryInv, Tip
    <3>2. bnChainTrust[pindexNew] > bnChainTrust[hashBestChain]
      BY <2>2, <3>1, BlockTreeAssumption
    <3> QED
      BY <1>2, <2>1, <3>1, <3>2, MovesTo
  <2>5. CASE CommitReorganize
    <3>1. /\ pindexIntermediate \in Block /\ hashBestChain' = pindexIntermediate
          /\ pindexBest = hashBestChain /\ Deserves(pindexIntermediate)
      BY <2>2, <2>5 DEF CommitReorganize, WriteHashBestChain, CoreInv, MemoryInv,
           Tip, CauseInv
    <3> QED
      BY <1>2, <2>1, <3>1, MovesTo DEF Deserves
  <2>6. ASSUME NEW b \in Block, ConnectPostponed(b)
        PROVE  LedgerOnDisk!LedgerNext
    <3>1. b \in Block \ {Genesis} /\ hashBestChain' = b /\ pprev[b] = hashBestChain
      BY <2>2, <2>6 DEF ConnectPostponed, IsNext, Connected, Attach,
           WriteHashBestChain, CoreInv, MemoryInv, Tip
    <3>2. bnChainTrust[b] > bnChainTrust[hashBestChain]
      BY <2>2, <3>1, BlockTreeAssumption
    <3> QED
      BY <1>2, <2>1, <3>1, <3>2, MovesTo
  <2>7. ASSUME \/ \E b \in Block : AddToBlockIndex(b) \/ DemandCheckpoint(b)
               \/ ExtendFails \/ TransactionFails \/ (\E x \in Block : StartReorganize(x))
               \/ Disconnect \/ (\E b \in Block : Connect(b)) \/ ReorganizeFails
               \/ (\E b \in Block : PostponedFails(b))
               \/ NewBestBlock \/ Restart \/ UNCHANGED vars
        PROVE  UNCHANGED <<hashBestChain, txindex, fGap>>
    BY <1>2, <2>7 DEF AddToBlockIndex, DemandCheckpoint, ExtendFails, TransactionFails, StartReorganize,
         Disconnect, Connect, ReorganizeFails, PostponedFails, NewBestBlock, Restart,
         vars, disk
  <2> QED
    BY <2>3, <2>4, <2>5, <2>6, <2>7 DEF Next, SetBestChainStep
<1> QED
  BY <1>1, <1>2

(* Whatever crashes, read errors and checkpoints do, the database behaves   *)
(* as the abstract ledger: Reorganize, which disconnects and reconnects     *)
(* many blocks, is one step of it, and so is each postponed reconnect.      *)
THEOREM DatabaseIsLedger == Spec => ImplementsLedger
<1>1. Init => CauseInv
  BY DEF Init, CauseInv
<1>2. IInv => TypeInv
  BY DEF IInv
<1> QED
  BY <1>1, <1>2, CauseInvStep, IInvInit, IInvStep, LedgerStarts, LedgerSteps, PTL
     DEF Spec, ImplementsLedger, LedgerOnDisk!LedgerSpec
============================================================================
