-------------------------- MODULE AcceptanceProofs --------------------------
(***************************************************************************)
(* BlockAcceptance keeps what BestChain promises, and the synchronized     *)
(* checkpoint holds the best chain: for every tree of blocks, every order  *)
(* of blocks and checkpoints, and crashes at any point.                    *)
(***************************************************************************)
EXTENDS BlockAcceptance, BestChainProofs

----------------------------------------------------------------------------
(* What happens to the chain is a step of BestChain or nothing. *)
LEMMA ChainStep == [NodeNext]_nodeVars => [Next]_vars
<1> SUFFICES ASSUME [NodeNext]_nodeVars PROVE [Next]_vars
  OBVIOUS
<1>1. CASE Proceed
  <2>1. CASE SetBestChainStep
    BY <2>1 DEF Next
  <2>2. CASE \E o \in Block : AcceptOrphan(o)
    BY <2>2 DEF AcceptOrphan, StartAccept, Next
  <2>3. CASE PendingDemanded
    <3>1. hashPendingCheckpoint \in Block
      BY <2>3, FaultAssumption DEF PendingDemanded, DemandCheckpoint
    <3> QED
      BY <2>3, <3>1 DEF PendingDemanded, Next
  <2>4. CASE \/ \E o \in Block : DropOrphan(o)
             \/ NextInQueue \/ NotConnected \/ NothingPending
             \/ PendingAccepted \/ DemandMet \/ DemandFailed
    BY <2>4 DEF DropOrphan, NextInQueue, NotConnected, NothingPending,
         PendingAccepted, DemandMet, DemandFailed, CheckpointReturns
  <2> QED
    BY <1>1, <2>1, <2>2, <2>3, <2>4 DEF Proceed
<1>2. ASSUME NEW b \in Block \ {Genesis}, BlockArrives(b) PROVE [Next]_vars
  BY <1>2 DEF BlockArrives, ProcessOrphan, ProcessBlock, StartAccept, Next
<1>3. ASSUME NEW c \in Checkpointable, CheckpointArrives(c) PROVE [Next]_vars
  <2>1. c \in Block
    BY FaultAssumption
  <2> QED
    BY <1>3, <2>1 DEF CheckpointArrives, CheckpointPending, CheckpointRefused,
         CheckpointAccepted, CheckpointDemanded, Next
<1>4. CASE NodeRestart
  BY <1>4 DEF NodeRestart, Next
<1>5. CASE UNCHANGED nodeVars
  BY <1>5 DEF nodeVars
<1> QED
  BY <1>1, <1>2, <1>3, <1>4, <1>5 DEF NodeNext

(* However blocks and checkpoints arrive, SetBestChain is only called the   *)
(* way BestChain assumes: what is proved there holds of the whole node.     *)
THEOREM NodeRefinesChain == NodeSpec => ChainSafety
<1>1. NodeInit => Init
  BY DEF NodeInit
<1> QED
  BY <1>1, ChainStep, PTL DEF NodeSpec, ChainSafety

LEMMA ChainInvariant == NodeSpec => []IInv
<1>1. NodeInit => IInv
  BY IInvInit DEF NodeInit
<1>2. IInv /\ [NodeNext]_nodeVars => IInv'
  BY IInvStep, ChainStep
<1> QED
  BY <1>1, <1>2, PTL DEF NodeSpec

----------------------------------------------------------------------------
(* Type correctness *)

LEMMA StakeTypes == \A B \in SUBSET Block : Stakes(B) \subseteq Tx \X Nat
BY AcceptanceAssumption DEF Stakes, GetProofOfStake

LEMMA NodeTypeStep ==
  ASSUME NodeTypeOK, TypeOK', [NodeNext]_nodeVars
  PROVE  NodeTypeOK'
<1> USE DEF NodeTypeOK
<1>1. ASSUME NEW b \in Block \ {Genesis}, StartAccept(b)
      PROVE  setStakeSeen' \subseteq Tx \X Nat /\ pblock' \in Block \ {Genesis}
  BY <1>1, StakeTypes DEF StartAccept
<1>2. ASSUME NEW q \in Seq(Block), AcceptReturns(q)
      PROVE  /\ pblock' = NoBlock /\ vWorkQueue' \in Seq(Block)
             /\ mapOrphanBlocks' \subseteq Block \ {Genesis}
             /\ setStakeSeenOrphan' \subseteq Tx \X Nat
  BY <1>2 DEF AcceptReturns, Forget, orphans
<1>3. pblock # NoBlock => Queued \in Seq(Block)
  BY DEF Queued
<1>4. ASSUME NEW o \in Block, AcceptOrphan(o) PROVE NodeTypeOK'
  <2>1. o \in Block \ {Genesis}
    BY <1>4 DEF AcceptOrphan
  <2> QED
    BY <1>1, <1>4, <2>1 DEF AcceptOrphan, orphans, checkpoints
<1>5. ASSUME NEW o \in Block, DropOrphan(o) PROVE NodeTypeOK'
  BY <1>5 DEF DropOrphan, Forget, checkpoints, thread
<1>6. CASE NextInQueue
  BY <1>6 DEF NextInQueue, orphans, checkpoints
<1>7. CASE NotConnected
  BY <1>2, <1>7 DEF NotConnected, checkpoints
<1>8. CASE NothingPending
  BY <1>2, <1>3, <1>8 DEF NothingPending, Returned, checkpoints
<1>10. CASE PendingAccepted
  <2>1. hashPendingCheckpoint \in Block
    BY <1>10 DEF PendingAccepted, PendingHere, TypeOK
  <2> QED
    BY <1>2, <1>3, <1>10, <2>1 DEF PendingAccepted, Returned, WriteSyncCheckpoint
<1>11. CASE PendingDemanded
  BY <1>11 DEF PendingDemanded, orphans, checkpoints
<1>12. ASSUME CheckpointReturns
       PROVE  /\ demanded' = NoBlock /\ demanded \in Block
              /\ pblock' = NoBlock /\ vWorkQueue' \in Seq(Block)
              /\ mapOrphanBlocks' \subseteq Block \ {Genesis}
              /\ setStakeSeenOrphan' \subseteq Tx \X Nat
              /\ setStakeSeen' = setStakeSeen
  <2>1. CASE pblock # NoBlock
    BY <1>2, <1>3, <1>12, <2>1 DEF CheckpointReturns
  <2>2. CASE pblock = NoBlock
    BY <1>12, <2>2 DEF CheckpointReturns, orphans
  <2> QED
    BY <2>1, <2>2
<1>13. CASE DemandMet
  BY <1>12, <1>13 DEF DemandMet, WriteSyncCheckpoint
<1>14. CASE DemandFailed
  BY <1>12, <1>14 DEF DemandFailed
<1>15. ASSUME NEW b \in Block \ {Genesis}, ProcessOrphan(b) PROVE NodeTypeOK'
  BY <1>15, StakeTypes DEF ProcessOrphan, checkpoints, thread
<1>16. ASSUME NEW b \in Block \ {Genesis}, ProcessBlock(b) PROVE NodeTypeOK'
  BY <1>1, <1>16 DEF ProcessBlock, orphans, checkpoints
<1>17. ASSUME NEW c \in Checkpointable, CheckpointArrives(c) PROVE NodeTypeOK'
  <2>1. c \in Block
    BY FaultAssumption
  <2>2. CASE CheckpointPending(c)
    BY <2>1, <2>2 DEF CheckpointPending, orphans, thread
  <2>3. CASE CheckpointRefused(c)
    BY <2>1, <2>3 DEF CheckpointRefused, NoteConflict, orphans, thread
  <2>4. CASE CheckpointAccepted(c)
    BY <2>1, <2>4 DEF CheckpointAccepted, WriteSyncCheckpoint, orphans, thread
  <2>5. CASE CheckpointDemanded(c)
    BY <2>1, <2>5 DEF CheckpointDemanded, orphans, checkpoints
  <2> QED
    BY <1>17, <2>2, <2>3, <2>4, <2>5 DEF CheckpointArrives
<1>18. CASE NodeRestart
  <2>1. LoadedStakes \subseteq Tx \X Nat
    BY StakeTypes DEF LoadedStakes, TypeOK
  <2>2. /\ mapOrphanBlocks' = {} /\ setStakeSeenOrphan' = {}
        /\ setStakeSeen' \subseteq Tx \X Nat
        /\ hashSyncCheckpoint' \in Block
        /\ hashPendingCheckpoint' = NoBlock /\ hashInvalidCheckpoint' = NoBlock
        /\ pblock' = NoBlock /\ demanded' = NoBlock
    BY <1>18, <2>1 DEF NodeRestart
  <2>3. vWorkQueue' = << >> /\ << >> \in Seq(Block)
    BY <1>18 DEF NodeRestart
  <2> QED
    BY <2>2, <2>3
<1>19. CASE SetBestChainStep /\ UNCHANGED <<orphans, setStakeSeen, checkpoints, thread>>
  BY <1>19 DEF orphans, checkpoints, thread
<1>20. CASE UNCHANGED nodeVars
  BY <1>20 DEF nodeVars, orphans, checkpoints, thread
<1> QED
  BY <1>4, <1>5, <1>6, <1>7, <1>8, <1>10, <1>11, <1>13, <1>14, <1>15, <1>16,
     <1>17, <1>18, <1>19, <1>20 DEF NodeNext, Proceed, BlockArrives

(* Every variable of the node keeps its type. *)
THEOREM NodeTypeCorrect == NodeSpec => []NodeTypeOK
<1>1. NodeInit => NodeTypeOK
  BY TypeInvInit, BlockTreeAssumption DEF NodeInit, NodeTypeOK, TypeInv
<1>2. IInv' => TypeOK'
  BY DEF IInv, TypeInv
<1>3. IInv' /\ NodeTypeOK /\ [NodeNext]_nodeVars => NodeTypeOK'
  BY <1>2, NodeTypeStep
<1> QED
  BY <1>1, <1>3, ChainInvariant, PTL DEF NodeSpec
----------------------------------------------------------------------------
(* The synchronized checkpoint *)

(* What SetBestChain is heading for descends from the sync-checkpoint, and  *)
(* so does every chain it is at on the way.                                 *)
HeldInv ==
  /\ hashSyncCheckpoint \in Chain[hashBestChain]
  /\ pc # "Postponed" => hashSyncCheckpoint \in Chain[pindexBest]
  /\ pc # "idle" => hashSyncCheckpoint \in Chain[pindexNew]
  /\ pc = "Reorganize" => hashSyncCheckpoint \in Chain[pindexIntermediate]
  /\ pc = "Postponed" => hashSyncCheckpoint \in Chain[cursor]
  /\ demanded # NoBlock => hashSyncCheckpoint \in Chain[demanded]

(* The first block with more trust than the best chain is above every block *)
(* that both chains have: Reorganize never has to undo the sync-checkpoint. *)
LEMMA IntermediateAbove ==
  ASSUME NEW a \in Block, NEW b \in Block, NEW x \in Chain[b],
         NEW c \in Chain[a] \cap Chain[b],
         \A y \in Chain[b] \ Chain[x] : bnChainTrust[pprev[y]] > bnChainTrust[a]
  PROVE  c \in Chain[x]
<1>1. SUFFICES ASSUME c \notin Chain[x] PROVE FALSE
  OBVIOUS
<1>2. c \in Block \ {Genesis} /\ x \in Block
  BY <1>1, ChainEnds
<1>3. bnChainTrust[pprev[c]] > bnChainTrust[a]
  BY <1>1
<1>4. /\ bnChainTrust[pprev[c]] < bnChainTrust[c]
      /\ bnChainTrust[pprev[c]] \in Nat /\ bnChainTrust[c] \in Nat /\ bnChainTrust[a] \in Nat
  BY <1>2, BlockTreeAssumption
<1>5. c = a \/ bnChainTrust[c] < bnChainTrust[a]
  BY ChainRises
<1> QED
  BY <1>3, <1>4, <1>5

(* The steps of SetBestChain. *)
LEMMA HeldByChainStep ==
  ASSUME IInv, IInv', HeldInv, SetBestChainStep, ~ fGap', ~ fGap,
         hashSyncCheckpoint \in Block,
         UNCHANGED <<hashSyncCheckpoint, demanded>>
  PROVE  HeldInv'
<1> USE DEF HeldInv
<1>1. TypeOK /\ WorkTyped /\ TypeOK' /\ CoreInv
  BY DEF IInv, TypeInv
<1>2. ASSUME NEW b \in Block \ {Genesis}, hashSyncCheckpoint \in Chain[pprev[b]]
      PROVE  hashSyncCheckpoint \in Chain[b]
  BY <1>2, BlockTreeAssumption
<1>3. CASE ExtendBestChain
  <2>1. pindexNew \in Block \ {Genesis}
    BY <1>1, <1>3 DEF ExtendBestChain, WorkTyped
  <2> QED
    BY <1>2, <1>3, <2>1 DEF ExtendBestChain, Attach, WriteHashBestChain
<1>4. CASE ExtendFails \/ TransactionFails
  BY <1>4 DEF ExtendFails, TransactionFails, Abort, memory, disk
<1>5. ASSUME NEW x \in Block, StartReorganize(x) PROVE HeldInv'
  <2>1. pindexNew \in Block /\ pindexBest \in Block /\ pc = "SetBestChain"
    BY <1>1, <1>5 DEF StartReorganize, WorkTyped, TypeOK
  <2>2. hashSyncCheckpoint \in Chain[x]
    BY <1>5, <2>1, IntermediateAbove DEF StartReorganize
  <2> QED
    BY <1>5, <2>2 DEF StartReorganize, memory, disk
<1>6. CASE Disconnect
  BY <1>6 DEF Disconnect, memory, disk
<1>7. ASSUME NEW b \in Block, Connect(b) PROVE HeldInv'
  BY <1>7 DEF Connect, memory, disk
<1>8. CASE ReorganizeFails
  BY <1>8 DEF ReorganizeFails, Abort, memory, disk
<1>9. CASE CommitReorganize
  BY <1>9 DEF CommitReorganize, WriteHashBestChain, work
<1>10. ASSUME NEW b \in Block, ConnectPostponed(b) PROVE HeldInv'
  <2>1. b \in Block \ {Genesis} /\ pprev[b] = cursor
    BY <1>10 DEF ConnectPostponed, IsNext, Connected
  <2> QED
    BY <1>2, <1>10, <2>1 DEF ConnectPostponed, Attach, WriteHashBestChain
<1>11. ASSUME NEW b \in Block, PostponedFails(b) PROVE HeldInv'
  BY <1>11 DEF PostponedFails
<1>12. CASE NewBestBlock
  BY <1>12 DEF NewBestBlock, NewBest, disk
<1> QED
  BY <1>3, <1>4, <1>5, <1>6, <1>7, <1>8, <1>9, <1>10, <1>11, <1>12 DEF SetBestChainStep

(* Between calls a block that IsInMainChain is on the best chain. *)
LEMMA InMainChain ==
  ASSUME IInv, ~ fGap, pc = "idle", NEW c \in Block, IsInMainChain(c)
  PROVE  c \in Chain[pindexBest] /\ hashBestChain = pindexBest
<1>1. LinksTo(pnext, pindexBest) /\ hashBestChain = pindexBest /\ pindexBest \in Block
  BY DEF IInv, CoreInv, MemoryInv, Tip, TypeInv, TypeOK
<1> QED
  BY <1>1, ChainEnds DEF IsInMainChain, LinksTo

LEMMA HeldStep ==
  ASSUME IInv, IInv', NodeTypeOK, ~ fGap => HeldInv, [NodeNext]_nodeVars, ~ fGap'
  PROVE  HeldInv'
<1> USE DEF HeldInv
<1>1. ~ fGap
  BY ChainStep DEF Next, SetBestChainStep, AddToBlockIndex, DemandCheckpoint, ExtendBestChain,
       ExtendFails, TransactionFails, StartReorganize, Disconnect, Connect, ReorganizeFails,
       CommitReorganize, ConnectPostponed, PostponedFails, NewBestBlock, Restart, vars
<1>2. HeldInv /\ TypeOK /\ hashSyncCheckpoint \in Block
  BY <1>1 DEF NodeTypeOK
<1>3. ASSUME UNCHANGED <<vars, hashSyncCheckpoint, demanded>>
      PROVE  HeldInv'
  BY <1>2, <1>3 DEF vars, memory, disk, work
<1>4. ASSUME NEW c \in Block, IsInMainChain(c), ValidateSyncCheckpoint(c),
             hashSyncCheckpoint' = c, pc = "idle", UNCHANGED <<vars, demanded>>, demanded = NoBlock
      PROVE  HeldInv'
  <2>1. c \in Chain[pindexBest] /\ hashBestChain = pindexBest
    BY <1>1, <1>4, InMainChain
  <2> QED
    BY <1>4, <2>1 DEF vars, memory, disk, work, ValidateSyncCheckpoint
<1>5. ASSUME NEW b \in Block \ {Genesis}, StartAccept(b),
             UNCHANGED <<hashSyncCheckpoint, demanded>>
      PROVE  HeldInv'
  <2>1. hashSyncCheckpoint \in Chain[b]
    BY <1>5, BlockTreeAssumption DEF StartAccept, MayAccept, CheckSync
  <2> QED
    BY <1>2, <1>5, <2>1 DEF StartAccept, AddToBlockIndex, disk
<1>6. ASSUME NEW c \in Block, ValidateSyncCheckpoint(c), DemandCheckpoint(c),
             demanded' = c, UNCHANGED hashSyncCheckpoint
      PROVE  HeldInv'
  BY <1>2, <1>6 DEF DemandCheckpoint, ValidateSyncCheckpoint, memory, disk
<1>7. CASE SetBestChainStep /\ UNCHANGED <<orphans, setStakeSeen, checkpoints, thread>>
  BY <1>1, <1>2, <1>7, HeldByChainStep DEF checkpoints, thread
<1>8. ASSUME NEW o \in Block, AcceptOrphan(o) PROVE HeldInv'
  <2>1. o \in Block \ {Genesis}
    BY <1>8 DEF AcceptOrphan, NodeTypeOK
  <2> QED
    BY <1>5, <1>8, <2>1 DEF AcceptOrphan, checkpoints
<1>9. ASSUME \/ \E o \in Block : DropOrphan(o)
             \/ NextInQueue \/ NotConnected \/ NothingPending
      PROVE  HeldInv'
  BY <1>3, <1>9 DEF DropOrphan, NextInQueue, NotConnected, NothingPending,
     checkpoints, thread
<1>10. CASE PendingAccepted
  <2>1. /\ hashPendingCheckpoint \in Block /\ pc = "idle" /\ demanded = NoBlock
        /\ IsInMainChain(hashPendingCheckpoint)
        /\ ValidateSyncCheckpoint(hashPendingCheckpoint)
        /\ hashSyncCheckpoint' = hashPendingCheckpoint
        /\ UNCHANGED <<vars, demanded>>
    BY <1>2, <1>10 DEF PendingAccepted, PendingHere, Returned, WriteSyncCheckpoint, TypeOK
  <2> QED
    BY <1>4, <2>1
<1>11. CASE PendingDemanded
  <2>1. hashPendingCheckpoint \in Block
    BY <1>2, <1>11 DEF PendingDemanded, PendingHere, TypeOK
  <2> QED
    BY <1>6, <1>11, <2>1 DEF PendingDemanded, checkpoints
<1>12. CASE DemandMet
  <2>1. /\ pc = "idle" /\ demanded # NoBlock /\ demanded = pindexBest
        /\ hashSyncCheckpoint' = demanded /\ demanded' = NoBlock /\ UNCHANGED vars
    BY <1>12 DEF DemandMet, CheckpointReturns, WriteSyncCheckpoint
  <2>2. IsInMainChain(demanded) /\ demanded \in Block
    BY <1>2, <2>1 DEF IsInMainChain, TypeOK
  <2>3. demanded \in Chain[pindexBest] /\ hashBestChain = pindexBest
    BY <1>1, <2>1, <2>2, InMainChain
  <2> QED
    BY <1>2, <2>1, <2>3 DEF vars, memory, disk, work
<1>13. CASE DemandFailed
  BY <1>2, <1>13 DEF DemandFailed, CheckpointReturns, vars, memory, disk, work
<1>14. ASSUME NEW b \in Block \ {Genesis}, BlockArrives(b)
       PROVE  HeldInv'
  <2>1. CASE ProcessOrphan(b)
    BY <1>3, <2>1 DEF ProcessOrphan, checkpoints, thread
  <2>2. CASE ProcessBlock(b)
    BY <1>5, <2>2 DEF ProcessBlock, checkpoints
  <2> QED
    BY <1>14, <2>1, <2>2 DEF BlockArrives
<1>15. ASSUME NEW c \in Checkpointable, CheckpointArrives(c)
       PROVE  HeldInv'
  <2>1. c \in Block
    BY FaultAssumption
  <2>2. CASE CheckpointPending(c) \/ CheckpointRefused(c)
    BY <1>3, <2>2 DEF CheckpointPending, CheckpointRefused, thread
  <2>3. CASE CheckpointAccepted(c)
    BY <1>4, <2>1, <2>3 DEF CheckpointAccepted, WriteSyncCheckpoint, Waiting, thread
  <2>4. CASE CheckpointDemanded(c)
    BY <1>6, <2>1, <2>4 DEF CheckpointDemanded, checkpoints
  <2> QED
    BY <1>15, <2>2, <2>3, <2>4 DEF CheckpointArrives
<1>16. CASE NodeRestart
  BY <1>2, <1>16 DEF NodeRestart, Restart, Abort, LoadedBest, disk
<1>17. CASE UNCHANGED nodeVars
  BY <1>3, <1>17 DEF nodeVars, checkpoints, thread
<1> QED
  BY <1>7, <1>8, <1>9, <1>10, <1>11, <1>12, <1>13, <1>14, <1>15, <1>16, <1>17
     DEF NodeNext, Proceed, nodeVars, checkpoints

LEMMA HeldAlways == NodeSpec => [](IInv /\ NodeTypeOK /\ (~ fGap => HeldInv))
<1>1. NodeInit => (~ fGap => HeldInv)
  BY BlockTreeAssumption DEF NodeInit, Init, HeldInv
<1>2. IInv /\ IInv' /\ NodeTypeOK /\ (~ fGap => HeldInv) /\ [NodeNext]_nodeVars
        => (~ fGap => HeldInv)'
  BY HeldStep
<1> QED
  BY <1>1, <1>2, ChainInvariant, NodeTypeCorrect, PTL DEF NodeSpec

(* The sync-checkpoint stays on the best chain, in memory and on disk:      *)
(* CheckSync lets no other branch grow, and Reorganize never goes below it. *)
THEOREM CheckpointHolds == NodeSpec => []SyncCheckpointOnBestChain
<1>1. (~ fGap => HeldInv) => SyncCheckpointOnBestChain
  BY DEF HeldInv, SyncCheckpointOnBestChain
<1> QED
  BY <1>1, HeldAlways, PTL

(* While SetBestChain runs for a checkpoint, it is a descendant of the      *)
(* current one.                                                             *)
DemandInv == demanded # NoBlock => hashSyncCheckpoint \in Chain[demanded]

LEMMA DemandStep ==
  ASSUME NodeTypeOK, NodeTypeOK', DemandInv, [NodeNext]_nodeVars
  PROVE  DemandInv' /\ MovesDown
<1> USE DEF DemandInv, MovesDown
<1>1. hashSyncCheckpoint \in Block /\ hashSyncCheckpoint \in Chain[hashSyncCheckpoint]
  BY ChainEnds DEF NodeTypeOK
<1>2. ASSUME UNCHANGED <<hashSyncCheckpoint, demanded>> PROVE DemandInv' /\ MovesDown
  BY <1>1, <1>2
<1>3. ASSUME NEW c, ValidateSyncCheckpoint(c), UNCHANGED demanded, demanded = NoBlock,
             hashSyncCheckpoint' = c
      PROVE  DemandInv' /\ MovesDown
  BY <1>3 DEF ValidateSyncCheckpoint
<1>4. ASSUME NEW c, ValidateSyncCheckpoint(c), UNCHANGED hashSyncCheckpoint, demanded' = c
      PROVE  DemandInv' /\ MovesDown
  BY <1>1, <1>4 DEF ValidateSyncCheckpoint
<1>5. ASSUME NEW o \in Block, AcceptOrphan(o) \/ DropOrphan(o) PROVE DemandInv' /\ MovesDown
  BY <1>2, <1>5 DEF AcceptOrphan, DropOrphan, checkpoints, thread
<1>6. CASE NextInQueue \/ NotConnected \/ NothingPending
  BY <1>2, <1>6 DEF NextInQueue, NotConnected, NothingPending, checkpoints
<1>7. CASE PendingAccepted
  BY <1>3, <1>7 DEF PendingAccepted, Returned, WriteSyncCheckpoint
<1>8. CASE PendingDemanded
  BY <1>4, <1>8 DEF PendingDemanded, checkpoints
<1>9. CASE DemandMet
  BY <1>9 DEF DemandMet, CheckpointReturns, WriteSyncCheckpoint
<1>10. CASE DemandFailed
  BY <1>1, <1>10 DEF DemandFailed, CheckpointReturns
<1>11. ASSUME NEW b \in Block \ {Genesis}, BlockArrives(b) PROVE DemandInv' /\ MovesDown
  BY <1>2, <1>11 DEF BlockArrives, ProcessOrphan, ProcessBlock, checkpoints, thread
<1>12. ASSUME NEW c \in Checkpointable, CheckpointArrives(c) PROVE DemandInv' /\ MovesDown
  <2>1. CASE CheckpointPending(c) \/ CheckpointRefused(c)
    BY <1>2, <2>1 DEF CheckpointPending, CheckpointRefused, thread
  <2>2. CASE CheckpointAccepted(c)
    BY <1>3, <2>2 DEF CheckpointAccepted, WriteSyncCheckpoint, Waiting, thread
  <2>3. CASE CheckpointDemanded(c)
    BY <1>4, <2>3 DEF CheckpointDemanded, checkpoints
  <2> QED
    BY <1>12, <2>1, <2>2, <2>3 DEF CheckpointArrives
<1>13. CASE NodeRestart
  BY <1>1, <1>13 DEF NodeRestart
<1>14. CASE SetBestChainStep /\ UNCHANGED <<orphans, setStakeSeen, checkpoints, thread>>
  BY <1>2, <1>14 DEF checkpoints, thread
<1>15. CASE UNCHANGED nodeVars
  BY <1>2, <1>15 DEF nodeVars, checkpoints, thread
<1> QED
  BY <1>5, <1>6, <1>7, <1>8, <1>9, <1>10, <1>11, <1>12, <1>13, <1>14, <1>15
     DEF NodeNext, Proceed

(* The sync-checkpoint moves only to its descendants, also when it is       *)
(* reached by a reorganization begun for it much earlier, and after gaps.   *)
THEOREM CheckpointAdvances == NodeSpec => SyncCheckpointAdvances
<1>1. NodeInit => DemandInv
  BY DEF NodeInit, DemandInv
<1>2. NodeTypeOK /\ NodeTypeOK' /\ DemandInv /\ [NodeNext]_nodeVars => DemandInv' /\ MovesDown
  BY DemandStep
<1> QED
  BY <1>1, <1>2, NodeTypeCorrect, PTL DEF NodeSpec, SyncCheckpointAdvances
----------------------------------------------------------------------------
(* The pending checkpoint *)

PendingInv ==
  hashPendingCheckpoint \in mapBlockIndex =>
    /\ hashSyncCheckpoint \in Chain[hashPendingCheckpoint]
    /\ hashSyncCheckpoint # hashPendingCheckpoint

LEMMA SetBestChainKeepsIndex == SetBestChainStep => UNCHANGED mapBlockIndex
BY DEF SetBestChainStep, ExtendBestChain, ExtendFails, TransactionFails, StartReorganize,
   Disconnect, Connect,
   ReorganizeFails, CommitReorganize, ConnectPostponed, PostponedFails, NewBestBlock, NewBest,
   Attach, Abort, memory

(* Its block comes into the index only through CheckSync. *)
LEMMA PendingStep ==
  ASSUME NodeTypeOK, NodeTypeOK', PendingInv, [NodeNext]_nodeVars
  PROVE  PendingInv'
<1> USE DEF PendingInv
<1>1. ASSUME UNCHANGED <<mapBlockIndex, hashSyncCheckpoint, hashPendingCheckpoint>>
      PROVE  PendingInv'
  BY <1>1
<1>2. ASSUME hashPendingCheckpoint' = NoBlock PROVE PendingInv'
  BY <1>2, BlockTreeAssumption DEF NodeTypeOK, TypeOK
<1>3. ASSUME NEW b \in Block \ {Genesis}, StartAccept(b),
             UNCHANGED <<hashSyncCheckpoint, hashPendingCheckpoint>>
      PROVE  PendingInv'
  <2>1. hashSyncCheckpoint \in Chain[pprev[b]] /\ pprev[b] \in Block
    BY <1>3, BlockTreeAssumption DEF StartAccept, MayAccept, CheckSync
  <2>2. hashSyncCheckpoint \in Chain[b] /\ nHeight[b] = nHeight[pprev[b]] + 1
    BY <2>1, BlockTreeAssumption
  <2>3. /\ hashSyncCheckpoint = pprev[b] \/ nHeight[hashSyncCheckpoint] < nHeight[pprev[b]]
        /\ nHeight[b] \in Nat /\ nHeight[pprev[b]] \in Nat
    BY <2>1, ChainRises, BlockTreeAssumption
  <2>4. hashSyncCheckpoint # b
    BY <2>2, <2>3
  <2> QED
    BY <1>3, <2>2, <2>4 DEF StartAccept, AddToBlockIndex
<1>4. ASSUME NEW o \in Block, AcceptOrphan(o) PROVE PendingInv'
  BY <1>3, <1>4 DEF AcceptOrphan, checkpoints, NodeTypeOK
<1>5. ASSUME NEW o \in Block, DropOrphan(o) PROVE PendingInv'
  BY <1>1, <1>5 DEF DropOrphan, checkpoints, vars, memory, disk
<1>6. CASE NextInQueue \/ NotConnected \/ NothingPending \/ DemandFailed
  BY <1>1, <1>6 DEF NextInQueue, NotConnected, NothingPending, DemandFailed,
     CheckpointReturns, checkpoints, vars, memory, disk
<1>7. CASE PendingAccepted \/ DemandMet
  BY <1>2, <1>7 DEF PendingAccepted, DemandMet, WriteSyncCheckpoint
<1>8. CASE PendingDemanded
  BY <1>1, <1>8 DEF PendingDemanded, DemandCheckpoint, checkpoints, memory, disk
<1>9. ASSUME NEW b \in Block \ {Genesis}, BlockArrives(b) PROVE PendingInv'
  <2>1. CASE ProcessOrphan(b)
    BY <1>1, <2>1 DEF ProcessOrphan, checkpoints, vars, memory, disk
  <2>2. CASE ProcessBlock(b)
    BY <1>3, <2>2 DEF ProcessBlock, checkpoints
  <2> QED
    BY <1>9, <2>1, <2>2 DEF BlockArrives
<1>10. ASSUME NEW c \in Checkpointable, CheckpointArrives(c) PROVE PendingInv'
  <2>1. CASE CheckpointPending(c)
    BY <2>1 DEF CheckpointPending, vars, memory, disk
  <2>2. CASE CheckpointRefused(c)
    BY <1>1, <2>2 DEF CheckpointRefused, vars, memory, disk
  <2>3. CASE CheckpointAccepted(c)
    BY <1>2, <2>3 DEF CheckpointAccepted, WriteSyncCheckpoint
  <2>4. CASE CheckpointDemanded(c)
    BY <1>1, <2>4 DEF CheckpointDemanded, DemandCheckpoint, checkpoints, memory, disk
  <2> QED
    BY <1>10, <2>1, <2>2, <2>3, <2>4 DEF CheckpointArrives
<1>11. CASE NodeRestart
  BY <1>2, <1>11 DEF NodeRestart
<1>12. CASE SetBestChainStep /\ UNCHANGED <<orphans, setStakeSeen, checkpoints, thread>>
  BY <1>1, <1>12, SetBestChainKeepsIndex DEF checkpoints
<1>13. CASE UNCHANGED nodeVars
  BY <1>1, <1>13 DEF nodeVars, checkpoints, vars, memory, disk
<1> QED
  BY <1>4, <1>5, <1>6, <1>7, <1>8, <1>9, <1>10, <1>11, <1>12, <1>13 DEF NodeNext, Proceed

(* AcceptPendingSyncCheckpoint never has to give a pending checkpoint up:   *)
(* once its block is accepted, ValidateSyncCheckpoint passes it.            *)
THEOREM PendingNeverConflicts == NodeSpec => []PendingIsDescendant
<1>1. NodeInit => PendingInv
  BY BlockTreeAssumption DEF NodeInit, Init, PendingInv
<1>2. NodeTypeOK /\ NodeTypeOK' /\ PendingInv /\ [NodeNext]_nodeVars => PendingInv'
  BY PendingStep
<1>3. NodeTypeOK /\ PendingInv => PendingIsDescendant
  <2> SUFFICES ASSUME NodeTypeOK, PendingInv, hashPendingCheckpoint \in mapBlockIndex
               PROVE  ValidateSyncCheckpoint(hashPendingCheckpoint)
    BY DEF PendingIsDescendant
  <2>1. hashPendingCheckpoint \in Block
    BY DEF NodeTypeOK, TypeOK
  <2> QED
    BY <2>1, ChainRises, BlockTreeAssumption DEF PendingInv, ValidateSyncCheckpoint, NodeTypeOK
<1> QED
  BY <1>1, <1>2, <1>3, NodeTypeCorrect, PTL DEF NodeSpec
----------------------------------------------------------------------------
(* The filters on stakes *)

(* Only AcceptBlock adds to the index, and to its stakes what it adds.      *)
LEMMA StakesStep ==
  ASSUME StakesSeen, [NodeNext]_nodeVars
  PROVE  StakesSeen'
<1> USE DEF StakesSeen
<1>1. ASSUME UNCHANGED <<mapBlockIndex, setStakeSeen>> PROVE StakesSeen'
  BY <1>1 DEF Stakes
<1>2. ASSUME NEW b \in Block, StartAccept(b) PROVE StakesSeen'
  <2>1. mapBlockIndex' = mapBlockIndex \cup {b}
    BY <1>2 DEF StartAccept, AddToBlockIndex
  <2>2. Stakes(mapBlockIndex \cup {b}) = Stakes(mapBlockIndex) \cup Stakes({b})
    BY DEF Stakes
  <2>3. StakesSeen' <=> setStakeSeen' = Stakes(mapBlockIndex')
    BY DEF Stakes
  <2> QED
    BY <1>2, <2>1, <2>2, <2>3 DEF StartAccept
<1>3. ASSUME NEW o \in Block, AcceptOrphan(o) \/ DropOrphan(o) PROVE StakesSeen'
  BY <1>1, <1>2, <1>3 DEF AcceptOrphan, DropOrphan, vars, memory
<1>4. CASE \/ NextInQueue \/ NotConnected \/ NothingPending
           \/ PendingAccepted \/ DemandMet \/ DemandFailed
  BY <1>1, <1>4 DEF NextInQueue, NotConnected, NothingPending, PendingAccepted,
     DemandMet, DemandFailed, CheckpointReturns, vars, memory
<1>5. CASE PendingDemanded
  BY <1>1, <1>5 DEF PendingDemanded, DemandCheckpoint, memory
<1>6. ASSUME NEW b \in Block, BlockArrives(b) PROVE StakesSeen'
  BY <1>1, <1>2, <1>6 DEF BlockArrives, ProcessOrphan, ProcessBlock, vars, memory
<1>7. ASSUME NEW c \in Checkpointable, CheckpointArrives(c) PROVE StakesSeen'
  BY <1>1, <1>7 DEF CheckpointArrives, CheckpointPending, CheckpointRefused,
     CheckpointAccepted, CheckpointDemanded, DemandCheckpoint, vars, memory
<1>8. CASE NodeRestart
  <2>1. mapBlockIndex' = mapBlockIndex /\ setStakeSeen' = Stakes(mapBlockIndex)
    BY <1>8 DEF NodeRestart, Restart, LoadedStakes
  <2> QED
    BY <2>1 DEF Stakes
<1>9. CASE SetBestChainStep /\ UNCHANGED <<orphans, setStakeSeen, checkpoints, thread>>
  BY <1>1, <1>9, SetBestChainKeepsIndex
<1>10. CASE UNCHANGED nodeVars
  BY <1>1, <1>10 DEF nodeVars, vars, memory
<1> QED
  BY <1>3, <1>4, <1>5, <1>6, <1>7, <1>8, <1>9, <1>10 DEF NodeNext, Proceed

(* setStakeSeen is at any time what LoadBlockIndexGuts would fill it with:  *)
(* a restart changes nothing of which blocks are refused as duplicates.     *)
THEOREM StakesSeenInIndex == NodeSpec => []StakesSeen
<1>1. NodeInit => StakesSeen
  BY AcceptanceAssumption DEF NodeInit, Init, StakesSeen, Stakes
<1>2. StakesSeen /\ [NodeNext]_nodeVars => StakesSeen'
  BY StakesStep
<1> QED
  BY <1>1, <1>2, PTL DEF NodeSpec

(* A stake comes with an orphan and goes with it at the latest.             *)
LEMMA OrphanStakesStep ==
  ASSUME OrphanStakes, [NodeNext]_nodeVars
  PROVE  OrphanStakes'
<1> USE DEF OrphanStakes
<1>1. ASSUME UNCHANGED orphans PROVE OrphanStakes'
  BY <1>1 DEF Stakes, orphans
<1>2. ASSUME NEW o, Forget(o) PROVE OrphanStakes'
  <2>1. Stakes(mapOrphanBlocks) \ {GetProofOfStake(o)} \subseteq Stakes(mapOrphanBlocks \ {o})
    BY DEF Stakes
  <2>2. OrphanStakes' <=> setStakeSeenOrphan' \subseteq Stakes(mapOrphanBlocks')
    BY DEF Stakes
  <2> QED
    BY <1>2, <2>1, <2>2 DEF Forget
<1>3. ASSUME NEW q, AcceptReturns(q) PROVE OrphanStakes'
  BY <1>1, <1>2, <1>3 DEF AcceptReturns
<1>4. ASSUME NEW o \in Block, AcceptOrphan(o) \/ DropOrphan(o) PROVE OrphanStakes'
  BY <1>1, <1>2, <1>4 DEF AcceptOrphan, DropOrphan
<1>5. CASE NextInQueue \/ PendingDemanded
  BY <1>1, <1>5 DEF NextInQueue, PendingDemanded
<1>6. CASE NotConnected \/ NothingPending \/ PendingAccepted
  BY <1>3, <1>6 DEF NotConnected, NothingPending, PendingAccepted
<1>7. CASE DemandMet \/ DemandFailed
  BY <1>1, <1>3, <1>7 DEF DemandMet, DemandFailed, CheckpointReturns
<1>8. ASSUME NEW b \in Block, ProcessOrphan(b) PROVE OrphanStakes'
  <2>1. Stakes(mapOrphanBlocks) \cup Stakes({b}) \subseteq Stakes(mapOrphanBlocks \cup {b})
    BY DEF Stakes
  <2>2. OrphanStakes' <=> setStakeSeenOrphan' \subseteq Stakes(mapOrphanBlocks')
    BY DEF Stakes
  <2> QED
    BY <1>8, <2>1, <2>2 DEF ProcessOrphan
<1>9. ASSUME NEW b \in Block, ProcessBlock(b) PROVE OrphanStakes'
  BY <1>1, <1>9 DEF ProcessBlock
<1>10. ASSUME NEW c \in Checkpointable, CheckpointArrives(c) PROVE OrphanStakes'
  BY <1>1, <1>10 DEF CheckpointArrives, CheckpointPending, CheckpointRefused,
     CheckpointAccepted, CheckpointDemanded
<1>11. CASE NodeRestart
  <2>1. setStakeSeenOrphan' = {}
    BY <1>11 DEF NodeRestart
  <2> QED
    BY <2>1 DEF Stakes
<1>12. CASE SetBestChainStep /\ UNCHANGED <<orphans, setStakeSeen, checkpoints, thread>>
  BY <1>1, <1>12
<1>13. CASE UNCHANGED nodeVars
  BY <1>1, <1>13 DEF nodeVars
<1> QED
  BY <1>4, <1>5, <1>6, <1>7, <1>8, <1>9, <1>10, <1>11, <1>12, <1>13
     DEF NodeNext, Proceed, BlockArrives

(* An orphan's stake never outlives it in setStakeSeenOrphan: no block is   *)
(* refused as a duplicate of an orphan that is gone.                        *)
THEOREM OrphanStakesCurrent == NodeSpec => []OrphanStakes
<1>1. NodeInit => OrphanStakes
  BY DEF NodeInit, OrphanStakes, Stakes
<1>2. OrphanStakes /\ [NodeNext]_nodeVars => OrphanStakes'
  BY OrphanStakesStep
<1> QED
  BY <1>1, <1>2, PTL DEF NodeSpec
----------------------------------------------------------------------------
(* Orphans and pending checkpoints are attended to *)

(* Every block that AcceptBlock lets through, with its chain, is valid. *)
AcceptedValid == \A b \in Block : Chain[b] \cap Refused = {} => b \in ValidChain

InQueue(q, x) == \E i \in DOMAIN q : q[i] = x

LEMMA QueueGrows ==
  ASSUME NEW q \in Seq(Block), NEW b \in Block, NEW x, InQueue(q, x) \/ x = b
  PROVE  InQueue(Append(q, b), x)
<1>1. CASE InQueue(q, x)
  <2>1. PICK i \in DOMAIN q : q[i] = x
    BY <1>1 DEF InQueue
  <2>2. i \in DOMAIN Append(q, b) /\ Append(q, b)[i] = x
    BY <2>1
  <2> QED
    BY <2>2 DEF InQueue
<1>2. CASE x = b
  <2>1. Len(q) + 1 \in DOMAIN Append(q, b) /\ Append(q, b)[Len(q) + 1] = b
    OBVIOUS
  <2> QED
    BY <1>2, <2>1 DEF InQueue
<1> QED
  BY <1>1, <1>2

LEMMA QueueShrinks ==
  ASSUME NEW q \in Seq(Block), q # << >>, NEW x, InQueue(q, x), x # Head(q)
  PROVE  InQueue(Tail(q), x)
<1>1. PICK i \in DOMAIN q : q[i] = x
  BY DEF InQueue
<1>2. i # 1
  BY <1>1
<1>3. i - 1 \in DOMAIN Tail(q) /\ Tail(q)[i - 1] = x
  BY <1>1, <1>2
<1> QED
  BY <1>3 DEF InQueue

(* The block SetBestChain was called for is the best one when it returns;   *)
(* an orphan whose parent has come in is owed an attempt by the queue or by *)
(* the block AcceptBlock is at, and a pending checkpoint whose block has    *)
(* come in by the latter.                                                   *)
FlowInv ==
  /\ ~ fGap
  /\ mapBlockIndex \subseteq {b \in Block : Chain[b] \cap Refused = {}}
  /\ pc # "idle" => /\ pindexNew \in mapBlockIndex
                    /\ pindexNew = IF demanded # NoBlock THEN demanded ELSE pblock
  /\ pc = "Reorganize" => pindexIntermediate \in Chain[pindexNew]
  /\ pc = "idle" /\ demanded # NoBlock => demanded = pindexBest
  /\ pc = "idle" /\ demanded = NoBlock /\ pblock # NoBlock => ~ HasMoreTrust(pblock)
  /\ demanded # NoBlock /\ pblock = NoBlock => vWorkQueue = << >>
  /\ \A o \in mapOrphanBlocks :
        pprev[o] \in mapBlockIndex => pprev[o] = pblock \/ InQueue(vWorkQueue, pprev[o])
  /\ pblock = NoBlock => hashPendingCheckpoint \notin mapBlockIndex

(* Every reason for SetBestChain to give up is excluded. *)
LEMMA NothingFails ==
  ASSUME AcceptedValid, MayFail = {}, TxnMayFail = {}, IInv, FlowInv
  PROVE  ~ ExtendFails /\ ~ TransactionFails /\ ~ ReorganizeFails /\ \A b \in Block : ~ PostponedFails(b)
<1>1. TypeInv /\ CoreInv
  BY DEF IInv, FlowInv
<1>2. pc # "idle" => pindexNew \in ValidChain
  BY DEF FlowInv, AcceptedValid
<1>3. pc = "Reorganize" => pindexIntermediate \in Chain[pindexNew]
  BY DEF FlowInv
<1>4. ~ ExtendFails /\ ~ TransactionFails /\ ~ ReorganizeFails
  BY <1>1, <1>2, <1>3, FailsForCause DEF ExtendFails, TransactionFails, ReorganizeFails
<1>5. ASSUME NEW b \in Block PROVE ~ PostponedFails(b)
  BY <1>1, <1>2, PostponedFailsForCause DEF PostponedFails
<1> QED
  BY <1>4, <1>5

LEMMA FlowByChainStep ==
  ASSUME AcceptedValid, MayFail = {}, TxnMayFail = {}, IInv, NodeTypeOK, FlowInv,
         SetBestChainStep, UNCHANGED <<orphans, checkpoints, thread>>
  PROVE  FlowInv'
<1> USE DEF FlowInv, InQueue, orphans, checkpoints, thread
<1>1. ASSUME UNCHANGED <<mapBlockIndex, pindexNew, fGap>>, pc # "idle", pc' # "idle",
             pc' = "Reorganize" => pindexIntermediate' \in Chain[pindexNew]
      PROVE  FlowInv'
  BY <1>1
<1>2. CASE ExtendBestChain \/ CommitReorganize \/ (\E b \in Block : ConnectPostponed(b))
  BY <1>1, <1>2 DEF ExtendBestChain, CommitReorganize, ConnectPostponed, work
<1>3. CASE Disconnect \/ (\E b \in Block : Connect(b))
  BY <1>1, <1>3 DEF Disconnect, Connect, memory
<1>4. ASSUME NEW x \in Block, StartReorganize(x) PROVE FlowInv'
  BY <1>1, <1>4 DEF StartReorganize, memory
<1>5. CASE NewBestBlock
  <2>1. /\ pc' = "idle" /\ pindexBest' = pindexNew /\ pc # "idle"
        /\ UNCHANGED <<mapBlockIndex, fGap>>
    BY <1>5 DEF NewBestBlock, NewBest
  <2>2. pindexNew \in Block
    BY <2>1 DEF NodeTypeOK, TypeOK
  <2>3. demanded = NoBlock => ~ (bnChainTrust[pblock] > bnChainTrust[pindexBest'])
    BY <2>1, <2>2, BlockTreeAssumption
  <2> QED
    BY <2>1, <2>3 DEF HasMoreTrust
<1> QED
  BY <1>2, <1>3, <1>4, <1>5, NothingFails DEF SetBestChainStep

(* AcceptBlock returns true and its block joins the queue. *)
LEMMA FlowReturns ==
  ASSUME NodeTypeOK, FlowInv, AcceptReturns(Queued), pblock # NoBlock, pc = "idle",
         UNCHANGED vars, demanded' = NoBlock, hashPendingCheckpoint' \notin mapBlockIndex
  PROVE  FlowInv'
<1>1. /\ pblock' = NoBlock /\ vWorkQueue' = Append(vWorkQueue, pblock)
      /\ mapOrphanBlocks' \subseteq mapOrphanBlocks
  BY DEF AcceptReturns, Queued, Forget, orphans
<1>2. ASSUME NEW o \in mapOrphanBlocks', pprev[o] \in mapBlockIndex
      PROVE  InQueue(vWorkQueue', pprev[o])
  BY <1>1, <1>2, QueueGrows DEF FlowInv, NodeTypeOK
<1> QED
  BY <1>1, <1>2 DEF FlowInv, vars, memory, work

(* AcceptBlock begins. *)
LEMMA FlowAccept ==
  ASSUME NodeTypeOK, FlowInv, NEW b \in Block \ {Genesis}, StartAccept(b),
         pblock = NoBlock, demanded = NoBlock, UNCHANGED <<orphans, vWorkQueue, demanded>>
  PROVE  FlowInv'
<1>1. /\ b \notin Refused /\ pprev[b] \in mapBlockIndex /\ pblock' = b
      /\ mapBlockIndex' = mapBlockIndex \cup {b} /\ pc = "idle" /\ b # NoBlock
      /\ UNCHANGED <<pindexBest, fGap, mapOrphanBlocks>>
  BY BlockTreeAssumption DEF StartAccept, MayAccept, AddToBlockIndex, orphans
<1>2. IF HasMoreTrust(b) THEN pc' = "SetBestChain" /\ pindexNew' = b ELSE pc' = "idle"
  BY <1>1 DEF StartAccept, AddToBlockIndex
<1>3. mapBlockIndex' \subseteq {x \in Block : Chain[x] \cap Refused = {}}
  BY <1>1, BlockTreeAssumption DEF FlowInv
<1>4. \A o \in mapOrphanBlocks' :
        pprev[o] \in mapBlockIndex' => pprev[o] = pblock' \/ InQueue(vWorkQueue', pprev[o])
  BY <1>1, BlockTreeAssumption DEF FlowInv, NodeTypeOK
<1>5. CASE HasMoreTrust(b)
  BY <1>1, <1>2, <1>3, <1>4, <1>5 DEF FlowInv
<1>6. CASE ~ HasMoreTrust(b)
  BY <1>1, <1>2, <1>3, <1>4, <1>6 DEF FlowInv, HasMoreTrust
<1> QED
  BY <1>5, <1>6

LEMMA FlowStep ==
  ASSUME AcceptedValid, MayFail = {}, TxnMayFail = {}, IInv, NodeTypeOK, FlowInv,
         [NodeNext]_nodeVars
  PROVE  FlowInv'
<1>1. CASE SetBestChainStep /\ UNCHANGED <<orphans, setStakeSeen, checkpoints, thread>>
  BY <1>1, FlowByChainStep
<1>2. ASSUME UNCHANGED <<vars, pblock, vWorkQueue, demanded, hashPendingCheckpoint>>,
             mapOrphanBlocks' \subseteq mapOrphanBlocks
      PROVE  FlowInv'
  BY <1>2 DEF FlowInv, InQueue, HasMoreTrust, vars, memory, work
<1>3. ASSUME NEW o \in Block, AcceptOrphan(o) PROVE FlowInv'
  <2>1. o \in Block \ {Genesis} /\ demanded = NoBlock /\ pblock = NoBlock
    BY <1>3 DEF AcceptOrphan, NodeTypeOK, FlowInv
  <2> QED
    BY <1>3, <2>1, FlowAccept DEF AcceptOrphan
<1>4. ASSUME NEW o \in Block, DropOrphan(o) PROVE FlowInv'
  BY <1>2, <1>4 DEF DropOrphan, Forget, checkpoints, thread
<1>5. CASE NextInQueue
  <2>1. /\ vWorkQueue # << >> /\ vWorkQueue' = Tail(vWorkQueue) /\ pblock = NoBlock
        /\ \A o \in mapOrphanBlocks : pprev[o] # Head(vWorkQueue)
        /\ UNCHANGED <<vars, mapOrphanBlocks, pblock, demanded, hashPendingCheckpoint>>
    BY <1>5 DEF NextInQueue, HasOrphanChild, orphans, checkpoints
  <2>2. ASSUME NEW o \in mapOrphanBlocks', pprev[o] \in mapBlockIndex
        PROVE  pprev[o] = pblock' \/ InQueue(vWorkQueue', pprev[o])
    BY <2>1, <2>2, QueueShrinks DEF FlowInv, NodeTypeOK
  <2>3. demanded = NoBlock
    BY <2>1 DEF FlowInv
  <2> QED
    BY <2>1, <2>2, <2>3 DEF FlowInv, vars, memory, work
<1>6. CASE NotConnected
  BY <1>6 DEF NotConnected, Returned, FlowInv
<1>7. CASE NothingPending
  <2>1. hashPendingCheckpoint' \notin mapBlockIndex
    BY <1>7 DEF NothingPending, PendingHere, checkpoints
  <2> QED
    BY <1>7, <2>1, FlowReturns DEF NothingPending, Returned
<1>8. CASE PendingAccepted
  <2>1. hashPendingCheckpoint' \notin mapBlockIndex
    BY <1>8, BlockTreeAssumption DEF PendingAccepted, WriteSyncCheckpoint, NodeTypeOK, TypeOK
  <2> QED
    BY <1>8, <2>1, FlowReturns DEF PendingAccepted, Returned
<1>9. CASE PendingDemanded
  <2>1. /\ pblock # NoBlock /\ pc = "idle" /\ pc' = "SetBestChain"
        /\ pindexNew' = hashPendingCheckpoint /\ demanded' = hashPendingCheckpoint
        /\ hashPendingCheckpoint \in mapBlockIndex /\ hashPendingCheckpoint # NoBlock
        /\ UNCHANGED <<mapBlockIndex, fGap, mapOrphanBlocks, pblock, vWorkQueue>>
    BY <1>9, BlockTreeAssumption DEF PendingDemanded, DemandCheckpoint, Returned, PendingHere,
       NodeTypeOK, TypeOK, memory, orphans
  <2> QED
    BY <2>1 DEF FlowInv, InQueue
<1>10. CASE DemandMet
  <2>1. /\ hashPendingCheckpoint' = NoBlock /\ pc = "idle" /\ demanded # NoBlock
        /\ demanded' = NoBlock /\ UNCHANGED vars
    BY <1>10 DEF DemandMet, CheckpointReturns, WriteSyncCheckpoint
  <2>2. hashPendingCheckpoint' \notin mapBlockIndex
    BY <2>1, BlockTreeAssumption DEF NodeTypeOK, TypeOK
  <2>3. CASE pblock # NoBlock
    BY <1>10, <2>1, <2>2, <2>3, FlowReturns DEF DemandMet, CheckpointReturns
  <2>4. CASE pblock = NoBlock
    <3>1. UNCHANGED <<mapOrphanBlocks, pblock, vWorkQueue>>
      BY <1>10, <2>4 DEF DemandMet, CheckpointReturns, orphans
    <3> QED
      BY <2>1, <2>2, <2>4, <3>1 DEF FlowInv, InQueue, vars, memory, work
  <2> QED
    BY <2>3, <2>4
<1>11. CASE DemandFailed
  BY <1>11 DEF DemandFailed, CheckpointReturns, FlowInv
<1>12. ASSUME NEW b \in Block \ {Genesis}, ProcessOrphan(b) PROVE FlowInv'
  <2>1. /\ mapOrphanBlocks' = mapOrphanBlocks \cup {b} /\ pprev[b] \notin mapBlockIndex
        /\ UNCHANGED <<vars, pblock, vWorkQueue, demanded, hashPendingCheckpoint>>
    BY <1>12 DEF ProcessOrphan, checkpoints, thread
  <2> QED
    BY <2>1 DEF FlowInv, InQueue, HasMoreTrust, vars, memory, work
<1>13. ASSUME NEW b \in Block \ {Genesis}, ProcessBlock(b) PROVE FlowInv'
  BY <1>13, FlowAccept DEF ProcessBlock, Processed, Waiting
<1>14. ASSUME NEW c \in Checkpointable, CheckpointArrives(c) PROVE FlowInv'
  <2>1. CASE CheckpointPending(c)
    BY <2>1 DEF CheckpointPending, FlowInv, InQueue, HasMoreTrust, vars, memory, work,
       orphans, thread
  <2>2. CASE CheckpointRefused(c)
    BY <1>2, <2>2 DEF CheckpointRefused, orphans, thread
  <2>3. CASE CheckpointAccepted(c)
    <3>1. hashPendingCheckpoint' \notin mapBlockIndex
      BY <2>3, BlockTreeAssumption DEF CheckpointAccepted, WriteSyncCheckpoint, NodeTypeOK, TypeOK
    <3> QED
      BY <2>3, <3>1 DEF CheckpointAccepted, FlowInv, InQueue, HasMoreTrust, vars, memory,
         work, orphans, thread
  <2>4. CASE CheckpointDemanded(c)
    <3>1. /\ pblock = NoBlock /\ vWorkQueue = << >> /\ pc' = "SetBestChain"
          /\ pindexNew' = c /\ demanded' = c /\ c \in mapBlockIndex /\ c # NoBlock
          /\ UNCHANGED <<mapBlockIndex, fGap, mapOrphanBlocks, pblock, vWorkQueue,
                         hashPendingCheckpoint>>
      BY <2>4, BlockTreeAssumption DEF CheckpointDemanded, DemandCheckpoint, Waiting,
         NodeTypeOK, TypeOK, memory, orphans, checkpoints
    <3> QED
      BY <3>1 DEF FlowInv, InQueue
  <2> QED
    BY <1>14, <2>1, <2>2, <2>3, <2>4 DEF CheckpointArrives
<1>15. CASE NodeRestart
  <2>1. NoBlock \notin mapBlockIndex
    BY BlockTreeAssumption DEF NodeTypeOK, TypeOK
  <2> QED
    BY <1>15, <2>1 DEF NodeRestart, Restart, Abort, FlowInv
<1>16. CASE UNCHANGED nodeVars
  BY <1>2, <1>16 DEF nodeVars, orphans, checkpoints, thread
<1> QED
  BY <1>1, <1>3, <1>4, <1>5, <1>6, <1>7, <1>8, <1>9, <1>10, <1>11, <1>12, <1>13, <1>14,
     <1>15, <1>16 DEF NodeNext, Proceed, BlockArrives

LEMMA FlowAlways ==
  ASSUME AcceptedValid, MayFail = {}, TxnMayFail = {}
  PROVE  NodeSpec => [](NodeTypeOK /\ FlowInv)
<1>1. NodeInit => FlowInv
  BY BlockTreeAssumption, AcceptanceAssumption DEF NodeInit, Init, FlowInv
<1>2. IInv /\ NodeTypeOK /\ FlowInv /\ [NodeNext]_nodeVars => FlowInv'
  BY FlowStep
<1> QED
  BY <1>1, <1>2, ChainInvariant, NodeTypeCorrect, PTL DEF NodeSpec

(* If what AcceptBlock lets through is valid and the disk works, no orphan  *)
(* is forgotten in the holding area: ProcessBlock's queue reaches every     *)
(* descendant of the block that came in, whatever checkpoints and crashes   *)
(* do in between.                                                           *)
THEOREM OrphansAttended ==
  ASSUME AcceptedValid, MayFail = {}, TxnMayFail = {}
  PROVE  NodeSpec => []OrphansWaitForParents
<1>1. NodeTypeOK /\ FlowInv => OrphansWaitForParents
  BY BlockTreeAssumption DEF NodeTypeOK, FlowInv, OrphansWaitForParents, Waiting, InQueue
<1> QED
  BY <1>1, FlowAlways, PTL

(* ... and no pending checkpoint is forgotten once its block has come in,   *)
(* as a block of its own or as somebody's orphan.                           *)
THEOREM PendingAttended ==
  ASSUME AcceptedValid, MayFail = {}, TxnMayFail = {}
  PROVE  NodeSpec => []PendingForWantOfBlock
<1>1. FlowInv => PendingForWantOfBlock
  BY DEF FlowInv, PendingForWantOfBlock, Waiting
<1> QED
  BY <1>1, FlowAlways, PTL
============================================================================
