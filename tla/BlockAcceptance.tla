-------------------------- MODULE BlockAcceptance --------------------------
(***************************************************************************)
(* How blocks and synchronized checkpoints enter the node: ProcessBlock    *)
(* with its holding area of orphan blocks and its limit on duplicate       *)
(* stakes, AcceptBlock, and the checkpoint messages of checkpoints.cpp.    *)
(* Both end in SetBestChain: this module is composed with BestChain, whose *)
(* steps run in between.                                                   *)
(*                                                                         *)
(* The message thread holds cs_main for the whole of ProcessMessage, so    *)
(* nothing but a crash interleaves with the processing of one message.     *)
(***************************************************************************)
EXTENDS BestChain

CONSTANTS
  NoStake,         \* the stake of a proof-of-work block
  prevoutStake,    \* the output a block's coinstake spends...
  nStakeTime,      \* ... and the time of that transaction
  Refused          \* blocks AcceptBlock refuses for what is in them: target,
                   \* time, version, hardened checkpoint

ASSUME AcceptanceAssumption ==
  /\ NoStake \notin Tx
  /\ prevoutStake \in [Block -> Tx \cup {NoStake}]
  /\ prevoutStake[Genesis] = NoStake     \* it is a proof-of-work block
  /\ nStakeTime \in [Block -> Nat]
  /\ Refused \subseteq Block \ {Genesis}

VARIABLES
  mapOrphanBlocks,        \* blocks kept until their parent is known
  setStakeSeen,           \* stakes of the blocks in the index
  setStakeSeenOrphan,     \* stakes of orphans
  hashSyncCheckpoint,     \* in memory and on disk
  hashPendingCheckpoint,  \* a signed checkpoint for a block not yet accepted
  hashInvalidCheckpoint,  \* the last conflicting checkpoint, for GetWarnings
  pblock,                 \* the block AcceptBlock is working on
  vWorkQueue,             \* ProcessBlock's queue of blocks with orphans to try
  demanded                \* the checkpoint SetBestChain was called for

orphans == <<mapOrphanBlocks, setStakeSeenOrphan>>
checkpoints == <<hashSyncCheckpoint, hashPendingCheckpoint, hashInvalidCheckpoint>>
thread == <<pblock, vWorkQueue, demanded>>
nodeVars == <<vars, orphans, setStakeSeen, checkpoints, thread>>

(* The message thread is between two messages. *)
Waiting == pc = "idle" /\ pblock = NoBlock /\ vWorkQueue = <<>> /\ demanded = NoBlock

GetProofOfStake(b) == <<prevoutStake[b], nStakeTime[b]>>

(* mutant: the null stake of a proof-of-work block as well *)
AllStakes(B) == {GetProofOfStake(b) : b \in B}

Stakes(B) == {GetProofOfStake(b) : b \in {x \in B : prevoutStake[x] # NoStake}}

----------------------------------------------------------------------------
(* The last ancestor of an orphan that is not an orphan: the missing one. *)
WantedByOrphan(o) ==
  CHOOSE y \in Chain[o] \ mapOrphanBlocks :
    \A z \in Chain[o] : nHeight[z] > nHeight[y] => z \in mapOrphanBlocks

WantedByPendingSyncCheckpoint(b) ==
  \/ b = hashPendingCheckpoint
  \/ /\ hashPendingCheckpoint \in mapOrphanBlocks
     /\ b = WantedByOrphan(hashPendingCheckpoint)

HasOrphanChild(b) == \E o \in mapOrphanBlocks : pprev[o] = b

(* mutant: no exception for what is being waited for *)
RepeatsStake(b, seen) == GetProofOfStake(b) \in seen

(* Limited duplicity on stake. *)
DuplicateStake(b, seen) ==
  /\ GetProofOfStake(b) \in seen
  /\ ~ HasOrphanChild(b)
  /\ ~ WantedByPendingSyncCheckpoint(b)

(* The kernel is looked up in the transaction index, so in the main chain. *)
CheckProofOfStake(b) ==
  prevoutStake[b] # NoStake => txindex[prevoutStake[b]].pos # NoBlock

(* mutant: the walk ends at the checkpoint's height, the hash is not compared *)
IsAboveCheckpoint(b) == nHeight[b] >= nHeight[hashSyncCheckpoint]

(* Only a descendant of the sync-checkpoint passes: the walk back from the  *)
(* parent must meet it.                                                     *)
CheckSync(b) == hashSyncCheckpoint \in Chain[pprev[b]]

(* mutant: only the height is compared *)
IsNewerCheckpoint(c) == nHeight[c] > nHeight[hashSyncCheckpoint]

ValidateSyncCheckpoint(c) ==
  nHeight[c] > nHeight[hashSyncCheckpoint] /\ hashSyncCheckpoint \in Chain[c]

(* What ValidateSyncCheckpoint remembers of a checkpoint it refuses: an     *)
(* ancestor of the current one is merely old.                               *)
NoteConflict(c) ==
  hashInvalidCheckpoint' = IF c \in Chain[hashSyncCheckpoint]
                           THEN hashInvalidCheckpoint ELSE c

----------------------------------------------------------------------------
NodeInit ==
  /\ Init
  /\ mapOrphanBlocks = {}
  /\ setStakeSeen = {}
  /\ setStakeSeenOrphan = {}
  /\ hashSyncCheckpoint = Genesis
  /\ hashPendingCheckpoint = NoBlock
  /\ hashInvalidCheckpoint = NoBlock
  /\ pblock = NoBlock
  /\ vWorkQueue = <<>>
  /\ demanded = NoBlock

(* AcceptBlock up to SetBestChain.  The node runs without -nosynccheckpoints,  *)
(* which would let a block through that CheckSync refuses.                     *)
MayAccept(b) == b \notin Refused /\ CheckSync(b)

StartAccept(b) ==
  /\ MayAccept(b)
  /\ AddToBlockIndex(b)
  /\ setStakeSeen' = setStakeSeen \cup Stakes({b})
  /\ pblock' = b

(* ProcessBlock gets this far with a block that is new and has its stake    *)
(* in order; any other leaves the node as it was.                           *)
Processed(b) ==
  /\ Waiting
  /\ b \notin mapBlockIndex \cup mapOrphanBlocks
  /\ ~ DuplicateStake(b, setStakeSeen)
  /\ CheckProofOfStake(b)

(* The parent is not known: into the holding area. *)
ProcessOrphan(b) ==
  /\ Processed(b)
  /\ pprev[b] \notin mapBlockIndex
  /\ ~ DuplicateStake(b, setStakeSeenOrphan)
  /\ mapOrphanBlocks' = mapOrphanBlocks \cup {b}
  /\ setStakeSeenOrphan' = setStakeSeenOrphan \cup Stakes({b})
  /\ UNCHANGED <<vars, setStakeSeen, checkpoints, thread>>

ProcessBlock(b) ==
  /\ Processed(b)
  /\ pprev[b] \in mapBlockIndex
  /\ StartAccept(b)
  /\ UNCHANGED <<orphans, checkpoints, vWorkQueue, demanded>>

(* mutant: its stake stays *)
ForgetBlock(o) == mapOrphanBlocks' = mapOrphanBlocks \ {o} /\ UNCHANGED setStakeSeenOrphan

(* One orphan of the block at the head of the queue: AcceptBlock, or out. *)
Forget(o) ==
  /\ mapOrphanBlocks' = mapOrphanBlocks \ {o}
  /\ setStakeSeenOrphan' = setStakeSeenOrphan \ {GetProofOfStake(o)}

AcceptOrphan(o) ==
  /\ vWorkQueue # <<>> /\ pblock = NoBlock
  /\ o \in mapOrphanBlocks
  /\ pprev[o] = Head(vWorkQueue)
  /\ StartAccept(o)
  /\ UNCHANGED <<orphans, checkpoints, vWorkQueue, demanded>>

DropOrphan(o) ==
  /\ vWorkQueue # <<>> /\ pblock = NoBlock
  /\ o \in mapOrphanBlocks
  /\ pprev[o] = Head(vWorkQueue)
  /\ ~ MayAccept(o)
  /\ Forget(o)
  /\ UNCHANGED <<vars, setStakeSeen, checkpoints, thread>>

NextInQueue ==
  /\ vWorkQueue # <<>> /\ pblock = NoBlock
  /\ ~ HasOrphanChild(Head(vWorkQueue))
  /\ vWorkQueue' = Tail(vWorkQueue)
  /\ UNCHANGED <<vars, orphans, setStakeSeen, checkpoints, pblock, demanded>>

----------------------------------------------------------------------------
(* SetBestChain has returned, if it was called.  It was called for a block  *)
(* of more trust than the best one and has failed if that is still so.      *)
Returned == pc = "idle" /\ pblock # NoBlock /\ demanded = NoBlock

(* mutant: the orphans of an orphan are not tried *)
QueueFirst == IF pblock \in mapOrphanBlocks THEN vWorkQueue ELSE <<pblock>>

(* AcceptBlock returns true: the block's own orphans are next. *)
Queued == Append(vWorkQueue, pblock)

AcceptReturns(queue) ==
  /\ pblock' = NoBlock
  /\ vWorkQueue' = queue
  /\ IF pblock \in mapOrphanBlocks THEN Forget(pblock) ELSE UNCHANGED orphans

(* AddToBlockIndex failed in SetBestChain.  The block stays in the index.   *)
NotConnected ==
  /\ Returned
  /\ HasMoreTrust(pblock)
  /\ AcceptReturns(vWorkQueue)
  /\ UNCHANGED <<vars, setStakeSeen, checkpoints, demanded>>

(* mutant: not for orphans *)
PendingHereFirst == hashPendingCheckpoint \in mapBlockIndex /\ pblock \notin mapOrphanBlocks

PendingHere == hashPendingCheckpoint \in mapBlockIndex

(* AcceptPendingSyncCheckpoint, at the end of AcceptBlock: nothing to do... *)
NothingPending ==
  /\ Returned
  /\ ~ HasMoreTrust(pblock)
  /\ ~ PendingHere
  /\ AcceptReturns(Queued)
  /\ UNCHANGED <<vars, setStakeSeen, checkpoints, demanded>>

(* mutant: the pending checkpoint is not cleared *)
KeepPending(c) == hashSyncCheckpoint' = c /\ UNCHANGED hashPendingCheckpoint

WriteSyncCheckpoint(c) == hashSyncCheckpoint' = c /\ hashPendingCheckpoint' = NoBlock

(* ... or the pending checkpoint's block is in the main chain...  The code   *)
(* also drops one that ValidateSyncCheckpoint refuses; PendingIsDescendant  *)
(* says that there is none.                                                 *)
PendingAccepted ==
  /\ Returned
  /\ ~ HasMoreTrust(pblock)
  /\ PendingHere
  /\ ValidateSyncCheckpoint(hashPendingCheckpoint)
  /\ IsInMainChain(hashPendingCheckpoint)
  /\ WriteSyncCheckpoint(hashPendingCheckpoint)
  /\ AcceptReturns(Queued)
  /\ UNCHANGED <<vars, setStakeSeen, hashInvalidCheckpoint, demanded>>

(* ... or has to be brought there. *)
PendingDemanded ==
  /\ Returned
  /\ ~ HasMoreTrust(pblock)
  /\ PendingHere
  /\ ValidateSyncCheckpoint(hashPendingCheckpoint)
  /\ DemandCheckpoint(hashPendingCheckpoint)
  /\ demanded' = hashPendingCheckpoint
  /\ UNCHANGED <<orphans, setStakeSeen, checkpoints, pblock, vWorkQueue>>

----------------------------------------------------------------------------
(* CSyncCheckpoint::ProcessSyncCheckpoint for a message signed by the       *)
(* checkpoint master.                                                       *)
CheckpointPending(c) ==
  /\ Waiting
  /\ c \in Checkpointable \ mapBlockIndex
  /\ hashPendingCheckpoint' = c
  /\ UNCHANGED <<vars, orphans, setStakeSeen, hashSyncCheckpoint,
                 hashInvalidCheckpoint, thread>>

CheckpointRefused(c) ==
  /\ Waiting
  /\ c \in Checkpointable \cap mapBlockIndex
  /\ ~ ValidateSyncCheckpoint(c)
  /\ NoteConflict(c)
  /\ UNCHANGED <<vars, orphans, setStakeSeen, hashSyncCheckpoint,
                 hashPendingCheckpoint, thread>>

CheckpointAccepted(c) ==
  /\ Waiting
  /\ c \in Checkpointable \cap mapBlockIndex
  /\ ValidateSyncCheckpoint(c)
  /\ IsInMainChain(c)
  /\ WriteSyncCheckpoint(c)
  /\ UNCHANGED <<vars, orphans, setStakeSeen, hashInvalidCheckpoint, thread>>

CheckpointDemanded(c) ==
  /\ Waiting
  /\ c \in mapBlockIndex
  /\ ValidateSyncCheckpoint(c)
  /\ DemandCheckpoint(c)
  /\ demanded' = c
  /\ UNCHANGED <<orphans, setStakeSeen, checkpoints, pblock, vWorkQueue>>

(* SetBestChain has returned to the checkpoint code, which is at the end of *)
(* AcceptBlock if there is a block.                                         *)
CheckpointReturns ==
  /\ pc = "idle" /\ demanded # NoBlock
  /\ demanded' = NoBlock
  /\ IF pblock # NoBlock THEN AcceptReturns(Queued)
     ELSE UNCHANGED <<orphans, pblock, vWorkQueue>>
  /\ UNCHANGED <<vars, setStakeSeen>>

DemandMet ==
  /\ CheckpointReturns
  /\ demanded = pindexBest
  /\ WriteSyncCheckpoint(demanded)
  /\ UNCHANGED hashInvalidCheckpoint

DemandFailed ==
  /\ CheckpointReturns
  /\ demanded # pindexBest
  /\ hashInvalidCheckpoint' = demanded
  /\ UNCHANGED <<hashSyncCheckpoint, hashPendingCheckpoint>>

----------------------------------------------------------------------------
(* mutant: the stakes are not read back *)
NoStakes == {}

(* LoadBlockIndexGuts fills setStakeSeen from the index. *)
LoadedStakes == Stakes(mapBlockIndex)

NodeRestart ==
  /\ Restart
  /\ mapOrphanBlocks' = {}
  /\ setStakeSeen' = LoadedStakes
  /\ setStakeSeenOrphan' = {}
  /\ hashPendingCheckpoint' = NoBlock
  /\ hashInvalidCheckpoint' = NoBlock
  /\ pblock' = NoBlock
  /\ vWorkQueue' = <<>>
  /\ demanded' = NoBlock
  /\ UNCHANGED hashSyncCheckpoint

(* The rest of the message under way, once it has begun. *)
Proceed ==
  \/ SetBestChainStep /\ UNCHANGED <<orphans, setStakeSeen, checkpoints, thread>>
  \/ \E o \in Block : AcceptOrphan(o) \/ DropOrphan(o)
  \/ NextInQueue
  \/ NotConnected \/ NothingPending
  \/ PendingAccepted \/ PendingDemanded
  \/ DemandMet \/ DemandFailed

BlockArrives(b) == ProcessOrphan(b) \/ ProcessBlock(b)

CheckpointArrives(c) ==
  \/ CheckpointPending(c) \/ CheckpointRefused(c)
  \/ CheckpointAccepted(c) \/ CheckpointDemanded(c)

NodeNext ==
  \/ Proceed
  \/ \E b \in Block \ {Genesis} : BlockArrives(b)
  \/ \E c \in Checkpointable : CheckpointArrives(c)
  \/ NodeRestart

(* The blocks of the pending checkpoint's chain have been asked for, by     *)
(* PushGetBlocks and AskFor, and the peer that sent the checkpoint has them.*)
IsAskedFor(b) == hashPendingCheckpoint # NoBlock /\ b \in Chain[hashPendingCheckpoint]

NodeSpec ==
  /\ NodeInit /\ [][NodeNext]_nodeVars
  /\ WF_nodeVars(Proceed)
  /\ \A b \in Block \ {Genesis} : WF_nodeVars(IsAskedFor(b) /\ BlockArrives(b))
----------------------------------------------------------------------------
(***************************************************************************)
(* Correctness                                                             *)
(***************************************************************************)
NodeTypeOK ==
  /\ TypeOK
  /\ mapOrphanBlocks \subseteq Block \ {Genesis}
  /\ setStakeSeen \subseteq Tx \X Nat
  /\ setStakeSeenOrphan \subseteq Tx \X Nat
  /\ hashSyncCheckpoint \in Block
  /\ hashPendingCheckpoint \in Block \cup {NoBlock}
  /\ hashInvalidCheckpoint \in Block \cup {NoBlock}
  /\ pblock \in (Block \ {Genesis}) \cup {NoBlock}
  /\ vWorkQueue \in Seq(Block)
  /\ demanded \in Block \cup {NoBlock}

(* The sync-checkpoint is on the best chain, in memory between the calls of *)
(* SetBestChain and on disk always: no fork, however much trust it has,     *)
(* takes the node away from it, also after a crash at any point.            *)
SyncCheckpointOnBestChain ==
  ~ fGap => /\ hashSyncCheckpoint \in Chain[hashBestChain]
            /\ pc = "idle" => hashSyncCheckpoint \in Chain[pindexBest]

MovesDown == hashSyncCheckpoint \in Chain[hashSyncCheckpoint']

(* The sync-checkpoint moves only to descendants. *)
SyncCheckpointAdvances ==
  [][MovesDown]_nodeVars

(* A pending checkpoint whose block has been accepted is a descendant of    *)
(* the sync-checkpoint, whatever checkpoints were accepted before it and    *)
(* whatever else was pending: the branch of AcceptPendingSyncCheckpoint     *)
(* that gives a pending checkpoint up is never taken.                       *)
PendingIsDescendant ==
  hashPendingCheckpoint \in mapBlockIndex => ValidateSyncCheckpoint(hashPendingCheckpoint)

(* setStakeSeen is what LoadBlockIndexGuts would read back. *)
StakesSeen == setStakeSeen = Stakes(mapBlockIndex)

(* The filter on orphans' stakes never holds a stake that no orphan has.    *)
OrphanStakes == setStakeSeenOrphan \subseteq Stakes(mapOrphanBlocks)

(* ProcessBlock: "shunt it off to holding area until we get it": between    *)
(* messages no orphan's parent is in the index.  Holds when every block     *)
(* that is accepted can be connected.                                       *)
OrphansWaitForParents ==
  Waiting => \A o \in mapOrphanBlocks : pprev[o] \notin mapBlockIndex

(* AcceptBlock looks at the pending checkpoint as soon as its block is      *)
(* there: between messages a checkpoint is pending only for want of its     *)
(* block.  Holds under the same condition.                                  *)
PendingForWantOfBlock == Waiting => hashPendingCheckpoint \notin mapBlockIndex

(* ProcessBlock: "Duplicate stake allowed only when there is orphan child   *)
(* block" (or when the block leads to the pending checkpoint).              *)
StakeUsedOnce ==
  [][\A b \in mapBlockIndex' \ mapBlockIndex :
       ~ DuplicateStake(b, setStakeSeen)]_nodeVars

(* A checkpoint that is pending is reached, if its chain is valid and the   *)
(* peers deliver it, in any order, whatever else they deliver.              *)
PendingIsReached ==
  \A c \in Checkpointable :
    hashPendingCheckpoint = c ~> c \in Chain[hashSyncCheckpoint]

(* The chain below is still that of BestChain. *)
ChainSafety == Init /\ [][Next]_vars
============================================================================
