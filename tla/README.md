# A formal model of the scash node

TLA+ specifications of the scash daemon (`src/src/`), the TLC configurations
that check them on small instances, and proofs of their main properties for
instances of any size, checked by TLAPS.

    tlc -workers 4 -config BestChain_crash.cfg MCBestChain.tla
    tlapm BestChainProofs.tla

`PROJECT.json` lists the runs, the lines of code every definition stands for,
the hazards with the properties aimed at them, and for every property a mutated
definition that breaks it.

## 1. The system

scash is a proof-of-work / proof-of-stake node of the Bitcoin / Peercoin
family. One process runs a handful of threads: the socket thread, the message
thread, threads that open connections, miner and stake minter, the wallet
flusher, RPC. Almost all state of the chain is protected by one lock,
`cs_main`, taken by the message thread for the whole of a message; the network
has `cs_vNodes`, a wallet `cs_wallet`, the pool `mempool.cs`.

| Component | State | Operations | Talks to |
|---|---|---|---|
| Block tree and best chain (`main.cpp`, `db.cpp`) | `mapBlockIndex`, `pnext`, `pindexBest`; in blkindex.dat: block records with `hashNext`, `hashBestChain`, one `CTxIndex` a transaction, `bnBestInvalidTrust` | `AddToBlockIndex`, `SetBestChain`, `Reorganize`, `ConnectBlock`, `DisconnectBlock`, `LoadBlockIndex` | takes blocks from acceptance and demands from checkpoints; tells pool and wallets |
| Block acceptance (`main.cpp`, `kernel.cpp`) | `mapOrphanBlocks`, `setStakeSeen`, `setStakeSeenOrphan` | `ProcessBlock`, `AcceptBlock`, the loop over orphans | calls best chain and checkpoints |
| Synchronized checkpoints (`checkpoints.cpp`) | `hashSyncCheckpoint` (also on disk), `hashPendingCheckpoint`, `hashInvalidCheckpoint` | message `checkpoint`, `AcceptPendingSyncCheckpoint`, `CheckSync` | may force the best chain elsewhere |
| Pool, orphan transactions, template (`main.cpp`) | `mapTx`, `mapNextTx`, `mapOrphanTransactions`, `...ByPrev`, the block being built | message `tx`, `accept`, `remove`, resurrection, `CreateNewBlock` | follows the best chain; feeds the miner |
| Pure rules (`main.cpp`, `kernel.cpp`) | none | `GetNextTargetRequired`, rewards, trust, stake modifier and kernel | called by acceptance |
| Peer protocol (`main.cpp`, `net.cpp`) | known inventory, `mapAskFor`, `mapAlreadyAskedFor`, misbehaviour | `inv`, `getdata`, `getblocks`, `AskFor`, `Misbehaving` | delivers blocks and transactions |
| Connections (`net.cpp`) | `vNodes`, `vNodesDisconnected`, reference counts, outbound slots | connect, accept, disconnect, delete | peers, address manager |
| Address manager, alerts | tables of addresses; `mapAlerts` | add, good, evict; cancel, expire | connections, peers |
| Wallet (`wallet.cpp`, `walletdb.cpp`, `keystore.cpp`) | `mapWallet` with spent flags, key pool, (encrypted) keys | `AddToWallet`, `CommitTransaction`, key pool, `EncryptWallet` | told of every block connected and disconnected |
| Database environment (`db.cpp`) | use counts of files, open transactions | flush, close, rewrite | wallet and index |

RPC, block explorer, user interface, scripts and cryptography, hash functions,
start-up and the debug locks are listed in `PROJECT.json` with the reason they
are left out: they compute or present, and hold no protocol of their own.

What is hard in this code, and so what the properties are about:

* **crash and partial failure**: `Reorganize` works in one database transaction,
  but `SetBestChain` connects postponed blocks in further ones, and memory
  follows disk; a read, a write or a check may fail at any block;
* **order of arrival**: blocks, their descendants and the checkpoints that name
  them come in any order; so do transactions and those that spend them;
* **abandoned branches**: what was spent, indexed, confirmed or linked on one
  branch must be undone, exactly, when another one wins;
* **threads without a common lock**: nodes are passed between four threads and
  kept in being by counts that are updated without a lock; grants of a semaphore
  move from a thread to a node; a wallet can be locked in the middle of a refill;
* **peers that do not answer**: a request goes to one peer at a time, an
  announcement is made once, a connection can break with both under way;
* **state read before and used after**: the template is built on one tip and
  handed in on another, a stake filter is checked on arrival and used later.

For each component, the correctness we ask of it is:

* best chain: disk is at all times a valid chain with exactly its unspent
  outputs; it moves only to more trust or to a checkpoint; links lead along it;
* acceptance: nothing is forgotten, nothing refused for good, whatever the
  order; the filters match what they filter;
* checkpoints: the chain never leaves the checkpoint, which never goes back;
* pool: in step with its own index and with the chain; what is collected from it
  into a block connects (the coinstake of a minted block need not, section 5);
* key pool and encryption: no key is handed out twice, no record is lost; the
  file opens with one passphrase as a whole, wherever encryption was cut off;
* connections: no node used after deletion, none kept for nothing; no slot lost
  or made except where a grant's move and its release race (section 5); a
  demanded reconnection reaches every connection;
* peer protocol: what a peer has announced is fetched, whoever else was asked
  for it and never answered; a node that is behind catches up, unless its
  connections keep every outbound slot;
* wallet (not modelled): spent flags and balance follow the chain;
* rules (not modelled): targets and rewards as documented, at every boundary.

Most of the repository's lines are not the node: optimised third-party hash
code (a single table of `hamsi_helper.c` is twice the size of the files
modelled here, and it is there twice), a copy of the fmt library, block-parsing
tools, the Qt interface. They have no state that a protocol depends on. The
mapped lines are those of `main.cpp`, `net.cpp`, `wallet.cpp`, `db.cpp`,
`checkpoints.cpp`, `keystore.cpp` and their headers.

## 2. Modules

    BlockTree            the blocks, their tree, the rules on a chain (constant)
      Ledger             what the block database promises (abstract)
        Mempool          pool, orphans, template over a moving ledger
      BestChain          how it is kept; INSTANCE Ledger
        BlockAcceptance  ProcessBlock and checkpoints, composed with BestChain
      Download           how blocks are announced, asked for and sent
    Connections          nodes, threads, slots, forced reconnection
    KeyPool              the key pool, the wallet file, encryption
    MCBestChain, MCBlockAcceptance, MCMempool,
    MCConnections, MCKeyPool, MCDownload                 instances for TLC
    BlockTreeTheorems, LedgerTheorems, BestChainProofs,
    AcceptanceProofs, MempoolProofs, DownloadProofs,
    ConnectionsProofs, KeyPoolProofs                     theorems

### BlockTree
The blocks that may ever reach the node, as constants: parent, height, trust,
the set of blocks on the path from Genesis, the sequence of transactions, what
each transaction spends. A transaction has one output, so an outpoint is named
by its transaction. Amounts, scripts, signatures and limits are one constant,
`BadBlock`. `ValidChain` and `Unspent` say what the rules mean in terms of a
chain alone, with no index: that is what the node is compared with.
`HeightInCoinbase` is the rule that lets BIP30 and the index work: coinbases
differ because they start with their height.

### Ledger
The abstract specification: `best`, `unspent`, and the one step `MoveTo`. A flag
`broken` gives up the promise after the defect described in section 5.

### BestChain
The variables are named after the code's: memory (`mapBlockIndex`, `pnext`,
`pindexBest`), disk (`hashNext`, `hashBestChain`, `txindex`), the open database
transaction (`txnNext`, `txnIndex`), and where the thread is.

| Action | Code |
|---|---|
| `AddToBlockIndex` | the end of `AcceptBlock`, `AddToBlockIndex` up to `SetBestChain` |
| `DemandCheckpoint` | the calls of `SetBestChain` in checkpoints.cpp |
| `ExtendBestChain`, `ExtendFails` | `SetBestChain`'s first case, `SetBestChainInner` |
| `StartReorganize` | the choice of `pindexIntermediate` and of the postponed blocks |
| `Disconnect`, `Connect`, `ReorganizeFails`, `CommitReorganize` | the two loops of `Reorganize`, its error returns, its commit and relinking |
| `ConnectPostponed`, `PostponedFails`, `NewBestBlock` | the rest of `SetBestChain` |
| `TransactionFails` | the database transaction of the call does not begin or commit: the returns that do not call `InvalidChainFound` |
| `Restart` | death of the process at any point, `LoadBlockIndex` |

A step is a stretch of code between two points where a crash leaves different
things behind. `ConnectBlock` and `DisconnectBlock` are operators on a
transaction index that give success and the new records, in the order in which
the code works through a block.

### BlockAcceptance
EXTENDS BestChain with the message thread: `ProcessOrphan`, `ProcessBlock`,
`AcceptOrphan`, `DropOrphan`, `NextInQueue` are ProcessBlock and its loop over
orphans; `Checkpoint...`, `Pending...` and `Demand...` are the handlers of
checkpoints.cpp, including the call of `AcceptPendingSyncCheckpoint` at the end
of `AcceptBlock`. While `SetBestChain` runs, only BestChain's steps are enabled
(`cs_main` is held). A restart forgets what is in memory only.

### Mempool
EXTENDS Ledger: the chain below moves in one step, as BestChain is proved to
make it appear. `AcceptTx`, `AcceptOrphanTx`, `RefuseOrphanTx`, `NextParent` and
`EndOfQueue` are the `tx` message and its loop over `vWorkQueue` (`work` is the
loop's index), `AddOrphanTx` its other branch. `NewBestChain` is what
`Reorganize` and `SetBestChainInner` do to the pool, resurrection first.
`ReadTarget`, `CreateCoinStake`, `StartCollecting`, `Collect`, `BlockReady`,
`BlockDone` are `CreateNewBlock` and `CheckWork`; the pool and the chain go on
moving between them wherever the code holds no lock. `CreateNewBlock` reads the
tip twice, and between the two it chooses, without `cs_main`, the coins that a
proof-of-stake block stakes: its coinstake is in the block before the lock is
taken, and the collection, which remembers only what it takes itself, never
looks at it. Which
transactions the priority queue prefers, and which fees or sizes leave one out,
is left open: every outcome is a behaviour.

### Connections
Four threads over the objects of class CNode. What is done under `cs_vNodes` is
one step; a thread that works on its copy of the list, or on the pointer that
`ConnectNode` gave it, does so in steps of its own.

| Action | Code |
|---|---|
| `WaitForSlot`, `OpenNetworkConnection` | the openers' loops up to `ConnectNode`: a grant of `semOutbound`, the choice of an address |
| `FindNode`, `AddRefUnlocked`, `ConnectNode`, `ConnectFails` | `ConnectNode`: an existing node, whose count is raised without the lock, or a new one |
| `TestGrant`, `ReleaseOld`, `SetGrant` | `CSemaphoreGrant::MoveTo`, which holds no lock: the node's grant is looked at, given back, overwritten |
| `SetNetworkNode`, `EndOfBurst` | the rest of `OpenNetworkConnection` and the end of the grant's scope |
| `DisconnectNodes`, `ReleaseGrants` | the disconnection in `ThreadSocketHandler2`: the nodes leave the list and their grants are looked at; what was seen is given back |
| `Accept`, `GoOn`, `StartServicing`, `EndServicing`, `ReturnToReconnect` | the rest of `ThreadSocketHandler2` and the loop around it |
| `StartHandling`, `EndHandling` | `ThreadMessageHandler2` |
| `Disconnect`, `HoldEnds`, `DemandReconnect` | `CloseSocketDisconnect` by either worker, the end of `nReleaseTime`, a stuck download |

`AddRefUnlocked` loses an update where two threads change the count at once:
the count rises by 0, 1 or 2 and the other thread's decrement is in it or not.
The variables `overdue`, `overcounted` and `raced` are history for the
properties. `raced` records that an opener's `MoveTo` met the socket thread's
`Release` on one node's grant so that a slot is posted twice, is written over
another one, or goes to a node that has left the list for good. New objects are
taken in a fixed order, for they are all alike.

### KeyPool
`cs_wallet` is held over a whole operation, and a step is what one write to the
file does, so that `Restart` can cut an operation anywhere. `Begin`, `WritePool`,
`ReadyToTake`, `NothingToTake` are `TopUpKeyPool` and
`ReserveKeyFromKeyPool`; `ReserveKey`, `KeepKey`, `ReturnKey` a CReserveKey;
`GetKeyFromPool` and `GetOldestKeyPoolTime` the callers of wallet and RPC;
`EncryptKeys`, `TxnCommit`, `ErasePool`, `ClearPool`, `EncryptionDone` are
`EncryptWallet` and the `NewKeyPool` at its end. `Lock` and `Unlock` come
between any two steps: `Lock` takes only the key store's lock, and so
`GenerateFails` in the middle of a refill.

### Download
Nodes that run this code, and silent peers that announce and do not answer,
over connections that deliver in order or break. `Version`, `Inv`, `GetData`,
`GetBlocksHandler`, `AcceptedBlock`, `OrphanBlock`, `KnownBlock` are the branches
of `ProcessMessage` (with `ProcessBlock`), `SendMessages` the function of that
name. A node keeps of each peer what CNode keeps: `setInventoryKnown`,
`vInventoryToSend`, `mapAskFor`, `hashContinue`, the last getblocks, the growing
limit `nInvCountLoaedLast`. `later` holds what was asked for within the last 10
seconds (`AskAgain` is their end); of a request repeated it is open whether they
are over. `NetworkStuck`, `WakeUp` and `Reconnect` are the watch in
`ThreadOpenConnections2`, its sleep, and the socket thread's answer. `slots` are
the connections that hold a grant of `semOutbound`: the thread waits for one
more (`FreeSlot`) before it looks whether the download is stuck and before it
opens the next burst, whose first connection takes the slot. Stuck means 20
seconds since the last accepted block, which may come while blocks are under way
as well as when none are. Blocks are valid. Trees and trust are BlockTree's; the walks along `pprev` and `pnext` are
written with the set `Chain` of the blocks below a block: the last block in
common with a locator, the orphan root and the last proof of work are each the
`Highest` of a part of a chain, and `Path` lists one from the bottom.

## 3. What the runs check

| Run | States | Question |
|---|---|---|
| `BestChain_forks` | 478 | Without crashes and checkpoints: does every call end on the most trusted valid chain (`MostTrusted`), are chains left aside recorded for `GetWarnings` (`LeftAsideIsRecorded`), and does every valid block get overtaken or become best (`Converges`)? |
| `BestChain_crash` | 53 323 | With a crash at every step, failing connections and demands: are index, chain, links and memory right (`DiskIndexIsReplay`, `DiskChainValid`, `DiskChainLinked`, `MainChainLinked`, `BestIsOnDisk`), and is the whole a `Ledger` (`ImplementsLedger`)? |
| `BestChain_gap` | - | Violation, section 5 |
| `Acceptance_crash` | 46 399 | Checkpoints on two branches, failures, crashes: `SyncCheckpointOnBestChain`, `SyncCheckpointAdvances`, `PendingIsDescendant`; the filters `StakesSeen`, `OrphanStakes` |
| `Acceptance_order` | 761 | Any order of arrival, nothing fails: no orphan and no pending checkpoint is forgotten (`OrphansWaitForParents`, `PendingForWantOfBlock`), a pending checkpoint is reached (`PendingIsReached`) |
| `Acceptance_orphans`, `Acceptance_stake` | - | Violations, section 5 |
| `Mempool_moves` | 50 066 | Conflicts, chains of orphans, two branches that confirm some, a minter: `PoolSpendsOnce`, `PoolNotInChain`, `OrphanIndex`, `OrphansRetried`, `TemplateConnects` |
| `Mempool_missing` | - | Violation, section 5 |
| `Connections` | 565 059 | All four threads, one burst thread and one for added nodes: `NodesInUseExist`, `SlotsConserved`, `ReconnectReachesAll`, and with fairness `ReconnectEnds`, `Reclaimed` |
| `KeyPool` | 730 512 | Two reserved keys, an address, a refill, encryption, locks, a crash anywhere: `KeptIsGone`, `PoolReadable`, `ReservedApart`, `FileWhole` |
| `Download` | 108 580 | A node with the first block, one with the chain, a peer that never answers, a broken connection, a slow download: `AnnouncedIsFetched`, `OrphansLackParent`, and with fairness `Downloaded` |

Bounds. Blocks, transactions, objects and keys are finite sets, and every state
space is explored completely; the only counters capped are the keys generated
(`MaxKey`) and the connections that break by themselves or are dropped while
blocks are under way (`MaxCuts`). The sets
are chosen so that what is hard happens:

* MCBestChain: two branches of four blocks that overtake each other, so that a
  reorganization has blocks to disconnect, to connect and to postpone; an
  output spent on both branches in different blocks; the same transactions in
  two branches and twice in one; a block that spends an output twice; one that
  spends a coinbase one block too early (maturity is 2 instead of 40: the depth
  compared matters, not its size).
* MCBlockAcceptance: two branches that stake the same output, one with more
  trust, the other with checkpoints: the duplicate limit, its exceptions, a
  checkpoint against trust, orphans of orphans.
* MCMempool: two transactions that spend the same output, one of them confirmed
  on either branch, one confirmed on both, a chain of dependants, one with two
  missing inputs, a coinbase that may be too young, a coin that may be staked; two orphans at most, so the limit is hit.
* MCConnections: two nodes are made in all, over two addresses, with one slot and
  one inbound connection: a node is found a second time, found while it is
  disconnected, disconnected in a burst whose second connection has no grant;
  the socket thread copies, disconnects and deletes while each other thread
  stands anywhere. No bound on time is needed: a hold that ends is an action.
* MCKeyPool: a target of one key, so that two reserved keys and one refill drain
  the pool; six keys, enough for a pool before and one after encryption.
* MCDownload: batches of two blocks against a chain of three with a proof of
  stake at the tip: the limit is hit, and the block that is sent at the end of a
  batch is not the tip. A block asked of the silent peer less than 10 seconds
  ago is asked for after the one above it, which comes as an orphan. The silent
  peer announces a block of the chain, so it is asked first or second; it is also the peer that
  may be connected first and use up the one getblocks. The node with the chain
  only accepts, as one started with `-connect` does; with both opening there are
  twice the states and the same results. Two slots, so that two
  connections can hold all of them or, opened in one burst, leave one. One break
  besides the reconnections of a stuck download: at any moment, of either
  connection; or one reconnection in the middle of a download. The limit of a
  batch does not grow in this instance. There is one silent peer: after a
  reconnection four peers are asked (`nAskedForBlocks = -3`), so that of four or
  more silent ones the first four may, by the order of the addresses, use them up
  every time; `Downloaded` is not claimed for so many.

`CHECK_DEADLOCK FALSE` is set where the node really may be left with nothing to
do: all blocks have arrived and there is no crash.

Fairness. `WF_vars(SetBestChainStep)` and `WF_nodeVars(Proceed)`: the thread in
these functions holds `cs_main`, waits for nothing and its loops are bounded, so
it goes on as long as the process lives. For `PendingIsReached` also
`WF(IsAskedFor(b) /\ BlockArrives(b))`: the blocks of a pending checkpoint's
chain, which the node asks for (`AskForPendingSyncCheckpoint`, `PushGetBlocks`),
come. That is an assumption on the peers, not on the code. Nothing else is
fair: no block need ever arrive. Mempool and KeyPool have no liveness and no
fairness.

In Connections the passes of the socket thread and of the message thread go on:
both are loops that wait for nothing but `cs_vNodes`, which is held briefly. A
thread that has a node from `ConnectNode` goes on through `MoveTo`, one step
after the other, to the end of `OpenNetworkConnection`, which waits for
nothing. `HoldEnds` is time. No connection need be opened, accepted or dropped. `HoldEnds` also waits until no
opener holds the node: the hold is 15 minutes and those steps take microseconds;
this is the one place where the model relies on speed, and so does the code.

In Download fair are: the thread that opens connections (of a node that is not
told where to connect, `Opening`), while it gets a slot; its watch on a download
where nothing is under way, which needs that slot too, and the end of its sleep; the socket thread's closing of what a reconnection
demands; the message thread's handling and sending, with the 10 seconds of a
repeated request. Connecting is strongly fair for each peer, for the thread takes
addresses at random at every round. A round needs a free slot, and nothing in the
code makes a peer give one back: so `Downloaded` has the premise that the node
finds a free slot again and again. Without it the property is false, as TLC
shows: peers that hold every slot and do not answer keep the node where it is.
With it the silent ones, if few, cannot keep a node from the blocks. That a peer which
runs this code exists and can be connected to is an assumption on the network.
Nobody need announce anything, break a connection or be taken for stuck while
blocks are under way.

## 4. What is proved

For every tree of blocks, every set of transactions, every choice of bad blocks,
checkpointable blocks and failures, and any number of crashes, from the named
assumptions of BlockTree, BestChain, BlockAcceptance, Mempool and Download, which TLC
evaluates in the runs.

**The tree** (BlockTreeTheorems). Induction along the tree from the
well-foundedness of heights: chains are closed, ordered, rise in height and
trust, have one block per height, exactly one next block towards a descendant;
in a valid chain what is spent was created, and has one spender.

**ConnectBlock and DisconnectBlock** (LedgerTheorems). If the index is the
replay of the parent's chain, then ConnectBlock succeeds if and only if the block
obeys the rules (`ConnectValid`, `ConnectSucceeds`), and its result is the replay
of the longer chain; DisconnectBlock gives back exactly the replay of the parent.
The delicate point is a transaction that occurs on the chain twice, which BIP30's
check and the height in coinbases exclude.

**BestChain** (BestChainProofs). None of the properties is
inductive alone. The inductive invariant adds what holds in the middle of a
call: while `Reorganize` works, `txnIndex` and `txnNext` are the replay of, and
lead to, `cursor`, which lies on the old chain until the fork and on the new one
after it; disk and memory stay at `pindexBest`; while postponed blocks are
connected all of them are at `cursor`, which lies on `pindexNew`'s chain.
From it: `TypeCorrect`, `IndexIsReplay`, `ChainOnDiskValid`,
`ChainOnDiskLinked`, `PnextIsBestChain`, `MemoryAgreesWithDisk`, and
`DatabaseIsLedger`: every step maps to one of the Ledger or to none. The two
commits, of a reorganization and of an attached block, are the Ledger's moves.

Which chain wins is proved under hypotheses, because the code only promises it
under them. `LeftAside`: without crashes and checkpoints, as long as database
transactions begin and commit, every more trusted chain that was given up is
covered by `bnBestInvalidTrust`, which is what `GetWarnings` looks at.
`BestIsMostTrusted`: if moreover no read fails, no valid chain of more trust is
ever left aside. Its
invariant `MostInv` says that in the middle of a call the block being attached is
the only valid one above the best. Since ConnectBlock refuses no valid block, the
reorganization can then only fail for a bad block; and an intermediate block with
more trust that is not the new block was tried before and refused, so that
`Reorganize` only ever commits for the new block itself and the loop over
postponed blocks has nothing to do. `NoGap` follows: the defect of section 5 needs a crash, a failure of
the database or a checkpoint first.

**The node** (AcceptanceProofs). `NodeRefinesChain`: the handlers call BestChain
only as it allows, so all of the above holds of the whole node.
`CheckpointHolds` is the deepest result: that the best chain never leaves the
sync-checkpoint, with any trust against it and a crash anywhere. Its invariant
`HeldInv` says that the checkpoint is on the chain on disk and on every chain
`SetBestChain` is at or heading for: the target, the intermediate block, the
chain built so far. The point is the intermediate block: the first one with more
trust than the best chain lies above every block the two chains share, so above
the checkpoint (`IntermediateAbove`). `CheckpointAdvances`
and `PendingNeverConflicts` (the branch of `AcceptPendingSyncCheckpoint` that
gives a pending checkpoint up is dead code) have invariants of their own.
`StakesSeenInIndex` and `OrphanStakesCurrent` say that the two filters match what
they filter after every step, so that a restart changes nothing of which blocks
are refused and no block is refused for an orphan that is gone; they need that
Genesis is a proof-of-work block. `OrphansAttended` and `PendingAttended`: if
every block that `AcceptBlock` lets through is valid and the disk works, no
orphan stays in the holding area once its parent is in the index and no
checkpoint stays pending once its block is, crashes and checkpoints included.
`FlowInv` says where the node is in between: each orphan whose parent has come in
has that parent in ProcessBlock's queue or in the block at hand. Without the
hypothesis both are false, which `Acceptance_orphans` shows.

**The pool** (MempoolProofs). The chain below moves as the Ledger does, by
definition; that BestChain does so is its theorem. `PoolIndexed` and `PoolUnconfirmed` rest on: two transactions of one valid chain
never spend the same output, so what `Reorganize` resurrects never conflicts
within itself, and a transaction that both branches hold is in the same block of
both. `OrphansIndexed`; `OrphansAreRetried`, with an invariant on what the loop
over `vWorkQueue` still owes an orphan; `MinedBlockConnects`: the checks of
`CreateNewBlock` suffice for what is collected to connect although the pool may
hold double spends of the chain and transactions with missing inputs; and for
the whole of a proof-of-stake block under `StakeHolds`: the chain has not moved
since the coins were chosen, and nothing collected spends them. `StakeInv` says
that until then the staked coins stay unspent and mature (`StakeFirst`: the
coinstake connects before the rest, and takes nothing from it).
`PoolTypeCorrect`: types, and the limit on orphans.

**Connections** (ConnectionsProofs), for any number of nodes and opening
threads. `NodesInUseSafe` needs the reference counts explained: `Counted` says
that a node's count is at least the references the workers' copies and the list
hold, however many updates of it are lost to an opener, and `Kept` that a node
an opener points to is in the list or held by its 15 minutes. `SlotsSafe`:
as long as no move of a grant has met its release (`~ raced`), the slots of
threads, of connected nodes, of nodes about to give theirs back and of the
semaphore add up. `Orderly` is what the steps of `MoveTo` and of the
disconnection may rely on until then: an opener that has seen a grant is the only
one to give it back, and gives its own to a node that has none. `ReconnectSafe` rests on `ReconnectInv`: the
nodes connected at the time of the demand can remain only until the socket
thread has passed `DisconnectNodes` once more, and the flag falls after that.
`ConnectionsTypeCorrect` includes the limit on inbound connections.

**The key pool** (KeyPoolProofs), for any target, any number of users and keys.
The invariant has five parts: `Bounds` (numbers and keys in use are those
generated), `Stages` (where an operation stands, and whether the wallet is
encrypted),
`OnePlace` (a key is in one record at most and in none once kept), `FileInv` and
`ReservedInv`. From `OnePlace` follows `KeptSafe`; from `FileInv`, which says
what every cut between the steps of `EncryptWallet` leaves, `FileSafe`; from
`ReservedInv`, `PoolReadableSafe` and `ReservedSafe`: in a wallet that has a
pool and is not encrypted, every reserved number lies below one in the pool, so
that it is not given again (the one key above the target sees to that).

**The download** (DownloadProofs), for any number of nodes and of silent peers,
any tree, any limits of a batch and any breaks. `NoAnnouncementIsLost` relates
both ends of a connection and what is between them. Its invariant `FetchInv` is
stronger than the property in one point: a block announced and not yet had must
be *indexed by the one who announced it*. Otherwise a getdata in flight would
not count, for the other end answers only with what it has. That in turn needs
`LinkInv`: what a node queues, announces or sends it has (`Honest`), the same
over all connections, and an end that is not connected is as new. The
delicate cases are `Inv`, where a block asked of somebody else within the last 10
seconds goes to `later`, `SendMessages`, which empties `mapAskFor` of what has
come in since as well as of what it asks for, and a break, after which both ends
forget together. `TreeInv` says that the index is closed under parents and
that an orphan's parent is not in it; `OrphansWait` is the second half, and
rests on the first: the orphans above a new block are those whose chain is
indexed or held down to it (`WithOrphansCloses`). The lemmas on `Pick`, `Min`
and `Highest` that all this needs are inductions over numbers done with the
library's theorem on well-founded sets, for its induction rules take operators.

Model-checked only: the liveness properties (`Converges`, `PendingIsReached`,
`ReconnectEnds`, `Reclaimed`, `Downloaded`), which the prover cannot express.
Every invariant and every action property of the runs that hold is proved.

## 5. Where code and comments disagree

* `BestChain_gap`: a postponed block fails to connect after `Reorganize` has
  committed, and `SetBestChain` nevertheless makes the block above it the best
  one. Memory and disk part: `pnext` no longer leads to `pindexBest`, against
  main.h:1203-1205. `fGap` records it, and the other properties are stated
  `~ fGap =>`.
* `Acceptance_orphans`: a block that enters the index but does not connect
  leaves its orphans in `mapOrphanBlocks`, never to be tried again.
* `Acceptance_stake`: an orphan is accepted past the duplicate-stake limit.
* `Mempool_missing`: "This should never happen" in `CreateNewBlock` happens
  after a reorganization that resurrects a child and not its parent.

Met while modelling, and kept in the models as the code has it, without a run of
their own:

* `NewKeyPool`'s comment says that it marks old pool keys as used; a key that is
  reserved at that moment is not in `setKeyPool` and is not marked. Its number is
  given again, and `KeepKey` or `ReturnKey` then acts on another key's record.
  The same can happen when a locked, encrypted wallet drains its pool, or with
  `-keypool=0`. `renumbered` records it; `PoolReadable` and `ReservedApart` are
  stated up to it, and say that nothing else leads there.
* "Remove key from key pool" in `CheckWork` keeps a CReserveKey that never
  reserved a key; the one that `CreateNewBlock` used returns its key.
* A node that `ConnectNode` finds a second time, or that is disconnected before
  `fNetworkNode` is set, keeps a reference that nobody releases; a forced
  reconnection forgets the pool of disconnected nodes altogether. `Reclaimed`
  names both exceptions (`overcounted`, `Leaked`). All but the first connection of
  a burst hold no slot.
* `MoveTo` (sync.h:186-192) runs at net.cpp:1708 without a lock, while the socket
  thread may release the same grant (net.cpp:808). Both can find `fHaveGrant` set
  and post the slot twice; a second `MoveTo` can write over a slot just given; and
  a slot can go to a node that is already disconnected. If that node is the one
  whose reference nobody releases, it is never deleted and the slot is lost for
  good. `raced` records all three, and `SlotsConserved` is stated up to it: no
  other order of steps loses or makes a slot. TLC finds the sum wrong when one of
  the first two is not counted as a race, and a slot outside the nodes connected
  when the last is not (two openers that both write need a third in the instance,
  so that this part of `raced` is there for the proof). `MoveTo` also sets `sem`
  to NULL when it passes on an empty grant; a release that has passed its test
  would then post to nothing. The model has no such outcome: it says what becomes
  of the slots, not of the process.
* Peers that hold every outbound slot and do not answer keep
  `ThreadOpenConnections2` waiting at net.cpp:1482, so that the watch on a stuck
  download (1487) never runs. `Downloaded` has the free slot as its premise.
* `CreateNewBlock` chooses the coins it stakes (main.cpp:4139) before it takes
  `cs_main` (4159), and `mapTestPool` never sees the coinstake. If the chain moves
  in between, or a spend of those coins comes into the pool and is collected, a
  proof-of-stake block that is not stale does not connect. `TemplateConnects`
  says that there is no third way.
* When its database transaction does not begin or commit, `SetBestChain` returns
  without `InvalidChainFound`, so that `GetWarnings` does not know of the chain
  left aside: `LeftAsideIsRecorded` is checked, and proved, for a database that
  begins and commits every one.
* At the end of a batch a node announces its last proof-of-work block. If
  proof-of-stake blocks lie above it and the peer is up to that point, they are
  fetched only with the next announcement; so `Downloaded` claims the height
  above which a node is no longer in its initial download, not equal tips.

Some behaviours are by design and are modelled as they are: with checkpoints or
after a crash the node may know a more trusted chain it has not connected, so
`MostTrusted` is checked without them.

## 6. What is abstracted or left out

* Failures of writes outside `SetBestChain`: the checkpoint record and the block
  files are written or the process dies.
* A crash keeps what was committed. The environment commits with
  `DB_TXN_WRITE_NOSYNC`, so a power failure can lose the last commits, in order;
  that leaves a state the node has been in before.
* `ResetSyncCheckpoint` (a new master key at start), the test net branch of the
  checkpoint code, the check of too little work in `ProcessBlock`, and
  `-nosynccheckpoints`, with which `AcceptBlock` goes on although `CheckSync`
  refuses the block (main.cpp:2185-2196): the checkpoint properties are those of
  a node without that switch.
* The proof-of-stake hash and target: `CheckProofOfStake` is the lookup of the
  kernel's transaction in the index, the rest is in `Refused`.
* In BestChain, pool and wallets: the calls that tell them; the pool has its own
  module. In Mempool: one miner, no restart (the pool is lost, which is like the
  initial pool), transactions entered by wallet or RPC (they arrive like a
  message's, except that orphans are not retried). `CreateCoinStake` takes any
  coins that the chain leaves unspent and mature: the wallet, which it asks, is
  taken to have followed the chain, but not the pool.
* The index of the seen stakes of blocks, `setStakeSeen`, keeps pairs of output
  and time as in the code; the runs give all coinstakes one time.
* In Connections: connections by name (`-connect`, one-shot seeds) and their
  missing grant, UPnP and DNS seeding, shutdown, the choice of addresses by
  address group, when a peer counts as inactive (any node may, at any pass). A
  pass over the list under `cs_vNodes` is one step, but for the grants it
  releases. Posting a slot and clearing the flag are one step, after the test.
* In KeyPool: failing writes of a record (the code throws), the reuse of the
  default key by a caller that found no key, `AddReserveKey`, which nobody calls,
  the change of a passphrase, the rewrite of the file against plain bytes in its
  slack. Ciphers do not fail. `GetOldestKeyPoolTime` reserves a key and returns
  it under two separate locks of `cs_wallet`; it is one step, for its caller holds
  `cs_wallet` over both.
* In Download: headers, addresses, transactions and checkpoints; misbehaviour
  scores; `setInventoryKnown` never forgets (in the code it keeps thousands); a
  locator names the whole chain; conditions on a peer's starting height (144 and
  2000 blocks back) are always met; every block connects, and duplicate stakes
  and checkpoints are BlockAcceptance's matter. Whether 20 seconds have passed
  since the last block is left open: when nothing is under way they pass in the
  end, otherwise they may, `MaxCuts` times. A connection without a slot is opened
  only while one with a slot lasts; in the code it belongs to a burst whose first
  connection may be gone by then. Inbound connections take no slot. The median of
  the peers' heights is a constant. All connections there were when a reconnection was demanded are
  closed, Connections' `ReconnectReachesAll`.

## 7. What is left

Not modelled, and worth having next:

1. WalletSpent: `AddToWallet`, `WalletUpdateSpent`, `DisableTransaction` and
   `CommitTransaction` against the Ledger's moves, an aborted reorganization
   included; abstract specification: a set of coins.
2. Rules: retargeting, rewards, `ComputeMaxBits`, trust, stake modifier as
   operators with fixed-width arithmetic, against reference definitions.
3. Misbehaviour scores and bans, the relay memory, the address manager's tables,
   alerts, the use counts of the database environment.

Proofs still worth having: that the pool's and the download's views of the chain
are BestChain's, step by step, as `NodeRefinesChain` is for acceptance.
