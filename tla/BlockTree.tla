----------------------------- MODULE BlockTree -----------------------------
(***************************************************************************)
(* The blocks that may ever reach a node, the tree they form through their *)
(* hashPrevBlock links, and the transactions inside them.  Everything here *)
(* is fixed by the blocks' contents, so it is constant: what a node does   *)
(* with the blocks is module BestChain, what it promises is module Ledger. *)
(*                                                                         *)
(* A transaction has one output, so an outpoint is named by its            *)
(* transaction; values and scripts are abstracted into BadBlock.           *)
(***************************************************************************)
EXTENDS Integers, Sequences

CONSTANTS
  Block,              \* blocks that pass CheckBlock and AcceptBlock's checks
  Genesis,            \* hashGenesisBlock
  NoBlock,            \* a null CBlockIndex pointer, hash or disk position
  pprev,              \* parent of every block but Genesis
  nHeight,            \* height of every block
  bnChainTrust,       \* accumulated trust of the chain that ends in a block
  Chain,              \* the set of blocks on the path from Genesis to a block
  Tx,                 \* transactions
  vtx,                \* the sequence of transactions of every block
  vin,                \* the previous transactions a transaction spends
  Generated,          \* coinbase and coinstake transactions
  nCoinbaseMaturity,  \* blocks before a generated output may be spent
  BadBlock            \* blocks whose contents break a rule of ConnectBlock
                      \* other than those on inputs: sigops, reward, scripts

----------------------------------------------------------------------------
(* A block's place in the tree follows from its parent's (AddToBlockIndex); *)
(* GetBlockTrust of an acceptable block is at least 1.                      *)
ASSUME BlockTreeAssumption ==
  /\ Genesis \in Block
  /\ NoBlock \notin Block
  /\ pprev \in [Block \ {Genesis} -> Block]
  /\ nHeight \in [Block -> Nat]
  /\ bnChainTrust \in [Block -> Nat]
  /\ Chain \in [Block -> SUBSET Block]
  /\ nHeight[Genesis] = 0
  /\ Chain[Genesis] = {Genesis}
  /\ \A b \in Block \ {Genesis} :
        /\ nHeight[b] = nHeight[pprev[b]] + 1
        /\ bnChainTrust[pprev[b]] < bnChainTrust[b]
        /\ Chain[b] = Chain[pprev[b]] \cup {b}

(* CheckBlock refuses a block that repeats a transaction.                   *)
ASSUME TransactionAssumption ==
  /\ vtx \in [Block -> Seq(Tx)]
  /\ vin \in [Tx -> SUBSET Tx]
  /\ Generated \subseteq Tx
  /\ BadBlock \subseteq Block
  /\ nCoinbaseMaturity \in Nat \ {0}
  /\ \A b \in Block : \A i, j \in DOMAIN vtx[b] :
        i # j => vtx[b][i] # vtx[b][j]

----------------------------------------------------------------------------
(* The transactions of a block, and the outputs it spends. *)
BlockTxs(b) == {vtx[b][i] : i \in DOMAIN vtx[b]}

SpentBy(b) == UNION {vin[t] : t \in BlockTxs(b)}

(* The blocks of b's chain that went through ConnectBlock: the genesis      *)
(* block becomes the best chain without it, so its coinbase is never in the *)
(* transaction index.                                                       *)
Connected(b) == Chain[b] \ {Genesis}

(* AcceptBlock makes every coinbase start with its block's height, so of    *)
(* the transactions of a chain only one that spends something can be in two *)
(* of its blocks.                                                           *)
ASSUME HeightInCoinbase ==
  \A b \in Block : \A x, y \in Connected(b) :
      x # y => \A t \in BlockTxs(x) \cap BlockTxs(y) : vin[t] # {}

(* The block after x on the way to b: what pnext points at once b is best. *)
IsNext(x, y, b) == y \in Connected(b) /\ pprev[y] = x

(***************************************************************************)
(* What the chain rules say of a block in terms of its own chain, with no  *)
(* reference to any index: every input was created before it is spent, is  *)
(* spent by nothing else, and if generated is deep enough.                 *)
(***************************************************************************)
CreatedBefore(x, i, t) ==
  \/ \E j \in 1..(i - 1) : vtx[x][j] = t
  \/ \E y \in Connected(pprev[x]) : t \in BlockTxs(y)

SpentBefore(x, i, t) ==
  \/ \E j \in 1..(i - 1) : t \in vin[vtx[x][j]]
  \/ \E y \in Connected(pprev[x]) : t \in SpentBy(y)

Mature(x, t) ==
  \A y \in Connected(x) :
      t \in BlockTxs(y) => nHeight[x] - nHeight[y] >= nCoinbaseMaturity

ValidBlock(x) ==
  /\ x \notin BadBlock
  /\ \A i \in DOMAIN vtx[x] : \A t \in vin[vtx[x][i]] :
        /\ CreatedBefore(x, i, t)
        /\ ~ SpentBefore(x, i, t)
        /\ t \in Generated => Mature(x, t)

(* Blocks every block of whose chain is valid. *)
ValidChain == {b \in Block : \A x \in Connected(b) : ValidBlock(x)}

(* The outputs that b's chain has created and not spent. *)
Unspent(b) ==
  {t \in Tx : /\ \E x \in Connected(b) : t \in BlockTxs(x)
              /\ \A x \in Connected(b) : t \notin SpentBy(x)}
============================================================================
