------------------------------- MODULE Ledger -------------------------------
(***************************************************************************)
(* What the block database promises: at every instant, and so after any    *)
(* crash, it holds a valid chain together with exactly the outputs that    *)
(* chain leaves unspent, and it moves only to a chain of more trust or     *)
(* towards a block that a synchronized checkpoint demands.                 *)
(***************************************************************************)
EXTENDS BlockTree

CONSTANT Checkpointable   \* blocks a checkpoint may force onto the best chain

VARIABLES
  best,       \* the last block of the chain
  unspent,    \* the outputs that may be spent next
  broken      \* the promise has been given up (see fGap in BestChain)

ledgerVars == <<best, unspent, broken>>

LedgerInit ==
  /\ best = Genesis
  /\ unspent = {}
  /\ broken = FALSE

(* The chain of b replaces the best chain, in one step. *)
MoveTo(b) ==
  /\ b \in ValidChain
  /\ \/ bnChainTrust[b] > bnChainTrust[best]
     \/ \E c \in Checkpointable : b \in Chain[c]
  /\ best' = b
  /\ unspent' = Unspent(b)
  /\ ~ broken'

LedgerNext ==
  \/ ~ broken /\ \E b \in Block : MoveTo(b)
  \/ broken'

LedgerSpec == LedgerInit /\ [][LedgerNext]_ledgerVars
============================================================================
