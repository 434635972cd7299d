SPECIFICATION NodeSpec
CONSTANTS
  G = G
  s = s
  x2 = x2
  x3 = x3
  b2 = b2
  b3 = b3
  b4 = b4
  k = k
  sx = sx
  sb = sb
  NoBlock = NoBlock
  NoStake = NoStake
  Genesis = G
  Block <- MCBlock
  pprev <- MCpprev
  nHeight <- MCnHeight
  bnChainTrust <- MCbnChainTrust
  Chain <- MCChain
  Tx <- MCTx
  vtx <- MCvtx
  vin <- MCvin
  prevoutStake <- MCprevoutStake
  nStakeTime <- MCnStakeTime
  Generated = {sx, sb}
  nCoinbaseMaturity = 1
  BadBlock = {}
  Refused = {}
  Checkpointable = {x3, b3, b4}
  MayFail = {b2, b4}
  TxnMayFail = {b3}
  MayCrash = TRUE
INVARIANTS NodeTypeOK SyncCheckpointOnBestChain PendingIsDescendant StakesSeen OrphanStakes
PROPERTIES SyncCheckpointAdvances
