SPECIFICATION Spec
CONSTANTS
  G = G
  s = s
  a2 = a2
  a3 = a3
  a4 = a4
  a5 = a5
  b2 = b2
  b3 = b3
  b4 = b4
  b5 = b5
  c3 = c3
  d5 = d5
  k = k
  ca2 = ca2
  ca3 = ca3
  ca4 = ca4
  ca5 = ca5
  cb2 = cb2
  cb3 = cb3
  cb4 = cb4
  cb5 = cb5
  cc3 = cc3
  cd5 = cd5
  p = p
  q = q
  r = r
  m = m
  NoBlock = NoBlock
  Genesis = G
  Block <- MCBlock
  pprev <- MCpprev
  nHeight <- MCnHeight
  bnChainTrust <- MCbnChainTrust
  Chain <- MCChain
  Tx <- MCTx
  vtx <- MCvtx
  vin <- MCvin
  Generated <- Coinbases
  nCoinbaseMaturity = 2
  BadBlock = {b4}
  Checkpointable = {}
  MayFail = {}
  TxnMayFail = {}
  MayCrash = FALSE
INVARIANTS MostTrusted LeftAsideIsRecorded
PROPERTIES Converges
CHECK_DEADLOCK FALSE
