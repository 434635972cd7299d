SPECIFICATION MempoolSpec
CONSTANTS
  G = G
  s = s
  a2 = a2
  a3 = a3
  a4 = a4
  b2 = b2
  b3 = b3
  g = g
  k = k
  p = p
  q = q
  c = c
  d = d
  e = e
  m = m
  z = z
  NoBlock = NoBlock
  NoTx = NoTx
  Genesis = G
  Block <- MCBlock
  pprev <- MCpprev
  nHeight <- MCnHeight
  bnChainTrust <- MCbnChainTrust
  Chain <- MCChain
  Tx <- MCTx
  vtx <- MCvtx
  vin <- MCvin
  Generated = {g, z}
  nCoinbaseMaturity = 2
  BadBlock = {}
  Checkpointable = {}
  Nonstandard = {}
  MAX_ORPHAN_TRANSACTIONS = 2
INVARIANTS MempoolTypeOK PoolSpendsOnce PoolNotInChain OrphanIndex TemplateConnects
PROPERTIES OrphansRetried
