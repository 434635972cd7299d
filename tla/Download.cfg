SPECIFICATION DownloadSpec
CONSTANTS
  A = A  H = H  S = S
  g = g  h1 = h1  h2 = h2  h3 = h3
  Full = {A, H}
  Silent = {S}
  Genesis = g
  NoBlock = NoBlock
  Block <- MCBlock
  pprev <- MCpprev
  nHeight <- MCnHeight
  bnChainTrust <- MCnHeight
  Chain <- MCChain
  Tx = {}
  vtx <- Empty
  vin <- Nothing
  Generated = {}
  nCoinbaseMaturity = 1
  BadBlock = {}
  ProofOfStake = {h3}
  Initial <- MCInitial
  nGetBlocksStep = 2
  nGetBlocksMax = 2
  Neighbours <- MCNeighbours
  Announcement = {h1}
  nDownloaded = 3
  Opening = {A}
  nMaxOutbound = 2
  MaxCuts = 1
INVARIANTS DownloadTypeOK AnnouncedIsFetched OrphansLackParent
PROPERTIES Downloaded
CHECK_DEADLOCK FALSE
