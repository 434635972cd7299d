SPECIFICATION ConnectionsSpec
CONSTANTS
  seeker = seeker
  adder = adder
  NoNode = NoNode
  NoAddr = NoAddr
  Node = {n1, n2}
  Addr = {x, y}
  AddedNode = {x}
  Opener <- MCOpener
  Seeker = seeker
  maxConnectionsBurst = 2
  nMaxOutbound = 1
  nMaxInbound = 1
INVARIANTS ConnectionsTypeOK NodesInUseExist SlotsConserved ReconnectReachesAll
PROPERTIES ReconnectEnds Reclaimed
