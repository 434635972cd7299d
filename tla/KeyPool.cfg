SPECIFICATION KeyPoolSpec
CONSTANTS
  User = {u1, u2}
  NewAddress = NewAddress
  Refill = Refill
  OldestTime = OldestTime
  NoCaller = NoCaller
  nTargetSize = 1
  MaxKey = 6
SYMMETRY MCSymmetry
INVARIANTS KeyPoolTypeOK KeptIsGone PoolReadable ReservedApart FileWhole
