------------------------- MODULE BlockTreeTheorems -------------------------
(***************************************************************************)
(* What the tree of blocks is like, for any tree: the lemmas about Chain   *)
(* and about valid chains that the other proofs rest on.                   *)
(***************************************************************************)
EXTENDS BlockTree, WellFoundedInduction, TLAPS

(* A set of blocks that holds Genesis and every child of its members holds  *)
(* every block: AddToBlockIndex gives each block a parent one lower.        *)
LEMMA BlockInduction ==
  ASSUME NEW S \in SUBSET Block, Genesis \in S,
         \A b \in Block \ {Genesis} : pprev[b] \in S => b \in S
  PROVE  S = Block
<1>1. SUFFICES ASSUME Block \ S # {} PROVE FALSE
  OBVIOUS
<1> DEFINE T == {nHeight[b] : b \in Block \ S}
<1>2. T \subseteq Nat /\ T # {}
  BY <1>1, BlockTreeAssumption
<1>3. PICK h \in T : \A n \in T : ~ (<<n, h>> \in OpToRel(<, Nat))
  <2>1. IsWellFoundedOn(OpToRel(<, Nat), Nat)
    BY NatLessThanWellFounded
  <2> HIDE DEF T
  <2> QED
    BY <1>2, <2>1, WFMin
<1>4. PICK b \in Block \ S : nHeight[b] = h
  BY <1>3
<1>5. b # Genesis /\ pprev[b] \in Block \ S
  BY <1>4, BlockTreeAssumption
<1>6. nHeight[pprev[b]] \in T
  BY <1>5
<1>7. nHeight[pprev[b]] < h /\ nHeight[pprev[b]] \in Nat /\ h \in Nat
  BY <1>4, <1>5, BlockTreeAssumption
<1>8. <<nHeight[pprev[b]], h>> \in OpToRel(<, Nat)
  BY <1>7 DEF OpToRel
<1> QED
  BY <1>3, <1>6, <1>8

(* A block and Genesis are on the block's chain. *)
LEMMA ChainEnds ==
  \A b \in Block : b \in Chain[b] /\ Genesis \in Chain[b] /\ Chain[b] \subseteq Block
<1> DEFINE S == {b \in Block : Genesis \in Chain[b]}
<1>1. Genesis \in S
  BY BlockTreeAssumption
<1>2. \A b \in Block \ {Genesis} : pprev[b] \in S => b \in S
  BY BlockTreeAssumption
<1>3. S = Block
  <2> HIDE DEF S
  <2> QED BY <1>1, <1>2, BlockInduction DEF S
<1> QED
  BY <1>3, BlockTreeAssumption

(* A chain holds the chains of its blocks. *)
LEMMA ChainClosed ==
  \A b \in Block : \A x \in Chain[b] : Chain[x] \subseteq Chain[b]
<1> DEFINE S == {b \in Block : \A x \in Chain[b] : Chain[x] \subseteq Chain[b]}
<1>1. Genesis \in S
  BY BlockTreeAssumption
<1>2. \A b \in Block \ {Genesis} : pprev[b] \in S => b \in S
  BY BlockTreeAssumption
<1>3. S = Block
  <2> HIDE DEF S
  <2> QED BY <1>1, <1>2, BlockInduction DEF S
<1> QED
  BY <1>3

(* Along a chain, earlier blocks are lower and have less trust. *)
LEMMA ChainRises ==
  \A b \in Block : \A x \in Chain[b] :
     x # b => nHeight[x] < nHeight[b] /\ bnChainTrust[x] < bnChainTrust[b]
<1> DEFINE S == {b \in Block : \A x \in Chain[b] :
                    x # b => /\ nHeight[x] < nHeight[b]
                             /\ bnChainTrust[x] < bnChainTrust[b]}
<1>1. Genesis \in S
  BY BlockTreeAssumption
<1>2. ASSUME NEW b \in Block \ {Genesis}, pprev[b] \in S
      PROVE  b \in S
  <2>1. SUFFICES ASSUME NEW x \in Chain[b], x # b
                 PROVE  nHeight[x] < nHeight[b] /\ bnChainTrust[x] < bnChainTrust[b]
    OBVIOUS
  <2>2. x \in Chain[pprev[b]] /\ pprev[b] \in Block /\ x \in Block
    BY <2>1, BlockTreeAssumption
  <2>3. /\ nHeight[b] \in Nat /\ nHeight[x] \in Nat /\ nHeight[pprev[b]] \in Nat
        /\ bnChainTrust[b] \in Nat /\ bnChainTrust[x] \in Nat
        /\ bnChainTrust[pprev[b]] \in Nat
        /\ nHeight[b] = nHeight[pprev[b]] + 1
        /\ bnChainTrust[pprev[b]] < bnChainTrust[b]
    BY <2>2, BlockTreeAssumption
  <2>4. x # pprev[b] => /\ nHeight[x] < nHeight[pprev[b]]
                        /\ bnChainTrust[x] < bnChainTrust[pprev[b]]
    BY <1>2, <2>2
  <2> QED
    BY <2>3, <2>4
<1>3. S = Block
  <2> HIDE DEF S
  <2> QED BY <1>1, <1>2, BlockInduction DEF S
<1> QED
  BY <1>3

(* Two blocks of one chain at the same height are the same. *)
LEMMA OneBlockPerHeight ==
  \A b \in Block : \A x, y \in Chain[b] : nHeight[x] = nHeight[y] => x = y
<1> DEFINE S == {b \in Block : \A x, y \in Chain[b] : nHeight[x] = nHeight[y] => x = y}
<1>1. Genesis \in S
  BY BlockTreeAssumption
<1>2. ASSUME NEW b \in Block \ {Genesis}, pprev[b] \in S
      PROVE  b \in S
  <2>1. SUFFICES ASSUME NEW x \in Chain[b], NEW y \in Chain[b], nHeight[x] = nHeight[y]
                 PROVE  x = y
    OBVIOUS
  <2>2. nHeight[x] \in Nat /\ nHeight[y] \in Nat /\ nHeight[b] \in Nat
    BY BlockTreeAssumption
  <2>3. x = b \/ y = b => x = y
    BY <2>1, <2>2, ChainRises
  <2>4. x # b /\ y # b => x \in Chain[pprev[b]] /\ y \in Chain[pprev[b]]
    BY BlockTreeAssumption
  <2> QED
    BY <1>2, <2>1, <2>3, <2>4
<1>3. S = Block
  <2> HIDE DEF S
  <2> QED BY <1>1, <1>2, BlockInduction DEF S
<1> QED
  BY <1>3

(* Every block of a chain but its last has a successor in it... *)
LEMMA NextExists ==
  \A b \in Block : \A x \in Chain[b] \ {b} : \E y \in Block : IsNext(x, y, b)
<1> DEFINE S == {b \in Block : \A x \in Chain[b] \ {b} : \E y \in Block : IsNext(x, y, b)}
<1>1. Genesis \in S
  BY BlockTreeAssumption
<1>2. ASSUME NEW b \in Block \ {Genesis}, pprev[b] \in S
      PROVE  b \in S
  <2>1. SUFFICES ASSUME NEW x \in Chain[b] \ {b}
                 PROVE  \E y \in Block : IsNext(x, y, b)
    OBVIOUS
  <2>2. x \in Chain[pprev[b]] /\ Chain[b] = Chain[pprev[b]] \cup {b}
    BY BlockTreeAssumption
  <2>3. CASE x = pprev[b]
    BY <2>2, <2>3 DEF IsNext, Connected
  <2>4. CASE x # pprev[b]
    BY <1>2, <2>2, <2>4 DEF IsNext, Connected
  <2> QED
    BY <2>3, <2>4
<1>3. S = Block
  <2> HIDE DEF S
  <2> QED BY <1>1, <1>2, BlockInduction DEF S
<1> QED
  BY <1>3

(* ... and only one. *)
LEMMA NextUnique ==
  ASSUME NEW b \in Block, NEW x, NEW y, NEW z, IsNext(x, y, b), IsNext(x, z, b)
  PROVE  y = z
<1>1. /\ y \in Chain[b] /\ z \in Chain[b] /\ y # Genesis /\ z # Genesis
      /\ y \in Block /\ z \in Block /\ pprev[y] = x /\ pprev[z] = x
  BY ChainEnds DEF IsNext, Connected
<1>2. nHeight[y] = nHeight[z]
  BY <1>1, BlockTreeAssumption
<1> QED
  BY <1>1, <1>2, OneBlockPerHeight

(* The parent of a connected block is on the chain, and is not its end. *)
LEMMA ParentOnChain ==
  ASSUME NEW b \in Block, NEW y \in Connected(b)
  PROVE  /\ y \in Block \ {Genesis}
         /\ pprev[y] \in Chain[b]
         /\ pprev[y] # b
         /\ pprev[y] # y
         /\ IsNext(pprev[y], y, b)
<1>1. y \in Chain[b] /\ y \in Block /\ y # Genesis
  BY ChainEnds DEF Connected
<1>2. pprev[y] \in Block /\ pprev[y] \in Chain[y]
  BY <1>1, ChainEnds, BlockTreeAssumption
<1>3. pprev[y] \in Chain[b]
  BY <1>1, <1>2, ChainClosed
<1>4. nHeight[pprev[y]] \in Nat /\ nHeight[y] = nHeight[pprev[y]] + 1
  BY <1>1, <1>2, BlockTreeAssumption
<1>5. pprev[y] # y
  BY <1>4
<1>6. pprev[y] # b
  <2>1. nHeight[y] \in Nat /\ nHeight[b] \in Nat
    BY <1>1, BlockTreeAssumption
  <2>2. y # b => nHeight[y] < nHeight[b]
    BY <1>1, ChainRises
  <2> QED
    BY <1>4, <2>1, <2>2
<1> QED
  BY <1>1, <1>3, <1>5, <1>6 DEF IsNext

(* Connecting a block adds it to the connected blocks of its parent's chain. *)
LEMMA ConnectedGrows ==
  ASSUME NEW b \in Block \ {Genesis}
  PROVE  /\ pprev[b] \in Block
         /\ Connected(b) = Connected(pprev[b]) \cup {b}
         /\ b \notin Connected(pprev[b])
         /\ b \notin Chain[pprev[b]]
         /\ Chain[pprev[b]] = Chain[b] \ {b}
<1>1. /\ pprev[b] \in Block
      /\ Chain[b] = Chain[pprev[b]] \cup {b}
  BY BlockTreeAssumption
<1>2. nHeight[b] = nHeight[pprev[b]] + 1 /\ nHeight[pprev[b]] \in Nat /\ nHeight[b] \in Nat
  BY <1>1, BlockTreeAssumption
<1>3. b \notin Chain[pprev[b]]
  <2>1. b \in Chain[pprev[b]] => b = pprev[b] \/ nHeight[b] < nHeight[pprev[b]]
    BY <1>1, ChainRises
  <2> QED
    BY <1>2, <2>1
<1> QED
  BY <1>1, <1>3 DEF Connected

(* Of two blocks of a chain one comes before the other. *)
LEMMA ChainOrdered ==
  \A b \in Block : \A x, y \in Chain[b] : x \in Chain[y] \/ y \in Chain[x]
<1> DEFINE S == {b \in Block : \A x, y \in Chain[b] : x \in Chain[y] \/ y \in Chain[x]}
<1>1. Genesis \in S
  BY BlockTreeAssumption
<1>2. ASSUME NEW b \in Block \ {Genesis}, pprev[b] \in S PROVE b \in S
  BY <1>2, BlockTreeAssumption
<1>3. S = Block
  BY <1>1, <1>2, BlockInduction
<1> QED
  BY <1>3

----------------------------------------------------------------------------
(* What a valid chain spends, it has created. *)
LEMMA SpentWasCreated ==
  ASSUME NEW b \in ValidChain, NEW x \in Connected(b), NEW t \in SpentBy(x)
  PROVE  \E y \in Connected(b) : t \in BlockTxs(y)
<1>1. b \in Block /\ ValidBlock(x) /\ x \in Block \ {Genesis}
  BY ChainEnds DEF ValidChain, Connected
<1>2. PICK i \in DOMAIN vtx[x] : t \in vin[vtx[x][i]]
  BY DEF SpentBy, BlockTxs
<1>3. CreatedBefore(x, i, t)
  BY <1>1, <1>2 DEF ValidBlock
<1>4. CASE \E j \in 1..(i - 1) : vtx[x][j] = t
  <2>1. PICK j \in 1..(i - 1) : vtx[x][j] = t
    BY <1>4
  <2>2. vtx[x] \in Seq(Tx)
    BY <1>1, TransactionAssumption
  <2>3. j \in DOMAIN vtx[x]
    BY <1>2, <2>1, <2>2
  <2> QED
    BY <2>1, <2>3 DEF BlockTxs
<1>5. CASE \E y \in Connected(pprev[x]) : t \in BlockTxs(y)
  <2>1. pprev[x] \in Chain[b]
    BY <1>1, ParentOnChain
  <2>2. Connected(pprev[x]) \subseteq Connected(b)
    BY <1>1, <2>1, ChainClosed DEF Connected
  <2> QED
    BY <1>5, <2>2
<1> QED
  BY <1>3, <1>4, <1>5 DEF CreatedBefore

(* A prefix of a valid chain is valid. *)
LEMMA ValidPrefix ==
  ASSUME NEW b \in ValidChain, NEW x \in Chain[b]
  PROVE  x \in ValidChain
<1>1. b \in Block /\ x \in Block
  BY ChainEnds DEF ValidChain
<1>2. Connected(x) \subseteq Connected(b)
  BY <1>1, ChainClosed DEF Connected
<1> QED
  BY <1>1, <1>2 DEF ValidChain

(* A transaction of a connected block is neither created nor spent by the   *)
(* blocks before it.                                                        *)
LEMMA FreshInValidChain ==
  ASSUME NEW b \in ValidChain, b # Genesis,
         NEW t \in BlockTxs(b), NEW x \in Connected(pprev[b])
  PROVE  t \notin BlockTxs(x) /\ t \notin SpentBy(x)
<1>1. b \in Block \ {Genesis}
  BY DEF ValidChain
<1>2. /\ Connected(b) = Connected(pprev[b]) \cup {b} /\ b \notin Connected(pprev[b])
      /\ pprev[b] \in Chain[b]
  BY <1>1, ConnectedGrows, ChainEnds
<1>3. \A y \in Connected(pprev[b]) : t \notin BlockTxs(y)
  <2>1. SUFFICES ASSUME NEW y \in Connected(pprev[b]), t \in BlockTxs(y) PROVE FALSE
    OBVIOUS
  <2>2. PICK u \in vin[t] : TRUE
    BY <1>1, <1>2, <2>1, HeightInCoinbase
  <2>3. PICK i \in DOMAIN vtx[b] : vtx[b][i] = t
    BY DEF BlockTxs
  <2>4. SpentBefore(b, i, u)
    BY <2>1, <2>2 DEF SpentBefore, SpentBy
  <2>5. ValidBlock(b)
    BY <1>2 DEF ValidChain
  <2> QED
    BY <2>2, <2>3, <2>4, <2>5 DEF ValidBlock
<1>4. pprev[b] \in ValidChain
  BY <1>2, ValidPrefix
<1> QED
  BY <1>3, <1>4, SpentWasCreated

(* A valid chain spends an output once. *)
LEMMA OneSpender ==
  ASSUME NEW b \in ValidChain, NEW x \in Connected(b), NEW y \in Connected(b),
         NEW t \in BlockTxs(x), NEW u \in BlockTxs(y), NEW o, o \in vin[t], o \in vin[u]
  PROVE  x = y /\ t = u
<1>1. b \in Block /\ ValidBlock(x) /\ ValidBlock(y) /\ x \in Block /\ y \in Block
  BY ChainEnds DEF ValidChain, Connected
<1>2. PICK i \in DOMAIN vtx[x] : vtx[x][i] = t
  BY DEF BlockTxs
<1>3. PICK j \in DOMAIN vtx[y] : vtx[y][j] = u
  BY DEF BlockTxs
<1>4. ASSUME x # y, x \in Chain[y] PROVE FALSE
  <2>1. y \in Block \ {Genesis} /\ x # Genesis
    BY <1>1 DEF Connected
  <2>2. x \in Connected(pprev[y])
    BY <1>4, <2>1, ConnectedGrows DEF Connected
  <2>3. SpentBefore(y, j, o)
    BY <2>2 DEF SpentBefore, SpentBy
  <2> QED
    BY <1>1, <1>3, <2>3 DEF ValidBlock
<1>5. ASSUME x # y, y \in Chain[x] PROVE FALSE
  <2>1. x \in Block \ {Genesis} /\ y # Genesis
    BY <1>1 DEF Connected
  <2>2. y \in Connected(pprev[x])
    BY <1>5, <2>1, ConnectedGrows DEF Connected
  <2>3. SpentBefore(x, i, o)
    BY <2>2 DEF SpentBefore, SpentBy
  <2> QED
    BY <1>1, <1>2, <2>3 DEF ValidBlock
<1>6. x = y
  BY <1>1, <1>4, <1>5, ChainOrdered DEF Connected
<1>7. DOMAIN vtx[x] = 1..Len(vtx[x]) /\ Len(vtx[x]) \in Nat
  BY <1>1, TransactionAssumption
<1>8. ~ SpentBefore(x, i, o) /\ ~ SpentBefore(x, j, o)
  BY <1>1, <1>2, <1>3, <1>6 DEF ValidBlock
<1>9. i = j
  BY <1>2, <1>3, <1>6, <1>7, <1>8 DEF SpentBefore
<1> QED
  BY <1>2, <1>3, <1>6, <1>9
============================================================================
