--------------------------- MODULE KeyPoolProofs ---------------------------
(***************************************************************************)
(* For any number of users, any size of the pool and a crash anywhere: a     *)
(* key once kept is in no record again, and as long as no reserved number   *)
(* is given twice the pool is readable and no key is with two users.        *)
(***************************************************************************)
EXTENDS KeyPool, FiniteSetTheorems, WellFoundedInduction, TLAPS

----------------------------------------------------------------------------
(* Numbers *)

LEMMA SmallestIn ==
  ASSUME NEW S, S \subseteq Number, S # {}
  PROVE  /\ Smallest(S) \in S
         /\ \A m \in S : Smallest(S) <= m
<1>1. S \subseteq Nat
  BY KeyPoolAssumption DEF Number
<1>2. IsWellFoundedOn(OpToRel(<, Nat), Nat)
  BY NatLessThanWellFounded
<1>3. \E n \in S : \A m \in S : ~ (<<m, n>> \in OpToRel(<, Nat))
  BY <1>1, <1>2, WFMin
<1>4. PICK n \in S : \A m \in S : ~ (<<m, n>> \in OpToRel(<, Nat))
  BY <1>3
<1>5. \A m \in S : n <= m
  <2>1. ASSUME NEW m \in S, m < n PROVE FALSE
    <3>1. <<m, n>> \in OpToRel(<, Nat)
      BY <1>1, <2>1 DEF OpToRel
    <3> QED
      BY <1>4, <3>1
  <2> QED
    BY <1>1, <2>1
<1> QED
  BY <1>5 DEF Smallest

LEMMA LargestIn ==
  ASSUME NEW S, S \subseteq Number, S # {}
  PROVE  /\ Largest(S) \in S
         /\ \A m \in S : m <= Largest(S)
<1> DEFINE T == {MaxKey - n : n \in S}
<1>1. T \subseteq Nat /\ T # {} /\ S \subseteq Nat
  <2>1. S \subseteq Nat /\ \A n \in S : n <= MaxKey
    BY KeyPoolAssumption DEF Number
  <2>2. \A n \in S : MaxKey - n \in Nat
    BY <2>1, KeyPoolAssumption
  <2>3. T # {}
    OBVIOUS
  <2> QED
    BY <2>1, <2>2, <2>3
<1>2. IsWellFoundedOn(OpToRel(<, Nat), Nat)
  BY NatLessThanWellFounded
<1> HIDE DEF T
<1>3. \E x \in T : \A y \in T : ~ (<<y, x>> \in OpToRel(<, Nat))
  BY <1>1, <1>2, WFMin
<1>4. PICK x \in T : \A y \in T : ~ (<<y, x>> \in OpToRel(<, Nat))
  BY <1>3
<1>5. \A y \in T : x <= y
  <2>1. ASSUME NEW y \in T, y < x PROVE FALSE
    <3>1. <<y, x>> \in OpToRel(<, Nat)
      BY <1>1, <2>1 DEF OpToRel
    <3> QED
      BY <1>4, <3>1
  <2> QED
    BY <1>1, <2>1
<1>6. PICK n \in S : x = MaxKey - n
  BY <1>4 DEF T
<1>7. ASSUME NEW m \in S PROVE m <= n
  <2>1. MaxKey - m \in T
    BY DEF T
  <2>2. MaxKey - n <= MaxKey - m
    BY <1>5, <1>6, <2>1
  <2> QED
    BY <1>1, <2>2, KeyPoolAssumption
<1> QED
  BY <1>7 DEF Largest

LEMMA FiniteNumbers ==
  ASSUME NEW S, S \subseteq Number
  PROVE  IsFiniteSet(S) /\ Cardinality(S) \in Nat
<1>1. IsFiniteSet(Number)
  BY FS_Interval, KeyPoolAssumption DEF Number
<1> QED
  BY <1>1, FS_Subset, FS_CardinalityType

----------------------------------------------------------------------------
(* Types *)

(* How many keys have been generated and have had a number. *)
Numbered == IF vchNewKey = NoKey THEN nKeys ELSE nKeys - 1

(* Where the numbers and the keys in use lie: a new one is above them all.  *)
Bounds ==
  /\ vchNewKey \in {NoKey, nKeys}
  /\ \A n \in setKeyPool : n <= Numbered
  /\ \A n \in Number : HasRecord(n) => n <= Numbered /\ pool[n] <= Numbered
  /\ \A u \in User : nIndex[u] <= Numbered /\ vchPubKey[u] <= Numbered
  /\ \A k \in kept : k <= Numbered
  /\ \A u \in User : vchPubKey[u] # NoKey => nIndex[u] # NoNumber

(* What is locked or under way is encrypted. *)
Stages ==
  /\ step \in {"crypting", "take", "erasing", "filling"} => fUseCrypto
  /\ fUseCrypto = (fMasterKey \/ step = "crypting")
  /\ vchNewKey # NoKey => step \in {"topup", "filling"}

LEMMA NextNumber ==
  ASSUME KeyPoolTypeOK, Bounds, vchNewKey # NoKey
  PROVE  /\ nEnd \in Number /\ nEnd <= nKeys
         /\ nEnd \notin setKeyPool
         /\ \A n \in setKeyPool : n < nEnd
<1>1. nKeys \in Number /\ Numbered = nKeys - 1
  BY KeyPoolAssumption DEF KeyPoolTypeOK, Bounds, Numbered, Number, Key, NoKey
<1>2. CASE setKeyPool = {}
  BY <1>1, <1>2, KeyPoolAssumption DEF nEnd, Number
<1>3. CASE setKeyPool # {}
  <2>1. /\ Largest(setKeyPool) \in setKeyPool
        /\ \A m \in setKeyPool : m <= Largest(setKeyPool)
    BY <1>3, LargestIn DEF KeyPoolTypeOK
  <2>2. Largest(setKeyPool) \in Number /\ Largest(setKeyPool) <= nKeys - 1
    BY <1>1, <2>1 DEF KeyPoolTypeOK, Bounds
  <2>3. nEnd = Largest(setKeyPool) + 1
    BY <1>3 DEF nEnd
  <2>4. setKeyPool \subseteq Int
    BY DEF KeyPoolTypeOK, Number
  <2> QED
    BY <1>1, <2>1, <2>2, <2>3, <2>4, KeyPoolAssumption DEF Number
<1> QED
  BY <1>2, <1>3

LEMMA TypesInductive ==
  ASSUME KeyPoolTypeOK, Bounds, Stages, [KeyPoolNext]_keyPoolVars
  PROVE  KeyPoolTypeOK' /\ Stages'
<1> USE DEF KeyPoolTypeOK, Stages, file, crypto, reserved
<1>1. ASSUME NEW c \in Caller, Begin(c) PROVE KeyPoolTypeOK' /\ Stages'
  BY <1>1 DEF Begin
<1>2. ASSUME GenerateNewKey PROVE KeyPoolTypeOK' /\ Stages'
  <2>1. nKeys + 1 \in Key /\ nKeys + 1 \in 0 .. MaxKey
    BY <1>2, KeyPoolAssumption DEF GenerateNewKey, Key
  <2>2. form' \in [Key -> {"none", "plain", "crypted"}]
    BY <1>2, <2>1 DEF GenerateNewKey
  <2> QED
    BY <1>2, <2>1, <2>2 DEF GenerateNewKey, Wanted
<1>3. ASSUME WritePool PROVE KeyPoolTypeOK' /\ Stages'
  <2>1. nEnd \in Number
    BY <1>3, NextNumber DEF WritePool
  <2>2. renumbered' \in BOOLEAN
    BY <1>3 DEF WritePool
  <2> HIDE DEF Stages
  <2>3. KeyPoolTypeOK'
    BY <1>3, <2>1, <2>2 DEF WritePool
  <2> QED
    BY <1>3, <2>3 DEF WritePool, Stages
<1>4. ASSUME GenerateFails \/ RefillDone \/ NothingToTake PROVE KeyPoolTypeOK' /\ Stages'
  <2>1. /\ step' = "free" /\ caller' = NoCaller
        /\ UNCHANGED <<file, setKeyPool, crypto, vchNewKey, nKeys, reserved, kept, renumbered>>
    BY <1>4 DEF GenerateFails, RefillDone, NothingToTake
  <2>2. vchNewKey = NoKey /\ step # "crypting"
    BY <1>4 DEF GenerateFails, Wanted, RefillDone, NothingToTake, ReadyToTake
  <2> QED
    BY <2>1, <2>2
<1>5. ASSUME setKeyPool # {} PROVE Smallest(setKeyPool) \in Number
  BY <1>5, SmallestIn
<1>6. ASSUME NEW u \in User, ReserveKey(u) PROVE KeyPoolTypeOK' /\ Stages'
  <2>1. pool[Smallest(setKeyPool)] \in Key \cup {NoKey} /\ Smallest(setKeyPool) \in Number
    BY <1>5, <1>6 DEF ReserveKey
  <2> QED
    BY <1>6, <2>1 DEF ReserveKey, ReadyToTake
<1>7. ASSUME GetKeyFromPool PROVE KeyPoolTypeOK' /\ Stages'
  <2>1. pool[Smallest(setKeyPool)] \in Key \cup {NoKey} /\ Smallest(setKeyPool) \in Number
    BY <1>5, <1>7 DEF GetKeyFromPool
  <2> QED
    BY <1>7, <2>1 DEF GetKeyFromPool, ReadyToTake, ErasedFrom
<1>8. ASSUME GetOldestKeyPoolTime PROVE KeyPoolTypeOK' /\ Stages'
  <2>1. setKeyPool' \subseteq Number
    BY <1>8 DEF GetOldestKeyPoolTime
  <2> QED
    BY <1>8, <2>1 DEF GetOldestKeyPoolTime, ReadyToTake
<1>9. ASSUME NEW u \in User, KeepKey(u) PROVE KeyPoolTypeOK' /\ Stages'
  BY <1>9 DEF KeepKey, ErasedFrom, Dropped
<1>10. ASSUME NEW u \in User, ReturnKey(u) PROVE KeyPoolTypeOK' /\ Stages'
  BY <1>10 DEF ReturnKey, Dropped
<1>11. ASSUME EncryptKeys PROVE KeyPoolTypeOK' /\ Stages'
  BY <1>11 DEF EncryptKeys
<1>12. ASSUME TxnCommit PROVE KeyPoolTypeOK' /\ Stages'
  <2>1. form' \in [Key -> {"none", "plain", "crypted"}]
    BY <1>12 DEF TxnCommit, Encrypted
  <2> QED
    BY <1>12, <2>1 DEF TxnCommit
<1>13. ASSUME ErasePool PROVE KeyPoolTypeOK' /\ Stages'
  BY <1>13 DEF ErasePool, ErasedFrom
<1>14. ASSUME ClearPool PROVE KeyPoolTypeOK' /\ Stages'
  <2>1. step' \in {"free", "filling"} /\ vchNewKey' = NoKey /\ setKeyPool' = {}
    BY <1>14 DEF ClearPool
  <2> QED
    BY <1>14, <2>1 DEF ClearPool
<1>17. ASSUME EncryptionDone PROVE KeyPoolTypeOK' /\ Stages'
  BY <1>17 DEF EncryptionDone
<1>18. ASSUME Lock PROVE KeyPoolTypeOK' /\ Stages'
  BY <1>18 DEF Lock, Lockable
<1>19. ASSUME Unlock PROVE KeyPoolTypeOK' /\ Stages'
  BY <1>19 DEF Unlock
<1>15. ASSUME Restart PROVE KeyPoolTypeOK' /\ Stages'
  BY <1>15 DEF Restart, Loaded
<1>16. ASSUME UNCHANGED keyPoolVars PROVE KeyPoolTypeOK' /\ Stages'
  BY <1>16 DEF keyPoolVars
<1> QED
  BY <1>1, <1>2, <1>3, <1>4, <1>6, <1>7, <1>8, <1>9, <1>10, <1>11, <1>12, <1>13, <1>14, <1>15, <1>16, <1>17, <1>18, <1>19
     DEF KeyPoolNext

----------------------------------------------------------------------------
(* Keys *)

(* The steps that touch no key and no number. *)
Quiet ==
  /\ UNCHANGED <<pool, setKeyPool, vchNewKey, nKeys, nIndex, vchPubKey, kept, renumbered>>

LEMMA QuietSteps ==
  ASSUME \/ \E c \in Caller : Begin(c)
         \/ GenerateFails \/ RefillDone \/ NothingToTake
         \/ EncryptKeys \/ TxnCommit \/ EncryptionDone \/ Lock \/ Unlock
         \/ UNCHANGED keyPoolVars
  PROVE  Quiet
BY DEF Quiet, Begin, GenerateFails, RefillDone, NothingToTake, EncryptKeys, TxnCommit,
       EncryptionDone, Lock, Unlock, keyPoolVars, file, reserved

LEMMA BoundsInductive ==
  ASSUME KeyPoolTypeOK, Bounds, Stages, [KeyPoolNext]_keyPoolVars
  PROVE  Bounds'
<1> USE DEF Bounds, HasRecord
<1>0. Numbered \in Int /\ Numbered <= nKeys /\ nKeys \in Nat
  BY KeyPoolAssumption DEF KeyPoolTypeOK, Numbered
<1>1. CASE Quiet
  BY <1>1 DEF Quiet, Numbered
<1>2. ASSUME GenerateNewKey PROVE Bounds'
  <2>1. /\ UNCHANGED <<pool, setKeyPool, nIndex, vchPubKey, kept>>
        /\ vchNewKey = NoKey /\ vchNewKey' = nKeys + 1 /\ nKeys' = nKeys + 1
    BY <1>2 DEF GenerateNewKey, reserved
  <2>2. Numbered' = Numbered
    BY <1>0, <2>1 DEF Numbered, NoKey
  <2> QED
    BY <2>1, <2>2
<1>3. ASSUME WritePool PROVE Bounds'
  <2>1. /\ UNCHANGED <<nKeys, nIndex, vchPubKey, kept>>
        /\ vchNewKey # NoKey /\ vchNewKey' = NoKey /\ vchNewKey = nKeys
        /\ pool' = [pool EXCEPT ![nEnd] = vchNewKey]
        /\ setKeyPool' = setKeyPool \cup {nEnd}
    BY <1>3 DEF WritePool, reserved
  <2>2. Numbered' = nKeys /\ Numbered = nKeys - 1
    BY <2>1 DEF Numbered
  <2>3. nEnd \in Number /\ nEnd <= nKeys
    BY <2>1, NextNumber
  <2>4. \A n \in setKeyPool' : n <= Numbered'
    BY <1>0, <2>1, <2>2, <2>3 DEF KeyPoolTypeOK, Number
  <2>5. ASSUME NEW n \in Number, pool'[n] # NoKey PROVE n <= Numbered' /\ pool'[n] <= Numbered'
    <3>1. CASE n = nEnd
      BY <1>0, <2>1, <2>2, <2>3, <3>1 DEF KeyPoolTypeOK
    <3>2. CASE n # nEnd
      <4>1. pool'[n] = pool[n] /\ n \in Int
        BY <2>1, <3>2 DEF KeyPoolTypeOK, Number
      <4>2. pool[n] \in Int
        BY DEF KeyPoolTypeOK, Key, NoKey
      <4> QED
        BY <1>0, <2>2, <2>5, <4>1, <4>2
    <3> QED
      BY <3>1, <3>2
  <2>6. \A u \in User : nIndex'[u] <= Numbered' /\ vchPubKey'[u] <= Numbered'
    <3>1. \A u \in User : nIndex[u] \in Int /\ vchPubKey[u] \in Int
      BY DEF KeyPoolTypeOK, Key, NoKey, Number, NoNumber
    <3> QED
      BY <1>0, <2>1, <2>2, <3>1
  <2>7. \A k \in kept' : k <= Numbered'
    <3>1. kept \subseteq Int
      BY DEF KeyPoolTypeOK, Key
    <3> QED
      BY <1>0, <2>1, <2>2, <3>1
  <2> QED
    BY <2>1, <2>4, <2>5, <2>6, <2>7
<1>4. ASSUME setKeyPool # {}
      PROVE  Smallest(setKeyPool) \in setKeyPool /\ Smallest(setKeyPool) \in Number
  BY <1>4, SmallestIn DEF KeyPoolTypeOK
<1>5. NoKey <= Numbered
  BY <1>0, KeyPoolAssumption DEF Numbered, NoKey, KeyPoolTypeOK, Key
<1>6. ASSUME NEW u \in User, ReserveKey(u) PROVE Bounds'
  <2>1. /\ UNCHANGED <<pool, vchNewKey, nKeys, kept>>
        /\ setKeyPool' \subseteq setKeyPool
        /\ nIndex' = [nIndex EXCEPT ![u] = Smallest(setKeyPool)]
        /\ vchPubKey' = [vchPubKey EXCEPT ![u] = pool[Smallest(setKeyPool)]]
        /\ Smallest(setKeyPool) \in setKeyPool /\ Smallest(setKeyPool) \in Number
    BY <1>4, <1>6 DEF ReserveKey, file
  <2>2. Numbered' = Numbered
    BY <2>1 DEF Numbered
  <2>3. pool[Smallest(setKeyPool)] <= Numbered /\ Smallest(setKeyPool) <= Numbered
    BY <1>5, <2>1
  <2>4. Smallest(setKeyPool) # NoNumber
    BY <2>1, KeyPoolAssumption DEF Number, NoNumber
  <2>5. \A v \in User : /\ nIndex'[v] = IF v = u THEN Smallest(setKeyPool) ELSE nIndex[v]
                        /\ vchPubKey'[v] = IF v = u THEN pool[Smallest(setKeyPool)] ELSE vchPubKey[v]
    BY <2>1 DEF KeyPoolTypeOK
  <2> QED
    BY <2>1, <2>2, <2>3, <2>4, <2>5
<1>7. ASSUME NEW n \in Number, pool' = ErasedFrom(n)
      PROVE  \A m \in Number : pool'[m] # NoKey => pool'[m] = pool[m]
  BY <1>7 DEF KeyPoolTypeOK, ErasedFrom
<1>8. ASSUME GetKeyFromPool PROVE Bounds'
  <2>1. /\ UNCHANGED <<vchNewKey, nKeys, nIndex, vchPubKey>>
        /\ setKeyPool' \subseteq setKeyPool
        /\ pool' = ErasedFrom(Smallest(setKeyPool))
        /\ kept' \subseteq kept \cup {pool[Smallest(setKeyPool)]}
        /\ Smallest(setKeyPool) \in Number
    BY <1>4, <1>8 DEF GetKeyFromPool, reserved
  <2>2. Numbered' = Numbered
    BY <2>1 DEF Numbered
  <2>3. pool[Smallest(setKeyPool)] <= Numbered
    BY <1>5, <2>1
  <2> QED
    BY <1>7, <2>1, <2>2, <2>3
<1>9. ASSUME GetOldestKeyPoolTime PROVE Bounds'
  <2>1. /\ UNCHANGED <<pool, vchNewKey, nKeys, nIndex, vchPubKey, kept>>
        /\ setKeyPool' \subseteq setKeyPool
    BY <1>9 DEF GetOldestKeyPoolTime, file, reserved
  <2> QED
    BY <2>1 DEF Numbered
<1>10. ASSUME NEW u \in User, Dropped(u)
       PROVE  \A v \in User : /\ nIndex'[v] = IF v = u THEN NoNumber ELSE nIndex[v]
                              /\ vchPubKey'[v] = IF v = u THEN NoKey ELSE vchPubKey[v]
  BY <1>10 DEF Dropped, KeyPoolTypeOK
<1>11. NoNumber <= Numbered
  BY <1>0, <1>5 DEF NoNumber, NoKey
<1>12. ASSUME NEW u \in User, KeepKey(u) PROVE Bounds'
  <2>1. /\ UNCHANGED <<vchNewKey, nKeys, setKeyPool>>
        /\ pool' = ErasedFrom(nIndex[u])
        /\ kept' = kept \cup {vchPubKey[u]}
        /\ Dropped(u)
        /\ nIndex[u] \in Number
    BY <1>12 DEF KeepKey, KeyPoolTypeOK
  <2>2. Numbered' = Numbered
    BY <2>1 DEF Numbered
  <2> QED
    BY <1>5, <1>7, <1>10, <1>11, <2>1, <2>2
<1>13. ASSUME NEW u \in User, ReturnKey(u) PROVE Bounds'
  <2>1. /\ UNCHANGED <<pool, vchNewKey, nKeys, kept>>
        /\ setKeyPool' = setKeyPool \cup {nIndex[u]}
        /\ Dropped(u)
    BY <1>13 DEF ReturnKey, file
  <2>2. Numbered' = Numbered
    BY <2>1 DEF Numbered
  <2> QED
    BY <1>5, <1>10, <1>11, <2>1, <2>2
<1>14. ASSUME ErasePool PROVE Bounds'
  <2>1. ToErase \subseteq Number /\ ToErase # {}
    BY <1>14 DEF ErasePool, ToErase, KeyPoolTypeOK
  <2>2. /\ UNCHANGED <<vchNewKey, nKeys, setKeyPool, nIndex, vchPubKey, kept>>
        /\ pool' = ErasedFrom(Smallest(ToErase)) /\ Smallest(ToErase) \in Number
    BY <1>14, <2>1, SmallestIn DEF ErasePool, reserved
  <2> QED
    BY <1>7, <2>2 DEF Numbered
<1>15. ASSUME ClearPool PROVE Bounds'
  BY <1>15 DEF ClearPool, Numbered, file, reserved
<1>16. ASSUME Restart PROVE Bounds'
  <2>1. /\ UNCHANGED <<pool, nKeys, kept>>
        /\ vchNewKey' = NoKey /\ setKeyPool' = Loaded
        /\ nIndex' = [u \in User |-> NoNumber] /\ vchPubKey' = [u \in User |-> NoKey]
    BY <1>16 DEF Restart, file
  <2>2. Numbered' = nKeys
    BY <2>1 DEF Numbered
  <2>3. /\ \A n \in Number : n \in Int /\ pool[n] \in Int
        /\ kept \subseteq Int
    BY DEF KeyPoolTypeOK, Number, Key, NoKey
  <2>4. /\ \A n \in Number : HasRecord(n) => n <= nKeys /\ pool[n] <= nKeys
        /\ \A k \in kept : k <= nKeys
        /\ NoKey <= nKeys /\ NoNumber <= nKeys
    BY <1>0, <1>5, <2>3 DEF NoKey, NoNumber
  <2> QED
    BY <2>1, <2>2, <2>4 DEF Loaded
<1> QED
  BY <1>1, <1>2, <1>3, <1>6, <1>8, <1>9, <1>12, <1>13, <1>14, <1>15, <1>16, QuietSteps DEF KeyPoolNext

(* A key has one place: its record or its user, and nobody once it is kept. *)
OnePlace ==
  /\ \A m, n \in Number : HasRecord(m) /\ pool[m] = pool[n] => m = n
  /\ \A u \in User, n \in Number : vchPubKey[u] # NoKey /\ pool[n] = vchPubKey[u] => n = nIndex[u]
  /\ KeptIsGone

LEMMA ErasedPlaces ==
  ASSUME KeyPoolTypeOK, OnePlace, NEW n \in Number, pool' = ErasedFrom(n),
         UNCHANGED <<nIndex, vchPubKey>> \/ \E u \in User : Dropped(u),
         NEW k \in Key \cup {NoKey},
         kept' \subseteq kept \cup {k}, NoKey \notin kept',
         \A m \in Number : pool[m] = k /\ k # NoKey => m = n
  PROVE  OnePlace'
<1>1. \A m \in Number : pool'[m] = IF m = n THEN NoKey ELSE pool[m]
  BY DEF KeyPoolTypeOK, ErasedFrom
<1>2. \A u \in User : vchPubKey'[u] # NoKey => vchPubKey'[u] = vchPubKey[u] /\ nIndex'[u] = nIndex[u]
  BY DEF Dropped, KeyPoolTypeOK
<1>3. KeptIsGone'
  BY <1>1 DEF KeptIsGone, OnePlace
<1>4. \A i, j \in Number : HasRecord(i)' /\ pool'[i] = pool'[j] => i = j
  BY <1>1 DEF OnePlace, HasRecord
<1>5. \A u \in User, m \in Number : vchPubKey'[u] # NoKey /\ pool'[m] = vchPubKey'[u] => m = nIndex'[u]
  BY <1>1, <1>2 DEF OnePlace
<1> QED
  BY <1>3, <1>4, <1>5 DEF OnePlace

LEMMA PlacesInductive ==
  ASSUME KeyPoolTypeOK, Bounds, Stages, OnePlace, [KeyPoolNext]_keyPoolVars
  PROVE  OnePlace'
<1>0. NoKey \notin kept
  BY DEF KeyPoolTypeOK, Key, NoKey
<1>1. ASSUME UNCHANGED <<pool, kept, nIndex, vchPubKey>> PROVE OnePlace'
  BY <1>1 DEF OnePlace, HasRecord, KeptIsGone
<1>2. ASSUME \/ Quiet \/ GenerateNewKey \/ GetOldestKeyPoolTime \/ ClearPool PROVE OnePlace'
  BY <1>1, <1>2 DEF Quiet, GenerateNewKey, GetOldestKeyPoolTime, ClearPool, file, reserved
<1>3. ASSUME WritePool PROVE OnePlace'
  <2>1. /\ UNCHANGED <<nIndex, vchPubKey, kept>>
        /\ vchNewKey # NoKey
        /\ pool' = [pool EXCEPT ![nEnd] = vchNewKey]
        /\ nEnd \in Number
    BY <1>3, NextNumber DEF WritePool, reserved
  <2>2. vchNewKey = nKeys /\ Numbered = nKeys - 1 /\ nKeys \in Nat
    BY <2>1, KeyPoolAssumption DEF Bounds, Numbered, KeyPoolTypeOK
  <2>3. /\ \A n \in Number : pool[n] # vchNewKey
        /\ \A u \in User : vchPubKey[u] # vchNewKey
        /\ vchNewKey \notin kept
    <3>1. /\ \A n \in Number : HasRecord(n) => pool[n] <= nKeys - 1
          /\ \A u \in User : vchPubKey[u] <= nKeys - 1
          /\ \A k \in kept : k <= nKeys - 1
      BY <2>2 DEF Bounds
    <3> QED
      BY <2>1, <2>2, <3>1 DEF HasRecord
  <2>4. \A m \in Number : pool'[m] = IF m = nEnd THEN vchNewKey ELSE pool[m]
    BY <2>1 DEF KeyPoolTypeOK
  <2>5. KeptIsGone'
    BY <2>1, <2>3, <2>4 DEF OnePlace, KeptIsGone
  <2>6. \A i, j \in Number : HasRecord(i)' /\ pool'[i] = pool'[j] => i = j
    BY <2>3, <2>4 DEF OnePlace, HasRecord
  <2>7. \A u \in User, m \in Number : vchPubKey'[u] # NoKey /\ pool'[m] = vchPubKey'[u] => m = nIndex'[u]
    BY <2>1, <2>3, <2>4 DEF OnePlace
  <2> QED
    BY <2>5, <2>6, <2>7 DEF OnePlace
<1>4. ASSUME setKeyPool # {} PROVE Smallest(setKeyPool) \in Number
  BY <1>4, SmallestIn DEF KeyPoolTypeOK
<1>5. ASSUME NEW u \in User, ReserveKey(u) PROVE OnePlace'
  <2>1. /\ UNCHANGED <<pool, kept>> /\ Smallest(setKeyPool) \in Number
        /\ \A v \in User : v # u => nIndex'[v] = nIndex[v] /\ vchPubKey'[v] = vchPubKey[v]
        /\ nIndex'[u] = Smallest(setKeyPool)
        /\ vchPubKey'[u] = pool[Smallest(setKeyPool)]
    BY <1>4, <1>5 DEF ReserveKey, file, KeyPoolTypeOK
  <2> QED
    BY <2>1 DEF OnePlace, HasRecord, KeptIsGone
<1>6. ASSUME GetKeyFromPool PROVE OnePlace'
  <2> DEFINE n == Smallest(setKeyPool)
  <2>1. /\ UNCHANGED <<nIndex, vchPubKey>> /\ n \in Number
        /\ pool' = ErasedFrom(n)
        /\ kept' = kept \cup ({pool[n]} \ {NoKey})
    BY <1>4, <1>6 DEF GetKeyFromPool, reserved
  <2>2. pool[n] \in Key \cup {NoKey}
    BY <2>1 DEF KeyPoolTypeOK
  <2>3. \A m \in Number : pool[m] = pool[n] /\ pool[n] # NoKey => m = n
    BY <2>1 DEF OnePlace, HasRecord
  <2>4. kept' \subseteq kept \cup {pool[n]} /\ NoKey \notin kept'
    BY <1>0, <2>1
  <2> HIDE DEF n
  <2> QED
    BY <2>1, <2>2, <2>3, <2>4, ErasedPlaces
<1>7. ASSUME NEW u \in User, KeepKey(u) PROVE OnePlace'
  <2>1. /\ Dropped(u)
        /\ pool' = ErasedFrom(nIndex[u]) /\ nIndex[u] \in Number
        /\ vchPubKey[u] # NoKey /\ vchPubKey[u] \in Key \cup {NoKey}
        /\ kept' = kept \cup {vchPubKey[u]}
    BY <1>7 DEF KeepKey, KeyPoolTypeOK, Bounds
  <2>2. \A m \in Number : pool[m] = vchPubKey[u] => m = nIndex[u]
    BY <2>1 DEF OnePlace
  <2>3. kept' \subseteq kept \cup {vchPubKey[u]} /\ NoKey \notin kept'
    BY <1>0, <2>1
  <2> QED
    BY <2>1, <2>2, <2>3, ErasedPlaces
<1>8. ASSUME NEW u \in User, ReturnKey(u) PROVE OnePlace'
  <2>1. /\ UNCHANGED <<pool, kept>>
        /\ \A v \in User : v # u => nIndex'[v] = nIndex[v] /\ vchPubKey'[v] = vchPubKey[v]
        /\ vchPubKey'[u] = NoKey
    BY <1>8 DEF ReturnKey, Dropped, file, KeyPoolTypeOK
  <2> QED
    BY <2>1 DEF OnePlace, HasRecord, KeptIsGone
<1>9. ASSUME ErasePool PROVE OnePlace'
  <2>1. ToErase \subseteq Number /\ ToErase # {}
    BY <1>9 DEF ErasePool, ToErase, KeyPoolTypeOK
  <2>2. /\ UNCHANGED <<nIndex, vchPubKey, kept>>
        /\ pool' = ErasedFrom(Smallest(ToErase)) /\ Smallest(ToErase) \in Number
    BY <1>9, <2>1, SmallestIn DEF ErasePool, reserved
  <2>3. kept' \subseteq kept \cup {NoKey} /\ NoKey \notin kept'
    BY <1>0, <2>2
  <2> QED
    BY <2>2, <2>3, ErasedPlaces
<1>10. ASSUME Restart PROVE OnePlace'
  <2>1. /\ UNCHANGED <<pool, kept>>
        /\ vchPubKey' = [u \in User |-> NoKey]
    BY <1>10 DEF Restart, file
  <2> QED
    BY <2>1 DEF OnePlace, HasRecord, KeptIsGone
<1> QED
  BY <1>2, <1>3, <1>5, <1>6, <1>7, <1>8, <1>9, <1>10, QuietSteps DEF KeyPoolNext

PoolInv == KeyPoolTypeOK /\ Bounds /\ Stages /\ OnePlace

LEMMA PoolInit ==
  ASSUME KeyPoolInit PROVE PoolInv
<1> USE KeyPoolAssumption DEF KeyPoolInit
<1>1. KeyPoolTypeOK
  <2>1. /\ pool \in [Number -> Key \cup {NoKey}]
        /\ nIndex \in [User -> Number \cup {NoNumber}]
        /\ vchPubKey \in [User -> Key \cup {NoKey}]
        /\ form \in [Key -> {"none", "plain", "crypted"}]
    OBVIOUS
  <2>2. nKeys \in 0 .. MaxKey
    OBVIOUS
  <2> QED
    BY <2>1, <2>2 DEF KeyPoolTypeOK
<1>2. Bounds
  BY DEF Bounds, Numbered, HasRecord, NoKey, NoNumber
<1>3. Stages
  BY DEF Stages
<1>4. OnePlace
  BY DEF OnePlace, HasRecord, KeptIsGone
<1> QED
  BY <1>1, <1>2, <1>3, <1>4 DEF PoolInv

LEMMA PoolInductive ==
  ASSUME PoolInv, [KeyPoolNext]_keyPoolVars PROVE PoolInv'
BY TypesInductive, BoundsInductive, PlacesInductive DEF PoolInv

(* The pool, the keys held from it, the key store and what the file holds   *)
(* keep their types, whatever is interrupted.                               *)
THEOREM KeyPoolTypeCorrect == KeyPoolSpec => []KeyPoolTypeOK
<1>1. PoolInv => KeyPoolTypeOK
  BY DEF PoolInv
<1> QED
  BY <1>1, PoolInit, PoolInductive, PTL DEF KeyPoolSpec

(* KeepKey and GetKeyFromPool give a key away for good: no record holds it  *)
(* again, not after a crash and not where numbers are given again.          *)
THEOREM KeptSafe == KeyPoolSpec => []KeptIsGone
<1>1. PoolInv => KeptIsGone
  BY DEF PoolInv, OnePlace
<1> QED
  BY <1>1, PoolInit, PoolInductive, PTL DEF KeyPoolSpec

----------------------------------------------------------------------------
(* The file *)

FileInv ==
  /\ FileWhole
  /\ vchNewKey # NoKey => form[vchNewKey] # "none"

LEMMA FileInductive ==
  ASSUME PoolInv, PoolInv', FileInv, [KeyPoolNext]_keyPoolVars
  PROVE  FileInv'
<1> USE DEF FileInv, FileWhole, HasRecord
<1>1. KeyPoolTypeOK /\ Bounds /\ Stages
  BY DEF PoolInv
<1>2. (step # "crypting" => fUseCrypto = fMasterKey)'
  BY DEF PoolInv, Stages, KeyPoolTypeOK
<1>3. ASSUME UNCHANGED <<form, fMasterKey>>, vchNewKey' \in {vchNewKey, NoKey},
             \A n \in Number : pool'[n] # NoKey => pool'[n] \in {pool[n], vchNewKey} \ {NoKey}
      PROVE  FileInv'
  BY <1>2, <1>3
<1>4. ASSUME NEW n, pool' = ErasedFrom(n), UNCHANGED <<form, fMasterKey, vchNewKey>> PROVE FileInv'
  <2>1. \A m \in Number : pool'[m] # NoKey => pool'[m] = pool[m]
    BY <1>1, <1>4 DEF KeyPoolTypeOK, ErasedFrom
  <2> QED
    BY <1>3, <1>4, <2>1
<1>5. ASSUME GenerateNewKey PROVE FileInv'
  <2>1. /\ UNCHANGED <<pool, fMasterKey>>
        /\ nKeys + 1 \in Key /\ vchNewKey' = nKeys + 1
        /\ form' = [form EXCEPT ![nKeys + 1] = IF fUseCrypto THEN "crypted" ELSE "plain"]
        /\ step \in {"topup", "filling"}
    BY <1>1, <1>5, KeyPoolAssumption DEF GenerateNewKey, Wanted, Key, KeyPoolTypeOK
  <2>2. fUseCrypto = fMasterKey
    BY <2>1
  <2>3. \A k \in Key : form'[k] = IF k # nKeys + 1 THEN form[k]
                                  ELSE IF fUseCrypto THEN "crypted" ELSE "plain"
    BY <1>1, <2>1 DEF KeyPoolTypeOK
  <2>4. \A n \in Number : pool[n] # NoKey => pool[n] \in Key
    BY <1>1 DEF KeyPoolTypeOK
  <2>5. \A k \in Key : form'[k] \in {"none", IF fMasterKey' THEN "crypted" ELSE "plain"}
    BY <2>1, <2>2, <2>3
  <2>6. (\A n \in Number : HasRecord(n) => form[pool[n]] # "none")'
    BY <2>1, <2>3, <2>4
  <2>7. form'[vchNewKey'] # "none"
    BY <2>1, <2>3
  <2> QED
    BY <1>2, <2>5, <2>6, <2>7
<1>6. ASSUME WritePool PROVE FileInv'
  <2>1. /\ vchNewKey # NoKey /\ vchNewKey' = NoKey
        /\ pool' = [pool EXCEPT ![nEnd] = vchNewKey]
        /\ UNCHANGED <<form, fMasterKey>>
    BY <1>6 DEF WritePool
  <2>2. \A n \in Number : pool'[n] # NoKey => pool'[n] \in {pool[n], vchNewKey} \ {NoKey}
    BY <1>1, <2>1 DEF KeyPoolTypeOK
  <2> QED
    BY <1>3, <2>1, <2>2
<1>7. ASSUME TxnCommit PROVE FileInv'
  <2>1. /\ UNCHANGED <<pool, vchNewKey>> /\ fMasterKey' = TRUE
        /\ form' = [k \in Key |-> IF form[k] = "plain" THEN "crypted" ELSE form[k]]
    BY <1>7 DEF TxnCommit, Encrypted
  <2>2. \A k \in Key : form'[k] \in {"none", "crypted"} /\ (form[k] # "none" => form'[k] # "none")
    BY <1>1, <2>1 DEF KeyPoolTypeOK
  <2>3. /\ \A n \in Number : pool[n] # NoKey => pool[n] \in Key
        /\ vchNewKey # NoKey => vchNewKey \in Key
    BY <1>1 DEF KeyPoolTypeOK
  <2>4. (\A n \in Number : HasRecord(n) => form[pool[n]] # "none")'
    BY <2>1, <2>2, <2>3
  <2>5. vchNewKey' # NoKey => form'[vchNewKey'] # "none"
    BY <2>1, <2>2, <2>3
  <2>6. \A k \in Key : form'[k] \in {"none", IF fMasterKey' THEN "crypted" ELSE "plain"}
    BY <2>1, <2>2
  <2> QED
    BY <1>2, <2>4, <2>5, <2>6
<1>8. ASSUME \/ GetKeyFromPool \/ ErasePool \/ \E u \in User : KeepKey(u) PROVE FileInv'
  <2>1. UNCHANGED <<form, fMasterKey, vchNewKey>> /\ \E n : pool' = ErasedFrom(n)
    BY <1>8 DEF GetKeyFromPool, ErasePool, KeepKey
  <2> QED
    BY <1>4, <2>1
<1>9. ASSUME \/ \E c \in Caller : Begin(c)
             \/ GenerateFails \/ RefillDone \/ NothingToTake \/ GetOldestKeyPoolTime
             \/ \E u \in User : ReserveKey(u) \/ ReturnKey(u)
             \/ EncryptKeys \/ ClearPool \/ EncryptionDone \/ Lock \/ Unlock \/ Restart
             \/ UNCHANGED keyPoolVars
      PROVE  FileInv'
  <2>1. UNCHANGED <<pool, form, fMasterKey>> /\ vchNewKey' \in {vchNewKey, NoKey}
    BY <1>9 DEF Begin, GenerateFails, RefillDone, NothingToTake, GetOldestKeyPoolTime, ReserveKey,
                ReturnKey, EncryptKeys, ClearPool, EncryptionDone, Lock, Unlock, Restart,
                keyPoolVars, file
  <2> QED
    BY <1>3, <2>1
<1> QED
  BY <1>5, <1>6, <1>7, <1>8, <1>9 DEF KeyPoolNext

(* Wherever EncryptWallet, a refill or a reservation is cut off, the file    *)
(* holds plain secrets only or encrypted ones only, and the secret of each   *)
(* key in the pool.                                                         *)
THEOREM FileSafe == KeyPoolSpec => []FileWhole
<1>1. KeyPoolInit => FileInv
  BY DEF KeyPoolInit, FileInv, FileWhole, HasRecord
<1>2. PoolInv /\ FileInv /\ [KeyPoolNext]_keyPoolVars => PoolInv' /\ FileInv'
  BY PoolInductive, FileInductive
<1>3. FileInv => FileWhole
  BY DEF FileInv
<1> QED
  BY <1>1, <1>2, <1>3, PoolInit, PTL DEF KeyPoolSpec

----------------------------------------------------------------------------
(* Reservations *)

(* A new number is above all in the pool: in a wallet that never was        *)
(* encrypted it is above every reserved one, for the target leaves a key    *)
(* above the one reserved.                                                  *)
Covered ==
  /\ ~ renumbered
  /\ \A u \in User : nIndex[u] # NoNumber => \E m \in setKeyPool : nIndex[u] < m

(* While no number was given twice, a reserved one has its record and is    *)
(* neither in the pool nor with another.                                    *)
Apart ==
  /\ step # "erasing" => \A n \in setKeyPool : HasRecord(n)
  /\ \A u \in User : nIndex[u] # NoNumber =>
       /\ nIndex[u] \notin setKeyPool
       /\ HasRecord(nIndex[u]) /\ vchPubKey[u] = pool[nIndex[u]]
  /\ \A u, v \in User : nIndex[u] = nIndex[v] /\ nIndex[u] # NoNumber => u = v

ReservedInv ==
  /\ ~ fUseCrypto /\ nTargetSize # 0 => Covered
  /\ ~ renumbered => Apart

(* What is above the smallest of two. *)
LEMMA AboveSmallest ==
  ASSUME setKeyPool \subseteq Number, Full, nTargetSize # 0
  PROVE  \E m \in setKeyPool : m # Smallest(setKeyPool) /\ Smallest(setKeyPool) < m
<1> DEFINE n == Smallest(setKeyPool)
<1>1. IsFiniteSet(setKeyPool) /\ Cardinality(setKeyPool) \in Nat /\ Cardinality(setKeyPool) >= 2
  BY FiniteNumbers, KeyPoolAssumption DEF Full
<1>2. setKeyPool # {}
  BY <1>1, FS_EmptySet
<1>3. n \in setKeyPool /\ \A m \in setKeyPool : n <= m
  BY <1>2, SmallestIn
<1>4. setKeyPool # {n}
  BY <1>1, FS_Singleton
<1>5. PICK m \in setKeyPool : m # n
  BY <1>3, <1>4
<1> HIDE DEF n
<1>6. m \in Int /\ n \in Int
  <2>1. m \in Number /\ n \in Number
    BY <1>3, <1>5
  <2> QED
    BY <2>1 DEF Number
<1> QED
  BY <1>3, <1>5, <1>6 DEF n

(* Taking the smallest leaves what covered a reserved number. *)
LEMMA StillCovered ==
  ASSUME KeyPoolTypeOK, Stages, ReadyToTake, ~ fUseCrypto, nTargetSize # 0, Covered
  PROVE  /\ \A u \in User : nIndex[u] # NoNumber =>
              \E m \in setKeyPool \ {Smallest(setKeyPool)} : nIndex[u] < m
         /\ \E m \in setKeyPool \ {Smallest(setKeyPool)} : Smallest(setKeyPool) < m
<1> DEFINE n == Smallest(setKeyPool)
<1>1. Full /\ setKeyPool \subseteq Number
  BY DEF ReadyToTake, Stages, KeyPoolTypeOK
<1>2. PICK m \in setKeyPool : m # n /\ n < m
  BY <1>1, AboveSmallest
<1>3. n \in setKeyPool
  BY <1>1, <1>2, SmallestIn
<1> HIDE DEF n
<1>4. ASSUME NEW u \in User, nIndex[u] # NoNumber
      PROVE  \E k \in setKeyPool \ {n} : nIndex[u] < k
  <2>1. PICK k \in setKeyPool : nIndex[u] < k
    BY <1>4 DEF Covered
  <2>2. nIndex[u] \in Int /\ m \in Int /\ n \in Int /\ k \in Int
    <3>1. nIndex[u] \in Number /\ m \in Number /\ n \in Number /\ k \in Number
      BY <1>1, <1>3, <1>4, <2>1 DEF KeyPoolTypeOK
    <3> QED
      BY <3>1 DEF Number
  <2>3. CASE k = n
    BY <1>2, <2>1, <2>2, <2>3
  <2> QED
    BY <2>1, <2>3
<1> QED
  BY <1>2, <1>4 DEF n

LEMMA ReservedInductive ==
  ASSUME PoolInv, ReservedInv, [KeyPoolNext]_keyPoolVars
  PROVE  ReservedInv'
<1>0. KeyPoolTypeOK /\ Bounds /\ Stages
  BY DEF PoolInv
<1>1. ASSUME UNCHANGED <<pool, setKeyPool, nIndex, vchPubKey, renumbered>>,
             fUseCrypto => fUseCrypto',
             step = "erasing" => step' = "erasing"
      PROVE  ReservedInv'
  BY <1>0, <1>1 DEF ReservedInv, Covered, Apart, HasRecord, KeyPoolTypeOK
<1>2. ASSUME \/ \E c \in Caller : Begin(c)
             \/ GenerateNewKey \/ GenerateFails \/ RefillDone \/ NothingToTake
             \/ EncryptKeys \/ TxnCommit \/ EncryptionDone \/ Lock \/ Unlock
             \/ UNCHANGED keyPoolVars
      PROVE  ReservedInv'
  <2>1. UNCHANGED <<pool, setKeyPool, nIndex, vchPubKey, renumbered>>
    BY <1>2, QuietSteps DEF Quiet, GenerateNewKey, reserved
  <2>2. (fUseCrypto => fUseCrypto') /\ (step = "erasing" => step' = "erasing")
    BY <1>2 DEF Begin, GenerateNewKey, GenerateFails, RefillDone, NothingToTake, ReadyToTake,
                EncryptKeys, TxnCommit, EncryptionDone, Lock, Unlock, Wanted, keyPoolVars, crypto
  <2> QED
    BY <1>1, <2>1, <2>2
<1>3. ASSUME WritePool PROVE ReservedInv'
  <2>1. /\ vchNewKey # NoKey /\ step \in {"topup", "filling"}
        /\ UNCHANGED <<nIndex, vchPubKey, fUseCrypto, step>>
        /\ pool' = [pool EXCEPT ![nEnd] = vchNewKey]
        /\ setKeyPool' = setKeyPool \cup {nEnd}
        /\ renumbered' = (renumbered \/ \E u \in User : nIndex[u] = nEnd)
    BY <1>0, <1>3 DEF WritePool, reserved, crypto, Stages
  <2>2. nEnd \in Number /\ nEnd \notin setKeyPool /\ \A n \in setKeyPool : n < nEnd
    BY <1>0, <2>1, NextNumber
  <2>3. \A m \in Number : pool'[m] = IF m = nEnd THEN vchNewKey ELSE pool[m]
    BY <1>0, <2>1 DEF KeyPoolTypeOK
  <2>4. ASSUME ~ fUseCrypto', nTargetSize # 0 PROVE Covered'
    <3>1. Covered
      BY <2>1, <2>4 DEF ReservedInv
    <3>2. \A u \in User : nIndex[u] # nEnd
      <4>1. SUFFICES ASSUME NEW u \in User, nIndex[u] = nEnd PROVE FALSE
        OBVIOUS
      <4>2. nEnd # NoNumber /\ nEnd \in Int
        BY <2>2, KeyPoolAssumption DEF Number, NoNumber
      <4>3. PICK m \in setKeyPool : nEnd < m
        BY <3>1, <4>1, <4>2 DEF Covered
      <4>4. m < nEnd /\ m \in Int
        BY <1>0, <2>2, <4>3 DEF KeyPoolTypeOK, Number
      <4> QED
        BY <4>2, <4>3, <4>4
    <3> QED
      BY <2>1, <3>1, <3>2 DEF Covered
  <2>5. ASSUME ~ renumbered' PROVE Apart'
    <3>1. Apart /\ \A u \in User : nIndex[u] # nEnd
      BY <2>1, <2>5 DEF ReservedInv
    <3>2. \A u \in User : nIndex[u] # NoNumber => nIndex[u] \in Number
      BY <1>0 DEF KeyPoolTypeOK
    <3>3. (\A n \in setKeyPool : HasRecord(n))'
      BY <1>0, <2>1, <2>2, <2>3, <3>1 DEF Apart, HasRecord, KeyPoolTypeOK
    <3> QED
      BY <2>1, <2>3, <3>1, <3>2, <3>3 DEF Apart, HasRecord
  <2> QED
    BY <2>4, <2>5 DEF ReservedInv
<1>4. ASSUME setKeyPool # {}
      PROVE  /\ Smallest(setKeyPool) \in setKeyPool /\ Smallest(setKeyPool) \in Number
             /\ Smallest(setKeyPool) # NoNumber
  <2>1. Smallest(setKeyPool) \in setKeyPool /\ Smallest(setKeyPool) \in Number
    BY <1>0, <1>4, SmallestIn DEF KeyPoolTypeOK
  <2> QED
    BY <2>1, KeyPoolAssumption DEF Number, NoNumber
<1>5. ASSUME NEW u \in User, ReserveKey(u) PROVE ReservedInv'
  <2> DEFINE n == Smallest(setKeyPool)
  <2>1. /\ UNCHANGED <<pool, fUseCrypto, renumbered>>
        /\ setKeyPool' = setKeyPool \ {n} /\ ReadyToTake /\ step # "erasing"
        /\ n \in setKeyPool /\ n \in Number /\ n # NoNumber
        /\ \A v \in User : /\ nIndex'[v] = IF v = u THEN n ELSE nIndex[v]
                           /\ vchPubKey'[v] = IF v = u THEN pool[n] ELSE vchPubKey[v]
    BY <1>0, <1>4, <1>5 DEF ReserveKey, ReadyToTake, file, crypto, KeyPoolTypeOK
  <2> HIDE DEF n
  <2>2. ASSUME ~ fUseCrypto', nTargetSize # 0 PROVE Covered'
    <3>1. Covered
      BY <2>1, <2>2 DEF ReservedInv
    <3>2. /\ \A v \in User : nIndex[v] # NoNumber => \E m \in setKeyPool \ {n} : nIndex[v] < m
          /\ \E m \in setKeyPool \ {n} : n < m
      BY <1>0, <2>1, <2>2, <3>1, StillCovered DEF n
    <3> QED
      BY <2>1, <3>1, <3>2 DEF Covered
  <2>3. ASSUME ~ renumbered' PROVE Apart'
    <3>1. Apart
      BY <2>1, <2>3 DEF ReservedInv
    <3>2. HasRecord(n)
      BY <2>1, <3>1 DEF Apart
    <3> QED
      BY <2>1, <3>1, <3>2 DEF Apart, HasRecord
  <2> QED
    BY <2>2, <2>3 DEF ReservedInv
<1>6. ASSUME GetKeyFromPool PROVE ReservedInv'
  <2> DEFINE n == Smallest(setKeyPool)
  <2>1. /\ UNCHANGED <<nIndex, vchPubKey, fUseCrypto, renumbered>>
        /\ setKeyPool' = setKeyPool \ {n} /\ ReadyToTake /\ step # "erasing"
        /\ n \in setKeyPool
        /\ \A m \in Number : pool'[m] = IF m = n THEN NoKey ELSE pool[m]
    BY <1>0, <1>4, <1>6 DEF GetKeyFromPool, ReadyToTake, ErasedFrom, reserved, crypto, KeyPoolTypeOK
  <2> HIDE DEF n
  <2>2. ASSUME ~ fUseCrypto', nTargetSize # 0 PROVE Covered'
    <3>1. Covered
      BY <2>1, <2>2 DEF ReservedInv
    <3>2. \A v \in User : nIndex[v] # NoNumber => \E m \in setKeyPool \ {n} : nIndex[v] < m
      BY <1>0, <2>1, <2>2, <3>1, StillCovered DEF n
    <3> QED
      BY <2>1, <3>1, <3>2 DEF Covered
  <2>3. ASSUME ~ renumbered' PROVE Apart'
    <3>1. Apart
      BY <2>1, <2>3 DEF ReservedInv
    <3>2. /\ \A v \in User : nIndex[v] # NoNumber => nIndex[v] \in Number
          /\ setKeyPool \subseteq Number
      BY <1>0 DEF KeyPoolTypeOK
    <3> QED
      BY <2>1, <3>1, <3>2 DEF Apart, HasRecord
  <2> QED
    BY <2>2, <2>3 DEF ReservedInv
<1>7. ASSUME GetOldestKeyPoolTime PROVE ReservedInv'
  <2> DEFINE n == Smallest(setKeyPool)
  <2>1. /\ UNCHANGED <<pool, nIndex, vchPubKey, fUseCrypto, renumbered>>
        /\ setKeyPool' = IF HasRecord(n) THEN setKeyPool ELSE setKeyPool \ {n}
        /\ ReadyToTake /\ step # "erasing" /\ n \in setKeyPool
    BY <1>4, <1>7 DEF GetOldestKeyPoolTime, ReadyToTake, file, reserved, crypto
  <2> HIDE DEF n
  <2>2. ASSUME ~ fUseCrypto', nTargetSize # 0 PROVE Covered'
    <3>1. Covered /\ Apart
      BY <2>1, <2>2 DEF ReservedInv, Covered
    <3>2. setKeyPool' = setKeyPool
      BY <2>1, <3>1 DEF Apart
    <3> QED
      BY <2>1, <3>1, <3>2 DEF Covered
  <2>3. ASSUME ~ renumbered' PROVE Apart'
    <3>1. Apart
      BY <2>1, <2>3 DEF ReservedInv
    <3> QED
      BY <2>1, <3>1 DEF Apart, HasRecord
  <2> QED
    BY <2>2, <2>3 DEF ReservedInv
<1>8. ASSUME NEW u \in User, Dropped(u)
      PROVE  \A v \in User : /\ nIndex'[v] = IF v = u THEN NoNumber ELSE nIndex[v]
                             /\ vchPubKey'[v] = IF v = u THEN NoKey ELSE vchPubKey[v]
  BY <1>0, <1>8 DEF Dropped, KeyPoolTypeOK
<1>9. ASSUME NEW u \in User, KeepKey(u) PROVE ReservedInv'
  <2>1. /\ UNCHANGED <<setKeyPool, fUseCrypto, renumbered>> /\ step # "erasing"
        /\ Dropped(u) /\ nIndex[u] # NoNumber
        /\ \A m \in Number : pool'[m] = IF m = nIndex[u] THEN NoKey ELSE pool[m]
    BY <1>0, <1>9 DEF KeepKey, ErasedFrom, crypto, KeyPoolTypeOK, Bounds
  <2>2. ASSUME ~ fUseCrypto', nTargetSize # 0 PROVE Covered'
    BY <1>8, <2>1, <2>2 DEF ReservedInv, Covered
  <2>3. ASSUME ~ renumbered' PROVE Apart'
    <3>1. Apart
      BY <2>1, <2>3 DEF ReservedInv
    <3>2. /\ \A v \in User : nIndex[v] # NoNumber => nIndex[v] \in Number
          /\ setKeyPool \subseteq Number
      BY <1>0 DEF KeyPoolTypeOK
    <3> QED
      BY <1>8, <2>1, <3>1, <3>2 DEF Apart, HasRecord
  <2> QED
    BY <2>2, <2>3 DEF ReservedInv
<1>10. ASSUME NEW u \in User, ReturnKey(u) PROVE ReservedInv'
  <2>1. /\ UNCHANGED <<pool, fUseCrypto, renumbered>> /\ step # "erasing"
        /\ Dropped(u) /\ nIndex[u] # NoNumber
        /\ setKeyPool' = setKeyPool \cup {nIndex[u]}
    BY <1>10 DEF ReturnKey, crypto, file
  <2>2. ASSUME ~ fUseCrypto', nTargetSize # 0 PROVE Covered'
    BY <1>8, <2>1, <2>2 DEF ReservedInv, Covered
  <2>3. ASSUME ~ renumbered' PROVE Apart'
    <3>1. Apart
      BY <2>1, <2>3 DEF ReservedInv
    <3> QED
      BY <1>8, <2>1, <3>1 DEF Apart, HasRecord
  <2> QED
    BY <2>2, <2>3 DEF ReservedInv
<1>11. ASSUME ErasePool PROVE ReservedInv'
  <2> DEFINE n == Smallest(ToErase)
  <2>1. ToErase \subseteq Number /\ ToErase # {} /\ ToErase \subseteq setKeyPool
    BY <1>0, <1>11 DEF ErasePool, ToErase, KeyPoolTypeOK
  <2>2. /\ UNCHANGED <<setKeyPool, fUseCrypto, renumbered, step, nIndex, vchPubKey>>
        /\ step = "erasing" /\ fUseCrypto
        /\ \A m \in Number : pool'[m] = IF m = n THEN NoKey ELSE pool[m]
        /\ n \in setKeyPool
    BY <1>0, <1>11, <2>1, SmallestIn DEF ErasePool, ErasedFrom, crypto, reserved, KeyPoolTypeOK, Stages
  <2> HIDE DEF n
  <2>3. \A v \in User : nIndex[v] # NoNumber => nIndex[v] \in Number
    BY <1>0 DEF KeyPoolTypeOK
  <2> QED
    BY <2>2, <2>3 DEF ReservedInv, Apart, HasRecord
<1>12. ASSUME ClearPool PROVE ReservedInv'
  <2>1. /\ UNCHANGED <<pool, fUseCrypto, renumbered, nIndex, vchPubKey>>
        /\ fUseCrypto /\ setKeyPool' = {}
    BY <1>0, <1>12 DEF ClearPool, file, crypto, reserved, Stages
  <2> QED
    BY <2>1 DEF ReservedInv, Apart, HasRecord
<1>13. ASSUME Restart PROVE ReservedInv'
  <2>1. /\ pool' = pool /\ setKeyPool' = Loaded /\ renumbered' = FALSE
        /\ \A u \in User : nIndex'[u] = NoNumber
    BY <1>13 DEF Restart, file
  <2> QED
    BY <2>1 DEF ReservedInv, Covered, Apart, HasRecord, Loaded
<1> QED
  BY <1>2, <1>3, <1>5, <1>6, <1>7, <1>9, <1>10, <1>11, <1>12, <1>13 DEF KeyPoolNext

LEMMA ReservedInit ==
  ASSUME KeyPoolInit PROVE ReservedInv
BY DEF KeyPoolInit, ReservedInv, Covered, Apart

(* Every number in the pool can be read, so "read failed" is not reached,    *)
(* unless a number was given again that someone had reserved.               *)
THEOREM PoolReadableSafe == KeyPoolSpec => []PoolReadable
<1>1. ReservedInv => PoolReadable
  BY DEF ReservedInv, Apart, PoolReadable
<1>2. PoolInv /\ ReservedInv /\ [KeyPoolNext]_keyPoolVars => PoolInv' /\ ReservedInv'
  BY PoolInductive, ReservedInductive
<1> QED
  BY <1>1, <1>2, PoolInit, ReservedInit, PTL DEF KeyPoolSpec

(* No key is with two users or with one and in the pool, for any target; a   *)
(* reserved number is given again only where the wallet is encrypted or no  *)
(* pool is kept.                                                            *)
THEOREM ReservedSafe == KeyPoolSpec => []ReservedApart
<1>1. ASSUME PoolInv, ReservedInv PROVE ReservedApart
  <2>1. renumbered => fUseCrypto \/ nTargetSize = 0
    BY <1>1 DEF ReservedInv, Covered
  <2>2. ASSUME ~ renumbered, NEW u \in User, nIndex[u] # NoNumber
        PROVE  /\ nIndex[u] \notin setKeyPool
               /\ vchPubKey[u] = pool[nIndex[u]]
               /\ vchPubKey[u] \notin kept
               /\ \A v \in User \ {u} : vchPubKey[v] # vchPubKey[u]
    <3>1. Apart
      BY <1>1, <2>2 DEF ReservedInv
    <3>2. /\ nIndex[u] \notin setKeyPool /\ nIndex[u] \in Number
          /\ vchPubKey[u] = pool[nIndex[u]] /\ vchPubKey[u] # NoKey
      BY <1>1, <2>2, <3>1 DEF Apart, HasRecord, PoolInv, KeyPoolTypeOK
    <3>3. vchPubKey[u] \notin kept
      BY <1>1, <3>2 DEF PoolInv, OnePlace, KeptIsGone
    <3>4. ASSUME NEW v \in User, vchPubKey[v] = vchPubKey[u] PROVE v = u
      <4>1. nIndex[v] = nIndex[u]
        BY <1>1, <3>2, <3>4 DEF PoolInv, OnePlace
      <4> QED
        BY <2>2, <3>1, <4>1 DEF Apart
    <3> QED
      BY <3>2, <3>3, <3>4
  <2> QED
    BY <2>1, <2>2 DEF ReservedApart
<1>2. PoolInv /\ ReservedInv /\ [KeyPoolNext]_keyPoolVars => PoolInv' /\ ReservedInv'
  BY PoolInductive, ReservedInductive
<1> QED
  BY <1>1, <1>2, PoolInit, ReservedInit, PTL DEF KeyPoolSpec
============================================================================
