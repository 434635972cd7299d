------------------------------ MODULE KeyPool ------------------------------
(***************************************************************************)
(* The wallet's pool of keys generated in advance: setKeyPool in memory,    *)
(* one record per number in the wallet file; and the encryption of the     *)
(* wallet, which begins a new pool.  Whoever needs a key (change of a       *)
(* payment, a block to mine) reserves the oldest, and keeps or returns it. *)
(*                                                                         *)
(* cs_wallet is held over a whole operation; what it writes to the file is *)
(* one step each, for the process can die between two of them.  Locking     *)
(* the wallet takes no part in cs_wallet, and comes between any two.        *)
(***************************************************************************)
EXTENDS Integers, FiniteSets

CONSTANTS
  User,                 \* the CReserveKey objects
  NewAddress,           \* GetKeyFromPool's caller
  Refill,               \* keypoolrefill, ThreadTopUpKeyPool
  OldestTime,           \* GetOldestKeyPoolTime's caller
  NoCaller,
  nTargetSize,          \* -keypool
  MaxKey                \* bound: how many keys are generated in all

ASSUME KeyPoolAssumption ==
  /\ {NewAddress, Refill, OldestTime, NoCaller} \cap User = {}
  /\ Cardinality({NewAddress, Refill, OldestTime, NoCaller}) = 4
  /\ nTargetSize \in Nat /\ MaxKey \in Nat

Caller == User \cup {NewAddress, Refill, OldestTime}
Key == 1 .. MaxKey      \* in the order in which they are generated
NoKey == 0
Number == 1 .. MaxKey   \* of a key in the pool; a new one takes a new key
NoNumber == -1

VARIABLES
  pool,                 \* the file: the key of each record, NoKey without one
  form,                 \* ... how it holds a key's secret
  fMasterKey,           \* ... whether it has the master key
  setKeyPool,
  fUseCrypto,           \* IsCrypted()
  fLocked,              \* the key store lacks the secret of the master key
  step,                 \* where the operation is that holds cs_wallet
  caller,               \* for whom
  vchNewKey,            \* generated and not in the pool yet
  nKeys,                \* how many have been generated
  nIndex, vchPubKey,    \* what a CReserveKey holds
  kept,                 \* for the properties only: the keys given away for good...
  renumbered            \* ... and whether a reserved number was given again

file == <<pool, form, fMasterKey>>
crypto == <<fUseCrypto, fLocked>>
reserved == <<nIndex, vchPubKey>>
keyPoolVars == <<file, setKeyPool, crypto, step, caller, vchNewKey, nKeys, reserved, kept, renumbered>>

----------------------------------------------------------------------------
Smallest(S) == CHOOSE n \in S : \A m \in S : n <= m
Largest(S) == CHOOSE n \in S : \A m \in S : m <= n

HasRecord(n) == pool[n] # NoKey

KeyPoolInit ==
  /\ pool = [n \in Number |-> NoKey]
  /\ form = [k \in Key |-> "none"]
  /\ fMasterKey = FALSE
  /\ setKeyPool = {}
  /\ fUseCrypto = FALSE /\ fLocked = FALSE
  /\ step = "free" /\ caller = NoCaller
  /\ vchNewKey = NoKey /\ nKeys = 0
  /\ nIndex = [u \in User |-> NoNumber]
  /\ vchPubKey = [u \in User |-> NoKey]
  /\ kept = {} /\ renumbered = FALSE

(* ReserveKeyFromKeyPool, for a CReserveKey that has none, for              *)
(* GetKeyFromPool or GetOldestKeyPoolTime; or TopUpKeyPool alone.           *)
Begin(c) ==
  /\ step = "free"
  /\ c \in User => nIndex[c] = NoNumber
  /\ c = Refill => ~ fLocked
  /\ caller' = c
  /\ step' = IF fLocked THEN "take" ELSE "topup"
  /\ UNCHANGED <<file, setKeyPool, crypto, vchNewKey, nKeys, reserved, kept, renumbered>>

(* mutant: the target itself, which leaves no key above the one reserved   *)
FullAtTarget == Cardinality(setKeyPool) >= nTargetSize

Full == Cardinality(setKeyPool) >= nTargetSize + 1

Wanted ==
  \/ step = "topup" /\ ~ Full
  \/ step = "filling" /\ Cardinality(setKeyPool) < nTargetSize

(* The secret is written before the record: WriteKey, or WriteCryptedKey.  *)
GenerateNewKey ==
  /\ Wanted /\ vchNewKey = NoKey
  /\ ~ fLocked
  /\ nKeys < MaxKey
  /\ nKeys' = nKeys + 1
  /\ vchNewKey' = nKeys + 1
  /\ form' = [form EXCEPT ![nKeys + 1] = IF fUseCrypto THEN "crypted" ELSE "plain"]
  /\ UNCHANGED <<pool, fMasterKey, setKeyPool, crypto, step, caller, reserved, kept, renumbered>>

(* The wallet was locked meanwhile: AddKey fails and the exception leaves   *)
(* TopUpKeyPool, or NewKeyPool and EncryptWallet.                           *)
GenerateFails ==
  /\ Wanted /\ vchNewKey = NoKey
  /\ fLocked
  /\ step' = "free" /\ caller' = NoCaller
  /\ UNCHANGED <<file, setKeyPool, crypto, vchNewKey, nKeys, reserved, kept, renumbered>>

(* TopUpKeyPool goes on from the largest number; NewKeyPool counts from 1,  *)
(* which comes to the same, for it has emptied the set.                     *)
nEnd == IF setKeyPool = {} THEN 1 ELSE Largest(setKeyPool) + 1

WritePool ==
  /\ vchNewKey # NoKey
  /\ pool' = [pool EXCEPT ![nEnd] = vchNewKey]
  /\ setKeyPool' = setKeyPool \cup {nEnd}
  /\ vchNewKey' = NoKey
  /\ renumbered' = (renumbered \/ \E u \in User : nIndex[u] = nEnd)
  /\ UNCHANGED <<form, fMasterKey, crypto, step, caller, nKeys, reserved, kept>>

RefillDone ==
  /\ step = "topup" /\ caller = Refill /\ Full /\ vchNewKey = NoKey
  /\ step' = "free" /\ caller' = NoCaller
  /\ UNCHANGED <<file, setKeyPool, crypto, vchNewKey, nKeys, reserved, kept, renumbered>>

ReadyToTake ==
  /\ caller # Refill
  /\ step = "take" \/ (step = "topup" /\ Full /\ vchNewKey = NoKey)

(* The pool is empty, and the default key is used, or none. *)
NothingToTake ==
  /\ ReadyToTake
  /\ setKeyPool = {}
  /\ step' = "free" /\ caller' = NoCaller
  /\ UNCHANGED <<file, setKeyPool, crypto, vchNewKey, nKeys, reserved, kept, renumbered>>

(* A CReserveKey takes the oldest key.  Without a record ReadPool fails:    *)
(* the object has the number, no key, and returns it as the exception       *)
(* leaves its scope.                                                        *)
ReserveKey(u) ==
  /\ ReadyToTake /\ caller = u /\ setKeyPool # {}
  /\ nIndex' = [nIndex EXCEPT ![u] = Smallest(setKeyPool)]
  /\ vchPubKey' = [vchPubKey EXCEPT ![u] = pool[Smallest(setKeyPool)]]
  /\ setKeyPool' = setKeyPool \ {Smallest(setKeyPool)}
  /\ step' = "free" /\ caller' = NoCaller
  /\ UNCHANGED <<file, crypto, vchNewKey, nKeys, kept, renumbered>>

(* mutant: the record stays *)
RecordKept(n) == pool

ErasedFrom(n) == [pool EXCEPT ![n] = NoKey]

(* GetKeyFromPool reserves and keeps at once. *)
GetKeyFromPool ==
  /\ ReadyToTake /\ caller = NewAddress /\ setKeyPool # {}
  /\ LET n == Smallest(setKeyPool) IN
       /\ kept' = kept \cup ({pool[n]} \ {NoKey})
       /\ pool' = ErasedFrom(n)
       /\ setKeyPool' = setKeyPool \ {n}
  /\ step' = "free" /\ caller' = NoCaller
  /\ UNCHANGED <<form, fMasterKey, crypto, vchNewKey, nKeys, reserved, renumbered>>

(* GetOldestKeyPoolTime returns what it reserved, unless it has no record.  *)
(* The reservation and the return each take cs_wallet; they are one step    *)
(* because the callers, RPC's getinfo, hold it over both.                   *)
GetOldestKeyPoolTime ==
  /\ ReadyToTake /\ caller = OldestTime /\ setKeyPool # {}
  /\ LET n == Smallest(setKeyPool) IN
       setKeyPool' = IF HasRecord(n) THEN setKeyPool ELSE setKeyPool \ {n}
  /\ step' = "free" /\ caller' = NoCaller
  /\ UNCHANGED <<file, crypto, vchNewKey, nKeys, reserved, kept, renumbered>>

Dropped(u) ==
  /\ nIndex' = [nIndex EXCEPT ![u] = NoNumber]
  /\ vchPubKey' = [vchPubKey EXCEPT ![u] = NoKey]

(* CReserveKey::KeepKey, when the key has been used. *)
KeepKey(u) ==
  /\ step = "free" /\ vchPubKey[u] # NoKey
  /\ pool' = ErasedFrom(nIndex[u])
  /\ kept' = kept \cup {vchPubKey[u]}
  /\ Dropped(u)
  /\ UNCHANGED <<form, fMasterKey, setKeyPool, crypto, step, caller, vchNewKey, nKeys, renumbered>>

(* CReserveKey::ReturnKey: the payment failed, or the block was made: the   *)
(* miner keeps another object, which has no key.                            *)
ReturnKey(u) ==
  /\ step = "free" /\ nIndex[u] # NoNumber
  /\ setKeyPool' = setKeyPool \cup {nIndex[u]}
  /\ Dropped(u)
  /\ UNCHANGED <<file, crypto, step, caller, vchNewKey, nKeys, kept, renumbered>>

----------------------------------------------------------------------------
(* Encryption, locking                                                     *)

(* EncryptKeys: in memory, and in a transaction on the file not committed  *)
(* yet.  Where it or the commit fails the process exits, which is a crash. *)
EncryptKeys ==
  /\ step = "free" /\ ~ fUseCrypto
  /\ fUseCrypto' = TRUE /\ fLocked' = TRUE
  /\ step' = "crypting"
  /\ UNCHANGED <<file, setKeyPool, caller, vchNewKey, nKeys, reserved, kept, renumbered>>

(* mutant: the master key is committed by itself *)
StillPlain == form

Encrypted == [k \in Key |-> IF form[k] = "plain" THEN "crypted" ELSE form[k]]

(* The master key and all keys are committed at once, and the wallet is     *)
(* unlocked for the new pool.                                               *)
TxnCommit ==
  /\ step = "crypting"
  /\ fMasterKey' = TRUE
  /\ form' = Encrypted
  /\ fLocked' = FALSE
  /\ step' = "erasing"
  /\ UNCHANGED <<pool, setKeyPool, fUseCrypto, caller, vchNewKey, nKeys, reserved, kept, renumbered>>

ToErase == {n \in setKeyPool : HasRecord(n)}

ErasePool ==
  /\ step = "erasing" /\ ToErase # {}
  /\ pool' = ErasedFrom(Smallest(ToErase))
  /\ UNCHANGED <<form, fMasterKey, setKeyPool, crypto, step, caller, vchNewKey, nKeys, reserved, kept, renumbered>>

(* A wallet locked meanwhile gets no new keys. *)
ClearPool ==
  /\ step = "erasing" /\ ToErase = {}
  /\ setKeyPool' = {}
  /\ step' = IF fLocked THEN "free" ELSE "filling"
  /\ UNCHANGED <<file, crypto, caller, vchNewKey, nKeys, reserved, kept, renumbered>>

EncryptionDone ==
  /\ step = "filling" /\ vchNewKey = NoKey
  /\ Cardinality(setKeyPool) = nTargetSize
  /\ fLocked' = TRUE
  /\ step' = "free"
  /\ UNCHANGED <<file, setKeyPool, fUseCrypto, caller, vchNewKey, nKeys, reserved, kept, renumbered>>

(* mutant: the key store forgets a master key it never had *)
LockableAnyway == ~ fLocked

(* SetCrypted refuses a wallet with unencrypted keys. *)
Lockable == fUseCrypto /\ ~ fLocked

(* walletlock, the end of walletpassphrase's time, the user interface. *)
Lock ==
  /\ Lockable
  /\ fLocked' = TRUE
  /\ UNCHANGED <<file, setKeyPool, fUseCrypto, step, caller, vchNewKey, nKeys, reserved, kept, renumbered>>

Unlock ==
  /\ step = "free" /\ fUseCrypto /\ fLocked
  /\ fLocked' = FALSE
  /\ UNCHANGED <<file, setKeyPool, fUseCrypto, step, caller, vchNewKey, nKeys, reserved, kept, renumbered>>

(* mutant: what is in memory goes by the keys, not by the records *)
LoadedByKeys == {n \in Number : n <= nKeys}

(* LoadWallet takes the numbers of the records there are. *)
Loaded == {n \in Number : HasRecord(n)}

(* The process ends, in the middle of anything, and starts again.  At a     *)
(* shutdown no CReserveKey returns its key.                                 *)
Restart ==
  /\ setKeyPool' = Loaded
  /\ fUseCrypto' = fMasterKey /\ fLocked' = fMasterKey
  /\ step' = "free" /\ caller' = NoCaller
  /\ vchNewKey' = NoKey
  /\ nIndex' = [u \in User |-> NoNumber]
  /\ vchPubKey' = [u \in User |-> NoKey]
  /\ renumbered' = FALSE
  /\ UNCHANGED <<file, nKeys, kept>>

KeyPoolNext ==
  \/ \E c \in Caller : Begin(c)
  \/ GenerateNewKey \/ GenerateFails \/ WritePool
  \/ RefillDone \/ NothingToTake \/ GetKeyFromPool \/ GetOldestKeyPoolTime
  \/ \E u \in User : ReserveKey(u) \/ KeepKey(u) \/ ReturnKey(u)
  \/ EncryptKeys \/ TxnCommit \/ ErasePool \/ ClearPool \/ EncryptionDone
  \/ Lock \/ Unlock \/ Restart

KeyPoolSpec == KeyPoolInit /\ [][KeyPoolNext]_keyPoolVars

----------------------------------------------------------------------------
(***************************************************************************)
(* Correctness                                                             *)
(***************************************************************************)
KeyPoolTypeOK ==
  /\ pool \in [Number -> Key \cup {NoKey}]
  /\ form \in [Key -> {"none", "plain", "crypted"}]
  /\ fMasterKey \in BOOLEAN
  /\ setKeyPool \subseteq Number
  /\ fUseCrypto \in BOOLEAN /\ fLocked \in BOOLEAN
  /\ fLocked => fUseCrypto
  /\ step \in {"free", "topup", "take", "crypting", "erasing", "filling"}
  /\ caller \in Caller \cup {NoCaller}
  /\ vchNewKey \in Key \cup {NoKey}
  /\ nKeys \in 0 .. MaxKey
  /\ nIndex \in [User -> Number \cup {NoNumber}]
  /\ vchPubKey \in [User -> Key \cup {NoKey}]
  /\ kept \subseteq Key
  /\ renumbered \in BOOLEAN

(* "so it won't be used again": a key kept or given out as an address is     *)
(* never in the pool again, whatever crashes, restarts or renumbering.      *)
KeptIsGone == \A n \in Number : pool[n] \notin kept

(* Unless a reserved number has been given again, every number in the pool   *)
(* has a record: "read failed" cannot happen.                               *)
PoolReadable ==
  ~ renumbered /\ step # "erasing" => \A n \in setKeyPool : HasRecord(n)

(* Unless that happens, no key is with two users, or with one and in the    *)
(* pool or given away, and each can be returned; and it happens only in an  *)
(* encrypted wallet or without a pool, which a reserved key can outlive.    *)
ReservedApart ==
  /\ renumbered => fUseCrypto \/ nTargetSize = 0
  /\ ~ renumbered =>
       \A u \in User : nIndex[u] # NoNumber =>
         /\ nIndex[u] \notin setKeyPool
         /\ vchPubKey[u] = pool[nIndex[u]]
         /\ vchPubKey[u] \notin kept
         /\ \A v \in User \ {u} : vchPubKey[v] # vchPubKey[u]

(* A crash leaves the wallet encrypted as a whole or not at all, and every   *)
(* key of the pool with its secret.                                         *)
FileWhole ==
  /\ \A k \in Key : form[k] \in {"none", IF fMasterKey THEN "crypted" ELSE "plain"}
  /\ \A n \in Number : HasRecord(n) => form[pool[n]] # "none"
  /\ step # "crypting" => fUseCrypto = fMasterKey
============================================================================
