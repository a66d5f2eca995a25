-------------------------- MODULE CredentialEngine --------------------------
(***************************************************************************)
(* The credential engine SoftwareCryptoStore<S> of                         *)
(* src/fido2-service/src/storage.rs, with its CredentialStorage backend    *)
(* modelled after the in-memory store of authenticator.rs (put / get).     *)
(*                                                                         *)
(* Every operation runs `self.0.lock().unwrap()` and then a body with no   *)
(* await in it, so each call is one atomic step.  The std Mutex is         *)
(* poisoned when a body panics with the guard held (the `todo!("error")`   *)
(* of an unknown handle, the `.unwrap()` of a failed signature); after     *)
(* that every `lock().unwrap()` panics.                                    *)
(*                                                                         *)
(* Key material, hashes and signatures are abstracted: a credential is the *)
(* (rp, user) it is bound to, authenticator data is a record naming the    *)
(* relying party it was built for, its flags, its sign_count, the          *)
(* credential it attests (if any) and the key that signed it.              *)
(***************************************************************************)
EXTENDS Naturals

CONSTANTS
  RPs,        \* relying-party identifiers
  Users,      \* user handles
  CredIds,    \* the credential ids the key generator may produce (the bound)
  None,       \* absent value: no record, no index entry, no data
  Faults      \* the dependency failures this run lets happen

ASSUME EngineAssumption ==
  /\ None \notin CredIds \cup RPs \cup Users \cup [rp : RPs, user : Users]
  /\ Faults \subseteq {"rng", "storage", "sign", "presence"}

VARIABLES
  keys,       \* credential id -> stored PrivateKeyCredentialSource (or None)
  idLookup,   \* rp -> user -> credential id of the discoverable index
  poisoned,   \* the Mutex around Data<S> is poisoned
  reply,      \* what the last engine call returned to its caller
  lastCount   \* history: sign_count of the last signature made per credential

engineVars == <<keys, idLookup, poisoned, reply, lastCount>>

Credential == [rp : RPs, user : Users]

(* The attestation key of the AttestationSource signs attestations. *)
AttestationKey == "attestation"

AuthData == [rp : RPs, up : BOOLEAN, uv : BOOLEAN, count : {1, 2},
             attested : CredIds \cup {None},
             signer : CredIds \cup {AttestationKey}]

Status == {"none", "Ok", "StorageError", "RngError", "Panic"}

Reply == [st : Status, id : CredIds \cup {None},
          data : AuthData \cup {None}, list : SUBSET CredIds]

NoReply == [st |-> "none", id |-> None, data |-> None, list |-> {}]

Fail(st) == [NoReply EXCEPT !.st = st]

EngineTypeOK ==
  /\ keys \in [CredIds -> Credential \cup {None}]
  /\ idLookup \in [RPs -> [Users -> CredIds \cup {None}]]
  /\ poisoned \in BOOLEAN
  /\ reply \in Reply
  /\ lastCount \in [CredIds -> 0..2]

EngineInit ==
  /\ keys = [id \in CredIds |-> None]
  /\ idLookup = [rp \in RPs |-> [u \in Users |-> None]]
  /\ poisoned = FALSE
  /\ reply = NoReply
  /\ lastCount = [id \in CredIds |-> 0]

-----------------------------------------------------------------------------
(* Mutant: the poison is cleared (lock() recovered with into_inner) and   *)
(* the call reports a panic.                                              *)
PoisonedCallRecovering ==
  /\ poisoned
  /\ poisoned' = FALSE
  /\ reply' = Fail("Panic")
  /\ UNCHANGED <<keys, idLookup, lastCount>>

(* self.0.lock().unwrap() on a poisoned mutex: the call panics at once.   *)
PoisonedCall ==
  /\ poisoned
  /\ reply' = Fail("Panic")
  /\ UNCHANGED <<keys, idLookup, poisoned, lastCount>>

(* A panic while the guard is held poisons the mutex.                     *)
PanicHoldingLock ==
  /\ poisoned' = TRUE
  /\ reply' = Fail("Panic")
  /\ UNCHANGED <<keys, idLookup, lastCount>>

(* A `?` on a storage error: the error is returned, nothing is changed.   *)
StorageFailure ==
  /\ "storage" \in Faults
  /\ reply' = Fail("StorageError")
  /\ UNCHANGED <<keys, idLookup, poisoned, lastCount>>

(* CredentialStorage::put_discoverable, as the in-memory store does it:   *)
(* the (rp, user) index entry now names id, and id maps to the record.     *)
PutDiscoverable(id, cred) ==
  /\ idLookup' = [idLookup EXCEPT ![cred.rp][cred.user] = id]
  /\ keys' = [keys EXCEPT ![id] = cred]

(* A signature made with data: returned, and its count recorded.          *)
Signed(id, data) ==
  /\ reply' = [NoReply EXCEPT !.st = "Ok", !.data = data]
  /\ lastCount' = [lastCount EXCEPT ![id] = data.count]
  /\ UNCHANGED <<keys, idLookup, poisoned>>

(* Mutant: a generated id that collides with a stored one is put anyway. *)
MakeCredentialReusingId(rp, user) ==
  \/ PoisonedCall
  \/ /\ ~poisoned
     /\ \/ /\ "rng" \in Faults
           /\ reply' = Fail("RngError")
           /\ UNCHANGED <<keys, idLookup, poisoned, lastCount>>
        \/ StorageFailure
        \/ \E id \in CredIds :
             /\ PutDiscoverable(id, [rp |-> rp, user |-> user])
             /\ reply' = [NoReply EXCEPT !.st = "Ok", !.id = id]
             /\ UNCHANGED <<poisoned, lastCount>>

(* Mutant: the stored record is returned instead of key.handle().        *)
MakeCredentialReturningRecord(rp, user) ==
  \/ PoisonedCall
  \/ /\ ~poisoned
     /\ \/ /\ "rng" \in Faults
           /\ reply' = Fail("RngError")
           /\ UNCHANGED <<keys, idLookup, poisoned, lastCount>>
        \/ StorageFailure
        \/ \E id \in CredIds :
             /\ keys[id] = None
             /\ PutDiscoverable(id, [rp |-> rp, user |-> user])
             /\ reply' = [NoReply EXCEPT !.st = "Ok", !.id = keys'[id]]
             /\ UNCHANGED <<poisoned, lastCount>>

(* make_credential: generate a key (may fail), put it, return its handle. *)
(* A freshly generated credential id is assumed not to collide with a     *)
(* stored one.                                                            *)
MakeCredential(rp, user) ==
  \/ PoisonedCall
  \/ /\ ~poisoned
     /\ \/ /\ "rng" \in Faults
           /\ reply' = Fail("RngError")
           /\ UNCHANGED <<keys, idLookup, poisoned, lastCount>>
        \/ StorageFailure
        \/ \E id \in CredIds :
             /\ keys[id] = None
             /\ PutDiscoverable(id, [rp |-> rp, user |-> user])
             /\ reply' = [NoReply EXCEPT !.st = "Ok", !.id = id]
             /\ UNCHANGED <<poisoned, lastCount>>

(* Lookup shared by attest and assert: a storage error is returned, an    *)
(* unknown handle hits todo!("error") and a failed sign(..).unwrap()      *)
(* panics, both with the guard held.                                      *)
SignWith(id, data) ==
  \/ PoisonedCall
  \/ /\ ~poisoned
     /\ \/ StorageFailure
        \/ keys[id] = None /\ PanicHoldingLock
        \/ keys[id] # None /\ "sign" \in Faults /\ PanicHoldingLock
        \/ keys[id] # None /\ Signed(id, data)

(* attest: sign_count 1, the attested credential block, signed by the     *)
(* AttestationSource's key.                                               *)
Attest(rp, id, up, uv) ==
  SignWith(id, [rp |-> rp, up |-> up, uv |-> uv, count |-> 1,
                attested |-> id, signer |-> AttestationKey])

(* assert (renamed: TLC defines Assert): sign_count 2, no attested block, *)
(* signed by the credential's own key.                                    *)
AssertCredential(rp, id, up, uv) ==
  SignWith(id, [rp |-> rp, up |-> up, uv |-> uv, count |-> 2,
                attested |-> None, signer |-> id])

(* Read-only listings, delegated to storage under the lock.               *)
ListDiscoverable(rp) ==
  \/ PoisonedCall
  \/ /\ ~poisoned
     /\ \/ StorageFailure
        \/ /\ reply' = [NoReply EXCEPT !.st = "Ok",
                          !.list = {idLookup[rp][u] : u \in Users} \ {None}]
           /\ UNCHANGED <<keys, idLookup, poisoned, lastCount>>

ListSpecified(rp, descriptors) ==
  \/ PoisonedCall
  \/ /\ ~poisoned
     /\ \/ StorageFailure
        \/ /\ reply' = [NoReply EXCEPT !.st = "Ok",
                          !.list = {id \in descriptors :
                                      keys[id] # None /\ keys[id].rp = rp}]
           /\ UNCHANGED <<keys, idLookup, poisoned, lastCount>>

-----------------------------------------------------------------------------
(* The engine on its own, called by any caller with any arguments.        *)
EngineNext ==
  \E rp \in RPs, user \in Users, id \in CredIds, up, uv \in BOOLEAN :
    \/ MakeCredential(rp, user)
    \/ Attest(rp, id, up, uv)
    \/ AssertCredential(rp, id, up, uv)
    \/ ListDiscoverable(rp)
    \/ \E ds \in SUBSET CredIds : ListSpecified(rp, ds)

EngineSpec == EngineInit /\ [][EngineNext]_engineVars

-----------------------------------------------------------------------------
(* Every entry of the discoverable index names a stored credential bound   *)
(* to exactly that (rp, user): put_discoverable keeps the index and the    *)
(* records in step, and a new credential never overwrites an old record.   *)
IndexSound ==
  \A rp \in RPs, u \in Users :
    idLookup[rp][u] # None => keys[idLookup[rp][u]] = [rp |-> rp, user |-> u]

(* The spec's invariant for the signature counter: the sign_count of the  *)
(* signatures made with one credential never decreases (attest hard-codes *)
(* 1 and assert 2).                                                       *)
CounterNonDecreasing ==
  [][\A id \in CredIds : lastCount'[id] >= lastCount[id]]_engineVars

(* The spec of attest (sections 4.3 and 4.4): an unknown descriptor fails *)
(* with a not-found condition.  So no call on an unknown handle breaks    *)
(* the engine: its mutex is poisoned only when a signature fails.         *)
EngineUsable == poisoned => "sign" \in Faults

(* The engine seen as the registry it promises: the stored records, and   *)
(* whether the mutex is still unpoisoned.                                 *)
Registry == INSTANCE CredentialRegistry
              WITH Ids <- CredIds, Records <- Credential,
                   registry <- keys, usable <- ~poisoned

(* The engine implements the registry: make_credential only ever adds a   *)
(* record under a free id, nothing rewrites or removes one, and once the  *)
(* mutex is poisoned no call changes the store again.                     *)
ImplementsRegistry == Registry!RegSpec

=============================================================================
