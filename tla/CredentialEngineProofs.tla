----------------------- MODULE CredentialEngineProofs -----------------------
(***************************************************************************)
(* Proofs about the credential engine: what each engine call does to the  *)
(* engine's state and what it returns to its caller, and that the          *)
(* discoverable index stays sound for every value of the constants.        *)
(***************************************************************************)
EXTENDS CredentialEngine, TLAPS

(* The part of the engine state that a call may change and that the       *)
(* invariants read; reply and lastCount are typed separately.             *)
StoreTypeOK ==
  /\ keys \in [CredIds -> Credential \cup {None}]
  /\ idLookup \in [RPs -> [Users -> CredIds \cup {None}]]
  /\ poisoned \in BOOLEAN

(* What a caller may rely on after make_credential returns: a typed       *)
(* state, a real status, and on "Ok" a handle that was free before and    *)
(* now holds the new credential, with no other record touched.            *)
MakeCredentialPost(rp, user) ==
  /\ EngineTypeOK'
  /\ reply'.st \in Status \ {"none"}
  /\ reply'.st = "Ok" =>
       /\ reply'.id \in CredIds
       /\ keys[reply'.id] = None
       /\ keys' = [keys EXCEPT ![reply'.id] = [rp |-> rp, user |-> user]]
       /\ idLookup' = [idLookup EXCEPT ![rp][user] = reply'.id]
  /\ reply'.st # "Ok" => UNCHANGED <<keys, idLookup>>

(* make_credential keeps the engine typed and returns a fresh handle.     *)
LEMMA MakeCredentialEffect ==
  ASSUME NEW rp \in RPs, NEW user \in Users,
         EngineTypeOK, MakeCredential(rp, user)
  PROVE  MakeCredentialPost(rp, user)
<1>1. CASE PoisonedCall
  BY <1>1 DEF PoisonedCall, MakeCredentialPost, EngineTypeOK, Fail, NoReply,
              Reply, Status
<1>2. CASE ~poisoned /\ "rng" \in Faults /\ reply' = Fail("RngError")
           /\ UNCHANGED <<keys, idLookup, poisoned, lastCount>>
  BY <1>2 DEF MakeCredentialPost, EngineTypeOK, Fail, NoReply, Reply, Status
<1>3. CASE ~poisoned /\ StorageFailure
  BY <1>3 DEF StorageFailure, MakeCredentialPost, EngineTypeOK, Fail,
              NoReply, Reply, Status
<1>4. CASE ~poisoned /\ \E id \in CredIds :
             /\ keys[id] = None
             /\ PutDiscoverable(id, [rp |-> rp, user |-> user])
             /\ reply' = [NoReply EXCEPT !.st = "Ok", !.id = id]
             /\ UNCHANGED <<poisoned, lastCount>>
  <2>1. PICK id \in CredIds :
             /\ keys[id] = None
             /\ PutDiscoverable(id, [rp |-> rp, user |-> user])
             /\ reply' = [NoReply EXCEPT !.st = "Ok", !.id = id]
             /\ UNCHANGED <<poisoned, lastCount>>
    BY <1>4
  <2>2. reply'.st = "Ok" /\ reply'.id = id
    BY <2>1 DEF NoReply
  <2>3. EngineTypeOK'
    BY <2>1 DEF PutDiscoverable, EngineTypeOK, Credential, NoReply, Reply,
                Status
  <2>. QED
    BY <2>1, <2>2, <2>3 DEF PutDiscoverable, MakeCredentialPost, Status
<1>. QED
  BY <1>1, <1>2, <1>3, <1>4 DEF MakeCredential

(* What a caller may rely on after attest or assert with data: a typed    *)
(* state, a real status, the store untouched, and data returned on "Ok"   *)
(* only when the credential is stored.                                    *)
SignWithPost(id, data) ==
  /\ EngineTypeOK'
  /\ reply'.st \in Status \ {"none"}
  /\ UNCHANGED <<keys, idLookup>>
  /\ reply'.st = "Ok" => reply'.data = data /\ keys[id] # None

LEMMA SignWithEffect ==
  ASSUME NEW id \in CredIds, NEW data \in AuthData,
         EngineTypeOK, SignWith(id, data)
  PROVE  SignWithPost(id, data)
<1>1. CASE PoisonedCall
  BY <1>1 DEF PoisonedCall, SignWithPost, EngineTypeOK, Fail, NoReply,
              Reply, Status
<1>2. CASE ~poisoned /\ StorageFailure
  BY <1>2 DEF StorageFailure, SignWithPost, EngineTypeOK, Fail, NoReply,
              Reply, Status
<1>3. CASE ~poisoned /\ PanicHoldingLock
  BY <1>3 DEF PanicHoldingLock, SignWithPost, EngineTypeOK, Fail, NoReply,
              Reply, Status
<1>4. CASE ~poisoned /\ keys[id] # None /\ Signed(id, data)
  <2>1. data.count \in 0..2
    BY DEF AuthData
  <2>2. lastCount' \in [CredIds -> 0..2]
    BY <1>4, <2>1 DEF Signed, EngineTypeOK
  <2>3. reply' \in Reply /\ reply'.st = "Ok" /\ reply'.data = data
    BY <1>4 DEF Signed, NoReply, Reply, Status
  <2>. QED
    BY <1>4, <2>2, <2>3 DEF Signed, SignWithPost, EngineTypeOK, Status
<1>. QED
  BY <1>1, <1>2, <1>3, <1>4 DEF SignWith

(* The listings change nothing but the reply.                             *)
LEMMA ListEffect ==
  ASSUME NEW rp \in RPs, NEW ds \in SUBSET CredIds, EngineTypeOK,
         ListDiscoverable(rp) \/ ListSpecified(rp, ds)
  PROVE  EngineTypeOK' /\ UNCHANGED <<keys, idLookup>>
<1>1. CASE PoisonedCall \/ (~poisoned /\ StorageFailure)
  BY <1>1 DEF PoisonedCall, StorageFailure, EngineTypeOK, Fail, NoReply,
              Reply, Status
<1>2. CASE ~poisoned /\ reply' = [NoReply EXCEPT !.st = "Ok",
                          !.list = {idLookup[rp][u] : u \in Users} \ {None}]
           /\ UNCHANGED <<keys, idLookup, poisoned, lastCount>>
  <2>1. {idLookup[rp][u] : u \in Users} \ {None} \subseteq CredIds
    BY DEF EngineTypeOK
  <2>. QED
    BY <1>2, <2>1 DEF EngineTypeOK, NoReply, Reply, Status
<1>3. CASE ~poisoned /\ reply' = [NoReply EXCEPT !.st = "Ok",
                          !.list = {id \in ds :
                                      keys[id] # None /\ keys[id].rp = rp}]
           /\ UNCHANGED <<keys, idLookup, poisoned, lastCount>>
  BY <1>3 DEF EngineTypeOK, NoReply, Reply, Status
<1>. QED
  BY <1>1, <1>2, <1>3 DEF ListDiscoverable, ListSpecified

-----------------------------------------------------------------------------
(* put_discoverable of a fresh id keeps the index sound.                  *)
LEMMA PutFreshKeepsIndexSound ==
  ASSUME StoreTypeOK, IndexSound,
         NEW id \in CredIds, NEW rp \in RPs, NEW user \in Users,
         keys[id] = None,
         keys' = [keys EXCEPT ![id] = [rp |-> rp, user |-> user]],
         idLookup' = [idLookup EXCEPT ![rp][user] = id]
  PROVE  IndexSound'
<1>. SUFFICES ASSUME NEW rp2 \in RPs, NEW u2 \in Users, idLookup'[rp2][u2] # None
              PROVE  keys'[idLookup'[rp2][u2]] = [rp |-> rp2, user |-> u2]
  BY DEF IndexSound
<1>1. CASE rp2 = rp /\ u2 = user
  BY <1>1 DEF StoreTypeOK
<1>2. CASE ~(rp2 = rp /\ u2 = user)
  <2>1. idLookup'[rp2][u2] = idLookup[rp2][u2]
    BY <1>2 DEF StoreTypeOK
  <2>2. keys[idLookup[rp2][u2]] = [rp |-> rp2, user |-> u2]
    BY <2>1 DEF IndexSound
  <2>3. idLookup[rp2][u2] # id
    BY <2>2, EngineAssumption
  <2>. QED
    BY <2>1, <2>2, <2>3 DEF StoreTypeOK
<1>. QED
  BY <1>1, <1>2

(* The engine's type invariant holds in every state of its runs.          *)
LEMMA EngineInitTyped == EngineInit => EngineTypeOK /\ IndexSound
<1> SUFFICES ASSUME EngineInit PROVE EngineTypeOK /\ IndexSound
  OBVIOUS
<1>1. NoReply \in Reply
  BY DEF NoReply, Reply, Status
<1>2. lastCount \in [CredIds -> 0..2]
  BY DEF EngineInit
<1>3. IndexSound
  BY DEF EngineInit, IndexSound
<1>. QED
  BY <1>1, <1>2, <1>3 DEF EngineInit, EngineTypeOK

THEOREM EngineTypeCorrect == EngineSpec => []EngineTypeOK
<1>1. EngineInit => EngineTypeOK
  BY EngineInitTyped
<1>2. EngineTypeOK /\ [EngineNext]_engineVars => EngineTypeOK'
  <2> SUFFICES ASSUME EngineTypeOK, [EngineNext]_engineVars
               PROVE  EngineTypeOK'
    OBVIOUS
  <2>1. CASE EngineNext
    <3> PICK rp \in RPs, user \in Users, id \in CredIds, up, uv \in BOOLEAN :
          \/ MakeCredential(rp, user)
          \/ Attest(rp, id, up, uv)
          \/ AssertCredential(rp, id, up, uv)
          \/ ListDiscoverable(rp)
          \/ \E ds \in SUBSET CredIds : ListSpecified(rp, ds)
      BY <2>1 DEF EngineNext
    <3>1. CASE MakeCredential(rp, user)
      BY <3>1, MakeCredentialEffect DEF MakeCredentialPost
    <3>2. CASE Attest(rp, id, up, uv)
      <4>. [rp |-> rp, up |-> up, uv |-> uv, count |-> 1,
            attested |-> id, signer |-> AttestationKey] \in AuthData
        BY DEF AuthData
      <4>. QED
        BY <3>2, SignWithEffect DEF Attest, SignWithPost
    <3>3. CASE AssertCredential(rp, id, up, uv)
      <4>. [rp |-> rp, up |-> up, uv |-> uv, count |-> 2,
            attested |-> None, signer |-> id] \in AuthData
        BY DEF AuthData
      <4>. QED
        BY <3>3, SignWithEffect DEF AssertCredential, SignWithPost
    <3>4. CASE ListDiscoverable(rp) \/ \E ds \in SUBSET CredIds : ListSpecified(rp, ds)
      BY <3>4, ListEffect
    <3>. QED
      BY <3>1, <3>2, <3>3, <3>4
  <2>2. CASE UNCHANGED engineVars
    BY <2>2 DEF EngineTypeOK, engineVars
  <2>. QED
    BY <2>1, <2>2
<1>. QED
  BY <1>1, <1>2, PTL DEF EngineSpec

-----------------------------------------------------------------------------
(* A step that keeps the engine typed, changes the store only by putting  *)
(* a fresh credential, keeps the discoverable index sound.                *)
LEMMA StoreStepKeepsIndexSound ==
  ASSUME NEW rp \in RPs, NEW user \in Users,
         EngineTypeOK, IndexSound, MakeCredential(rp, user)
  PROVE  IndexSound'
<1>1. MakeCredentialPost(rp, user)
  BY MakeCredentialEffect
<1>2. CASE reply'.st = "Ok"
  BY <1>1, <1>2, PutFreshKeepsIndexSound DEF MakeCredentialPost, StoreTypeOK,
     EngineTypeOK
<1>3. CASE reply'.st # "Ok"
  BY <1>1, <1>3 DEF MakeCredentialPost, IndexSound
<1>. QED
  BY <1>2, <1>3

(* Every entry of the discoverable index names a stored credential of     *)
(* that (rp, user), whichever calls the engine serves in whatever order.  *)
THEOREM EngineIndexSound == EngineSpec => [](EngineTypeOK /\ IndexSound)
<1>1. EngineInit => EngineTypeOK /\ IndexSound
  BY EngineInitTyped
<1>2. EngineTypeOK /\ IndexSound /\ [EngineNext]_engineVars => IndexSound'
  <2> SUFFICES ASSUME EngineTypeOK, IndexSound, [EngineNext]_engineVars
               PROVE  IndexSound'
    OBVIOUS
  <2>1. CASE EngineNext
    <3> PICK rp \in RPs, user \in Users, id \in CredIds, up, uv \in BOOLEAN :
          \/ MakeCredential(rp, user)
          \/ Attest(rp, id, up, uv)
          \/ AssertCredential(rp, id, up, uv)
          \/ ListDiscoverable(rp)
          \/ \E ds \in SUBSET CredIds : ListSpecified(rp, ds)
      BY <2>1 DEF EngineNext
    <3>1. CASE MakeCredential(rp, user)
      BY <3>1, StoreStepKeepsIndexSound
    <3>2. CASE Attest(rp, id, up, uv) \/ AssertCredential(rp, id, up, uv)
      <4>1. UNCHANGED <<keys, idLookup>>
        <5>1. [rp |-> rp, up |-> up, uv |-> uv, count |-> 1,
               attested |-> id, signer |-> AttestationKey] \in AuthData
          BY DEF AuthData
        <5>2. [rp |-> rp, up |-> up, uv |-> uv, count |-> 2,
               attested |-> None, signer |-> id] \in AuthData
          BY DEF AuthData
        <5>. QED
          BY <3>2, <5>1, <5>2, SignWithEffect DEF Attest, AssertCredential,
             SignWithPost
      <4>. QED
        BY <4>1 DEF IndexSound
    <3>3. CASE ListDiscoverable(rp) \/ \E ds \in SUBSET CredIds : ListSpecified(rp, ds)
      BY <3>3, ListEffect DEF IndexSound
    <3>. QED
      BY <3>1, <3>2, <3>3
  <2>2. CASE UNCHANGED engineVars
    BY <2>2 DEF IndexSound, engineVars
  <2>. QED
    BY <2>1, <2>2
<1>. QED
  BY <1>1, <1>2, EngineTypeCorrect, PTL DEF EngineSpec

-----------------------------------------------------------------------------
(* A call that neither stores a record nor poisons the mutex is a stutter *)
(* of the registry.                                                       *)
LEMMA RegistryStutter ==
  ASSUME UNCHANGED <<keys, poisoned>>
  PROVE  [Registry!RegNext]_Registry!regVars
BY DEF Registry!regVars

(* make_credential registers its credential under a free id, or fails     *)
(* without touching the store.                                            *)
LEMMA MakeCredentialRefines ==
  ASSUME NEW rp \in RPs, NEW user \in Users, MakeCredential(rp, user)
  PROVE  [Registry!RegNext]_Registry!regVars
<1>1. CASE PoisonedCall
  BY <1>1, RegistryStutter DEF PoisonedCall
<1>2. CASE ~poisoned /\ ("rng" \in Faults /\ reply' = Fail("RngError")
                         /\ UNCHANGED <<keys, idLookup, poisoned, lastCount>>)
  BY <1>2, RegistryStutter
<1>3. CASE ~poisoned /\ StorageFailure
  BY <1>3, RegistryStutter DEF StorageFailure
<1>4. CASE ~poisoned /\ \E id \in CredIds :
             /\ keys[id] = None
             /\ PutDiscoverable(id, [rp |-> rp, user |-> user])
             /\ reply' = [NoReply EXCEPT !.st = "Ok", !.id = id]
             /\ UNCHANGED <<poisoned, lastCount>>
  <2>1. PICK id \in CredIds :
             /\ keys[id] = None
             /\ PutDiscoverable(id, [rp |-> rp, user |-> user])
             /\ UNCHANGED poisoned
    BY <1>4
  <2>2. [rp |-> rp, user |-> user] \in Credential
    BY DEF Credential
  <2>3. Registry!Register(id, [rp |-> rp, user |-> user])
    BY <1>4, <2>1 DEF Registry!Register, PutDiscoverable
  <2>. QED
    BY <2>2, <2>3 DEF Registry!RegNext
<1>. QED
  BY <1>1, <1>2, <1>3, <1>4 DEF MakeCredential

(* attest and assert never store: their only effect on the registry is a  *)
(* panic with the guard held, which breaks it.                            *)
LEMMA SignWithRefines ==
  ASSUME NEW id \in CredIds, NEW data, SignWith(id, data)
  PROVE  [Registry!RegNext]_Registry!regVars
<1>1. CASE PoisonedCall \/ (~poisoned /\ StorageFailure)
  BY <1>1, RegistryStutter DEF PoisonedCall, StorageFailure
<1>2. CASE ~poisoned /\ PanicHoldingLock
  <2>1. Registry!Break
    BY <1>2 DEF Registry!Break, PanicHoldingLock
  <2>. QED
    BY <2>1 DEF Registry!RegNext
<1>3. CASE ~poisoned /\ Signed(id, data)
  BY <1>3, RegistryStutter DEF Signed
<1>. QED
  BY <1>1, <1>2, <1>3 DEF SignWith

(* The listings only read.                                                *)
LEMMA ListRefines ==
  ASSUME NEW rp, NEW ds, ListDiscoverable(rp) \/ ListSpecified(rp, ds)
  PROVE  [Registry!RegNext]_Registry!regVars
<1>1. UNCHANGED <<keys, poisoned>>
  BY DEF ListDiscoverable, ListSpecified, PoisonedCall, StorageFailure
<1>. QED
  BY <1>1, RegistryStutter

(* The engine implements the credential registry: the initial store is    *)
(* the empty registry, and each call of SoftwareCryptoStore registers one *)
(* credential under a free id, breaks the registry by poisoning the       *)
(* mutex, or leaves it as it was.                                         *)
THEOREM EngineImplementsRegistry == EngineSpec => ImplementsRegistry
<1>1. EngineInit => Registry!RegInit
  BY DEF EngineInit, Registry!RegInit
<1>2. [EngineNext]_engineVars => [Registry!RegNext]_Registry!regVars
  <2> SUFFICES ASSUME [EngineNext]_engineVars
               PROVE  [Registry!RegNext]_Registry!regVars
    OBVIOUS
  <2>1. CASE EngineNext
    <3> PICK rp \in RPs, user \in Users, id \in CredIds, up, uv \in BOOLEAN :
          \/ MakeCredential(rp, user)
          \/ Attest(rp, id, up, uv)
          \/ AssertCredential(rp, id, up, uv)
          \/ ListDiscoverable(rp)
          \/ \E ds \in SUBSET CredIds : ListSpecified(rp, ds)
      BY <2>1 DEF EngineNext
    <3>1. CASE MakeCredential(rp, user)
      BY <3>1, MakeCredentialRefines
    <3>2. CASE Attest(rp, id, up, uv) \/ AssertCredential(rp, id, up, uv)
      BY <3>2, SignWithRefines DEF Attest, AssertCredential
    <3>3. CASE ListDiscoverable(rp) \/ \E ds \in SUBSET CredIds : ListSpecified(rp, ds)
      BY <3>3, ListRefines
    <3>. QED
      BY <3>1, <3>2, <3>3
  <2>2. CASE UNCHANGED engineVars
    BY <2>2, RegistryStutter DEF engineVars
  <2>. QED
    BY <2>1, <2>2
<1>. QED
  BY <1>1, <1>2, PTL DEF EngineSpec, ImplementsRegistry, Registry!RegSpec

=============================================================================
