------------------------- MODULE AuthenticatorProofs -------------------------
(***************************************************************************)
(* Proofs about the orchestrator composed with the engine, for any set of  *)
(* concurrent requests and any commands: the type invariant, and that a   *)
(* request's handle and its successful response stay bound to the          *)
(* credential it created however the other requests interleave.            *)
(***************************************************************************)
EXTENDS Authenticator, CredentialEngineProofs

(* Where a request is tells what it holds: it has an outcome exactly when  *)
(* it has returned, no handle before make_credential answered, and a      *)
(* handle while it attests.                                               *)
PcConsistent ==
  \A r \in Requests :
    /\ (outcome[r] = "none") <=> (pc[r] # "done")
    /\ pc[r] \in {"start", "presence", "create"} => handle[r] = None
    /\ pc[r] = "attest" => handle[r] # None

(* The inductive invariant: HandleBound and OkResponseBound strengthened  *)
(* by the type invariant and PcConsistent.                                *)
IInv == TypeOK /\ PcConsistent /\ HandleBound /\ OkResponseBound

LEMMA InitIInv == Init => IInv
<1> SUFFICES ASSUME Init PROVE IInv
  OBVIOUS
<1>1. EngineTypeOK
  BY EngineInitTyped DEF Init
<1>2. TypeOK
  BY <1>1 DEF Init, TypeOK, Outcomes, Presence
<1>3. PcConsistent
  BY DEF Init, PcConsistent
<1>4. HandleBound /\ OkResponseBound
  BY DEF Init, HandleBound, OkResponseBound, MakeRequests
<1>. QED
  BY <1>2, <1>3, <1>4 DEF IInv

-----------------------------------------------------------------------------
(* A step of r that calls no engine operation: r moves to p with outcome  *)
(* o, a real outcome exactly when it returns, and "Ok" only when r is not *)
(* a make_credential.                                                     *)
LEMMA LocalStepIInv ==
  ASSUME IInv, NEW r \in Requests,
         NEW p \in {"presence", "create", "done"}, NEW o \in Outcomes,
         pc[r] \in {"start", "presence"},
         (o = "none") <=> (p # "done"),
         o = "Ok" => cmd[r].kind # "makeCredential",
         pc' = [pc EXCEPT ![r] = p],
         outcome' = [outcome EXCEPT ![r] = o],
         present' \in [Requests -> Presence],
         UNCHANGED <<engineVars, cmd, handle, authData>>
  PROVE  IInv'
<1>1. TypeOK'
  BY DEF IInv, TypeOK, EngineTypeOK, engineVars
<1>2. handle[r] = None
  BY DEF IInv, PcConsistent
<1>3. PcConsistent'
  <2> SUFFICES ASSUME NEW s \in Requests
               PROVE  /\ (outcome'[s] = "none") <=> (pc'[s] # "done")
                      /\ pc'[s] \in {"start", "presence", "create"} => handle'[s] = None
                      /\ pc'[s] = "attest" => handle'[s] # None
    BY DEF PcConsistent
  <2>1. CASE s = r
    BY <1>2, <2>1 DEF IInv, TypeOK
  <2>2. CASE s # r
    BY <2>2 DEF IInv, TypeOK, PcConsistent
  <2>. QED
    BY <2>1, <2>2
<1>4. HandleBound'
  BY DEF IInv, HandleBound, MakeRequests, engineVars
<1>5. OkResponseBound'
  BY DEF IInv, TypeOK, OkResponseBound, MakeRequests
<1>. QED
  BY <1>1, <1>3, <1>4, <1>5 DEF IInv

(* A request that has not returned has no outcome yet.                    *)
LEMMA RunningHasNoOutcome ==
  ASSUME IInv, NEW r \in Requests, pc[r] # "done"
  PROVE  [outcome EXCEPT ![r] = "none"] = outcome
BY DEF IInv, TypeOK, PcConsistent

LEMMA MakeCredentialStartIInv ==
  ASSUME IInv, NEW r \in Requests, MakeCredentialStart(r)
  PROVE  IInv'
<1>1. GateError(cmd[r]) \in {"InvalidParameter", "UnsupportedAlgorithm", "none"}
  BY DEF GateError
<1>2. CASE GateError(cmd[r]) # "none" /\ Finish(r, GateError(cmd[r]))
  BY <1>1, <1>2, LocalStepIInv DEF MakeCredentialStart, Finish, Outcomes,
     IInv, TypeOK
<1>3. CASE GateError(cmd[r]) = "none" /\ pc' = [pc EXCEPT ![r] = "presence"]
           /\ UNCHANGED outcome
  BY <1>3, RunningHasNoOutcome, LocalStepIInv DEF MakeCredentialStart,
     Outcomes, IInv, TypeOK
<1>. QED
  BY <1>2, <1>3 DEF MakeCredentialStart

LEMMA AwaitPresenceIInv ==
  ASSUME IInv, NEW r \in Requests, AwaitPresence(r)
  PROVE  IInv'
<1>1. present' \in [Requests -> Presence]
  BY DEF AwaitPresence, IInv, TypeOK, Presence
<1>2. CASE Finish(r, "PresenceError")
  BY <1>1, <1>2, LocalStepIInv DEF AwaitPresence, Finish, Outcomes
<1>3. CASE pc' = [pc EXCEPT ![r] = "create"] /\ UNCHANGED outcome
  BY <1>1, <1>3, RunningHasNoOutcome, LocalStepIInv DEF AwaitPresence,
     Outcomes
<1>. QED
  BY <1>2, <1>3 DEF AwaitPresence

LEMMA OtherKindsIInv ==
  ASSUME IInv, NEW r \in Requests, GetAssertion(r) \/ GetInfo(r) \/ Wink(r)
  PROVE  IInv'
<1>1. present' \in [Requests -> Presence]
  BY DEF GetAssertion, GetInfo, Wink, IInv, TypeOK
<1>. QED
  BY <1>1, LocalStepIInv DEF GetAssertion, GetInfo, Wink, Finish, Outcomes

(* A request's command names a relying party and a user of the model.     *)
LEMMA CommandTyped ==
  ASSUME TypeOK, NEW r \in Requests
  PROVE  cmd[r].rp \in RPs /\ cmd[r].user \in Users
BY AuthenticatorAssumption DEF TypeOK, Command

(* make_credential of a request: a fresh handle is stored for its own     *)
(* (rp, user) and no record another request holds is overwritten.         *)
LEMMA CreateCredentialIInv ==
  ASSUME IInv, NEW r \in Requests, CreateCredential(r)
  PROVE  IInv'
<1> DEFINE rp == cmd[r].rp
           user == cmd[r].user
<1>1. rp \in RPs /\ user \in Users
  BY CommandTyped DEF IInv
<1>2. MakeCredentialPost(rp, user)
  BY <1>1, MakeCredentialEffect DEF CreateCredential, IInv, TypeOK
<1>3. handle[r] = None /\ outcome[r] = "none"
  BY DEF CreateCredential, IInv, PcConsistent
<1>4. None \notin CredIds /\ None \notin Credential
  BY EngineAssumption DEF Credential
<1>5. CASE reply'.st = "Ok"
  <2>1. /\ handle' = [handle EXCEPT ![r] = reply'.id]
        /\ pc' = [pc EXCEPT ![r] = "attest"]
        /\ UNCHANGED <<outcome, cmd, present, authData>>
    BY <1>5 DEF CreateCredential
  <2>2. /\ reply'.id \in CredIds
        /\ keys[reply'.id] = None
        /\ keys' = [keys EXCEPT ![reply'.id] = [rp |-> rp, user |-> user]]
    BY <1>2, <1>5 DEF MakeCredentialPost
  <2>3. TypeOK'
    BY <1>2, <2>1, <2>2 DEF MakeCredentialPost, IInv, TypeOK
  <2>4. PcConsistent'
    BY <1>3, <1>4, <2>1, <2>2 DEF IInv, TypeOK, PcConsistent
  <2>5. HandleBound'
    <3> SUFFICES ASSUME NEW s \in MakeRequests', handle'[s] # None
                 PROVE  keys'[handle'[s]] = [rp |-> cmd'[s].rp, user |-> cmd'[s].user]
      BY DEF HandleBound
    <3>1. s \in Requests /\ cmd'[s] = cmd[s]
      BY <2>1 DEF MakeRequests
    <3>2. CASE s = r
      BY <2>1, <2>2, <3>1, <3>2 DEF IInv, TypeOK, EngineTypeOK
    <3>3. CASE s # r
      <4>1. handle'[s] = handle[s] /\ handle[s] \in CredIds
        BY <2>1, <3>1, <3>3 DEF IInv, TypeOK
      <4>2. keys[handle[s]] = [rp |-> cmd[s].rp, user |-> cmd[s].user]
        BY <2>1, <3>1, <4>1 DEF IInv, HandleBound, MakeRequests
      <4>3. [rp |-> cmd[s].rp, user |-> cmd[s].user] \in Credential
        BY <3>1, CommandTyped DEF IInv, Credential
      <4>4. handle[s] # reply'.id
        BY <1>4, <2>2, <4>2, <4>3
      <4>. QED
        BY <2>2, <3>1, <4>1, <4>2, <4>4 DEF IInv, TypeOK, EngineTypeOK
    <3>. QED
      BY <3>2, <3>3
  <2>6. OkResponseBound'
    BY <1>3, <2>1 DEF IInv, TypeOK, OkResponseBound, MakeRequests
  <2>. QED
    BY <2>3, <2>4, <2>5, <2>6 DEF IInv
<1>6. CASE reply'.st # "Ok"
  <2>1. /\ Finish(r, reply'.st)
        /\ UNCHANGED <<handle, cmd, present, authData, keys>>
    BY <1>2, <1>6 DEF CreateCredential, MakeCredentialPost
  <2>2. reply'.st \in Outcomes \ {"none", "Ok"}
    BY <1>2, <1>6 DEF MakeCredentialPost, Status, Outcomes
  <2>3. TypeOK'
    BY <1>2, <2>1, <2>2 DEF MakeCredentialPost, IInv, TypeOK, Finish
  <2>4. PcConsistent'
    BY <2>1, <2>2 DEF IInv, TypeOK, PcConsistent, Finish
  <2>5. HandleBound'
    BY <2>1 DEF IInv, HandleBound, MakeRequests
  <2>6. OkResponseBound'
    BY <2>1, <2>2 DEF IInv, TypeOK, OkResponseBound, MakeRequests, Finish
  <2>. QED
    BY <2>3, <2>4, <2>5, <2>6 DEF IInv
<1>. QED
  BY <1>5, <1>6

(* attest of a request: on "Ok" the request returns exactly the data it   *)
(* built for its own handle; the store and the handles are untouched.     *)
LEMMA AttestCredentialIInv ==
  ASSUME IInv, NEW r \in Requests, AttestCredential(r)
  PROVE  IInv'
<1> DEFINE data == [rp |-> cmd[r].rp, up |-> TRUE, uv |-> FALSE, count |-> 1,
                    attested |-> handle[r], signer |-> AttestationKey]
<1>1. handle[r] \in CredIds /\ handle[r] # None
  BY DEF AttestCredential, IInv, TypeOK, PcConsistent
<1>2. data \in AuthData
  BY <1>1, CommandTyped DEF IInv, AuthData
<1>3. SignWithPost(handle[r], data)
  BY <1>1, <1>2, SignWithEffect DEF AttestCredential, Attest, IInv, TypeOK
<1>4. /\ Finish(r, reply'.st)
      /\ UNCHANGED <<handle, cmd, present, keys>>
      /\ reply'.st \in Outcomes \ {"none"}
  BY <1>3 DEF AttestCredential, SignWithPost, Status, Outcomes
<1>5. authData' = [authData EXCEPT ![r] = IF reply'.st = "Ok" THEN data
                                                              ELSE authData[r]]
  BY <1>3 DEF AttestCredential, SignWithPost, IInv, TypeOK
<1>6. TypeOK'
  BY <1>2, <1>3, <1>4, <1>5 DEF SignWithPost, IInv, TypeOK, Finish
<1>7. PcConsistent'
  BY <1>4 DEF IInv, TypeOK, PcConsistent, Finish
<1>8. HandleBound'
  BY <1>4 DEF IInv, HandleBound, MakeRequests
<1>9. OkResponseBound'
  BY <1>1, <1>4, <1>5 DEF IInv, TypeOK, OkResponseBound, MakeRequests, Finish
<1>. QED
  BY <1>6, <1>7, <1>8, <1>9 DEF IInv

-----------------------------------------------------------------------------
(* Every step of the composed system, and every stutter, keeps IInv.      *)
LEMMA NextIInv == IInv /\ [Next]_vars => IInv'
<1> SUFFICES ASSUME IInv, [Next]_vars PROVE IInv'
  OBVIOUS
<1>1. CASE \E r \in Requests : Step(r)
  <2> PICK r \in Requests : Step(r)
    BY <1>1
  <2>. QED
    BY MakeCredentialStartIInv, AwaitPresenceIInv, CreateCredentialIInv,
       AttestCredentialIInv, OtherKindsIInv DEF Step
<1>2. CASE Terminated \/ UNCHANGED vars
  <2>1. UNCHANGED vars
    BY <1>2 DEF Terminated
  <2>. QED
    BY <2>1 DEF vars, engineVars, reqVars, IInv, TypeOK, EngineTypeOK,
       PcConsistent, HandleBound, OkResponseBound, MakeRequests
<1>. QED
  BY <1>1, <1>2 DEF Next

(* The type invariant of the orchestrator and the engine together: every *)
(* variable of every request and of SoftwareCryptoStore stays in its type *)
(* whatever the interleaving, the faults and the commands.                *)
THEOREM TypeCorrect == Spec => []TypeOK
<1>1. Init => IInv
  BY InitIInv
<1>2. IInv /\ [Next]_vars => IInv'
  BY NextIInv
<1>3. IInv => TypeOK
  BY DEF IInv
<1>. QED
  BY <1>1, <1>2, <1>3, PTL DEF Spec

(* The handle each make_credential got from the engine names a stored     *)
(* credential bound to the request's own rp and user, however concurrent *)
(* make_credential calls for the same (rp, user) interleave with it.      *)
THEOREM HandleBoundHolds == Spec => []HandleBound
<1>1. IInv => HandleBound
  BY DEF IInv
<1>. QED
  BY <1>1, InitIInv, NextIInv, PTL DEF Spec

(* A make_credential that returns Ok returns the authenticator data attest *)
(* built for the credential it created, for its own rp, with up set, uv   *)
(* clear and sign_count 1, signed by the attestation key.                 *)
THEOREM OkResponseBoundHolds == Spec => []OkResponseBound
<1>1. IInv => OkResponseBound
  BY DEF IInv
<1>. QED
  BY <1>1, InitIInv, NextIInv, PTL DEF Spec

-----------------------------------------------------------------------------
(* Only a make_credential ever gets past its first step.                  *)
InMake ==
  \A r \in Requests :
    pc[r] \in {"presence", "create", "attest"} => cmd[r].kind = "makeCredential"

(* make_credential never poisons the mutex: nothing in it panics.         *)
LEMMA MakeCredentialKeepsPoison ==
  ASSUME NEW rp, NEW user, MakeCredential(rp, user)
  PROVE  UNCHANGED poisoned
BY DEF MakeCredential, PoisonedCall, StorageFailure

(* attest or assert on a stored credential poisons the mutex only when    *)
(* the signature fails.                                                   *)
LEMMA SignWithStoredPoison ==
  ASSUME NEW id, NEW data, SignWith(id, data), keys[id] # None
  PROVE  poisoned' => poisoned \/ "sign" \in Faults
BY DEF SignWith, PoisonedCall, StorageFailure, PanicHoldingLock, Signed

(* Every step keeps InMake and EngineUsable, given IInv.                  *)
LEMMA NextUsable ==
  ASSUME IInv, InMake, EngineUsable, [Next]_vars
  PROVE  InMake' /\ EngineUsable'
<1>1. CASE \E r \in Requests : Step(r)
  <2> PICK r \in Requests : Step(r)
    BY <1>1
  <2>1. CASE MakeCredentialStart(r) \/ AwaitPresence(r) \/ GetAssertion(r)
             \/ GetInfo(r) \/ Wink(r)
    BY <2>1 DEF MakeCredentialStart, AwaitPresence, GetAssertion, GetInfo,
       Wink, Finish, InMake, EngineUsable, engineVars, IInv, TypeOK
  <2>2. CASE CreateCredential(r)
    <3>1. UNCHANGED poisoned
      BY <2>2, MakeCredentialKeepsPoison DEF CreateCredential
    <3>2. InMake'
      BY <2>2 DEF CreateCredential, Finish, InMake, IInv, TypeOK
    <3>. QED
      BY <3>1, <3>2 DEF EngineUsable
  <2>3. CASE AttestCredential(r)
    <3>1. r \in MakeRequests /\ handle[r] # None
      BY <2>3 DEF AttestCredential, InMake, MakeRequests, IInv, PcConsistent
    <3>2. keys[handle[r]] # None
      <4>1. [rp |-> cmd[r].rp, user |-> cmd[r].user] # None
        BY CommandTyped, EngineAssumption DEF IInv, Credential
      <4>. QED
        BY <3>1, <4>1 DEF IInv, HandleBound
    <3>3. EngineUsable'
      BY <2>3, <3>2, SignWithStoredPoison DEF AttestCredential, Attest,
         EngineUsable
    <3>4. InMake'
      BY <2>3 DEF AttestCredential, Finish, InMake, IInv, TypeOK
    <3>. QED
      BY <3>3, <3>4
  <2>. QED
    BY <2>1, <2>2, <2>3 DEF Step
<1>2. CASE Terminated \/ UNCHANGED vars
  <2>1. UNCHANGED vars
    BY <1>2 DEF Terminated
  <2>. QED
    BY <2>1 DEF vars, engineVars, reqVars, InMake, EngineUsable
<1>. QED
  BY <1>1, <1>2 DEF Next

(* No call the orchestrator makes breaks the engine: a request attests    *)
(* only the handle it was given, which is stored, so the todo!("error")   *)
(* of an unknown handle is never reached, and get_assertion panics       *)
(* outside the lock.  The mutex is poisoned only by a failed signature.   *)
THEOREM OrchestratorKeepsEngineUsable == Spec => []EngineUsable
<1>1. Init => IInv /\ InMake /\ EngineUsable
  BY InitIInv DEF Init, EngineInit, InMake, EngineUsable
<1>2. IInv /\ InMake /\ EngineUsable /\ [Next]_vars
        => (IInv /\ InMake /\ EngineUsable)'
  BY NextIInv, NextUsable
<1>. QED
  BY <1>1, <1>2, PTL DEF Spec

-----------------------------------------------------------------------------
(* Every step keeps two requests from sharing a handle: a new handle is   *)
(* an id that was free, while every handle already held is stored.       *)
LEMMA NextDistinctHandles ==
  ASSUME IInv, DistinctHandles, [Next]_vars
  PROVE  DistinctHandles'
<1>1. CASE \E r \in Requests : CreateCredential(r)
  <2> PICK r \in Requests : CreateCredential(r)
    BY <1>1
  <2>1. MakeCredentialPost(cmd[r].rp, cmd[r].user)
    BY CommandTyped, MakeCredentialEffect DEF CreateCredential, IInv, TypeOK
  <2>2. handle[r] = None /\ UNCHANGED cmd /\ MakeRequests' = MakeRequests
    BY DEF CreateCredential, IInv, PcConsistent, MakeRequests
  <2>3. CASE reply'.st = "Ok"
    <3>1. /\ handle' = [handle EXCEPT ![r] = reply'.id]
          /\ keys[reply'.id] = None
      BY <2>1, <2>3 DEF CreateCredential, MakeCredentialPost
    <3>2. ASSUME NEW s \in MakeRequests, handle[s] # None
          PROVE  handle[s] # reply'.id
      <4>1. keys[handle[s]] = [rp |-> cmd[s].rp, user |-> cmd[s].user]
        BY <3>2 DEF IInv, HandleBound
      <4>2. [rp |-> cmd[s].rp, user |-> cmd[s].user] # None
        BY CommandTyped, EngineAssumption DEF IInv, MakeRequests, Credential
      <4>. QED
        BY <3>1, <4>1, <4>2
    <3>. QED
      BY <2>2, <3>1, <3>2 DEF DistinctHandles, MakeRequests, IInv, TypeOK
  <2>4. CASE reply'.st # "Ok"
    BY <2>2, <2>4 DEF CreateCredential, DistinctHandles
  <2>. QED
    BY <2>3, <2>4
<1>2. CASE \E r \in Requests : Step(r) /\ ~CreateCredential(r)
  <2>1. UNCHANGED <<cmd, handle>>
    BY <1>2 DEF Step, MakeCredentialStart, AwaitPresence, AttestCredential,
       GetAssertion, GetInfo, Wink
  <2>. QED
    BY <2>1 DEF DistinctHandles, MakeRequests
<1>3. CASE Terminated \/ UNCHANGED vars
  BY <1>3 DEF Terminated, vars, reqVars, DistinctHandles, MakeRequests
<1>. QED
  BY <1>1, <1>2, <1>3 DEF Next

(* However concurrent make_credential calls interleave, for the same      *)
(* (rp, user) or not, each holds a credential of its own: the engine's    *)
(* fresh id is never handed to two requests.                              *)
THEOREM DistinctHandlesHold == Spec => []DistinctHandles
<1>1. Init => DistinctHandles
  BY DEF Init, DistinctHandles, MakeRequests
<1>2. IInv /\ DistinctHandles /\ [Next]_vars => (IInv /\ DistinctHandles)'
  BY NextIInv, NextDistinctHandles
<1>. QED
  BY <1>1, <1>2, InitIInv, PTL DEF Spec

-----------------------------------------------------------------------------
(* Every step of the composed system is a step of the credential registry *)
(* or leaves it alone: the orchestrator reaches the store only through    *)
(* the engine's make_credential and attest.                               *)
LEMMA NextRefinesRegistry ==
  ASSUME IInv, [Next]_vars
  PROVE  [Registry!RegNext]_Registry!regVars
<1>1. CASE \E r \in Requests : CreateCredential(r)
  <2> PICK r \in Requests : CreateCredential(r)
    BY <1>1
  <2>. QED
    BY CommandTyped, MakeCredentialRefines DEF CreateCredential, IInv
<1>2. CASE \E r \in Requests : AttestCredential(r)
  <2> PICK r \in Requests : AttestCredential(r)
    BY <1>2
  <2>1. handle[r] \in CredIds
    BY DEF AttestCredential, IInv, TypeOK, PcConsistent
  <2>. QED
    BY <2>1, SignWithRefines DEF AttestCredential, Attest
<1>3. CASE \E r \in Requests : MakeCredentialStart(r) \/ AwaitPresence(r)
             \/ GetAssertion(r) \/ GetInfo(r) \/ Wink(r)
  <2>1. UNCHANGED <<keys, poisoned>>
    BY <1>3 DEF MakeCredentialStart, AwaitPresence, GetAssertion, GetInfo,
       Wink, engineVars
  <2>. QED
    BY <2>1, RegistryStutter
<1>4. CASE Terminated \/ UNCHANGED vars
  BY <1>4, RegistryStutter DEF Terminated, vars, engineVars
<1>. QED
  BY <1>1, <1>2, <1>3, <1>4 DEF Next, Step

(* The engine, driven by any number of concurrent orchestrator requests,  *)
(* still implements the credential registry: the composition adds no way *)
(* to change or remove a stored credential or to repair a broken engine. *)
THEOREM OrchestratorImplementsRegistry == Spec => ImplementsRegistry
<1>1. Init => Registry!RegInit
  BY DEF Init, EngineInit, Registry!RegInit
<1>2. IInv /\ [Next]_vars => [Registry!RegNext]_Registry!regVars
  BY NextRefinesRegistry
<1>. QED
  BY <1>1, <1>2, InitIInv, NextIInv, PTL
  DEF Spec, ImplementsRegistry, Registry!RegSpec

=============================================================================
