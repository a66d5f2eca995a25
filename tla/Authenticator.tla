--------------------------- MODULE Authenticator ---------------------------
(***************************************************************************)
(* The protocol orchestrator Authenticator<Secrets, Presence> of           *)
(* src/fido2-service/src/authenticator.rs, composed with the credential    *)
(* engine of storage.rs as its SecretStore.                                *)
(*                                                                         *)
(* Each request is one call of the AuthenticatorAPI; calls run             *)
(* concurrently and interleave at their awaits: the user-presence prompt   *)
(* and each call into the engine.  A request's local variables (present,  *)
(* credential, auth_data) are per-request functions.  A panic ends the    *)
(* request with outcome "Panic"; it poisons the engine's mutex only when  *)
(* it happens inside the engine with the guard held.                      *)
(***************************************************************************)
EXTENDS CredentialEngine, Sequences

CONSTANTS
  Requests,   \* the concurrent API calls
  Commands    \* the commands they may carry

ES256 == "ES256"

Kinds == {"makeCredential", "getAssertion", "getInfo", "wink"}

(* The fields of MakeCredentialCommand that the code reads; the same      *)
(* record shape is used for the other kinds, whose fields are ignored.    *)
(* pin: pin_uv_auth_param.is_some(), ea: enterprise_attestation.is_some(), *)
(* excl: exclude_list.is_some(), algs: the algorithms of                  *)
(* pub_key_cred_params in order.                                          *)
Command == [kind : Kinds, pin : BOOLEAN, algs : Seq({"ES256", "RS256"}),
            ea : BOOLEAN, excl : BOOLEAN, rp : RPs, user : Users]

ASSUME AuthenticatorAssumption ==
  /\ Commands \subseteq Command
  /\ Commands # {}
  /\ None \notin Requests

Outcomes == {"none", "Ok", "InvalidParameter", "UnsupportedAlgorithm",
             "PresenceError", "StorageError", "RngError", "Panic"}

Presence == {"notAsked", "approved", "denied", "failed"}

VARIABLES
  cmd,        \* the command each request carries
  pc,         \* where each request is: "start", "presence", "create", "attest", "done"
  present,    \* the answer of approve_make_credential to the request
  handle,     \* `credential`: the descriptor make_credential returned
  outcome,    \* the Result the request returned
  authData    \* the auth_data of a successful make_credential

reqVars == <<cmd, pc, present, handle, outcome, authData>>
vars == <<engineVars, reqVars>>

TypeOK ==
  /\ EngineTypeOK
  /\ cmd \in [Requests -> Commands]
  /\ pc \in [Requests -> {"start", "presence", "create", "attest", "done"}]
  /\ present \in [Requests -> Presence]
  /\ handle \in [Requests -> CredIds \cup {None}]
  /\ outcome \in [Requests -> Outcomes]
  /\ authData \in [Requests -> AuthData \cup {None}]

Init ==
  /\ EngineInit
  /\ cmd \in [Requests -> Commands]
  /\ pc = [r \in Requests |-> "start"]
  /\ present = [r \in Requests |-> "notAsked"]
  /\ handle = [r \in Requests |-> None]
  /\ outcome = [r \in Requests |-> "none"]
  /\ authData = [r \in Requests |-> None]

-----------------------------------------------------------------------------
(* The request returns o.                                                  *)
Finish(r, o) ==
  /\ pc' = [pc EXCEPT ![r] = "done"]
  /\ outcome' = [outcome EXCEPT ![r] = o]

(* Step 3: pub_key_cred_params.iter().filter(alg == ES256).next().        *)
HasES256(algs) == \E i \in 1..Len(algs) : algs[i] = ES256

(* Mutant: the enterprise-attestation gate tested before the algorithm.  *)
GateErrorSwapped(c) ==
  IF c.pin THEN "InvalidParameter"
  ELSE IF c.ea THEN "InvalidParameter"
  ELSE IF ~HasES256(c.algs) THEN "UnsupportedAlgorithm"
  ELSE IF c.excl THEN "InvalidParameter"
  ELSE "none"

(* The early returns of make_credential before the presence prompt, in    *)
(* the order the code tests them; "none" when every gate passes.  The     *)
(* second pin_uv_auth_param test (step 11.1) can never fire.  An IF      *)
(* chain, not a CASE: several gates may fail at once and the first return *)
(* decides.                                                               *)
GateError(c) ==
  IF c.pin THEN "InvalidParameter"
  ELSE IF ~HasES256(c.algs) THEN "UnsupportedAlgorithm"
  ELSE IF c.ea THEN "InvalidParameter"
  ELSE IF c.excl THEN "InvalidParameter"
  ELSE "none"

(* Mutant: a command that passes the gates goes to the engine without      *)
(* awaiting the presence gate.                                            *)
MakeCredentialStartSkippingPresence(r) ==
  /\ pc[r] = "start"
  /\ cmd[r].kind = "makeCredential"
  /\ \/ GateError(cmd[r]) # "none" /\ Finish(r, GateError(cmd[r]))
     \/ /\ GateError(cmd[r]) = "none"
        /\ pc' = [pc EXCEPT ![r] = "create"]
        /\ UNCHANGED outcome
  /\ UNCHANGED <<engineVars, cmd, present, handle, authData>>

(* make_credential up to the await on the presence gate.                  *)
MakeCredentialStart(r) ==
  /\ pc[r] = "start"
  /\ cmd[r].kind = "makeCredential"
  /\ \/ GateError(cmd[r]) # "none" /\ Finish(r, GateError(cmd[r]))
     \/ /\ GateError(cmd[r]) = "none"
        /\ pc' = [pc EXCEPT ![r] = "presence"]
        /\ UNCHANGED outcome
  /\ UNCHANGED <<engineVars, cmd, present, handle, authData>>

(* Mutant: a denied prompt restarts the command from its first step.   *)
AwaitPresenceRestart(r) ==
  /\ pc[r] = "presence"
  /\ \/ /\ "presence" \in Faults
        /\ present' = [present EXCEPT ![r] = "failed"]
        /\ Finish(r, "PresenceError")
     \/ /\ present' = [present EXCEPT ![r] = "denied"]
        /\ pc' = [pc EXCEPT ![r] = "start"]
        /\ UNCHANGED outcome
     \/ /\ present' = [present EXCEPT ![r] = "approved"]
        /\ pc' = [pc EXCEPT ![r] = "create"]
        /\ UNCHANGED outcome
  /\ UNCHANGED <<engineVars, cmd, handle, authData>>

(* `let present = self.presence.approve_make_credential(..).await?;        *)
(* up = true;` -- an error returns; an answer, approval or not, goes on.   *)
AwaitPresence(r) ==
  /\ pc[r] = "presence"
  /\ \/ /\ "presence" \in Faults
        /\ present' = [present EXCEPT ![r] = "failed"]
        /\ Finish(r, "PresenceError")
     \/ /\ \E answer \in {"approved", "denied"} :
             present' = [present EXCEPT ![r] = answer]
        /\ pc' = [pc EXCEPT ![r] = "create"]
        /\ UNCHANGED outcome
  /\ UNCHANGED <<engineVars, cmd, handle, authData>>

(* Mutant: get-or-create, the discoverable credential already indexed    *)
(* for the (rp, user) is reused instead of generating a new one.         *)
CreateCredentialReusingIndexed(r) ==
  /\ pc[r] = "create"
  /\ \/ /\ idLookup[cmd[r].rp][cmd[r].user] # None
        /\ handle' = [handle EXCEPT ![r] = idLookup[cmd[r].rp][cmd[r].user]]
        /\ pc' = [pc EXCEPT ![r] = "attest"]
        /\ UNCHANGED <<engineVars, outcome>>
     \/ /\ idLookup[cmd[r].rp][cmd[r].user] = None
        /\ MakeCredential(cmd[r].rp, cmd[r].user)
        /\ \/ /\ reply'.st = "Ok"
              /\ handle' = [handle EXCEPT ![r] = reply'.id]
              /\ pc' = [pc EXCEPT ![r] = "attest"]
              /\ UNCHANGED outcome
           \/ reply'.st # "Ok" /\ Finish(r, reply'.st) /\ UNCHANGED handle
  /\ UNCHANGED <<cmd, present, authData>>

(* `self.secrets.make_credential(pk_parameters, &rp.id, &user.id).await?` *)
CreateCredential(r) ==
  /\ pc[r] = "create"
  /\ MakeCredential(cmd[r].rp, cmd[r].user)
  /\ \/ /\ reply'.st = "Ok"
        /\ handle' = [handle EXCEPT ![r] = reply'.id]
        /\ pc' = [pc EXCEPT ![r] = "attest"]
        /\ UNCHANGED outcome
     \/ reply'.st # "Ok" /\ Finish(r, reply'.st) /\ UNCHANGED handle
  /\ UNCHANGED <<cmd, present, authData>>

(* Mutant: the credential to attest looked up by (rp, user) in the index. *)
AttestCredentialByIndex(r) ==
  /\ pc[r] = "attest"
  /\ Attest(cmd[r].rp, idLookup[cmd[r].rp][cmd[r].user], TRUE, FALSE)
  /\ \/ reply'.st = "Ok" /\ authData' = [authData EXCEPT ![r] = reply'.data]
     \/ reply'.st # "Ok" /\ UNCHANGED authData
  /\ Finish(r, reply'.st)
  /\ UNCHANGED <<cmd, present, handle>>

(* Mutant: a successful attestation never completes the request.         *)
AttestCredentialNoReturn(r) ==
  /\ pc[r] = "attest"
  /\ Attest(cmd[r].rp, handle[r], TRUE, FALSE)
  /\ \/ /\ reply'.st = "Ok"
        /\ authData' = [authData EXCEPT ![r] = reply'.data]
        /\ UNCHANGED <<pc, outcome>>
     \/ reply'.st # "Ok" /\ UNCHANGED authData /\ Finish(r, reply'.st)
  /\ UNCHANGED <<cmd, present, handle>>

(* `self.secrets.attest(&rp.id, &credential, &client_data_hash, up, uv)`  *)
(* with up = true and uv = false, then Ok(MakeCredentialResponse).        *)
AttestCredential(r) ==
  /\ pc[r] = "attest"
  /\ Attest(cmd[r].rp, handle[r], TRUE, FALSE)
  /\ \/ reply'.st = "Ok" /\ authData' = [authData EXCEPT ![r] = reply'.data]
     \/ reply'.st # "Ok" /\ UNCHANGED authData
  /\ Finish(r, reply'.st)
  /\ UNCHANGED <<cmd, present, handle>>

(* Mutant: get_assertion resolves some descriptor and attests with it.   *)
GetAssertionAttestingUnknown(r) ==
  /\ pc[r] = "start"
  /\ cmd[r].kind = "getAssertion"
  /\ \E id \in CredIds : Attest(cmd[r].rp, id, FALSE, FALSE)
  /\ Finish(r, reply'.st)
  /\ UNCHANGED <<cmd, present, handle, authData>>

(* get_assertion: `let credential = todo!();` panics before any call.     *)
GetAssertion(r) ==
  /\ pc[r] = "start"
  /\ cmd[r].kind = "getAssertion"
  /\ Finish(r, "Panic")
  /\ UNCHANGED <<engineVars, cmd, present, handle, authData>>

(* get_info: Ok(self.get_info_internal()), a constant descriptor.         *)
GetInfo(r) ==
  /\ pc[r] = "start"
  /\ cmd[r].kind = "getInfo"
  /\ Finish(r, "Ok")
  /\ UNCHANGED <<engineVars, cmd, present, handle, authData>>

(* wink: `self.presence.wink().await?; Ok(())`.                          *)
Wink(r) ==
  /\ pc[r] = "start"
  /\ cmd[r].kind = "wink"
  /\ \/ Finish(r, "Ok")
     \/ "presence" \in Faults /\ Finish(r, "PresenceError")
  /\ UNCHANGED <<engineVars, cmd, present, handle, authData>>

(* Every call has returned: the authenticator waits for the next command. *)
Terminated ==
  /\ \A r \in Requests : pc[r] = "done"
  /\ UNCHANGED vars

Step(r) ==
  \/ MakeCredentialStart(r)
  \/ AwaitPresence(r)
  \/ CreateCredential(r)
  \/ AttestCredential(r)
  \/ GetAssertion(r)
  \/ GetInfo(r)
  \/ Wink(r)

Next == (\E r \in Requests : Step(r)) \/ Terminated

(* The executor polls every ready future: once the presence gate has      *)
(* answered, the engine calls of a request are taken.  Nothing forces a   *)
(* human to answer the prompt, so AwaitPresence gets no fairness.         *)
Fairness ==
  \A r \in Requests : WF_vars(CreateCredential(r)) /\ WF_vars(AttestCredential(r))

Spec == Init /\ [][Next]_vars /\ Fairness

(* With a presence gate that always answers (an interactive prompt that   *)
(* times out, or the always-approving test double), every step of a       *)
(* request is eventually taken.                                           *)
AnsweringFairness ==
  \A r \in Requests :
    /\ WF_vars(MakeCredentialStart(r)) /\ WF_vars(AwaitPresence(r))
    /\ WF_vars(GetAssertion(r)) /\ WF_vars(GetInfo(r)) /\ WF_vars(Wink(r))

AnsweringSpec == Spec /\ AnsweringFairness

-----------------------------------------------------------------------------
(* The error spec section 4.1 prescribes for a make_credential command:   *)
(* the first failing gate in the order pin/uv param, algorithm,           *)
(* enterprise attestation, exclude list.                                  *)
SpecRejection(c) ==
  IF c.pin THEN "InvalidParameter"
  ELSE IF \A i \in 1..Len(c.algs) : c.algs[i] # ES256 THEN "UnsupportedAlgorithm"
  ELSE IF c.ea \/ c.excl THEN "InvalidParameter"
  ELSE "none"

MakeRequests == {r \in Requests : cmd[r].kind = "makeCredential"}

(* A make_credential that the spec rejects returns exactly the error of   *)
(* its first failing gate, and before that neither prompts the user nor   *)
(* creates a credential; a command the spec accepts is never rejected by  *)
(* a gate.                                                                *)
RejectionIsFree ==
  \A r \in MakeRequests :
    IF SpecRejection(cmd[r]) # "none"
    THEN /\ outcome[r] \in {"none", SpecRejection(cmd[r])}
         /\ present[r] = "notAsked"
         /\ handle[r] = None
    ELSE outcome[r] \notin {"InvalidParameter", "UnsupportedAlgorithm"}

(* The handle a make_credential got back, while it attests and after,     *)
(* names a stored credential bound to the request's own rp and user, even *)
(* when concurrent requests for the same (rp, user) supersede it in the   *)
(* discoverable index.  (Otherwise attest would hit todo!("error").)      *)
HandleBound ==
  \A r \in MakeRequests :
    handle[r] # None =>
      keys[handle[r]] = [rp |-> cmd[r].rp, user |-> cmd[r].user]

(* Spec 4.2: make_credential generates a fresh credential for each call,  *)
(* even with identical inputs, so no two make_credential requests ever    *)
(* hold the same credential, however they interleave and even when they   *)
(* are for the same (rp, user).                                           *)
DistinctHandles ==
  \A r, s \in MakeRequests :
    r # s /\ handle[r] # None => handle[r] # handle[s]

(* A successful make_credential returns authenticator data for its own    *)
(* rp, with up set and uv clear, attesting the credential it created,     *)
(* signed with the attestation key, and with a sign_count of 1.           *)
OkResponseBound ==
  \A r \in MakeRequests :
    outcome[r] = "Ok" =>
      /\ handle[r] # None
      /\ authData[r] = [rp |-> cmd[r].rp, up |-> TRUE, uv |-> FALSE, count |-> 1,
                        attested |-> handle[r], signer |-> AttestationKey]

(* Spec 4.1 steps 1-6 and 9: the store gains a credential only in a step  *)
(* of a make_credential whose command passes every parameter gate and     *)
(* whose presence prompt has answered, and that request then holds the    *)
(* new credential as its handle; concurrent requests, get_assertion and   *)
(* the listings never add one.                                            *)
CreatedOnlyByAcceptedRequest ==
  [][\A id \in CredIds :
       keys[id] = None /\ keys'[id] # None =>
         \E r \in MakeRequests :
           /\ SpecRejection(cmd[r]) = "none"
           /\ present[r] \in {"approved", "denied"}
           /\ handle'[r] = id]_vars

(* Once the presence gate has answered, the request returns: no engine    *)
(* call blocks, and the engine's lock is never held across an await.      *)
RequestsFinish ==
  \A r \in Requests : pc[r] \in {"create", "attest"} ~> pc[r] = "done"

(* Spec section 5 puts no timeout on the presence gate: given a gate     *)
(* that answers, every call returns, whatever the interleaving, the        *)
(* answers and the faults (a denial included: nothing waits for approval). *)
EveryRequestReturns == \A r \in Requests : <>(pc[r] = "done")

(* Spec 4.1 step 6: a negative answer of the presence gate aborts the     *)
(* operation, so a credential is created only after an approval.          *)
ApprovalBeforeCreate ==
  \A r \in MakeRequests : handle[r] # None => present[r] = "approved"

(* Spec 4.1 and 5: a credential is persisted only by a make_credential    *)
(* that succeeds (or is still running); no persist-then-sign sequence is  *)
(* left half done.                                                        *)
PersistOnlyOnSuccess ==
  \A id \in CredIds :
    keys[id] # None =>
      \E r \in MakeRequests :
        handle[r] = id /\ outcome[r] \in {"none", "Ok"}

(* Spec section 8 and the test make_credential_success: the attestation   *)
(* signature verifies with the public key in the attested credential      *)
(* block of the same authenticator data.                                  *)
AttestationSignedByCredential ==
  \A r \in MakeRequests :
    outcome[r] = "Ok" => authData[r].signer = authData[r].attested

=============================================================================
