---------------------- MODULE AuthenticatorGateProofs ----------------------
(***************************************************************************)
(* Proofs about the parameter gates and the presence prompt of            *)
(* make_credential: a command the spec rejects gets the error of its      *)
(* first failing gate with no prompt and no credential, and the store     *)
(* gains a credential only through a request that passed every gate and  *)
(* whose prompt has answered, for any set of concurrent requests.        *)
(***************************************************************************)
EXTENDS AuthenticatorProofs

(* The early returns of make_credential, tested in the code's order, give *)
(* the error spec section 4.1 prescribes for every command.               *)
LEMMA GateMatchesSpec ==
  ASSUME NEW c \in Command
  PROVE  GateError(c) = SpecRejection(c)
<1>1. HasES256(c.algs) <=> ~\A i \in 1..Len(c.algs) : c.algs[i] # ES256
  BY DEF HasES256
<1>2. CASE c.pin
  BY <1>2 DEF GateError, SpecRejection
<1>3. CASE ~c.pin /\ ~HasES256(c.algs)
  BY <1>1, <1>3 DEF GateError, SpecRejection
<1>4. CASE ~c.pin /\ HasES256(c.algs)
  BY <1>1, <1>4 DEF GateError, SpecRejection
<1>. QED
  BY <1>2, <1>3, <1>4

-----------------------------------------------------------------------------
(* The prompt is asked only between the gates and the engine calls: not   *)
(* before make_credential passed its gates, and answered before the       *)
(* engine is called.                                                      *)
PresenceOrder ==
  \A r \in Requests :
    /\ pc[r] \in {"start", "presence"} => present[r] = "notAsked"
    /\ pc[r] \in {"create", "attest"} => present[r] \in {"approved", "denied"}

(* A command the spec rejects never leaves its first step but to return.  *)
RejectedStayAtStart ==
  \A r \in MakeRequests :
    SpecRejection(cmd[r]) # "none" => pc[r] \in {"start", "done"}

(* RejectionIsFree strengthened to an inductive invariant, on top of IInv *)
(* and InMake.                                                            *)
Gate == PresenceOrder /\ RejectedStayAtStart /\ RejectionIsFree

(* The command of a request is one the gates can judge.                   *)
LEMMA CommandIsCommand ==
  ASSUME TypeOK, NEW r \in Requests
  PROVE  cmd[r] \in Command /\ GateError(cmd[r]) = SpecRejection(cmd[r])
BY AuthenticatorAssumption, GateMatchesSpec DEF TypeOK

LEMMA MakeCredentialStartGate ==
  ASSUME IInv, Gate, NEW r \in Requests, MakeCredentialStart(r)
  PROVE  Gate'
<1>1. GateError(cmd[r]) = SpecRejection(cmd[r])
  BY CommandIsCommand DEF IInv
<1>2. present[r] = "notAsked" /\ handle[r] = None /\ outcome[r] = "none"
  BY DEF MakeCredentialStart, Gate, PresenceOrder, IInv, PcConsistent
<1>3. /\ UNCHANGED <<cmd, present, handle>>
      /\ r \in MakeRequests /\ MakeRequests' = MakeRequests
  BY DEF MakeCredentialStart, MakeRequests
<1>4. CASE GateError(cmd[r]) # "none" /\ Finish(r, GateError(cmd[r]))
  BY <1>1, <1>2, <1>3, <1>4 DEF Gate, PresenceOrder, RejectedStayAtStart,
     RejectionIsFree, Finish, IInv, TypeOK
<1>5. CASE /\ GateError(cmd[r]) = "none"
           /\ pc' = [pc EXCEPT ![r] = "presence"]
           /\ UNCHANGED outcome
  <2>1. PresenceOrder'
    BY <1>2, <1>3, <1>5 DEF Gate, PresenceOrder, IInv, TypeOK
  <2>2. RejectedStayAtStart'
    BY <1>1, <1>3, <1>5 DEF Gate, RejectedStayAtStart, MakeRequests, IInv, TypeOK
  <2>3. RejectionIsFree'
    BY <1>1, <1>3, <1>5 DEF Gate, RejectionIsFree
  <2>. QED
    BY <2>1, <2>2, <2>3 DEF Gate
<1>. QED
  BY <1>4, <1>5 DEF MakeCredentialStart

(* A step of a request past its gates: it moves on with an answered      *)
(* prompt, or returns with an error no gate gives.                        *)
LEMMA LaterStepGate ==
  ASSUME IInv, InMake, Gate, NEW r \in Requests,
         pc[r] \in {"presence", "create", "attest"},
         pc'[r] \in {"create", "attest", "done"},
         outcome'[r] \notin {"InvalidParameter", "UnsupportedAlgorithm"},
         pc'[r] # "done" => present'[r] \in {"approved", "denied"},
         \A s \in Requests \ {r} :
           /\ pc'[s] = pc[s] /\ outcome'[s] = outcome[s]
           /\ present'[s] = present[s] /\ handle'[s] = handle[s],
         UNCHANGED cmd
  PROVE  Gate'
<1>1. r \in MakeRequests /\ MakeRequests' = MakeRequests
  BY DEF InMake, MakeRequests
<1>2. SpecRejection(cmd[r]) = "none"
  BY <1>1 DEF Gate, RejectedStayAtStart
<1>3. PresenceOrder'
  BY DEF Gate, PresenceOrder, IInv, TypeOK
<1>4. RejectedStayAtStart'
  BY <1>1, <1>2 DEF Gate, RejectedStayAtStart, MakeRequests, IInv, TypeOK
<1>5. RejectionIsFree'
  BY <1>1, <1>2 DEF Gate, RejectionIsFree, MakeRequests, IInv, TypeOK
<1>. QED
  BY <1>3, <1>4, <1>5 DEF Gate

LEMMA AwaitPresenceGate ==
  ASSUME IInv, InMake, Gate, NEW r \in Requests, AwaitPresence(r)
  PROVE  Gate'
<1>1. /\ pc[r] = "presence" /\ outcome[r] = "none"
      /\ UNCHANGED <<cmd, handle>>
  BY DEF AwaitPresence, IInv, PcConsistent
<1>2. CASE /\ present' = [present EXCEPT ![r] = "failed"]
           /\ Finish(r, "PresenceError")
  BY <1>1, <1>2, LaterStepGate DEF Finish, IInv, TypeOK
<1>3. CASE /\ \E answer \in {"approved", "denied"} :
                present' = [present EXCEPT ![r] = answer]
           /\ pc' = [pc EXCEPT ![r] = "create"]
           /\ UNCHANGED outcome
  BY <1>1, <1>3, LaterStepGate DEF IInv, TypeOK
<1>. QED
  BY <1>2, <1>3 DEF AwaitPresence

(* attest of a request signs for the handle it holds: the store is left  *)
(* as it was and an engine status is returned.                            *)
LEMMA AttestEffect ==
  ASSUME IInv, NEW r \in Requests, AttestCredential(r)
  PROVE  UNCHANGED keys /\ reply'.st \in Status
<1>1. handle[r] \in CredIds
  BY DEF AttestCredential, IInv, TypeOK, PcConsistent
<1>2. [rp |-> cmd[r].rp, up |-> TRUE, uv |-> FALSE, count |-> 1,
       attested |-> handle[r], signer |-> AttestationKey] \in AuthData
  BY <1>1, CommandTyped DEF IInv, AuthData
<1>. QED
  BY <1>1, <1>2, SignWithEffect DEF AttestCredential, Attest, SignWithPost,
     IInv, TypeOK

(* make_credential and attest report only engine statuses.               *)
LEMMA EngineStepGate ==
  ASSUME IInv, InMake, Gate, NEW r \in Requests, CreateCredential(r) \/ AttestCredential(r)
  PROVE  Gate'
<1>1. /\ pc[r] \in {"create", "attest"}
      /\ UNCHANGED <<cmd, present>>
      /\ present[r] \in {"approved", "denied"}
      /\ outcome[r] = "none"
  BY DEF CreateCredential, AttestCredential, Gate, PresenceOrder, IInv,
     PcConsistent
<1>2. reply'.st \in Status
  <2>1. CASE CreateCredential(r)
    BY <2>1, CommandTyped, MakeCredentialEffect DEF CreateCredential,
       MakeCredentialPost, IInv, TypeOK
  <2>2. CASE AttestCredential(r)
    BY <2>2, AttestEffect
  <2>. QED
    BY <2>1, <2>2
<1>3. CASE /\ CreateCredential(r) /\ reply'.st = "Ok"
           /\ handle' = [handle EXCEPT ![r] = reply'.id]
           /\ pc' = [pc EXCEPT ![r] = "attest"]
           /\ UNCHANGED outcome
  BY <1>1, <1>3, LaterStepGate DEF IInv, TypeOK
<1>4. CASE Finish(r, reply'.st) /\ UNCHANGED handle
  <2>1. reply'.st \notin {"InvalidParameter", "UnsupportedAlgorithm"}
    BY <1>2 DEF Status
  <2>. QED
    BY <1>1, <1>4, <2>1, LaterStepGate DEF Finish, IInv, TypeOK
<1>. QED
  BY <1>3, <1>4 DEF CreateCredential, AttestCredential

(* get_assertion, get_info and wink are not make_credential requests and  *)
(* never touch a prompt.                                                  *)
LEMMA OtherKindsGate ==
  ASSUME IInv, Gate, NEW r \in Requests, GetAssertion(r) \/ GetInfo(r) \/ Wink(r)
  PROVE  Gate'
<1>1. /\ r \notin MakeRequests /\ pc[r] = "start"
      /\ pc' = [pc EXCEPT ![r] = "done"]
      /\ \E o \in Outcomes : outcome' = [outcome EXCEPT ![r] = o]
      /\ UNCHANGED <<cmd, present, handle>>
  BY DEF GetAssertion, GetInfo, Wink, Finish, MakeRequests, Outcomes
<1>2. MakeRequests' = MakeRequests
  BY <1>1 DEF MakeRequests
<1>. QED
  BY <1>1, <1>2 DEF Gate, PresenceOrder, RejectedStayAtStart,
     RejectionIsFree, MakeRequests, IInv, TypeOK

-----------------------------------------------------------------------------
LEMMA InitGate == Init => Gate
BY DEF Init, Gate, PresenceOrder, RejectedStayAtStart, RejectionIsFree,
   MakeRequests

LEMMA NextGate ==
  ASSUME IInv, InMake, Gate, [Next]_vars
  PROVE  Gate'
<1>1. CASE \E r \in Requests : Step(r)
  BY <1>1, MakeCredentialStartGate, AwaitPresenceGate, EngineStepGate,
     OtherKindsGate DEF Step
<1>2. CASE Terminated \/ UNCHANGED vars
  <2>1. UNCHANGED vars
    BY <1>2 DEF Terminated
  <2>. QED
    BY <2>1 DEF vars, reqVars, Gate, PresenceOrder, RejectedStayAtStart,
       RejectionIsFree, MakeRequests
<1>. QED
  BY <1>1, <1>2 DEF Next

(* The invariant the gate proofs rest on: IInv, InMake and EngineUsable   *)
(* of AuthenticatorProofs together with Gate.                             *)
GInv == IInv /\ InMake /\ EngineUsable /\ Gate

LEMMA InitGInv == Init => GInv
BY InitIInv, InitGate DEF Init, EngineInit, InMake, EngineUsable, GInv

LEMMA NextGInv == GInv /\ [Next]_vars => GInv'
BY NextIInv, NextUsable, NextGate DEF GInv

(* A make_credential the spec rejects returns the error of its first      *)
(* failing gate in the order of spec section 4.1, without prompting the   *)
(* user or creating a credential, and a command the spec accepts never    *)
(* gets a gate error, whatever the other requests do meanwhile.           *)
THEOREM RejectionIsFreeHolds == Spec => []RejectionIsFree
<1>1. GInv => RejectionIsFree
  BY DEF GInv, Gate
<1>. QED
  BY <1>1, InitGInv, NextGInv, PTL DEF Spec

-----------------------------------------------------------------------------
(* A step of the composed system that stores a new credential is a        *)
(* make_credential of an accepted, answered request that keeps the new   *)
(* handle.                                                                *)
CreatedByAccepted ==
  \A id \in CredIds :
    keys[id] = None /\ keys'[id] # None =>
      \E r \in MakeRequests :
        /\ SpecRejection(cmd[r]) = "none"
        /\ present[r] \in {"approved", "denied"}
        /\ handle'[r] = id

LEMMA CreateCredentialCreates ==
  ASSUME GInv, NEW r \in Requests, CreateCredential(r)
  PROVE  CreatedByAccepted
<1>1. /\ pc[r] = "create" /\ r \in MakeRequests
      /\ SpecRejection(cmd[r]) = "none"
      /\ present[r] \in {"approved", "denied"}
  BY DEF CreateCredential, GInv, InMake, MakeRequests, Gate,
     RejectedStayAtStart, PresenceOrder
<1>2. MakeCredentialPost(cmd[r].rp, cmd[r].user)
  BY CommandTyped, MakeCredentialEffect DEF CreateCredential, GInv, IInv,
     TypeOK
<1>3. CASE reply'.st = "Ok"
  <2>1. /\ keys' = [keys EXCEPT ![reply'.id] = [rp |-> cmd[r].rp,
                                                user |-> cmd[r].user]]
        /\ reply'.id \in CredIds
        /\ handle'[r] = reply'.id
    BY <1>2, <1>3 DEF MakeCredentialPost, CreateCredential, GInv, IInv,
       TypeOK
  <2>. QED
    BY <1>1, <2>1 DEF CreatedByAccepted, GInv, IInv, TypeOK, EngineTypeOK
<1>4. CASE reply'.st # "Ok"
  BY <1>2, <1>4 DEF MakeCredentialPost, CreatedByAccepted
<1>. QED
  BY <1>3, <1>4

LEMMA NextCreates ==
  ASSUME GInv, [Next]_vars
  PROVE  CreatedByAccepted
<1>1. CASE \E r \in Requests : CreateCredential(r)
  BY <1>1, CreateCredentialCreates
<1>2. CASE \E r \in Requests : AttestCredential(r)
  BY <1>2, AttestEffect DEF CreatedByAccepted, GInv
<1>3. CASE \E r \in Requests : MakeCredentialStart(r) \/ AwaitPresence(r)
             \/ GetAssertion(r) \/ GetInfo(r) \/ Wink(r)
  <2>1. UNCHANGED keys
    BY <1>3 DEF MakeCredentialStart, AwaitPresence, GetAssertion, GetInfo,
       Wink, engineVars
  <2>. QED
    BY <2>1 DEF CreatedByAccepted
<1>4. CASE Terminated \/ UNCHANGED vars
  <2>1. UNCHANGED keys
    BY <1>4 DEF Terminated, vars, engineVars
  <2>. QED
    BY <2>1 DEF CreatedByAccepted
<1>. QED
  BY <1>1, <1>2, <1>3, <1>4 DEF Next, Step

(* Only make_credential stores a credential, and only for a request that  *)
(* passed every parameter gate and whose prompt answered; that request    *)
(* holds the new handle.  Concurrent requests, get_assertion and wink     *)
(* never add one.                                                         *)
THEOREM CreatedOnlyByAcceptedRequestHolds == Spec => CreatedOnlyByAcceptedRequest
<1>1. GInv /\ [Next]_vars => [CreatedByAccepted]_vars
  BY NextCreates
<1>2. Spec => []GInv
  BY InitGInv, NextGInv, PTL DEF Spec
<1>. QED
  BY <1>1, <1>2, PTL DEF Spec, CreatedOnlyByAcceptedRequest, CreatedByAccepted

=============================================================================
