# TLA+ models of the fido2-service core

This directory models the two layers of `src/fido2-service`:

- the FIDO2 protocol orchestrator, `Authenticator` in `authenticator.rs`;
- the credential engine, `SoftwareCryptoStore` in `storage.rs`, over its `CredentialStorage` backend.

It contains the models, the TLC runs that check them on small instances, and TLAPS proofs of the main safety invariants for every value of the constants.

## The system

| Part | Source | State | Operations |
|---|---|---|---|
| Protocol Orchestrator | `authenticator.rs` 118-325 | none of its own; each call has locals (`present`, `credential`, `auth_data`) | `make_credential`, `get_assertion`, `get_info`, `wink`, `version` |
| User Presence Gate | `authenticator.rs` 26-44 (trait) | external | `approve_make_credential`, `wink` |
| Credential Engine | `storage.rs` 40-174 | `Mutex<Data<S>>`: storage, RNG and attestation source | `make_credential`, `attest`, `assert`, `list_discoverable_credentials`, `list_specified_credentials` |
| Credential Storage | `storage.rs` 15-38 (trait); the in-memory store of the tests, `authenticator.rs` 531-570 | a record map keyed by credential id, and an index keyed by (rp, user) | `put`, `get`, `list_*` |
| Attestation source, key generation, signing | `crypto.rs` (not in `src/`) | keys | `generate`, `sign` |

How the parts interact:

- `make_credential` runs its parameter gates first.
- It then awaits the presence gate.
- It then calls the engine twice, `make_credential` and then `attest`, with an await between the two calls.
- Requests are `async` and interleave at every await.
- Each engine call locks a `std::sync::Mutex` and runs with no await inside, so it is atomic with respect to the other requests.
- A panic while the guard is held poisons the mutex. This happens at `todo!("error")` on an unknown handle and at `sign(..).unwrap()`.
- After that, every `lock().unwrap()` panics.

## Modules

- **`CredentialEngine`**: the engine and its storage.
  - Variables:
    - `keys`: credential id to record, or `None`.
    - `idLookup`: the (rp, user) index.
    - `poisoned`: the mutex state.
    - `reply`: what the last call returned.
    - `lastCount`: a history variable, the sign_count of the last signature made with each credential.
  - One action per engine method: `MakeCredential`, `Attest`, `AssertCredential`, `ListDiscoverable`, `ListSpecified`. The name `Assert` is taken by TLC, hence `AssertCredential`.
  - `Attest` and `AssertCredential` share `SignWith`: lock, get, then not-found panic, sign panic or signature.
  - Dependency failures are enabled by the constant `Faults`, a subset of {"rng", "storage", "sign", "presence"}.
  - A record is abstracted to its (rp, user), and authenticator data to a record of its fields and its signer.
  - A generated credential id is taken to be fresh. That is the 128-bit random id of `generate`, and nothing in the code checks it. A collision of 128-bit random ids is not a hazard a model checker adds anything to, so it is not listed.
- **`Authenticator`**: the orchestrator composed with the engine.
  - Constants:
    - `Requests`: the concurrent API calls.
    - `Commands`: the fields the code reads of a `MakeCredentialCommand`.
  - Each request has `pc`, `present`, `handle` (the returned `credential`), `outcome` and `authData`.
  - Actions:
    - `MakeCredentialStart`: the gates, in code order.
    - `AwaitPresence`: the presence await.
    - `CreateCredential`: the `make_credential` call.
    - `AttestCredential`: the `attest` call, then `Ok`.
    - `GetAssertion`: `todo!()` panics before any call.
    - `GetInfo`
    - `Wink`
    - `Terminated`: the idle state after every call has returned.
  - The second pin check (step 11.1) is unreachable and the options map is ignored, so neither has a transition.
- **`CredentialRegistry`**: the abstract specification of what the engine promises about credentials.
  - `registry`: id to record, or `None`.
  - `usable`: the registry still accepts calls.
  - `Register(i, rec)` adds a record under a free id while usable; `Break` makes it unusable for good.
  - `CredentialEngine` instantiates it as `Registry` with `registry <- keys` and `usable <- ~poisoned`. `ImplementsRegistry == Registry!RegSpec` is the refinement property.
- **`MCCredentialEngine`** and **`MCAuthenticator`**: the small instances for TLC.
- **`CredentialEngineProofs`**, **`AuthenticatorProofs`** and **`AuthenticatorGateProofs`**: the TLAPS proofs.

`PROJECT.json` `map` lists the source lines behind every definition.

## Fairness

`Spec` assumes weak fairness of `CreateCredential(r)` and `AttestCredential(r)`:

- The executor polls a ready future.
- An engine call never blocks, because the lock is never held across an await.

`AwaitPresence` has no fairness in `Spec`, because a human may never answer and the code sets no timeout.

`AnsweringSpec` adds weak fairness of every other step of a request, `AwaitPresence` included. It describes a gate that always answers, like the test double `FakeUserPresence` (`authenticator.rs` 506-529) or a prompt wrapped in a timeout, as spec §5 asks of callers. `EveryRequestReturns` is checked under `AnsweringSpec` only.

## Runs

| Run | Instance | Checks | Expect |
|---|---|---|---|
| engine_store | 2 RPs, 1 user, 3 ids; rng, storage and sign faults; symmetry on ids | `EngineTypeOK`, `IndexSound`, `ImplementsRegistry` | pass |
| engine_notfound | the same, no faults | `EngineUsable` | violation |
| engine_counter | the same, no faults | `CounterNonDecreasing` | violation |
| auth_concurrent | 3 requests, 1 RP, 2 users, 3 ids; valid commands for both users, 4 gate combinations, the other calls; no faults | `TypeOK`, `RejectionIsFree`, `HandleBound`, `OkResponseBound`, `DistinctHandles`, `EngineUsable`, `RequestsFinish`, `CreatedOnlyByAcceptedRequest` | pass |
| auth_faults | 3 requests; valid commands for both users and wink; every fault | `TypeOK`, `HandleBound`, `OkResponseBound`, `RequestsFinish` | pass |
| auth_liveness | as auth_faults, under `AnsweringSpec` | `EveryRequestReturns` | pass |
| auth_approval | 2 requests, valid commands | `ApprovalBeforeCreate` | violation |
| auth_persist | 2 requests, every fault | `PersistOnlyOnSuccess` | violation |
| auth_signer | 2 requests | `AttestationSignedByCredential` | violation |

Why these bounds are enough:

- **Users:** two users and three requests are enough for two requests to race on the same (rp, user) and for a third request to hold a different user.
- **Credential ids:** three ids are enough for every request to create one.
- **Gate combinations:** the four gate commands each have at least two failing gates, so the order of the checks decides the error.
- **Faults:** the fault run reaches a poisoned mutex with other requests still in flight.

What each property says:

- **`RejectionIsFree`:** a command the spec rejects gets the error of its first failing gate in the order of spec §4.1, with no prompt and no credential.
- **`HandleBound`:** the handle of a request names a stored credential for its own rp and user.
- **`OkResponseBound`:** an `Ok` response carries the data attest built for that handle.
- **`DistinctHandles`:** no two `make_credential` requests hold the same credential, even for the same (rp, user). Spec §4.2 asks for fresh key material for every call.
- **`CreatedOnlyByAcceptedRequest`** (action property): every step that stores a credential is the `make_credential` of a request that passed every gate and whose prompt answered, and that request then holds the new handle.
- **`RequestsFinish`:** every request past the presence gate returns, even when the mutex is poisoned.
- **`IndexSound`:** every index entry names a matching record.
- **`ImplementsRegistry`:** the engine implements `CredentialRegistry` (engine_store). For the composed system it is proved (`OrchestratorImplementsRegistry`), not checked again by a run: every orchestrator step is an engine call or leaves the store alone, so the composed run would only repeat engine_store.
- **`EngineUsable`:** the engine's mutex is poisoned only by a failed signature. It is violated by the engine on its own (engine_notfound) and holds for everything the orchestrator calls (auth_concurrent).
- **`EveryRequestReturns`:** with a gate that answers, every request returns, even after a denial, a failure or a poisoned mutex.

Every property of a passing run has a mutant in `PROJECT.json`: a plausible bug in the mapped code that TLC finds.

## Findings

1. **Denied presence is ignored** (`auth_approval`, `authenticator.rs` 258). `let present = ...await?; up = true;` never reads the answer, so a denied prompt still creates a credential. Spec §4.1 step 6 says a denial aborts.
2. **A persisted credential survives a failed attest** (`auth_persist`, `authenticator.rs` 277-286). Persist and attest are separate engine calls, so an attest that fails leaves the credential stored behind an error response. Spec §5 says no persist-then-sign sequence may be left partially applied. Spec §4.1 only promises no credential on a rejection path, and a failure after the gates is not one.
3. **The sign count goes backwards** (`engine_counter`, `storage.rs` 101 and 147). An attest after an assert signs with count 1 after count 2. Spec §3 says the count is non-decreasing.
4. **The spec contradicts itself on the attestation signer** (`auth_signer`, `storage.rs` 108-111). Spec §4.4 says attest signs with the attestation key, which is what the code does. Spec §8 and the test `make_credential_success` say the signature verifies with the credential key in the attested block.

5. **An unknown handle poisons the engine** (`engine_notfound`, `storage.rs` 128 and 154). `attest` and `assert` on a handle the store does not know hit `todo!("error")` with the lock held. That poisons the mutex, and every later call of every request panics. Spec §4.3 says attest must fail with a distinct not-found condition. The orchestrator never triggers this (see `OrchestratorKeepsEngineUsable`), but any future caller of `assert`, such as a completed `get_assertion`, could.

## Proofs

The three proof modules are checked by `tlapm` down to the last leaf.

**`CredentialEngineProofs`:**

- `EngineTypeCorrect`: `EngineSpec => []EngineTypeOK`.
- `EngineIndexSound`: `EngineSpec => [](EngineTypeOK /\ IndexSound)`.
- These rest on a lemma per operation, stating what a caller may rely on after it returns: `MakeCredentialEffect`, `SignWithEffect` and `ListEffect`.
- They also rest on `PutFreshKeepsIndexSound`: putting a fresh id keeps the index sound.
- `EngineImplementsRegistry`: `EngineSpec => ImplementsRegistry`.
  - The engine's initial state is the empty registry.
  - Each call maps to a registry step. `MakeCredential` that succeeds is `Register` under the fresh id. A panic with the guard held, when the mutex was not yet poisoned, is `Break`. Every other call leaves `keys` and `poisoned` alone and is a stutter.
  - Lemmas `MakeCredentialRefines`, `SignWithRefines` and `ListRefines` give one case each.

**`AuthenticatorProofs`:**

- `TypeCorrect`: `Spec => []TypeOK`.
- `HandleBoundHolds`: `Spec => []HandleBound`.
- `OkResponseBoundHolds`: `Spec => []OkResponseBound`.
- All three hold for any number of requests and any commands. They follow from one inductive invariant: `IInv == TypeOK /\ PcConsistent /\ HandleBound /\ OkResponseBound`.

`PcConsistent` states three things about each request:

- it has an outcome exactly when it is done;
- it has no handle before `make_credential` answered;
- it has a handle while it attests.

Why the strengthening is needed:

- `HandleBound` alone is not inductive. When another request creates a credential, its fresh id must differ from every handle already held, and that follows only because a held handle names a stored record while the fresh id's slot is empty.
- `OkResponseBound` needs `PcConsistent` for two reasons. A request that already returned `Ok` takes no further step. A request that attests holds a real id, so `SignWithEffect` applies.

`OrchestratorKeepsEngineUsable` proves `Spec => []EngineUsable` from `IInv /\ InMake /\ EngineUsable`:

- `InMake` says only a `make_credential` request gets past its first step.
- Together with `HandleBound`, this means a request that attests holds a stored handle.
- So `SignWith` can poison the mutex only through a failed signature (`SignWithStoredPoison`).
- `make_credential` never poisons it (`MakeCredentialKeepsPoison`).

`DistinctHandlesHold` proves `Spec => []DistinctHandles` from `IInv /\ DistinctHandles`. A new handle is an id whose slot was empty, and by `HandleBound` every handle already held names a stored record, so the two differ. The invariant rests on the engine's freshness guard `keys[id] = None`. That guard stands for the 128-bit random id of `generate`, which the code never checks; `DistinctHandles` therefore shows that the orchestrator always asks for a new credential, not that ids never collide.

`OrchestratorImplementsRegistry` proves `Spec => ImplementsRegistry` for the composed system. Under `IInv`, `CreateCredential` is a `MakeCredential` on a typed (rp, user), and `AttestCredential` is a `SignWith` on a real id. These are the engine lemmas `MakeCredentialRefines` and `SignWithRefines`. Every other step leaves `keys` and `poisoned` alone.

**`AuthenticatorGateProofs`:**

- `GateMatchesSpec`: for every command, `GateError`, the code's chain of early returns, equals `SpecRejection`, the order of spec §4.1.
  - Writing this proof showed that `GateError` had been a `CASE` with overlapping arms. When several gates fail at once, the value of such a `CASE` is unspecified in TLA+, even though TLC picks the first arm. It is now an `IF` chain, as the code's returns are.
- `RejectionIsFreeHolds`: `Spec => []RejectionIsFree`.
- `CreatedOnlyByAcceptedRequestHolds`: `Spec => CreatedOnlyByAcceptedRequest`, the action property.
- Both follow from `GInv == IInv /\ InMake /\ EngineUsable /\ Gate`. `Gate` adds three conjuncts:
  - `PresenceOrder`: the prompt is unasked before a request gets past its gates, and answered while it calls the engine.
  - `RejectedStayAtStart`: a rejected command never leaves its first step except to return.
  - `RejectionIsFree` itself.
- Why the strengthening is needed:
  - `RejectionIsFree` alone says nothing about a request still running, so it cannot exclude a rejected command that reaches the prompt.
  - The action property needs to know, at the step that stores, that the creating request was accepted and its prompt answered. `RejectedStayAtStart` and `PresenceOrder` give exactly that.
- `LaterStepGate` covers every step past the gates at once: the step keeps the other requests unchanged and returns only engine or presence errors.
- TLC checked `GInv` as an invariant of auth_concurrent and auth_faults before it was proved.

The proofs use these assumptions:

- `EngineAssumption`: `None` is distinct from ids, RPs, users and records, and the faults are those listed.
- `AuthenticatorAssumption`: the commands are well-formed.

## Only model-checked

- **Liveness:** `RequestsFinish` and `EveryRequestReturns` rely on fairness and `ENABLED`, which TLAPS does not handle here.
- **Mutants and violation runs:** these are checked by TLC only.

## Not modelled

- **Key material, hashing, signature bytes, the attestation certificate and the `AuthenticatorData` encoding:** abstracted to who signed what.
- **`try_into().unwrap()` of a stored record (`storage.rs` 96, 142):** cannot fail for records that `generate` produced.
- **`version()` and the contents of `get_info`:** constants.
- **The options map and extensions:** ignored by the code.
- **The `Box` delegation impls:** they only forward calls.
- **A persistent storage backend:** not in the repository.

## Plan for later work

- The rp binding of `attest`/`assert` (`storage.rs` 141): the engine does not check that the stored record belongs to the rp it signs for. Today this is covered only for the orchestrator's own call, through `HandleBound` and `OkResponseBound`. `get_assertion`, the future caller of `assert`, is `todo!()` in the code and has no behaviour to model yet.
- The composed index: a proof that `IndexSound` holds for the composed system, and a property relating the index entry of a (rp, user) to the latest request that created a credential for it.
