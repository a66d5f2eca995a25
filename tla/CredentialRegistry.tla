------------------------- MODULE CredentialRegistry -------------------------
(***************************************************************************)
(* What the credential engine promises its callers about the credentials  *)
(* it keeps: a registry of records keyed by credential id, where a record  *)
(* is only ever added under a free id, never changed or removed, and       *)
(* where the whole registry can break (the engine's mutex is poisoned),    *)
(* after which nothing is added any more.                                  *)
(***************************************************************************)
CONSTANTS
  Ids,        \* the credential ids
  Records,    \* what a credential is bound to
  None        \* no record under an id

VARIABLES
  registry,   \* id -> record or None
  usable      \* the registry still accepts calls

regVars == <<registry, usable>>

RegTypeOK ==
  /\ registry \in [Ids -> Records \cup {None}]
  /\ usable \in BOOLEAN

RegInit ==
  /\ registry = [i \in Ids |-> None]
  /\ usable = TRUE

(* A new credential is registered under a free id.                         *)
Register(i, rec) ==
  /\ usable
  /\ registry[i] = None
  /\ registry' = [registry EXCEPT ![i] = rec]
  /\ UNCHANGED usable

(* The registry breaks for good.                                           *)
Break ==
  /\ usable
  /\ usable' = FALSE
  /\ UNCHANGED registry

RegNext == Break \/ \E i \in Ids, rec \in Records : Register(i, rec)

RegSpec == RegInit /\ [][RegNext]_regVars

=============================================================================
