------------------------- MODULE MCCredentialEngine -------------------------
(* The credential engine on two relying parties, one user and three       *)
(* credential ids, so that one (rp, user) pair can be superseded while     *)
(* another relying party keeps its credential.                            *)
EXTENDS CredentialEngine, TLC

CONSTANTS rp1, rp2, u1, c1, c2, c3

MCRPs == {rp1, rp2}
MCUsers == {u1}
MCCredIds == {c1, c2, c3}
MCAllFaults == {"rng", "storage", "sign"}
MCNoFaults == {}

MCSymmetry == Permutations(MCCredIds)
=============================================================================
