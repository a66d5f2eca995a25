-------------------------- MODULE MCAuthenticator --------------------------
(* The orchestrator with concurrent requests on one relying party and two *)
(* users; each request carries one of the commands below.                 *)
EXTENDS Authenticator, TLC

CONSTANTS rp1, u1, u2, c1, c2, c3, r1, r2, r3

MCRPs == {rp1}
MCUsers == {u1, u2}
MCCredIds == {c1, c2, c3}
MCRequestsTwo == {r1, r2}
MCRequestsThree == {r1, r2, r3}
MCAllFaults == {"rng", "storage", "sign", "presence"}
MCNoFaults == {}

MakeCmd(pin, algs, ea, excl, u) ==
  [kind |-> "makeCredential", pin |-> pin, algs |-> algs, ea |-> ea,
   excl |-> excl, rp |-> rp1, user |-> u]

OtherCmd(k) == [MakeCmd(FALSE, <<>>, FALSE, FALSE, u1) EXCEPT !.kind = k]

(* Accepted commands for both users, the gate combinations where the     *)
(* order of the checks decides the error, and the other API calls.       *)
MCValidCommands ==
  {MakeCmd(FALSE, <<"RS256", "ES256">>, FALSE, FALSE, u) : u \in MCUsers}

MCGateCommands ==
  { MakeCmd(TRUE, <<>>, TRUE, FALSE, u1),
    MakeCmd(FALSE, <<"RS256">>, TRUE, TRUE, u1),
    MakeCmd(FALSE, <<"ES256">>, TRUE, TRUE, u1),
    MakeCmd(FALSE, <<"ES256">>, FALSE, TRUE, u1) }

MCOtherCommands == {OtherCmd(k) : k \in {"getAssertion", "getInfo", "wink"}}

MCAllCommands == MCValidCommands \cup MCGateCommands \cup MCOtherCommands

(* Accepted commands for both users, and a wink.                          *)
MCFaultCommands ==
  {MakeCmd(FALSE, <<"ES256">>, FALSE, FALSE, u) : u \in MCUsers} \cup {OtherCmd("wink")}

=============================================================================
