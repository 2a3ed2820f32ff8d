----------------------------- MODULE SupervisorMC -----------------------------
(* One instance for TLC.  Two ports, of which another program may hold the   *)
(* first or both.                                                            *)
EXTENDS Supervisor

CONSTANTS loop, kick

OnePass == {loop}
TwoPasses == {loop, kick}
TwoPorts == {1, 2}

Able(policies, holdings) == [policy : policies, broken : {FALSE}, held : holdings]
Broken(policies) == [policy : policies, broken : {TRUE}, held : {{}}]
AllPolicies == {"always", "on-failure", "never"}
AllSetups == Able(AllPolicies, {{}, {1}, {1, 2}}) \cup Broken(AllPolicies)
FairSetups == Able({"on-failure"}, {{1}})
=============================================================================
