------------------------------- MODULE GatewayMC -------------------------------
(* Constants of the run of Gateway that a .cfg cannot write down. *)
EXTENDS Gateway

\* One instance is there from the start, the other may be created.
OneThere == [i \in Instances |-> IF i = "i" THEN 1 ELSE 0]

================================================================================
