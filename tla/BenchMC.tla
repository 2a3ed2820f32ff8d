-------------------------------- MODULE BenchMC --------------------------------
(* Two runs for TLC: the first stops what is in its way, the others give up. *)
EXTENDS Bench

CONSTANTS r1, r2

OneStops == {[r \in Runs |-> IF r = r1 THEN "stop" ELSE "abort"]}
=============================================================================
