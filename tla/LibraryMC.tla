------------------------------ MODULE LibraryMC ------------------------------
(* A small library: two revisions of one content, an instance, two scanners. *)
EXTENDS Library

\* Every model is the same content.
OneBlob == [m \in {"m", "n"} |-> "x"]
=============================================================================
