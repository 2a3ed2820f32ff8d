----------------------------- MODULE VersionsMC -----------------------------
(* Instances of Versions for TLC.                                          *)
EXTENDS Versions, TLC

CONSTANTS a, b, c, i, j

\* A prebuilt that may be rejected, with the id of its source build.
Replacing == [v \in {c} |-> b]
NoneReplaced == [v \in {} |-> NoVersion]

Alike == Permutations(Instances)

=============================================================================
