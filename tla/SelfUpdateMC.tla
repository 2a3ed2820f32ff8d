----------------------------- MODULE SelfUpdateMC -----------------------------
EXTENDS SelfUpdate
CONSTANTS u1, u2, v1, v2
\* The two releases read the same schema, or the later one brings a migration.
Both == {[v \in Versions |-> 1], [v \in Versions |-> IF v = First THEN 1 ELSE 2]}
\* The later one brings a migration.
Migrating == {[v \in Versions |-> IF v = First THEN 1 ELSE 2]}
=============================================================================
