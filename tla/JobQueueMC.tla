----------------------------- MODULE JobQueueMC -----------------------------
(***************************************************************************)
(* Instances of JobQueue for TLC: three jobs, two of them on the same      *)
(* llama.cpp version, with the attempt budgets the enqueuers give them.    *)
(***************************************************************************)
EXTENDS JobQueueImplements, TLC

\* One kind per boot outcome that matters together: an activation and an
\* install (both owe durable work) of one version, and a download.
VersionKinds    == [a |-> "llamacpp_activate", b |-> "llamacpp_install", d |-> "model_download"]
VersionSubjects == [a |-> "v", b |-> "v", d |-> "w"]
VersionPriority == [a |-> 100, b |-> 100, d |-> 100]
VersionBudget   == [a |-> 1, b |-> 1, d |-> 2]

\* A download that users pause, beside a job of the third triage bucket.
PauseKinds    == [d |-> "model_download", v |-> "model_verify"]
PauseSubjects == [d |-> "w", v |-> "m"]
PausePriority == [d |-> 100, v |-> 90]
PauseBudget   == [d |-> 3, v |-> 1]

\* A deferring install beside a download that users pause.
FairKinds    == [b |-> "llamacpp_install", d |-> "model_download"]
FairSubjects == [b |-> "v", d |-> "w"]
FairPriority == [b |-> 100, d |-> 100]
FairBudget   == [b |-> 1, d |-> 2]

Slots == Permutations(Runners)

=============================================================================
