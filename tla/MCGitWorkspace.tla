--------------------------- MODULE MCGitWorkspace ---------------------------
(* Instances of the workspace adapter for TLC. *)
EXTENDS GitWorkspace, TLC

\* Threads, runs and identifiers play symmetric parts.
Symmetric == Permutations(Threads) \cup Permutations(Runs) \cup Permutations(Ids)

\* What surrounds the adapter in each run.
CandidateAndCrashes == {"work", "crash"}
OthersOnTheRoot == {"work", "tamper", "intrude"}
OtherUsers == {"intrude"}
=============================================================================
