----------------------------- MODULE MCDevProg -----------------------------
(* Instances of DevProg for TLC. *)
EXTENDS DevProg, TLC

\* Entries have no order, and neither have sources, messages or threads.
Symmetry == Permutations(Entries) \cup Permutations(Messages)
              \cup Permutations(Threads) \cup Permutations(Sources)
=============================================================================
