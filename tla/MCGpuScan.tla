----------------------------- MODULE MCGpuScan ------------------------------
(* Model-checking instances of GpuScan. *)
EXTENDS GpuScan, TLC

\* Backends and messages are interchangeable.
Symmetric == Permutations(Backends) \cup Permutations(Messages)
=============================================================================
