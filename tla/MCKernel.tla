------------------------------ MODULE MCKernel ------------------------------
(* Instances of Kernel for TLC. *)
EXTENDS Kernel

MCLaunches == {<<1, 4>>, <<2, 2>>, <<3, 1>>}

\* passes, is filtered, must be checked again, divides by zero, fails after
\* it asked for a check
MCEvaluations == {<<0>>, <<1>>, <<2, 0>>, <<200, 1>>, <<2, 102, 200, 1>>}
=============================================================================
