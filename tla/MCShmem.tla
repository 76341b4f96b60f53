------------------------------ MODULE MCShmem -------------------------------
(* Model-checking instances of Shmem. *)
EXTENDS Shmem

\* Every client is a process of its own,
OwnProcess == [c \in Clients |-> c]

=============================================================================
