------------------------------ MODULE MCServer ------------------------------
(* Server on small instances. *)
EXTENDS Server, TLC

Symmetry == Permutations(Worker) \union Permutations(Fd)

=============================================================================
