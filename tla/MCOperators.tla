----------------------------- MODULE MCOperators -----------------------------
(* A small instance of Operators for TLC. *)
EXTENDS Operators, TLC

(* Tasks are interchangeable: the checked invariants treat them alike. *)
Symmetry == Permutations(Task)
=============================================================================
