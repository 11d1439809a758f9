----------------------------- MODULE MCInstances -----------------------------
(* Instances with every kind of operation.                                   *)
EXTENDS Instances, TLC

AllKinds == DOMAIN Steps
Alike == Permutations(Id) \union Permutations(Domain)
==============================================================================
