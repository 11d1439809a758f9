------------------------------- MODULE MCServer ------------------------------
(* Server with one production and one local instance.                        *)
EXTENDS Server

CONSTANTS prod, loc

Modes == [i \in {prod, loc} |-> IF i = prod THEN "production" ELSE "local"]
==============================================================================
