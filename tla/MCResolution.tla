---------------------------- MODULE MCResolution ----------------------------
(***************************************************************************)
(* Constants for Resolution: two cores, three frontends, two previews, two *)
(* channels, and catalogs in which the newest frontend does not fit every  *)
(* core, a core is out of direct reach, a preview accepts one core only,   *)
(* and frontends come out on the other channel than their core.            *)
(***************************************************************************)
EXTENDS Resolution

CONSTANTS stable, beta

MCChannel == {stable, beta}
MCPlain == [v \in {1, 2, 3} |-> v]

CoreRel(ch, needs, from) == [channel |-> ch, needs |-> needs, from |-> from]
Rel(ch, accepts) == [channel |-> ch, accepts |-> accepts]

(* The new core wants the newest frontend, the old one does not have it.   *)
Strict ==
  [core     |-> <<CoreRel(stable, {1, 2}, 1), CoreRel(stable, {2, 3}, 1)>>,
   frontend |-> <<Rel(stable, {1}), Rel(stable, {1, 2}), Rel(stable, {1, 2})>>,
   preview  |-> <<Rel(stable, {1}), Rel(stable, {1, 2})>>]

(* The newest frontend is on the beta channel and only the old core has it *)
(* in its range; the new preview does not accept the new core.             *)
Mixed ==
  [core     |-> <<CoreRel(stable, {1, 3}, 1), CoreRel(beta, {1, 2}, 2)>>,
   frontend |-> <<Rel(stable, {1, 2}), Rel(beta, {2}), Rel(beta, {1, 2})>>,
   preview  |-> <<Rel(stable, {1, 2}), Rel(stable, {1})>>]

MCCatalogs == {Strict, Mixed}
=============================================================================
