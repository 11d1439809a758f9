----------------------------- MODULE MCBackups -----------------------------
(* Backups with a short calendar and the setups of each run.                  *)
EXTENDS Backups, TLC

Mondays2 == {0, 1}
Firsts1 == {0}
Either == {{"loop", "console"}, {"cron"}}
============================================================================
