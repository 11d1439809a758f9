------------------------------ MODULE MCConsole ------------------------------
(* A small instance of Console for TLC; its constants are in the cfg files. *)
EXTENDS Console
=============================================================================
