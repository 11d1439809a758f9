--------------------------- MODULE MCUpdateDialog ---------------------------
(***************************************************************************)
(* Constants for UpdateDialog: a stable release, a pre-release with a      *)
(* destructive migration, and a stable release that also brings the next   *)
(* MySQL.                                                                  *)
(***************************************************************************)
EXTENDS UpdateDialog

MCChannelOf == <<"stable", "test", "stable">>
MCMajorOf   == <<8, 8, 9>>
=============================================================================
