---------------------------- MODULE MCInstall ----------------------------
(***************************************************************************)
(* Instances of Install for TLC; the bounds are given in the .cfg files.   *)
(***************************************************************************)
EXTENDS Install
===========================================================================
