----------------------------- MODULE MCWsman -----------------------------
(***************************************************************************)
(* Instances of Wsman for TLC: three instances of a class, one or two to a *)
(* page, so that an enumeration takes two or three Pulls.                  *)
(***************************************************************************)
EXTENDS Wsman

CONSTANTS i1, i2, i3

ThreeInstances == <<i1, i2, i3>>
==========================================================================
