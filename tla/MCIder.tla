------------------------------- MODULE MCIder -------------------------------
(***************************************************************************)
(* Instances of Ider for TLC: a floppy of two blocks, so that a write may  *)
(* take two frames and may miss the image's end by one, and a CD of three, *)
(* so that a read takes one, two or three frames.                          *)
(***************************************************************************)
EXTENDS Ider

SmallImages == [d \in Devices |-> IF d = floppy THEN 2 ELSE 3]
=============================================================================
