--------------------------- MODULE MCRedirection ---------------------------
(***************************************************************************)
(* Redirection for TLC: messages of two or three bytes, of which two are   *)
(* the header, so that a cut falls into the header, behind it and between  *)
(* messages.                                                               *)
(***************************************************************************)
EXTENDS Redirection
=============================================================================
