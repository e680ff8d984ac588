-------------------------- MODULE MCMediaSession --------------------------
(***************************************************************************)
(* MediaSession on small instances.  Pids and callers are interchangeable, *)
(* so the runs that check no liveness property may use them as symmetry    *)
(* sets.                                                                   *)
(***************************************************************************)
EXTENDS MediaSession, TLC

Symmetry == Permutations(Pids) \cup Permutations(Callers)
=============================================================================
