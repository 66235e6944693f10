---------------------------- MODULE MCImageCache ----------------------------
(***************************************************************************)
(* Instances of ImageCache for TLC.  Sources, preparers and stagers are    *)
(* interchangeable; liveness is checked in MCComponents.                   *)
(***************************************************************************)
EXTENDS ImageCache, TLC

Symmetry ==
  Permutations(Sources) \cup Permutations(Preparers) \cup Permutations(Stagers)
=============================================================================
