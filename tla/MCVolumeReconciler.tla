------------------------- MODULE MCVolumeReconciler -------------------------
(***************************************************************************)
(* VolumeReconciler for TLC.  The reference values that only RandString    *)
(* produces are interchangeable.                                           *)
(***************************************************************************)
EXTENDS VolumeRefinement, TLC

RandomRefs == Permutations(Refs \ UserRefs)
=============================================================================
