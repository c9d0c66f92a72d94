--------------------------- MODULE MCGalleryRelease ---------------------------
(***************************************************************************)
(* Instances of GalleryRelease for TLC.                                    *)
(***************************************************************************)
EXTENDS GalleryRelease, TLC

Symmetry == Permutations(Syncers)
=============================================================================
