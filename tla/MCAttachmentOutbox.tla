-------------------------- MODULE MCAttachmentOutbox --------------------------
(***************************************************************************)
(* Instances of AttachmentOutbox for TLC.                                  *)
(***************************************************************************)
EXTENDS AttachmentOutbox, TLC

Symmetry == Permutations(Decisions) \cup Permutations(Watchers) \cup Permutations(Workers)
=============================================================================
