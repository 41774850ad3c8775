-------------------------- MODULE MCMaskTraversal --------------------------
(* MaskTraversal over the documents and the vocabulary of MCDocuments. *)
EXTENDS MaskTraversal, MCDocuments
============================================================================
