------------------------------ MODULE MCPyGuide ------------------------------
(* Guide and PyGuide over the documents and the vocabulary of MCDocuments. *)
EXTENDS PyGuide, MCDocuments
============================================================================
