------------------------------ MODULE MCPyRecognizer ------------------------------
(* PyRecognizer over the documents and the vocabulary of MCDocuments. *)
EXTENDS PyRecognizer, MCDocuments
============================================================================
