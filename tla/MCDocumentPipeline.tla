-------------------------- MODULE MCDocumentPipeline --------------------------
(***************************************************************************)
(* Instances of DocumentPipeline for TLC.                                  *)
(***************************************************************************)
EXTENDS DocumentPipeline, TLC

\* Workers are interchangeable, and so are requests (safety runs only).
Symmetry == Permutations(Workers) \cup Permutations(Requests)
=============================================================================
