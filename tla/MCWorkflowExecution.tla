-------------------------- MODULE MCWorkflowExecution --------------------------
(***************************************************************************)
(* Instances of WorkflowExecution for TLC.                                 *)
(***************************************************************************)
EXTENDS WorkflowExecution, TLC

\* Drivers are interchangeable, and so are processes (the run without liveness and
\* without action properties only).
Symmetry == Permutations(Drivers) \cup Permutations(Processes)
=============================================================================
