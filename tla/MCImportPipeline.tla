-------------------------- MODULE MCImportPipeline --------------------------
(***************************************************************************)
(* Small instances of the import pipeline.                                 *)
(***************************************************************************)
EXTENDS ImportPipeline, TLC

CONSTANT r1

\* One payroll job with its run.
RunOne == 1 :> r1

\* Two payroll jobs of one run, as two racing startGroup calls leave them.
RunShared == (1 :> r1) @@ (2 :> r1)
=============================================================================
