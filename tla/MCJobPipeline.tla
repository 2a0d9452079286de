---------------------------- MODULE MCJobPipeline -----------------------------
(* Small instances of JobPipeline.  Jobs and consumers are interchangeable. *)
EXTENDS JobPipeline, TLC

Symmetry == Permutations(Jobs) \cup Permutations(Consumers)
===============================================================================
