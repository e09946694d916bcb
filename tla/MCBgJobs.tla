------------------------------ MODULE MCBgJobs ------------------------------
(* BgJobs on small instances.                                              *)
EXTENDS BgJobs, TLC

CONSTANTS f1, f2

\* The callers of `bg fire' are interchangeable.
FirerSymmetry == Permutations({f1, f2})
=============================================================================
