-------------------------- MODULE MCEvaluationJobs --------------------------
(* Instances of EvaluationJobs for TLC.                                    *)
EXTENDS EvaluationJobs, TLC

Symmetry == Permutations(Requests) \cup Permutations(Jobs)
            \cup Permutations(Workers)
=============================================================================
