--------------------------- MODULE MCBriefEvents ---------------------------
(* Instances of BriefEvents for TLC.                                       *)
EXTENDS BriefEvents, TLC

Symmetry == Permutations(Instances) \cup Permutations(Writers) \cup Permutations(Events)
=============================================================================
