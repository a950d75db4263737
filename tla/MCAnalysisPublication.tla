----------------------- MODULE MCAnalysisPublication -----------------------
(* Constants for the checks of AnalysisPublication. *)
EXTENDS AnalysisPublication, TLC

CONSTANTS r1, r2, d1

SharedId == [w \in Workers |-> CHOOSE i \in Ids : TRUE]
\* Issue ids are fresh, so no two publications of one analysis clash.
OwnKeys  == [p \in Publications |-> p]
\* Every issue belongs to the first run; the second is its rollback's fallback.
FirstRun == [p \in Publications |-> r1]
OneDate  == [r \in Runs |-> d1]

Symmetry == Permutations(Publications) \cup Permutations(Admins)
============================================================================
