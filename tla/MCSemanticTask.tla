--------------------------- MODULE MCSemanticTask ---------------------------
(* Instances of SemanticTask for TLC.                                        *)
EXTENDS SemanticTask, TLC

\* Workers do the same, and so do requesters.
Symmetry == Permutations(Worker) \cup Permutations(Requester)
=============================================================================
