---------------------------- MODULE MCFileBuild ----------------------------
(* Instances of FileBuild for TLC.                                         *)
EXTENDS FileBuildJobs, TLC

CONSTANTS s1, s2, c1, p1, p2

\* Two Build Runners of different releases, and an Entity worker of the newer one.
TwoProfiles == [e \in Executor |-> IF e = s1 THEN p1 ELSE p2]

OneProfile == [e \in Executor |-> p1]

\* Contents are only compared.
Symmetry == Permutations(Checksum)
=============================================================================
