--------------------------- MODULE MCFileArtifacts ---------------------------
(* Instances of FileArtifacts for TLC.                                     *)
EXTENDS FileArtifacts, TLC

\* Builders do the same, and so do updaters.
Symmetry == Permutations(Builder) \cup Permutations(Updater) \cup Permutations(Content)
=============================================================================
