------------------------ MODULE MC_EstimatorOptions ------------------------
(* A small instance of EstimatorOptions for TLC. *)
EXTENDS EstimatorOptions

\* Each side of both range boundaries, and a level inside.
MCLevels == {-1, 0, 1, 3, 4}
\* The three sequences of DDSequenceType and one it rejects.
MCDDValues == {"XX", "XpXm", "XY4", "XZ"}
============================================================================
