--------------------------- MODULE MC_FakeRuntime ---------------------------
(* Small instances of FakeRuntime for TLC. *)
EXTENDS FakeRuntime, TLC

CONSTANTS j1, j2, j3

\* Two uuids reach every pair of interleaved tasks; three put a cancelled
\* future between two others in the queue.
MCJobIds3 == {j1, j2, j3}
MCJobIds2 == {j1, j2}

\* Job ids are drawn at random by uuid4, so any permutation of them is sound.
MCSymmetry == Permutations(MCJobIds2)
============================================================================
