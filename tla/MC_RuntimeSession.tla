------------------------- MODULE MC_RuntimeSession -------------------------
(* Small instances of RuntimeSession for TLC. *)
EXTENDS RuntimeSession, TLC

CONSTANTS j1, j2, j3, t1, t2

\* Three writes: the third is the first whose session id comes from a
\* _session_id set by an earlier write rather than by the first job.
MCJobIds3 == {j1, j2, j3}
MCJobIds2 == {j1, j2}
MCThreads2 == {t1, t2}
MCThreads1 == {t1}

\* uuids and caller threads are interchangeable.
MCSymmetry == Permutations(MCJobIds3) \cup Permutations(MCThreads2)
============================================================================
