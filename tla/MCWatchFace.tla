----------------------------- MODULE MCWatchFace -----------------------------
(***************************************************************************)
(* Two activities of one process: one to hold a request, one to race it.    *)
(***************************************************************************)
EXTENDS WatchFace, TLC

CONSTANTS first, second

\* No definition tells one activity from another; only the run without a liveness
\* property uses it.
ActivitySymmetry == Permutations({first, second})
=============================================================================
