------------------------- MODULE MCSessionLifecycle -------------------------
(***************************************************************************)
(* Small instances of SessionLifecycle.                                    *)
(***************************************************************************)
EXTENDS SessionLifecycle, TLC

CONSTANTS u1, u2, d1, d2, s1, s2, s3, w1, w2, w3

\* Workers are interchangeable: no definition names one.
WorkerSymmetry == Permutations(Worker)
=============================================================================
