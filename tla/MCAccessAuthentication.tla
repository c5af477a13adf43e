---------------------- MODULE MCAccessAuthentication ----------------------
(***************************************************************************)
(* Small instances of AccessAuthentication.                                *)
(***************************************************************************)
EXTENDS AccessAuthentication, TLC

CONSTANTS s1, s2, r1, r2, r3

\* No definition names a session or a request.
IdSymmetry == Permutations(Session) \cup Permutations(Request)
=============================================================================
