-------------------------- MODULE MCVerification --------------------------
(***************************************************************************)
(* Small instances of Verification.  A behaviour is in one of two scopes:  *)
(* codes of one purpose that are verified and used, or codes of several    *)
(* purposes that are only sent, for longer.                                *)
(***************************************************************************)
EXTENDS Verification, TLC

CONSTANTS a1, a2, a3, v1, v2, v3, k1, k2

VARIABLE scope

RequestSymmetry == Permutations(Send) \cup Permutations(Verify) \cup Permutations(Key)

InScope ==
    CASE scope = "codes" ->
           /\ clock <= 1
           /\ \A a \in Send : send[a].purpose = "login"
           /\ \A v \in Verify : verify[v].purpose = "login"
      [] scope = "send" ->
           \A v \in Verify : verify[v].pc = "new" /\ verify[v].purpose = "login" /\ verify[v].guess = "wrong"

MCInit == Init /\ scope \in {"codes", "send"} /\ InScope

MCNext == Next /\ UNCHANGED scope /\ InScope'
=============================================================================
