--------------------------- MODULE SessionAccess ---------------------------
(***************************************************************************)
(* What sessions promise to the rest of the service: a session is issued   *)
(* once, grants access from then on, and once its access has ended it is   *)
(* never granted again.  Any number of sessions may end in one step.       *)
(***************************************************************************)
CONSTANT Session

VARIABLE access   \* per session: not issued yet, active, or ended

Init == access = [s \in Session |-> "unissued"]

Issue(s) ==
    /\ access[s] = "unissued"
    /\ access' = [access EXCEPT ![s] = "active"]

End(S) ==
    /\ \A s \in S : access[s] = "active"
    /\ access' = [s \in Session |-> IF s \in S THEN "ended" ELSE access[s]]

Next == (\E s \in Session : Issue(s)) \/ (\E S \in SUBSET Session : End(S))

Spec == Init /\ [][Next]_access
=============================================================================
