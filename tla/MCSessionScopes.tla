-------------------------- MODULE MCSessionScopes --------------------------
(***************************************************************************)
(* Two instances of SessionLifecycle in one run: three session rows of one *)
(* device, and two accounts with two devices where one may be active.      *)
(***************************************************************************)
EXTENDS MCSessionLifecycle

VARIABLE scope

MCInit == Init /\ scope \in {"families", "limit"}

InScope ==
    CASE scope = "families" ->
           \A w \in Worker : /\ tx[w].op \notin {"change_password", "device_revoke"}
                             /\ tx[w].op # "none" => tx[w].user = u1 /\ tx[w].device = d1
      [] scope = "limit" ->
           \A w \in Worker : tx[w].op # "refresh" /\ s3 \notin tx[w].fresh

MCNext == Next /\ UNCHANGED scope /\ InScope'
=============================================================================
