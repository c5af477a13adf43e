---------------------------- MODULE MCOperations ----------------------------
(***************************************************************************)
(* Small instances of Operations.  A behaviour stays in one scope: the     *)
(* components that take steps, the rows it begins with and a bound.        *)
(***************************************************************************)
EXTENDS Operations, Paging, TLC

CONSTANTS u1, u2, d1, d2, s1, s2, p1, p2, b1, b2, r1, r2, k1, k2, m1,
          v1, v2, v3, n1, n2, x1, x2, o1, o2, c1, c2, a1, a2, y1, h1, h2

VARIABLE scope

MCKind == (v1 :> "email") @@ (v2 :> "email") @@ (v3 :> "phone")

Ask(action, target, revisions) == [action : {action}, target : {target}, expected : revisions]
MCAsked ==
    UNION {Ask("disable_user", u1, {1, 2}), Ask("enable_user", u1, {2}), Ask("revoke_all_sessions", u1, {1}),
           Ask("force_password_reset", u1, {1}), Ask("revoke_device", d1, {1}),
           Ask("revoke_session", s1, {1})}

MCRetried == Ask("disable_user", u1, {1, 2}) \cup Ask("revoke_session", s1, {1})

Account(u, status) == user[u].status = status /\ user[u].credential = Fresh(p1)
Home(d, u) == device[d] = [owner |-> u, status |-> "active"]
Row(s, f) == sess[s] = [user |-> u1, device |-> d1, family |-> f, live |-> TRUE]
Named(u, v) == [value |-> v, key |-> OldKey, user |-> u] \in identity
NoSessions == sess = [s \in Session |-> NoRow]
NoBrowsers == web = [b \in Browser |-> NoWeb]
NoReceipts == receipt = [x \in Receipt |-> [purpose |-> "login", value |-> v1, spent |-> FALSE]]
Open2 == web[b1].user = u1 /\ web[b2].user = u2

Two == Account(u1, "active") /\ Account(u2, "active") /\ device[d2] = NoDevice
Begins ==
    CASE scope \in {"admin", "retry"} -> Two /\ Home(d1, u1) /\ Row(s1, s1) /\ Row(s2, s1)
      [] scope = "exchange" -> Two /\ NoSessions /\ (device[d1] # NoDevice => Home(d1, u1))
      [] scope \in {"transfer", "desktop", "handover", "paging"} -> Two /\ NoSessions /\ Home(d1, u1)
      [] scope \in {"identity", "rotation"} ->
             /\ user[u1].credential = Fresh(p1) /\ Account(u2, "none")
             /\ device = [d \in Device |-> NoDevice] /\ NoSessions
      [] scope \in {"password", "login"} ->
             /\ user[u1].status = "active" /\ user[u1].credential.password = p1 /\ Account(u2, "none")
             /\ Home(d1, u1) /\ device[d2] = NoDevice /\ Row(s1, s1) /\ sess[s2] = NoRow

Proof(x, purposes, values) == receipt[x].purpose \in purposes /\ receipt[x].value \in values

Starts ==
    /\ message[m1].device = d1
    /\ user[u1].status = "active" => Named(u1, v1)
    /\ user[u2].status = "active" => Named(u2, v2)
    /\ IF scope \in {"exchange", "transfer", "handover"} THEN Open2 ELSE NoBrowsers
    /\ CASE scope = "identity" -> Proof(x1, {"registration", "bind_identity"}, {v1, v3})
                                  /\ Proof(x2, {"bind_identity"}, {v3})
         [] scope = "password" -> \A x \in Receipt : Proof(x, {"password_reset", "account_deletion", "deletion_recovery"}, {v1})
         [] OTHER -> NoReceipts

MCInit ==
    /\ scope \in {"admin", "retry", "exchange", "transfer", "desktop", "handover",
                  "identity", "rotation", "password", "login", "paging"}
    /\ PgInit /\ (scope # "paging" => entry = [i \in Id |-> NoEntry])
    /\ PrInit /\ Begins
    /\ AdInit /\ SignInit /\ DcInit /\ IdInit
    /\ Starts

OpScopes ==
    /\ scope # "paging" /\ UNCHANGED pageVars
    /\ \/ scope \in {"admin", "retry", "password", "login"} /\ AdStep
       \/ scope \in {"admin", "retry", "exchange", "desktop", "password"} /\ CommandLineStep
       \/ scope \in {"exchange", "transfer", "handover"} /\ SignStep
       \/ scope \in {"desktop", "handover"} /\ DcStep
       \/ scope \in {"identity", "rotation", "password", "login"} /\ IdStep
    /\ UNCHANGED scope

-----------------------------------------------------------------------------
(* The bounds of a scope *)

Alone == adminTx[o2] = NoTx /\ adminOp[o2] = NoOp
OneKey == adminRing = Key /\ \A o \in Operation : adminTx[o] # NoTx => adminTx[o].key = k1
Resets == Alone /\ OneKey /\ (adminTx[o1] # NoTx => adminTx[o1].request.action = "force_password_reset")
NoNonce == message[m1].fresh /\ message[m1].found = "none" /\ ~message[m1].nonce
NoRotation == \A n \in Server : ring[n].keys = {OldKey}
OneGrant == grant[r2] = NoGrant /\ (grant[r1] # NoGrant => grant[r1].device = d1)
Steady(b) == web[b].phase = "open" /\ web[b].short
NoLapse(r) == grant[r] # NoGrant => (~grant[r].lapsed /\ grant[r].key = k1)

Walked(list) ==
    /\ IF list = "users" THEN stirred = {} \/ cursorRing = CursorKey
       ELSE cursorRing = CursorKey /\ walk.cursor.key \in {NoKey, k1}
    /\ IF list \in {"users", "devices", "instances"} THEN Cardinality(stirred) <= 2
       ELSE walk.limit = 1 /\ Cardinality(stirred) <= 1

InScope ==
    CASE scope = "admin" -> OneKey /\ user[u2].revision = 1
      [] scope = "retry" -> /\ Alone /\ user[u2].revision = 1 /\ user[u1].revision <= 2
                            /\ adminTx[o1] # NoTx => adminTx[o1].request \in MCRetried
      [] scope = "exchange" -> /\ NoNonce /\ grant[r2] = NoGrant /\ user[u2].revision = 1
                               /\ Steady(b2)
      [] scope = "transfer" -> /\ stateRing = StateKey /\ Steady(b1) /\ Steady(b2)
                               /\ \A r \in Grant : NoLapse(r) /\ (grant[r] # NoGrant => grant[r].device = d1)
      [] scope = "desktop" -> user[u1].revision <= 2 /\ user[u2].revision = 1
      [] scope = "handover" -> /\ OneGrant /\ NoLapse(r1) /\ stateRing = StateKey /\ NoNonce
                               /\ Steady(b1) /\ Steady(b2) /\ clock <= 1 /\ queueing[a2] = Idling
      [] scope = "identity" -> NoRotation /\ NoBrowsers
      [] scope = "rotation" -> NoBrowsers /\ confirmed = {}
      [] scope = "password" -> Resets /\ NoRotation /\ NoBrowsers /\ adding[n1] = Idle /\ adding[n2] = Idle
      [] scope = "paging" -> walk.phase = "idle" \/ Walked(walk.cursor.list)
      [] scope = "login" -> Resets /\ NoRotation /\ adding[n1] = Idle /\ adding[n2] = Idle /\ confirmed = {}

MCNext ==
    /\ \/ OpScopes
       \/ scope = "paging" /\ PgNext /\ UNCHANGED <<vars, scope>>
    /\ InScope'
=============================================================================
