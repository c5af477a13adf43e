------------------------- MODULE MCEncryptedBackup -------------------------
(***************************************************************************)
(* Small instances of EncryptedBackup.  A behaviour stays in one scope, so *)
(* that one run covers several small instances.                            *)
(***************************************************************************)
EXTENDS EncryptedBackup, TLC

CONSTANTS b1, b2, d1, d2, m1, l1, w1, w2

VARIABLE scope

MCInit == BkInit /\ scope \in {"cleanup", "keys", "lineage", "account"}
MCSteps == BkNext /\ UNCHANGED scope

Unused(b) == State(b) = "none" /\ \A r \in request : r.id # b
Devices == account # "disabled" => \A d \in Device : authDevice[d] = "active"
OneDevice == registration[d2].epoch = 0 /\ registration[d1].revision <= 1
NoPass == \A w \in Worker : pass[w].at = "idle"

InScope ==
    CASE scope = "cleanup" -> /\ account = "active" /\ upgraded = {} /\ Devices /\ OneDevice
                              /\ Unused(b2) /\ Cardinality(request) <= 1
      [] scope = "keys" -> account = "active" /\ upgraded = {} /\ Unused(b2) /\ NoPass /\ lapsed = {}
      [] scope = "lineage" -> /\ account = "active" /\ Devices /\ OneDevice /\ NoPass
                              /\ lapsed = {} /\ Cardinality(request) <= 1
      [] scope = "account" -> /\ Devices /\ OneDevice /\ Unused(b2)
                              /\ upgraded = {} \/ (upgraded = {b1} /\ request = {})
                              /\ pass[w2].at = "idle" /\ Cardinality(request) <= 1

\* A step that stays within the scope's bounds
MCNext == MCSteps /\ InScope'
=============================================================================
