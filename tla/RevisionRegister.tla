-------------------------- MODULE RevisionRegister --------------------------
(***************************************************************************)
(* What the administrative API promises: a user's administrative revision  *)
(* is a register, an operation is a compare-and-set on it that is settled  *)
(* at most once, and what it settled to never changes.  Operators at the   *)
(* command line move the register too.                                     *)
(***************************************************************************)
EXTENDS Naturals

CONSTANTS User, Operation

VARIABLES register, settled

Pending == [status |-> "none"]
Refused == [status |-> "refused"]
Succeeded(u, seen) == [status |-> "succeeded", user |-> u, expected |-> seen, revision |-> seen + 1]

RrInit == register \in [User -> Nat] /\ settled = [o \in Operation |-> Pending]

CompareAndSet(o, u) ==
    /\ settled[o] = Pending
    /\ register' = [register EXCEPT ![u] = @ + 1]
    /\ settled' = [settled EXCEPT ![o] = Succeeded(u, register[u])]

Refuse(o) ==
    /\ settled[o] = Pending
    /\ settled' = [settled EXCEPT ![o] = Refused]
    /\ UNCHANGED register

ByOperator(u) ==
    /\ register' = [register EXCEPT ![u] = @ + 1]
    /\ UNCHANGED settled

RrNext ==
    \/ \E o \in Operation : Refuse(o) \/ \E u \in User : CompareAndSet(o, u)
    \/ \E u \in User : ByOperator(u)

RrSpec == RrInit /\ [][RrNext]_<<register, settled>>
=============================================================================
