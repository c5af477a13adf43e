---------------------------- MODULE Verification ----------------------------
(***************************************************************************)
(* Verification codes for one e-mail address or phone number               *)
(* (internal/verification), and the single use of the receipts that the    *)
(* account operations take (internal/account/repository.go).               *)
(*                                                                         *)
(* A Send delivers a six-digit code and then saves its challenge; Send     *)
(* identifies both.  Each step is one call to Redis, PostgreSQL or the     *)
(* provider.  A code is modelled by the challenge it opens.                *)
(***************************************************************************)
EXTENDS Integers, FiniteSets

CONSTANTS
    Send, Verify,   \* requests
    Key,            \* Idempotency-Key values
    Purpose,
    Unified,        \* purposes that share one cooldown: registration and login, of a phone
    ResendDelay, Lifetime, Retention,   \* in units of the clock
    MaxFailures,    \* 5 in the code
    MaxClock        \* bound of the instance

ASSUME Parameters ==
    /\ IsFiniteSet(Send) /\ "free" \notin Send
    /\ Unified \subseteq Purpose
    /\ ResendDelay \in Nat \ {0} /\ Lifetime \in Nat \ {0} /\ Retention \in Nat
    /\ MaxFailures \in Nat \ {0} /\ MaxClock \in Nat

VARIABLES
    clock,
    challenges,   \* verification_challenges, by the Send that inserts the row
    lease,        \* delivery lease in Redis per <<purpose, key>>: its owner, or "free"
    window,       \* when the phone's cooldown counter in Redis lapses
    send, verify, \* the requests
    receipts,     \* challenges named by a receipt that was handed out
    history       \* per challenge: wrong codes compared, codes accepted, receipts used

vars == <<clock, challenges, lease, window, send, verify, receipts, history>>

Row == [state : {"absent", "open", "consumed", "invalidated", "deleted"},
        failed : 0..MaxFailures, consumed_at : 0..MaxClock, spent : BOOLEAN]

\* now, stamp: created_at of the challenge, and its place among the others;
\* at: when the limits let the request through; lost: its lease ran out.
SendState ==
    [pc : {"new", "acquire", "recheck", "cooldown", "admit", "deliver", "save", "release", "done"},
     purpose : Purpose, key : Key, now : 0..MaxClock, stamp : Nat,
     at : -1..MaxClock, delivered : BOOLEAN, failed : BOOLEAN, lost : BOOLEAN]

VerifyState ==
    [pc : {"new", "select", "compare", "done"}, purpose : Purpose, guess : Send \cup {"wrong"},
     now : 0..MaxClock, latest : Send \cup {"none"}, rows : SUBSET Send]

TypeOK ==
    /\ clock \in 0..MaxClock
    /\ challenges \in [Send -> Row]
    /\ lease \in [Purpose \X Key -> Send \cup {"free"}]
    /\ window \in 0..MaxClock + ResendDelay
    /\ send \in [Send -> SendState] /\ verify \in [Verify -> VerifyState]
    /\ receipts \subseteq Send
    /\ history \in [Send -> [wrong : Nat, accepted : Nat, used : Nat]]

Init ==
    /\ clock = 0 /\ window = 0 /\ receipts = {}
    /\ challenges = [s \in Send |-> [state |-> "absent", failed |-> 0, consumed_at |-> 0,
                                     spent |-> FALSE]]
    /\ lease = [pk \in Purpose \X Key |-> "free"]
    /\ send \in [Send -> {[pc |-> "new", purpose |-> p, key |-> k, now |-> 0, stamp |-> 0, at |-> -1,
                           delivered |-> FALSE, failed |-> FALSE, lost |-> FALSE] :
                          p \in Purpose, k \in Key}]
    /\ verify \in [Verify -> {[pc |-> "new", purpose |-> p, guess |-> g, now |-> 0,
                               latest |-> "none", rows |-> {}] :
                              p \in Purpose, g \in Send \cup {"wrong"}}]
    /\ history = [s \in Send |-> [wrong |-> 0, accepted |-> 0, used |-> 0]]

(***************************************************************************)
(* The table.                                                              *)
(***************************************************************************)
Present(c) == challenges[c].state \in {"open", "consumed", "invalidated"}
ExpiresAt(c) == send[c].now + Lifetime
Lease(s) == <<send[s].purpose, send[s].key>>

\* ORDER BY created_at DESC LIMIT 1
Newest(C) == {c \in C : \A d \in C : send[d].stamp <= send[c].stamp}

OfPurpose(P) == {c \in Send : Present(c) /\ send[c].purpose \in P}

ExistsByIdempotency(s) ==
    \E c \in Send : Present(c) /\ send[c].purpose = send[s].purpose /\ send[c].key = send[s].key

(***************************************************************************)
(* Send.                                                                   *)
(***************************************************************************)
Goto(s, pc) == send' = [send EXCEPT ![s].pc = pc]

BeginSend(s) ==
    /\ send[s].pc = "new"
    /\ Goto(s, IF ExistsByIdempotency(s) THEN "done" ELSE "acquire")
    /\ UNCHANGED <<clock, challenges, lease, window, verify, receipts, history>>

Acquire(s) ==
    /\ send[s].pc = "acquire"
    /\ \/ /\ lease[Lease(s)] = "free"
          /\ lease' = [lease EXCEPT ![Lease(s)] = s]
          /\ Goto(s, "recheck")
       \/ /\ lease[Lease(s)] # "free"
          /\ Goto(s, "done") /\ UNCHANGED lease
    /\ UNCHANGED <<clock, challenges, window, verify, receipts, history>>

\* The second look at the idempotency key left out.
RecheckSkipped(s) ==
    /\ send[s].pc = "recheck"
    /\ Goto(s, "cooldown")
    /\ UNCHANGED <<clock, challenges, lease, window, verify, receipts, history>>

Recheck(s) ==
    /\ send[s].pc = "recheck"
    /\ Goto(s, IF ExistsByIdempotency(s) THEN "release" ELSE "cooldown")
    /\ UNCHANGED <<clock, challenges, lease, window, verify, receipts, history>>

CooldownPurposes(s) == IF send[s].purpose \in Unified THEN Unified ELSE {send[s].purpose}

Cooldown(s) ==
    /\ send[s].pc = "cooldown"
    /\ LET tooSoon == \E c \in Newest(OfPurpose(CooldownPurposes(s))) :
                         clock < send[c].now + ResendDelay
           stamp == Cardinality({x \in Send : send[x].stamp > 0}) + 1 IN
       send' = [send EXCEPT ![s].pc = IF tooSoon THEN "release" ELSE "admit",
                            ![s].now = clock, ![s].stamp = stamp]
    /\ UNCHANGED <<clock, challenges, lease, window, verify, receipts, history>>

\* The counter of the phone looked at without being incremented.
AdmitUncounted(s) ==
    /\ send[s].pc = "admit"
    /\ send' = [send EXCEPT ![s].pc = "deliver", ![s].at = clock]
    /\ UNCHANGED <<clock, challenges, lease, window, verify, receipts, history>>

\* The limits per identity, address and device and the CAPTCHA, then the phone's
\* counter, which lets one request through per window.
Admit(s) ==
    /\ send[s].pc = "admit"
    /\ IF send[s].purpose \in Unified
       THEN window <= clock /\ window' = clock + ResendDelay
       ELSE UNCHANGED window
    /\ send' = [send EXCEPT ![s].pc = "deliver", ![s].at = clock]
    /\ UNCHANGED <<clock, challenges, lease, verify, receipts, history>>

\* A limit, the CAPTCHA or the cooldown refuses the request, or a store fails.
Refuse(s) ==
    /\ send[s].pc \in {"acquire", "recheck", "cooldown", "admit"}
    /\ Goto(s, IF send[s].pc = "acquire" THEN "done" ELSE "release")
    /\ UNCHANGED <<clock, challenges, lease, window, verify, receipts, history>>

\* The provider may deliver and still report an error.
Deliver(s) ==
    /\ send[s].pc = "deliver"
    /\ \E delivered, ok \in BOOLEAN :
         /\ ok => delivered
         /\ send' = [send EXCEPT ![s].pc = IF ok THEN "save" ELSE "release",
                                 ![s].delivered = delivered, ![s].failed = ~ok]
    /\ UNCHANGED <<clock, challenges, lease, window, verify, receipts, history>>

\* The insert is refused by the unique idempotency hash, or fails.
SaveAfterDelivery(s) ==
    /\ send[s].pc = "save"
    /\ \/ /\ ~ExistsByIdempotency(s)
          /\ challenges' = [challenges EXCEPT ![s].state = "open"]
          /\ Goto(s, "release")
       \/ /\ ExistsByIdempotency(s)
          /\ Goto(s, "release") /\ UNCHANGED challenges
       \/ /\ send' = [send EXCEPT ![s].pc = "release", ![s].failed = TRUE]
          /\ UNCHANGED challenges
    /\ UNCHANGED <<clock, lease, window, verify, receipts, history>>

\* Owner-checked release; its error is only logged.
Release(s) ==
    /\ send[s].pc = "release"
    /\ Goto(s, "done")
    /\ \/ UNCHANGED lease
       \/ lease[Lease(s)] = s /\ lease' = [lease EXCEPT ![Lease(s)] = "free"]
    /\ UNCHANGED <<clock, challenges, window, verify, receipts, history>>

LeaseExpires(s) ==
    /\ lease[Lease(s)] = s
    /\ lease' = [lease EXCEPT ![Lease(s)] = "free"]
    /\ send' = [send EXCEPT ![s].lost = send[s].pc # "done"]
    /\ UNCHANGED <<clock, challenges, window, verify, receipts, history>>

\* The server dies; the lease is left to expire.
Crash(s) ==
    /\ send[s].pc \notin {"new", "done"}
    /\ send' = [send EXCEPT ![s].pc = "done", ![s].failed = @ \/ send[s].pc = "save"]
    /\ UNCHANGED <<clock, challenges, lease, window, verify, receipts, history>>

(***************************************************************************)
(* Verify.                                                                 *)
(***************************************************************************)
\* Latest, whatever its state: an older challenge is never tried instead.
BeginVerify(v) ==
    /\ verify[v].pc = "new"
    /\ \E c \in Newest(OfPurpose({verify[v].purpose})) \cup {"none"} :
         LET usable == c # "none" /\ challenges[c].state = "open" /\ clock < ExpiresAt(c) IN
         /\ c = "none" => OfPurpose({verify[v].purpose}) = {}
         /\ verify' = [verify EXCEPT ![v].pc = IF usable THEN "select" ELSE "done",
                                     ![v].now = clock, ![v].latest = c]
    /\ UNCHANGED <<clock, challenges, lease, window, send, receipts, history>>

Open(c, now) == challenges[c].state = "open" /\ now < ExpiresAt(c)

\* Consume: the open rows in the snapshot of its SELECT ...
SelectChallenge(v) ==
    /\ verify[v].pc = "select"
    /\ verify' = [verify EXCEPT ![v].pc = "compare",
                    ![v].rows = {c \in OfPurpose({verify[v].purpose}) : Open(c, verify[v].now)}]
    /\ UNCHANGED <<clock, challenges, lease, window, send, receipts, history>>

FailuresAfter(c) == challenges[c].failed + 1

Mismatch(c) ==
    /\ challenges' = [challenges EXCEPT
         ![c].failed = FailuresAfter(c),
         ![c].state = IF FailuresAfter(c) >= MaxFailures THEN "invalidated" ELSE "open"]
    /\ history' = [history EXCEPT ![c].wrong = @ + 1]
    /\ UNCHANGED receipts

\* The receipt names the challenge that Latest returned.
Match(v, c) ==
    /\ challenges' = [challenges EXCEPT ![c].state = "consumed", ![c].consumed_at = verify[v].now]
    /\ history' = [history EXCEPT ![c].accepted = @ + 1]
    /\ \/ receipts' = receipts \cup {verify[v].latest}
       \/ UNCHANGED receipts   \* the server dies before it answers

Answered(v) == verify' = [verify EXCEPT ![v].pc = "done", ![v].rows = {}]

\* Consume without FOR UPDATE: the row is taken as the snapshot showed it.
CompareUnlocked(v) ==
    /\ verify[v].pc = "compare"
    /\ \E c \in Newest(verify[v].rows) : IF verify[v].guess = c THEN Match(v, c) ELSE Mismatch(c)
    /\ Answered(v)
    /\ UNCHANGED <<clock, lease, window, send>>

\* ... are locked newest first: a row that changed while the statement waited is
\* looked at again and passed over unless it is still open.  The comparison and
\* its outcome are committed under the lock.
Compare(v) ==
    /\ verify[v].pc = "compare"
    /\ \/ \E c \in Newest(verify[v].rows) :
            \/ /\ Open(c, verify[v].now)
               /\ IF verify[v].guess = c THEN Match(v, c) ELSE Mismatch(c)
               /\ Answered(v)
            \/ /\ ~Open(c, verify[v].now)
               /\ verify' = [verify EXCEPT ![v].rows = @ \ {c}]
               /\ UNCHANGED <<challenges, receipts, history>>
       \/ /\ verify[v].rows = {}
          /\ Answered(v)
          /\ UNCHANGED <<challenges, receipts, history>>
    /\ UNCHANGED <<clock, lease, window, send>>

\* A database error rolls the transaction back; the answer does not depend on
\* the code.
VerifyUnavailable(v) ==
    /\ verify[v].pc \in {"select", "compare"}
    /\ Answered(v)
    /\ UNCHANGED <<clock, challenges, lease, window, send, receipts, history>>

(***************************************************************************)
(* Receipts, and the maintenance of the table.                             *)
(***************************************************************************)
\* Only the state of the code is looked at, not that of its receipt.
ReceiptConsumable(c) == challenges[c].state = "consumed"

ReceiptAvailable(c) == challenges[c].state = "consumed" /\ ~challenges[c].spent

\* Register, ConsumeLoginReceipt, ResetPassword, BindIdentity and the deletion
\* requests: lockAvailableReceipt, the operation's own work and
\* markReceiptConsumed in one transaction, or a rollback of all of it.
SpendReceipt(c) ==
    /\ c \in receipts /\ ReceiptAvailable(c)
    /\ challenges' = [challenges EXCEPT ![c].spent = TRUE]
    /\ history' = [history EXCEPT ![c].used = @ + 1]
    /\ UNCHANGED <<clock, lease, window, send, verify, receipts>>

CleanUp(c) ==
    /\ Present(c)
    /\ \/ challenges[c].spent
       \/ challenges[c].state # "consumed" /\ ExpiresAt(c) <= clock
       \/ challenges[c].state = "consumed" /\ challenges[c].consumed_at + Retention <= clock
    /\ challenges' = [challenges EXCEPT ![c].state = "deleted"]
    /\ UNCHANGED <<clock, lease, window, send, verify, receipts, history>>

Tick ==
    /\ clock < MaxClock
    /\ clock' = clock + 1
    /\ UNCHANGED <<challenges, lease, window, send, verify, receipts, history>>

Next ==
    \/ \E s \in Send :
         \/ BeginSend(s) \/ Acquire(s) \/ Recheck(s) \/ Cooldown(s) \/ Admit(s) \/ Refuse(s)
         \/ Deliver(s) \/ SaveAfterDelivery(s) \/ Release(s) \/ LeaseExpires(s) \/ Crash(s)
         \/ SpendReceipt(s) \/ CleanUp(s)
    \/ \E v \in Verify : 
         BeginVerify(v) \/ SelectChallenge(v) \/ Compare(v) \/ VerifyUnavailable(v)
    \/ Tick

Spec == Init /\ [][Next]_vars

(***************************************************************************)
(* Properties.                                                             *)
(***************************************************************************)
\* No two codes within the resend delay: of requests with different idempotency
\* keys, also one for registration and one for login, no two that the limits let
\* through inside one window are delivered, although neither sees the challenge
\* that the other has yet to save.
ResendDelayIsKept ==
    \A r, s \in Send :
        /\ r # s /\ send[r].delivered /\ send[s].delivered
        /\ send[s].purpose \in CooldownPurposes(r)
        => send[r].at >= send[s].at + ResendDelay \/ send[s].at >= send[r].at + ResendDelay

\* Something went wrong with a request that carries the key of s: its lease ran
\* out, its delivery or insert failed, it crashed in between, or the maintenance
\* has deleted its challenge.
Troubled(s) ==
    \E x \in Send : /\ Lease(x) = Lease(s)
                    /\ send[x].lost \/ send[x].failed \/ challenges[x].state = "deleted"

\* A repeated Idempotency-Key delivers a second code only after something went
\* wrong with one of the requests that carry it, however they overlap.
RepeatsDeliverOnce ==
    \A r, s \in Send :
        r # s /\ Lease(r) = Lease(s) /\ send[r].delivered /\ send[s].delivered => Troubled(s)

\* Guesses are not lost: the failures on record are the wrong codes compared
\* with the challenge, so concurrent guesses cannot exceed the allowance, and no
\* code is accepted once it is used up.
EveryGuessCounts ==
    \A c \in Send : /\ history[c].wrong = challenges[c].failed
                    /\ history[c].wrong <= MaxFailures
                    /\ challenges[c].state = "consumed" => challenges[c].failed < MaxFailures

\* A code opens its challenge once and authorizes one account operation at most,
\* although two verifications can be answered with receipts that name the same
\* challenge.
OneUsePerCode ==
    \A c \in Send : history[c].used <= history[c].accepted /\ history[c].accepted <= 1
=============================================================================
