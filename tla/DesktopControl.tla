--------------------------- MODULE DesktopControl ---------------------------
(***************************************************************************)
(* Desktop instances that report in, and the health checks administrators  *)
(* queue for them (internal/desktopcontrol).  A handler reads its clock    *)
(* before it waits for any lock, so the time at which it acts may lie up   *)
(* to MaxWait behind.  Heartbeats, claims and results lock the user and    *)
(* the device and are one step; queueing a check locks neither.  A health  *)
(* summary is its code, and the copy of it in the instance is left out.    *)
(***************************************************************************)
EXTENDS Principals

CONSTANTS Command, CheckKey, Admin,
          HealthCode, Healthy,
          OnlineFor,        \* 150 seconds
          commandLifetime,
          MaxWait, MaxClock

\* Times are numbers, and health has a code.
ASSUME DesktopAssumption ==
    /\ OnlineFor \in Nat /\ commandLifetime \in Nat /\ MaxClock \in Nat
    /\ Healthy \in HealthCode

VARIABLES clock,
          instance,     \* desktop_control_instances, by device
          command,      \* desktop_control_commands
          checkAudit,   \* audit events written for a command
          queueing,     \* QueueHealthCheck between its read and its INSERT
          told          \* the answers administrators were given

desktopVars == <<clock, instance, command, checkAudit, queueing, told>>

NoInstance == [owner |-> "nobody"]
NoCommand == [state |-> "none"]
Gone == [state |-> "gone"]
Idling == [at |-> "idle"]
Open == {"queued", "claimed", "running"}
Settled == {"succeeded", "failed", "expired"}
Rows == {c \in Command : command[c].state \in Open \cup Settled}

\* What a handler may take for the time
Reading == {t \in 0..clock : clock - t <= MaxWait}

-----------------------------------------------------------------------------
(* model.go *)

CanTransition(from, to) ==
    \/ from = "queued" /\ to \in {"claimed", "expired"}
    \/ from = "claimed" /\ to \in {"running", "expired"}
    \/ from = "running" /\ to \in {"succeeded", "failed", "expired"}

\* validateResult
CommandResult ==
    {[state |-> "running", code |-> "none"], [state |-> "succeeded", code |-> Healthy]}
        \cup {[state |-> "failed", code |-> x] : x \in HealthCode \ {Healthy}}

Status == {"pending", "revoked", "disabled", "online", "offline"}

\* EffectiveStatus, of the instance with its user's and its device's status
EffectiveStatus(d, now) ==
    LET u == user[instance[d].owner].status
        s == device[d].status
    IN CASE u \in {"disabled", "finalized"} -> "disabled"
         [] u = "pending_deletion" \/ (u = "active" /\ s = "inactive") -> "pending"
         [] u = "active" /\ s = "revoked" -> "revoked"
         [] OTHER -> IF now - instance[d].beat > OnlineFor THEN "offline" ELSE "online"

-----------------------------------------------------------------------------
(* repository.go *)

\* instanceQuery joins the instance's user and the device they own.
readInstance(d) == instance[d] # NoInstance /\ device[d].owner = instance[d].owner

\* The CASE of ListInstances: what the status filter is compared with
projected(d, now) ==
    LET u == user[instance[d].owner].status
        s == device[d].status
    IN CASE u \in {"disabled", "finalized"} -> "disabled"
         [] u = "pending_deletion" \/ (u = "active" /\ s = "inactive") -> "pending"
         [] u = "active" /\ s = "revoked" -> "revoked"
         [] OTHER -> IF instance[d].beat < now - OnlineFor THEN "offline" ELSE "online"

\* ListInstances with a status filter; ListUserInstances adds the user
ListInstances(status, now) == {d \in Device : readInstance(d) /\ projected(d, now) = status}
ListUserInstances(u, status, now) == {d \in ListInstances(status, now) : instance[d].owner = u}

\* requireActiveDevice
requireActiveDevice(u, d) == Active(u) /\ device[d] = [owner |-> u, status |-> "active"]

Overdue(c, now) == command[c].state \in Open /\ command[c].expires <= now

\* expireOverdueCommands, on all devices or on one
expireOverdueCommands(rows, now) ==
    [c \in Command |-> IF c \in rows /\ Overdue(c, now)
                       THEN [command[c] EXCEPT !.state = "expired", !.completed = now] ELSE command[c]]
expireAudit(rows, now) ==
    [c \in Command |-> [checkAudit[c] EXCEPT !.completed = @ + IF c \in rows /\ Overdue(c, now) THEN 1 ELSE 0]]

CommandsOf(d) == {c \in Rows : command[c].device = d}

\* findCommandByIdempotency
findCommandByIdempotency(d, k) == {c \in CommandsOf(d) : command[c].key = k}

AcceptHeartbeat(u, d, now, capable) ==
    /\ requireActiveDevice(u, d)
    /\ instance[d] # NoInstance => now >= instance[d].created
    /\ instance' = [instance EXCEPT ![d] =
           [owner |-> u, beat |-> now, capable |-> capable,
            created |-> IF @ = NoInstance THEN now ELSE @.created]]
    /\ UNCHANGED <<principals, clock, command, checkAudit, queueing, told>>

\* ClaimNextCommand, the second transaction of a heartbeat: the oldest queued
\* command.  Its answer may be lost on the way to the device.
ClaimNextCommand(u, d, now) ==
    LET queued == {c \in CommandsOf(d) : command[c].state = "queued" /\ command[c].expires > now}
        expired == expireOverdueCommands(CommandsOf(d), now)
    IN /\ requireActiveDevice(u, d) /\ readInstance(d) /\ instance[d].capable
       /\ \/ queued = {} /\ command' = expired
          \/ \E c \in queued :
                /\ \A other \in queued : command[c].created <= command[other].created
                /\ now >= command[c].created
                /\ command' = [expired EXCEPT ![c].state = "claimed", ![c].claimed = now, ![c].by = u]
       /\ checkAudit' = expireAudit(CommandsOf(d), now)
       /\ UNCHANGED <<principals, clock, instance, queueing, told>>

\* sameCommandResult
sameCommandResult(c, r) == command[c].state = r.state /\ command[c].code = r.code

\* A mutant: overdue commands are not expired first.
advanceOverdue(u, d, c, r, now) ==
    /\ requireActiveDevice(u, d)
    /\ c \in CommandsOf(d) /\ CanTransition(command[c].state, r.state)
    /\ now >= command[c].created
    /\ command' = [command EXCEPT ![c].state = r.state, ![c].completed = now, ![c].code = r.code]
    /\ checkAudit' = [checkAudit EXCEPT ![c].completed = @ + IF r.state \in Settled THEN 1 ELSE 0]
    /\ UNCHANGED <<principals, clock, instance, queueing, told>>

\* AdvanceCommand with a result that is new: every other one, a command that is
\* overdue included, is refused and the expiry is rolled back with the rest.
AdvanceCommand(u, d, c, r, now) ==
    /\ requireActiveDevice(u, d)
    /\ c \in CommandsOf(d)
    /\ ~Overdue(c, now) /\ CanTransition(command[c].state, r.state)
    /\ now >= IF r.state = "running" THEN command[c].claimed ELSE command[c].created
    /\ command' = [expireOverdueCommands(CommandsOf(d), now) EXCEPT
                      ![c].state = r.state, ![c].code = r.code,
                      ![c].completed = IF r.state = "running" THEN @ ELSE now]
    /\ checkAudit' = [expireAudit(CommandsOf(d), now) EXCEPT
                         ![c].completed = @ + IF r.state \in Settled THEN 1 ELSE 0]
    /\ UNCHANGED <<principals, clock, instance, queueing, told>>

\* AdvanceCommand with the result the command already has: it answers with the
\* command, and the expiry of the others is kept.
ResultAgain(u, d, c, r, now) ==
    /\ requireActiveDevice(u, d)
    /\ c \in CommandsOf(d) /\ command[c].state \in {"succeeded", "failed"} /\ sameCommandResult(c, r)
    /\ command' = expireOverdueCommands(CommandsOf(d), now)
    /\ checkAudit' = expireAudit(CommandsOf(d), now)
    /\ UNCHANGED <<principals, clock, instance, queueing, told>>

-----------------------------------------------------------------------------
(* Service: Heartbeat, SubmitResult, QueueHealthCheck, GetCommand *)

Heartbeat(u, d, now) ==
    \/ \E capable \in BOOLEAN : AcceptHeartbeat(u, d, now, capable)
    \/ ClaimNextCommand(u, d, now)

SubmitResult(u, d, c, r, now) == AdvanceCommand(u, d, c, r, now) \/ ResultAgain(u, d, c, r, now)

\* decoratePage, with a later reading of the clock than the query's
decoratePage(rows, now) == {[device |-> d, status |-> EffectiveStatus(d, now)] : d \in rows}

tell(d, k, c) == told' = told \cup {[device |-> d, key |-> k, command |-> c]}

\* QueueHealthCheck finds the key already used.
QueueReplayed(d, k, now) ==
    /\ \E c \in findCommandByIdempotency(d, k) : tell(d, k, c)
    /\ command' = expireOverdueCommands(Rows, now)
    /\ checkAudit' = expireAudit(Rows, now)
    /\ UNCHANGED <<principals, clock, instance, queueing>>

\* QueueHealthCheck up to the INSERT: nothing it has read is locked.
QueueRead(a, d, k, now) ==
    /\ queueing[a] = Idling
    /\ findCommandByIdempotency(d, k) = {}
    /\ readInstance(d) /\ EffectiveStatus(d, now) = "online" /\ instance[d].capable
    /\ Active(instance[d].owner) /\ device[d].status = "active"
    /\ queueing' = [queueing EXCEPT ![a] = [at |-> "read", device |-> d, key |-> k, now |-> now]]
    /\ UNCHANGED <<principals, clock, instance, command, checkAudit, told>>

Queued(t) ==
    [state |-> "queued", device |-> t.device, key |-> t.key, created |-> t.now,
     expires |-> t.now + commandLifetime, claimed |-> 0, completed |-> 0, code |-> "none", by |-> "none"]

\* The INSERT with its ON CONFLICT, and the commit
QueueInsert(a, c) ==
    LET t == queueing[a]
        taken == findCommandByIdempotency(t.device, t.key)
    IN /\ t # Idling /\ device[t.device] # NoDevice
       /\ \/ /\ taken = {} /\ command[c] = NoCommand
             /\ command' = [expireOverdueCommands(Rows, t.now) EXCEPT ![c] = Queued(t)]
             /\ checkAudit' = [expireAudit(Rows, t.now) EXCEPT ![c].requested = @ + 1]
             /\ tell(t.device, t.key, c)
          \/ /\ c \in taken
             /\ command' = expireOverdueCommands(Rows, t.now)
             /\ checkAudit' = expireAudit(Rows, t.now)
             /\ tell(t.device, t.key, c)
       /\ queueing' = [queueing EXCEPT ![a] = Idling]
       /\ UNCHANGED <<principals, clock, instance>>

\* The transaction is lost, for instance to a deadlock with a claim.
QueueAborted(a) ==
    /\ queueing[a] # Idling
    /\ queueing' = [queueing EXCEPT ![a] = Idling]
    /\ UNCHANGED <<principals, clock, instance, command, checkAudit, told>>

GetCommand(c, now) ==
    /\ c \in Rows
    /\ command' = expireOverdueCommands(Rows, now)
    /\ checkAudit' = expireAudit(Rows, now)
    /\ UNCHANGED <<principals, clock, instance, queueing, told>>

-----------------------------------------------------------------------------
\* A mutant: only the commands are deleted.
clearCommandsOnly(gone) ==
    /\ command' = [c \in Command |-> IF c \in Rows /\ command[c].device \in gone THEN Gone ELSE command[c]]
    /\ UNCHANGED instance

\* clearDesktopControlState of a device that moves to another user, and the
\* cascades of one that is deleted
clearDesktopControlState(gone) ==
    /\ instance' = [d \in Device |-> IF d \in gone THEN NoInstance ELSE instance[d]]
    /\ command' = [c \in Command |-> IF c \in Rows /\ command[c].device \in gone THEN Gone ELSE command[c]]

\* What a step of the other modules does here
DesktopFollows ==
    /\ clearDesktopControlState({d \in Device : device[d] # NoDevice /\ device'[d].owner # device[d].owner})
    /\ UNCHANGED <<clock, checkAudit, queueing, told>>

Tick == clock < MaxClock /\ clock' = clock + 1 /\ UNCHANGED <<principals, instance, command, checkAudit, queueing, told>>

DcInit ==
    /\ clock = 0
    /\ instance = [d \in Device |-> NoInstance]
    /\ command = [c \in Command |-> NoCommand]
    /\ checkAudit = [c \in Command |-> [requested |-> 0, completed |-> 0]]
    /\ queueing = [a \in Admin |-> Idling]
    /\ told = {}

DcNext ==
    \/ Tick
    \/ \E now \in Reading :
          \/ \E u \in User, d \in Device :
                Heartbeat(u, d, now) \/ \E c \in Command, r \in CommandResult : SubmitResult(u, d, c, r, now)
          \/ \E d \in Device, k \in CheckKey :
                QueueReplayed(d, k, now) \/ \E a \in Admin : QueueRead(a, d, k, now)
          \/ \E c \in Command : GetCommand(c, now)
    \/ \E a \in Admin : QueueAborted(a) \/ \E c \in Command : QueueInsert(a, c)

-----------------------------------------------------------------------------
\* A stored result was reported before the command's deadline and an expired
\* command was expired after it, although handlers work with different and
\* late readings of the clock (AdvanceCommand and expireOverdueCommands).
ResultsInTime ==
    \A c \in Rows :
        /\ command[c].state \in {"succeeded", "failed"} => command[c].completed < command[c].expires
        /\ command[c].state = "expired" => command[c].completed >= command[c].expires

\* A command moves only along CanTransition, and once it is settled neither its
\* outcome nor its time changes, until the device moves to another user and all
\* is deleted: late, repeated and contradicting results are refused.
CommandsMoveForward ==
    [][\A c \in Rows :
          command'[c] # command[c] =>
              \/ command'[c] = Gone
              \/ /\ command[c].state \notin Settled
                 /\ CanTransition(command[c].state, command'[c].state)]_command

\* Every queued command has one audit event of its request, and one of its
\* completion exactly when it is settled: expiries that are rolled back, results
\* that are repeated and checks that two administrators queue at once with one
\* key leave no event of their own (recordCommandAudit).
OneEventPerCheck ==
    \A c \in Rows :
        checkAudit[c] = [requested |-> 1, completed |-> IF command[c].state \in Settled THEN 1 ELSE 0]

\* Administrators who queue with one key on one device are all told of one
\* command, also when they queue at the same moment (QueueHealthCheck).
OneCommandPerKey ==
    \A x, y \in told :
        x.device = y.device /\ x.key = y.key /\ {x.command, y.command} \subseteq Rows => x.command = y.command

\* What a device reported and the commands it has claimed belong to its present
\* owner: nothing of the former owner's survives a transfer
\* (clearDesktopControlState, device/repository.go:164).
NothingSurvivesTransfer ==
    /\ \A d \in Device : instance[d] # NoInstance => instance[d].owner = device[d].owner
    /\ \A c \in Rows : command[c].by # "none" => command[c].by = device[command[c].device].owner

\* The status filter of the lists selects by the status the answer then shows,
\* at the boundary of the online window too (the CASE of ListInstances,
\* EffectiveStatus): an answer differs from its filter only by an instance that
\* went offline between the two readings of the clock, no instance is left out of
\* every filter, and a user's list holds only devices they own.
ListsAgree ==
    \A now, later \in Reading :
        now <= later =>
            /\ \A status \in Status : \A shown \in decoratePage(ListInstances(status, now), later) :
                  shown.status = status \/ (now < later /\ status = "online" /\ shown.status = "offline")
            /\ \A d \in Device : readInstance(d) => \E status \in Status : d \in ListInstances(status, now)
            /\ \A u \in User, status \in Status : ListUserInstances(u, status, now) \subseteq DevicesOf(u)
=============================================================================
