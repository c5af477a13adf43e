# TLA+ models of aera-cloud

aera-cloud is the account and control service behind the AgentEra desktop: Go
request handlers without state of their own, PostgreSQL for everything durable
(READ COMMITTED, through pgx), Redis for leases, rate limits, browser sessions and
a cache of session states, MinIO for encrypted backups. What can go wrong in it
happens between two statements of two handlers, between a check and the write that
relies on it, and between a commit and the clean-up it promised.

`PROJECT.json` lists every component, run, mutant, theorem, finding and hazard, and
maps each definition to the lines it translates.

## The system and its models

| Part of the system | Source (`internal/`) | Modules | Proofs |
|---|---|---|---|
| Sessions, refresh-token families, devices, entitlements | `session`, `device`, `entitlement` | `SessionLifecycle`, `SessionAccess` | `SessionLifecycleProofs` |
| Access-token check and its Redis cache | `session/revocation.go` | `AccessAuthentication` | `RequestProofs` |
| Verification codes and receipts | `verification`, `account` | `Verification` | `RequestProofs` |
| Encrypted backups, maintenance passes | `encryptedbackup`, `jobs` | `EncryptedBackup` | `EncryptedBackupProofs` |
| Workspaces, organizations, account deletion | `workspace`, `organization`, `account` | `Workspace`, `Organization`, `Accounts`, `Tenancy` | `TenancyProofs` |
| Operator operations | `admin` | `AdminControl`, `RevisionRegister` | `OperationsProofs` |
| Browser sessions, OAuth, self-revocation | `browser`, `oauth`, `device` | `SignIn` | `PrincipalsProofs`, `OperationsProofs` |
| Registration, login, identities, key rotation | `account`, `crypto` | `AccountIdentity` | `PrincipalsProofs`, `OperationsProofs` |
| Desktop instances and health checks | `desktopcontrol` | `DesktopControl` | `PrincipalsProofs`, `OperationsProofs` |
| The four together, over shared rows | | `Principals`, `Operations` | `OperationsProofs` |
| Lists read in pages | `admin`, `officialquality` | `Paging` | `RequestProofs` |
| Agents of users and teams, policies, reviews | `agentcontrol` | `AgentControl`, `AgentPolicy`, `AgentReview` | `AgentReviewProofs`, `AgentsProofs` |
| The official catalogue | `agentcontrol` | `OfficialRelease`, composed in `Agents` | `AgentsProofs` |

How the parts interact: a verification code yields a receipt, a receipt lets a
person register, log in, reset the password or delete the account, a browser login
approves an OAuth request, the exchange of its code authorizes a device and starts a
session family, refreshes rotate it, and every other request presents an access
token of it. Operators, password changes, deletions and the maintenance runner take
access away from the other side. What a person then works with, workspaces,
organizations, agents and backups, hangs on the account and has to go with it.

**Grain.** `SessionLifecycle` goes statement by statement, because there transactions
decide on rows they have not locked. Everywhere else a repository operation whose
transaction first locks the row that governs it is one action; what a service or a
handler reads before that transaction is an action of its own whenever it can be
stale when it is used. Calls to Redis and MinIO are separate actions that can fail,
and a crash is possible between any two actions of a request or a pass.

### SessionLifecycle

`users`, `devices`, `sessions` and `offline` are the committed rows of the tables
of those names (`offline` of `offline_entitlement_issuances`). `tx[w]` is the
transaction of request handler `w`: its operation, the statement it is about to run
(`pc`), its locks, and the rows its sweeping `UPDATE sessions` has selected (`todo`)
and locked (`done`). Writes reach the tables when the transaction commits.

A request begins with one action per operation (`Refresh`, `RevokeByToken`,
`ChangePassword`, `DeviceRevoke`, `FinalizeDeletion`, ...). The statements
(`LockUser`, `LockSource`, `Snapshot`, `Sweep`, `KeyUser`, ...) are shared; `After`
gives the order in which an operation runs them and `Admissible` what each checks.
`Blockers` is PostgreSQL's conflict table for the locks used: `FOR UPDATE` on users,
devices and sessions, the weaker lock of an `UPDATE`, the `FOR KEY SHARE` lock that an
`INSERT` takes on the rows its foreign keys name, and the advisory lock per user. A
sweep sees what was committed when it started, waits for locked rows and looks at
them again, and never adds rows committed meanwhile. Deadlocks end as they do in
PostgreSQL, with one transaction aborted (`AbortDeadlocked`); `Crash` drops a
transaction anywhere; `Expire` and `CloseWindow` are the passing of time.

Bounds: ids of session rows are a finite pool, and an insert that finds it empty
fails. Two handlers run at a time, so TLC sees races of two requests and none of
three; which operations race is the `Requests` of each run, and not every pair of the
seventeen is in one run (all of them with two accounts are ten million states). The
theorems cover any number of handlers and every pair. Three sessions let a rotation be
replaced again while a sweep runs, two accounts let a device change owner; `session_device`
holds both as scopes (`MCSessionScopes`).

### SessionAccess

A session is issued once and ends once. `SessionLifecycle` implements it under the
mapping of a row to `unissued`, `active` (the query the middleware asks) or `ended`;
`AccessAuthentication` uses it as its database.

### AccessAuthentication

`access` is the `SessionAccess` variable, `token[s]` whether an access token of the
session is still valid, `lapsed` the sessions that ended by expiry alone, `cache` the
Redis entries and `req` the requests in flight. Checking the token, reading the cache,
asking PostgreSQL and writing the cache are separate actions; either store may fail
(`Unavailable`); entries vanish at any time (`DropEntry`).

### Verification

One e-mail address or phone number. A `Send` takes the delivery lease, looks the
idempotency key up again, checks the delay, passes the limiter, delivers and then
saves the challenge. A `Verify` reads the latest challenge, and `Consume` selects the
open ones and locks the newest that is still open. A code is identified with the
challenge it opens. `SpendReceipt` stands for the account operations that take a
receipt. Leases run out, deliveries succeed and report failure, servers crash.
`history` counts what the properties speak about and no action reads it.

Bounds: two sends and two verifications. The scope `codes` has one purpose and a clock
that moves once, so that with a lifetime of one a code can expire before and during a
verification; `send` has two purposes and a clock that moves twice, with a delay of
one unit. With `MaxFailures = 1` the second of two guesses is the one that must be
refused; the theorem covers the code's five.

### EncryptedBackup

One account's backups: `registration` and `deviceKey` are `backup_devices`, `backup`
and `envelope` the rows, `objects` what MinIO holds, `operation` the clean-up queue.
A request reads, calls the object store and commits in separate steps; `pass[w]` is a
maintenance pass, which takes the Redis lease, runs its stages in the order of
`Runner.RunOnce`, and cleans up objects one call at a time. Passes crash, fail, lose
their lease and overlap. Times are the flags they decide (an upload lapsed, an
operation's retry delay or lease over). What other components
do to backups are steps too: device revocation, a new version of the installation,
deletion of the account.

Bounds (`MCEncryptedBackup`): four scopes, each a small instance with the part in
question in full: two overlapping passes on one backup; the keys and envelopes of two
devices; two backups of a lineage with a quota of one; account deletion. With two
backups the quota of the account does not bind; it is covered by the theorem
`QuotasAreKept`.

### Workspace, Organization, Tenancy

`Workspace` models a service call as three steps. The service authorizes the caller on
rows read through the pool (`call[u]` keeps what it saw). The transaction then reads the
accounts of the caller and of the owner, which it does not lock (`Admit`). At last it
decides again under the locks on the workspace, the caller's membership or the
invitation, and writes. So a call that read an owner as active may commit after the owner
was disabled, and the properties allow it: `ArchivedKeepsMembers` is about the status of
the workspace, which is decided under its lock. `Organization` locks the caller's user row
and the organization first, so a mutation is one action. Commands carry the revisions
their client has read.

A command with an idempotency key leaves a record (`wsRecord`, `orgRecord`) that says who
sent it and what it is about. `WsReplay` and `Replayed` are what the repeat reads: a
summary, a policy, an invitation or a membership, through the same check of the caller as
any other read. `TenancyReadsAgree` has it that a repeat is answered, with the cases in
which the code refuses it spelled out: its caller is no longer a member, may no longer
read policies in full, or may no longer invite.

`Tenancy` puts both beside `Accounts` and adds the account operations that depend on what
an account owns (`RequestDeletion`, `FinalizeDeletion`) and the clean-up of records. The
recovery window of an account that asked for its deletion ends only while no call of it is
in flight: the window is seven days, a request lasts seconds.

Bounds (`MCTenancy`): nine scopes. Two people race in a workspace, a workspace with its
accounts, an organization, its departments, and the ownership of two organizations, since
every mutation involves a caller and at most one other member. Three people let a
workspace of two and its last pending invitation fill up, and let one admin change the
rank of another while the owner is away; four let an organization of three fill up. All
limits bind in some scope; revisions go up to three or four.

### Principals, AdminControl, SignIn, AccountIdentity, DesktopControl, Operations

`Principals` holds the rows of users, devices and sessions and the effects that the
four components have on them. `AdminControl.Execute` runs an operation's transaction
step by step: its row is invisible until the commit, a second execution waits for it
and replays it, a rollback takes the audit event along. `RevisionRegister` is what the
administrative interface promises: a compare-and-set register per user.
`SignIn` follows a grant from `Begin` over a browser's approval to the exchange.
`AccountIdentity` gives each server its own ring of lookup keys and rotates them as
`docs/runbooks/key-rotation.md` says. In `DesktopControl` a handler's clock reading may
lie `MaxWait` behind. `Operations` composes the four: `DesktopFollows` moves an
instance along with its device.

Bounds (`MCOperations`): eleven scopes that name the components that move, the rows a
behaviour begins with (each is a state the program reaches) and its bound: two
operations, grants, browsers, servers, receipts and commands; revisions up to three; a
clock of three ticks.

`Paging` is one reader of one list while its rows are inserted, changed, touched and
removed. Keys of rows are small numbers, three rows and pages of one or two, so that a
page boundary can fall anywhere.

### AgentPolicy, AgentControl, AgentReview, OfficialRelease, Agents

`AgentPolicy` is the arithmetic of allowlists, with nil and the empty list apart.
`AgentControl` has the definitions, versions, installations and signed policies of
users and teams; two operations read without a lock and write later and keep what they
read in `acCall`. `AgentReview` adds submissions to organizations and experience
candidates. `OfficialRelease` has drafts, reviewed submissions, channels whose releases
are lists of revisions, and managed installations. Installing an official agent and
applying a managed update lock the release's row, evaluate account, device, policy and
product context with unlocked reads, and write last. The lock and the judgement are one
action (`judged[r]` keeps what was judged, and holds the row until the write or a
rollback), the write another, so eligibility and the permitted channels may end in
between. `SelectedWhileOffered` therefore speaks of what the lock protects: the revision
written is the one in force, is active when an installation is created, and admits the
holder. A release operation carries the revision its operator expects, and records the
number of the revision it has made. `Agents` puts both sides together; they share no row.

Bounds (`MCAgents`): eleven scopes. Identifiers are used in one order, which is sound
because no action tells them apart. Three versions and three submissions let a
submission be overtaken; releases of up to four revisions let a rollback follow an
update of the rollout.

## Runs

| Run | What it checks |
|---|---|
| `session_device` | `OneTipPerFamily`: families never fork, with room for two rotations of one device. `ActiveDevicesWithinLimit`: two installations that move between two accounts compete for one active slot. |
| `session_revocation` | `LiveSessionsAreBacked`, `RevocationIsComplete`, and `GrantsAccessOnce` (the refinement of `SessionAccess`), for every operation on an account or session. |
| `session_progress` | `EveryRequestEnds`, for five kinds of request whose lock orders differ. |
| `access_cache` | `EndedSessionsAreRefused`: a request that starts after its session ended is refused, whatever the cache says. |
| `verification` | `EveryGuessCounts`, `OneUsePerCode`, `ResendDelayIsKept` for phones, `RepeatsDeliverOnce`. |
| `backup_lifecycle` | `SealedIsKept`, `DeletionIsStaged`, `NoForgottenObject`, `QuotasHold`, `DestroyedForGood`. |
| `backup_cleanup` | `MaintenanceCompletes`: under fairness, deletions and lapsed uploads are finished once the guard trigger lets passes through and requests stop. |
| `tenancy` | `OneOwner`, `AccountsLeaveNothing`, `PolicyHistoryIsComplete`, `LimitsHold`, `TenancyReadsAgree`, `DissolvedIsFinal`, `MembershipsAreGuarded`. |
| `operations` | `OneEventPerOperation`, `AnswersAgree`, `UsedOnce`, `IdentitiesHold`, `DevicesAreOwned`, `ChecksSettleOnce`, `PagesAreComplete`, `OperatorReadsAgree`, and `ImplementsRegister` (the refinement of `RevisionRegister`). |
| `agents` | `CatalogueInOrder`, `PoliciesFollow`, `ReviewsHold`, `ReleaseHistoryHolds`, `AgentReadsAgree`, `DecisionsStand`, `ReleasesMoveForward`. |
| `account_with_backup` | expected to fail: see Findings |
| `late_rehash` | expected to fail: see Findings |

A run with scopes chooses one in its initial states and lets only the steps through
that stay inside (`MCNext == ... /\ InScope'`), so that one run covers several small
instances. What a scope leaves out, another has, or the theorems cover.

**Fairness** is assumed in three runs. `session_progress`: strong fairness of `Step(w)`,
each handler's own steps (statements, commits, error paths, deadlock aborts). A Go
handler keeps running, and PostgreSQL queues lock requests, so a handler whose lock
becomes free again and again gets it. `backup_cleanup` and `account_with_backup`
(`BkFairness`): leases and retry delays run out (weak), and a pass gets through each of
its stages again and again (strong), since `Runner.Run` starts a pass at every tick and
outages end; it may still crash or fail any number of times. Requests, crashes and the
other passing of time are not fair.

`WorkerSymmetry`, `IdSymmetry` and `RequestSymmetry` permute identities that no
definition distinguishes; the liveness runs use none. Deadlock is checked where the
system never stops; the bounded instances with finite pools of requests, keys or
revisions really do stop and say so.

### Findings

Two runs are expected to fail: the code does not keep what the repository says.

* `account_with_backup`: rows of `encrypted_profile_backups` are never deleted and
  restrict the deletion of the installation they reference, so `FinalizeDeletion` fails
  for an account that ever had a backup, at every pass, and with it the rest of the
  pass. `docs/runbooks/user-encrypted-backup-operations.md:100` describes the deletion
  as one that goes through.
* `late_rehash`: a login that verified the password before an administrator forced a
  reset, and whose hash is due for a rehash, writes the old password back afterwards.
  The comment at `admin/repository.go:381` says that no known password signs in.

### Refuted statements

Five more statements of the repository fail in the models. They are kept as
definitions with the instance that shows it, and no run checks them. The tests named
run their requests one after the other and pass; what fails is the rule in their names.

* `ReplayRevokesWholeFamily` (`SessionLifecycle`, one user and device, three sessions, two
  handlers, `authorize` and `refresh`): the reuse of a replaced refresh token revokes the
  family with one `UPDATE` (`session/repository.go:142`), which misses the successor that
  a concurrent refresh of the tip is about to commit. The rule is that of
  `TestRefreshReuseRevokesWholeFamily` (`session/service_test.go:109`). Revocations of an
  account or a device do not have this gap: they hold the row that the successor's
  foreign key has to lock.
* `RevokedDeviceHasNoEntitlement` (`SessionLifecycle`, two sessions, `authorize`, `refresh`
  and `device_revoke`): a refresh records its offline entitlement after its commit
  (`session/service.go:218`); a device revoked in between ends up with an unrevoked
  entitlement, where `api/openapi.yaml:335` says that the revocation covers entitlements.
* `RevokedViewIsTerminal` (`AccessAuthentication`, one session, two requests): a slow
  request overwrites a cached `revoked` (`session/revocation.go:96`), against the comment at
  line 87. Access is refused all the same.
* `ResendDelayIsKept` with `Unified = {}`, that is for e-mail (`verification/service.go:186`):
  two overlapping requests for codes to one address both pass the delay. The rule is that
  of `TestServiceEnforcesResendDelayAcrossDifferentIdempotencyKeys`.
* `HoldersRestore` (`EncryptedBackup`): a restore through a second authorized device reads
  the source device's key (`encryptedbackup/repository.go:893`) and fails once the source
  device is revoked, where `docs/runbooks/user-encrypted-backup-operations.md:89` has a drill
  that restores through a second device.


## Proofs

Every theorem is for all values of the constants: any number of accounts, devices,
handlers, servers, backups, versions and requests. The assumptions are the named
`ASSUME`s of the modules that declare the constants (`NonEmpty`, `LimitIsNat`,
`Parameters`, `BackupParameters`, `OrganizationParameters`, `WorkspaceParameters`,
`PrincipalsAssumption`, `AskedAssumption`, `IdentityAssumption`, `DesktopAssumption`,
`AgentParameters`, `OfficialParameters`, `PageParameters`, `DevicesAreFinite`): sets
that must not overlap, sets that are finite where their members are counted, limits that
are natural numbers, tables that have the right type. TLC evaluates each of them on the
instances of the runs.

No property below is inductive as it stands. Each proof has an invariant that says in
addition what the requests in flight have read and still hold, one lemma per action
(or per group of actions with the same effect), and a last step by temporal logic.
Where elements are counted, the lemmas have what they need of finite sets as a
hypothesis, `Counting`; `CountingHolds` derives it from the library's theorems at the
end of the module, so that the long case analyses are not searched with that library in
sight.

**SessionLifecycle** (`SessionLifecycleProofs`). A rotation
trusts what an unlocked `SELECT` told it. The inductive invariant `IInv` adds, per
transaction,

* `LocksHeld`: which locks it holds at each statement;
* `ReadsHold`: what it read is still true, as long as the lock that protects it is held;
* `SweepCovers`: once the locks of a complete revocation are held, every live session
  of its scope is among the rows selected or locked;

and, between them, `Compatible` (no two hold conflicting locks) and `FamiliesAreBound`
(a family has one user, one device and one tip). `QuietStep` serves the actions that
leave the tables alone, `TableStep` those that commit. From `IInv`:
`SessionsStayBacked`, `FamiliesNeverFork`, `TypeCorrect`; `RevocationsAreComplete`, the
action property (it speaks of the operations that commit by `CommitRevocation`; the
finalizer, which deletes the rows, is under `SessionsStayBacked`); and
`AccessIsGrantedOnce`: the detailed specification implements `SessionAccess`.
`DevicesWithinLimit` needs more, since the devices of an account are counted by one
statement and inserted by a later one: `CapInv` says what the holder of an account's
advisory lock has counted, and that nobody else makes a device of the account active
meanwhile.

**AccessAuthentication** (`RequestProofs`). `Known` says that what a request
learnt stays true, since sessions only ever end. `RevocationIsImmediate` and
`RevokedEntriesAreReal` follow.

**Verification** (`RequestProofs`). `CodeInv` ties each row to the counts in
`history` and to the progress of the request that inserts it; `Chosen` says that a
verification about to compare has a challenge. `GuessesAreBounded` and
`ReceiptsAreSingleUse` follow. `DelayInv` says that the window in
Redis covers every request of the phone that was let through, and gives
`DelayBetweenCodes`; `OnceInv` relates an idempotency key's lease, its stored challenge
and the deliveries made for it, and gives `OneDeliveryPerKey`.

**Paging** (`RequestProofs`). A page is the first rows of an order, defined by counting
the rows before each, so the proof begins with finite sets in any strict total order:
each row but the first has one right before it (`Preceded`, from the last of a finite
set, `LastOf`, which in turn rests on the well-foundedness of the naturals), hence the
rows counted below `n` come before all others, and when one more row is fetched there is
a last one among them (`FirstOf`). `KeysetPage` applies it to the twelve lists that
continue from a key: a page holds rows still to come, ends with its cursor, and leaves
the others beyond it. `PageInv` then says of a reader between two pages that a row which
stayed is still to come or was given (`KeysetInv`), that what was given is behind the
cursor or gone, and, for the list read with OFFSET, that the rows above the offset were
given as long as none left (`OffsetInv`). It gives `PagesStayComplete`.

**EncryptedBackup** (`EncryptedBackupProofs`). `BkInv` joins the four invariants the run
checks with `OperationsFit` (a clean-up operation is only staged for a backup that has
ended in its way), `RequestsFit` (a seal has only seen objects that are there or were
taken back, a deletion has cleared what it does not still have to do), `PassesFit` (the
same for a pass that cleans up) and `WithinQuotas`.
Objects are remembered across crashes because each is named by a row or an operation
before it is written. `DestructionIsFinal` is an action property from the same invariant.

**Tenancy** (`TenancyProofs`), across organizations, workspaces and account deletion.
`OwnershipInv` has the rows of organizations, `Owned` (an organization that exists has
one owner, one that does not has no member) and `OwnersStay` (an account that asked for
its deletion owns none); it gives `OwnerIsUnique` and `OwnersStayAccounts`. `PolicyInv`
adds `History`, the numbering of policy versions, for `PoliciesComplete`;
`Emptied` is what dissolution leaves, for `DissolutionIsFinal`.

A workspace call reads in two steps and writes in a third, so `WsInv` has, beside the
rows, what a call in flight may rely on. `SeatInv` and `InviteInv` say where the owner
sits, that open invitations belong to active workspaces, and bound each count by its
limit. `CallInv` relates what a caller was shown (`Shown`) to a revision: a membership
alternates between two roles, so its role follows from the parity of its revision
(`Stands`), and an update that meets the revision meets the role. That is why no check of
the role itself is needed under the lock. Nothing is assumed of what the transaction read
of the accounts: that an archived workspace keeps its members (`ArchivedStep`) follows from
the status read under the lock. With the guards of organizations this gives
`MembershipsGuarded`.

`Gone` (an erased account is in no table) is inductive because whoever joins or leaves a
record is active or has a call in flight (`Present` in `Careful`, `Growth` and `Recorded`),
and a call ends before its caller's recovery window does (`InTime`); it gives
`AccountsGoWholly`. `LimitInv` adds open invitations, departments and members of
organizations, for `LimitsAreKept`.

`TenancyReadsStay` adds `Published` (an organization that was ever created has a policy)
and what records rest on: `RecordInv` and `Answerable` say that the workspace,
organization, policy or invitation a record is about is still there, since policies and
invitations stay where they were made (`Trail`, `InvitesRemain`) and an erasure that takes
a workspace takes its records. `WsRetries` and `OrgRetries` derive that a repeat is
answered unless the caller lost what the answer needs. Lists, summaries and counts are
pictures of rows that these invariants relate, and a list has as many entries as it has
rows because the picture is injective (`SameCount`). The bounds on counts come from two
lemmas on finite sets: a smaller set has no more elements (`Fewer`), a set that got one
element and was below the limit is within it (`OneMore`).

**Operations** (`OperationsProofs`), over the composition of administration, sign-in,
accounts and Desktop control. What each of the components preserves by itself is in
`PrincipalsProofs`; `OperationsProofs` has administration and the composition. `OpInv`
has four parts.

* `AdInv`: what is stored and what is not while an operation's transaction is open
  (`UncommittedIsUnstored`), with the run's `OneEventPerOperation` and `AnswersAgree`.
  It gives `OperationsAudited`, `CallersAgree`, and `RegisterImplemented`: each step of
  the composition is a step of `RevisionRegister` or leaves the register alone (`Moves`).
* `AccessInv`: live sessions sit on active devices of their user and active devices on
  active accounts (`Backed`), and an open browser session has spent its receipt alone
  (`OpenedOnce`). It gives `NothingIsUsedTwice`.
* `DesktopInv`: an instance and the commands it claimed have the owner of its device
  (`DesktopOwned`), a settled command was settled before its deadline, and its audit
  events are those of its state. Its steps are reduced to what they do to a single
  command (`CommandStep`). With `AccessInv` it gives `DevicesStayOwned`; alone,
  `ChecksSettle` and the action property `CommandsForward`.
* `IdInv`: two servers may hold key rings of different
  ages. `RingsFit` says how far apart they can be; `AddingFits` says that a server adding
  a value holds the lock of its scope, and that a row inserted meanwhile under another
  lock has the same index, so that the unique index decides. `StatusFits` and `KindsFit`
  relate accounts to their identities. It gives `IdentitiesStay` and, with `DesktopInv`,
  `OperatorReadsStay`.

**Agents** (`AgentReviewProofs`, `AgentsProofs`). The two sides share no row, so
`AgentsInv` is `RvInv` and `OffInv` and each side's steps leave the other's part alone.
`RvInv`, whose steps are in `AgentReviewProofs`, says that versions
are numbered without a gap (`VersionsFit`), that an idempotency key belongs to one row
(`KeyTaken`, `InstallKeyTaken`, `OneRowPerKey`), that an installation follows a version
of its definition that exists (`InstallFits`, `BindingFits`), and that what a call read
without a lock is still in the order of things when it writes (`CallFits`,
`SubmissionFits`). `OffInv` says that a definition's head is the last of
its versions (`HeadsFit`), that it has one pending submission, that each revision of a
release was made by one operation (`OperationsFit`) and is what its record answers
(`Answered`), that a judged release is still as it was judged (`JudgedFit`), and that
managed installations hold a revision of their release and only move on (`ManagedFits`,
`DeliveryFits`). From both: `CatalogueStaysInOrder`, `PoliciesFollowSelections`,
`ReviewsStayConsistent`, `ReleaseHistoryStays`, `AgentReadsStayConsistent`, and the
action properties `DecisionsAreFinal` and `ReleasesOnlyMoveForward`.

### Only model-checked

* `EveryRequestEnds` and `MaintenanceCompletes`: liveness under fairness is beyond the
  proof system.
* The two refuted properties, which are shown by their counterexamples.

## What is not modelled

Signatures, digests, encryption and the contents of tokens are values that are equal
or not. Audit rows are written in the transaction they describe and nothing reads them
to decide; they are modelled where a property counts them (administration and health
checks). HTTP handlers and the admin API decode, call one service method and encode;
configuration and migrations run before the server listens; the web UI is a client.
The quality feedback of official agents is modelled as far as its lists are read in
pages; consent, aggregation and export are not. Personal spaces, legal documents and
their acceptance, nicknames and the renaming of devices are rows that one statement
writes and no other operation depends on.

Smaller simplifications, each harmless for what is claimed: `Verification` has one window
for the delay between codes, where the code has one per active lookup key during a
rotation; `SignIn` has one approver per request; `DesktopControl` claims the next command
without the `SKIP LOCKED` that only lets a second claimant pass over it; `AgentControl`
reads the statuses of owner and caller of a team in the step that uses them, and no
property rests on them; `AgentReview` does the unlocked existence test of a first
submission in the step that inserts it, and the approval checks it again; an official
operation always has the record that the admin API supplies.
