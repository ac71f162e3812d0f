# SSH key manager: TLA+ specifications, model checking and proofs

SKM keeps private SSH keys in a vault, deploys their public halves to
principals (accounts) on targets (Linux hosts, network devices, git forges,
commands), and replaces keys on a schedule without locking anyone out. It is a
Go server over PostgreSQL; several instances may share one database. What makes
it hard is that the work is a sequence of irreversible writes to many machines
and rows, with few transactions around them, driven by background jobs that
crash, are retried, are delivered twice, and race with operators and with each
other - and that the mistake that matters, removing a key before its
replacement works, cannot be taken back.

The specifications here follow the code under `src/`, function by function;
`PROJECT.json` maps each definition to the lines it models and lists what each
run, theorem, hazard and finding is about.

| module | models |
| --- | --- |
| `JobQueue` | the jobs table and the worker pool that drains it |
| `Rotation` | the rotation engine, step by step, with its workers, faults and operators |
| `AddBeforeRemove` | what a rotation promises, with no jobs, waves, workers or states |
| `Connectors` | what a connector adds, removes, refuses and reads back |
| `Deployment` | deploy, verify, roll back, the reconciling sweep, adoption, over `Connectors` |
| `KeyVault` | keys and their material, KEKs, the audit chain, backup and restore |
| `Background` | leadership, scheduled tasks, rotation policies and `Plan`, webhook deliveries |
| `Accounts` | logins, sessions, tokens, second factors, accounts and roles |
| `Routes`, `Handlers`, `Api` | the route table, each handler's steps, one request through them |
| `JobQueueProofs`, `RotationProofs`, `RotationDriver`, `DeploymentProofs`, `KeyVaultProofs`, `BackgroundProofs`, `AccountsProofs` | theorems |
| `MC*` | instances for TLC |

`tlc -config <run>.cfg <module>.tla` checks a run; `tlapm <module>.tla` checks the
proofs of one of the seven proof modules.

## The system

Paths are relative to `src/backend/internal/`.

**Work queue** (`store/jobs.go`, `jobs/runner.go`). State: one row per job with
its state, attempts, lease (`locked_by`, `locked_at`), due time and idempotency
key; a partial unique index keeps live keys distinct. Operations: enqueue,
dequeue (`FOR UPDATE SKIP LOCKED`), succeed, fail with backoff, kill, cancel,
heartbeat, reap stalled leases, purge. Hard: a process dies between a lease and
its outcome; results arrive after a cancel; heartbeats fail while the handler
lives; a requeue meets a key taken since. Correct when a job has one worker at
a time, is handed out at most `max_attempts` times, live keys stay distinct,
and every job ends.

**Rotation engine** (`service/rotation.go`, `store/rotations.go`). State:
`rotations` (state, wave, successor, soak deadline) and `rotation_targets`.
`Step` reads the state and does one transition: generate the successor, stage
it beside the old key wave by wave, prove that it authenticates, promote it and
move the consumers, soak, retire the old key. Operators start, approve and
abort. Hard: every transition is a loop of writes with no transaction around
it; step jobs of different states have different idempotency keys, so two
workers can drive one rotation; aborts and late results interleave; some state
changes are guarded and some are not. Correct when the old key leaves a machine
only after the new one is proven there and the window has passed, waves stay in
order, nobody is left without a key, and a started rotation ends.

**Background worker** (`service/worker.go`) and **scheduler**
(`jobs/scheduler.go`). The worker registers the job handlers and the scheduled
tasks, and decides which errors are permanent. The scheduler runs the tasks on
whoever holds a session-scoped advisory lock. Hard: the session drops while
tasks run, so that two instances believe they lead; a last attempt that fails
with a retryable error. Correct when two leaders do no more than one.

**Deployment** (`service/deploy.go`), **connectors** (`connectors/*`) and
**assignments** (`store/assignments.go`). Deploy reads the assignments of a
principal, snapshots the machine, lets the connector merge and prune, optionally
proves each key, and records the result. Hard: nothing locks a principal, so two
deploys each act on what they read; a call half executed; a rollback over a
newer deploy. Correct when the machine converges on the assignments, keys SKM
does not manage survive, no deploy empties an account, and nothing is recorded
that did not land.

**Reconciliation and discovery** (`service/reconcile.go`, `store/discovery.go`).
Compares machines with assignments, records drift, heals it, adopts strays.
Hard: the verdict is formed from rows and a machine read at different moments.

**Consumers** (`service/consumers.go`). Systems that hold a private key. Rebind
delivers the successor and records it. Hard: delivered and not recorded; one
consumer of several fails.

**Key lifecycle and vault** (`service/keys.go`, `store/keys.go`, `vault`).
Generate, import, reveal, revoke, delete; envelope encryption under a KEK that
can be rotated. Hard: rewrapping beside new keys and deletions; `SetStatus`
without a condition. Correct when every key that claims a private half has its
material, an old KEK can be dropped after a rotation, and a revoked key is never
active again by accident.

**Audit chain** (`audit`). Hash-linked records appended under an advisory lock.
Correct when the chain has no fork and no key leaves the vault unrecorded.

**Backup and restore** (`service/backup.go`). A row and an encrypted file,
written and removed one after the other; restore goes key by key. Correct when
a completed archive is there and complete.

**Rotation policies and planning** (`service/worker.go`, `service/rotation.go`).
`DuePolicies` fires policies by cron expression or age; `Plan` writes a rotation,
its approval and its targets as separate statements. Correct when a rotation
that starts has all of its targets.

**Events and webhooks** (`events`, `store/webhooks.go`). A delivery queue of its
own, with retries and replay; the lease is a cleared column. Correct when a
delivery is in one hand and within its budget.

**Authentication, users, authorization** (`service/auth.go`, `service/users.go`,
`authz`, `api/server.go`). Passwords with lockout, second factors, sessions,
tokens, roles, the last-administrator guard. Hard: every request reads a row and
writes it back later.

**HTTP API** (`api/*`). A route table that declares a permission for each route,
and handlers that ask for it themselves. Correct when the two agree and a
refusal changes nothing.

**Database pool, ssh transport, diff, CLI, web client, integrations** keep no
protocol state of their own.

Interaction: the API and the scheduler enqueue jobs; a worker's handler calls a
service; services share the database rows, call each other directly (a rotation
calls deployment, keys and consumers), and reach machines through connectors.
There are no other messages between instances.

## JobQueue

A row is `state`, `key`, `attempts`, `lockedBy`, `stale` (its lease is older
than `LeaseTTL`) and `due` (`run_after` has come); a worker is the job it
`holds` and the `outcome` of its handler. Each query of `store/jobs.go` that
writes is one action: PostgreSQL runs one statement atomically. `Succeed`, `Fail`
and `Kill` have the conditions of their `WHERE` clauses and no more;
`RecordingFails` stands for a result that cannot be written. `Heartbeat` is what
the goroutine inside `execute` does, and it matches the process name, not the
worker, as the query does. Time is abstract: a lease may expire whenever nobody
refreshes it, and also under a live worker whose heartbeats fail; the history
variable `lost` remembers those jobs, because the code promises less for them.

Run `JobQueue` (two jobs, one key or none, two processes with a worker each, two
attempts) checks, with live workers losing leases at any time:

- `OneWorkerPerJob`: nobody else executes a job whose lease was kept;
- `AttemptsRemain`: a queued job has an attempt left, whoever queued it;
- `OneLiveJobPerKey`: a requeue never makes a second live job of a key;
- `SettledIsFinal`: succeeded and dead jobs stay so unless the lease was lost;
- `JobsSettle`: every live job ends.

Two jobs are enough for one to take another's key, two workers for one to
overtake the other, two attempts for a retry that can exhaust the budget.

*Fairness.* Handlers are bounded by `JobTimeout` and workers poll in a loop: weak
fairness of `HandlerReturns` and `Record`. `Dequeue` orders by priority and due
time, so a due job is not passed over for ever: strong fairness per job. The
reaper's ticker and the clock: weak fairness of `ReapStalled`, `ComesDue` and the
expiry of a lease nobody refreshes. Crashes, cancels and submissions get none.

## Rotation and AddBeforeRemove

One rotation of one key. Variables are the columns of `rotations`
(`rstate`, `wave`, `newKey`, `soak`, `dryRun`) and `rotation_targets` (`tstate`), the
wanted and the actual keys of each principal (`assigned`, `host`), the keys'
`status`, what each consumer holds (`bound`), the live step job of each
idempotency key with its attempts (`q`, `tries`), and `run`: for each worker the
write it is about to make and what it carries in local variables - the key and
wave `Step` read, the list of targets or consumers of its loop, the outcome of the one in
hand, and whether `stepRetire` has seen a failure.

Every durable write is an action: `Generate` and `RecordKey`, `StageOne` and
`MarkStaged`, `VerifyOne` and `MarkVerified`, `SetWave` and `NextWave`, `Promote`,
`Activate`, `Demote` and `Rebind`, `OpenSoak` and `ToSoaking`, `RetireOne`,
`MarkRetired`, `RetiringDone` and `Complete`, then `EnqueueNext` and `Succeed`. So a
worker can be overtaken, fail (`Error`), be refused (`Denied`) or die (`Crash`)
between any two. `Transition` is `SetRotationState` with its guard, `Overwrite` the
same call without. A `Deploy` is one action with the outcomes it can have,
including a write that happened and was reported as failed (`Reached`).
`Replace` is the single-key path with its restore. `Converge` is an auto-healing
reconcile or an operator's pruning deploy at any time; `AssignOld` gives the old
key to a principal outside the plan; `StaleEnqueue` is a `Start` or a soak tick that
read the rotation before it moved on.

Abstractions. Jobs are delivered as `JobQueue` promises while leases are kept:
the queue here is its summary, a live job per key with one worker. Thresholds are a
set because the one an operator asked for lives in the memory of the process
that planned (`rotationParams`), and another process uses the policy's. The
length of a soak is abstracted to "not set, open, over". `Plan` is the initial
state; how it is written is in `Background`. The states `rolled_back` and the
target state `skipped` are never written by the code and are left out. Targets whose
removal command names the login (`cisco_iosxe`, `cisco_nxos`) are outside: there a
removal takes the successor with the old key, whatever was proved before it (see
`Deployment` and "What the code does not keep"). Two
deploys of one principal do not overlap here, and a reconcile writes what is
assigned when it writes: what overlapping deploys can do to each other is in
`Deployment`, and every result below, the refinement included, assumes there is
no such overlap.

`AddBeforeRemove` is the promise for a principal that can hold two keys: add the
successor, prove it, let the window pass, only then remove. It sees a host as
"old", "both" or "new". `Promise` maps a rotation to it (`Installed`), and
`ImplementsPromise` says every behaviour of `Rotation` is one of it.

- `RotationSteady`: a canary and a second target, a consumer, an approval or none,
  a real or a dry run; deployments, logins and consumers fail, workers do not.
  `ConsumersKeepAccess` (a consumer's key opens every proven host),
  `RetiredMeansGone` (a retired key is on no host), `FinishedIsFinal`,
  `TargetsOnlyAdvance`. These hold only without crashes and second drivers (see
  "What the code does not keep"); that is the reason for this run.
- `RotationCrash`: a canary that shares keys and a single-key target, two possible
  successors, one crash or silently unpruned deploy anywhere.
  `ProofBeforeRemoval`, `SoakBeforeRemoval`, `CanaryFirst`, `NeverKeyless` (every
  principal keeps the old key or the *recorded* successor), `TypeOK`.
- `RotationRace`: one target, one crash or late enqueue (so two drivers), aborts
  at any time and after the end, the old key given to an outsider.
  `ImplementsPromise`.
- `RotationLive`: one target, one crash, error or refusal, two attempts.
  `RotationFinishes`.

Bounds. Two targets give two waves and a list that is half done; two workers are
all that idempotency keys allow to meet in one fault; two successors are needed
for an orphan; one fault is a retry at every point, and two of a kind only repeat
it. The attempt budget is 3 as in the code, or 2 where one fault cannot use up
more (`RotationCrash`, `RotationLive`). `MaxFaults` bounds faults of all kinds.
`CHECK_DEADLOCK FALSE`: a finished rotation is the end of a behaviour.

*Fairness.* Workers poll and their handlers return (`Work`, `Dequeue`), the reaper
and the scheduler's soak tick keep running (`Reap`, `TickSoak`), clocks advance
(`JobDue`, `SoakCloses`), each weakly. Nothing is assumed of operators, nor of any
outcome. `RotationFinishes` needs `TickSoak`: a step that comes due before the
window has closed re-enqueues under its own running key and is absorbed.

## Connectors and Deployment

`Connectors` is the contract of `Apply`, as operators on sets of fingerprints:
what each kind of connector would add and remove given what it saw, when it
refuses (the lockout guards of files, forges and devices), what a batch leaves,
whole or stopped half way, what a script does, and what the read-back confirms. A
"file" is replaced whole, an "api" changes one key at a time, a "device" runs
one batch, a "single" device holds one key, a "script" is trusted. A "login" device
(`cisco_iosxe`, `cisco_nxos`) has a removal command that names the user and clears
every key of the login, after the additions (`netdev/profile.go:151`); a "blind" one has
no `ShowKeys` and is neither listed nor read back.

`Deployment` is a set of workers - request handlers, rotation steps, the sweep -
on `host` (what a machine accepts) and the rows `status`, `newest` (the keys by age),
`want`, `actual`, `drift`, `found` and `snaps`. One Deploy is `RequestDeploy` (read the
assignments, snapshot), `PlanApply` (list the machine, decide), the write by kind
(`WriteFile`, `AddOne` and `RemoveOne`, `RunBatch` or `BatchStops`, `CallScript`, or
`WriteIsLost`: it reports success and does not land), `ReadBack`, `Record`, then
`Authenticates` or `FailsToAuthenticate` per key, `Promote`, `SetInSync`. The sweep
is `StartSweep`, `Compare`, `Judge`, `HealPrepares` and then a deployment, or
`SweepFails`; it knows only a `Page` of keys, the newest `PageLimit` (100 in the code),
where a deployment knows them all. Adoption is three writes, a rollback restores a
snapshot and resets the rows. Anything another worker can fall between is a step
of its own; `stale` in a worker says that the machine changed since that worker
read it, and a read-back is a reading.

- `Deployment`: one account on any platform, two workers, a key and a stranger, two
  edits by operators, or one and a failed call or lost write (the constraint
  `Disturbances`). `NeverEmptied` (only a person, a rollback, a removal that clears the
  login or, where keys go one by one, overlapping deployments leave an account with no
  key), `StrangersSurvive` (a key SKM does not know is not removed by a deployment
  that saw it, unless the removal clears the login), `RecordsWhatLanded` ("present" is
  written only while the machine accepts the key or changed after the read-back;
  scripts and blind devices excepted).
- `DeploymentHeals`: two keys and a page of one, the four platforms the sweep can
  read and merge on, one worker, two edits, one crash, failed call, lost write or
  half-executed batch, under `LiveSpec`. `WantedKeysArrive`, `UnwantedKeysLeave` (but for a
  managed key with no assignment row and outside the page), `DriftClears`.
- `RevokedKeys`: see below.

Two workers make every pairwise race; a third only repeats one of the two. The
guards look at whether a set is empty or a fingerprint is in it, so one key and
one stranger are enough for the safety run, and two keys for healing, where a
key arrives while another leaves. *Fairness*: every call has a timeout, so a worker
goes on (weak, per worker), and the sweep is on a ticker that walks every enabled
target whatever becomes of the others (strong, per auto-heal principal). Edits
and faults are bounded and get no fairness; `<>[]` is about what follows them.

## KeyVault

`rows`, `material` (the KEK version a key's data key is wrapped under), `assigned`,
`kek`, the audit `log` with the advisory lock `locked`, `backups` (the rows) and
`files`. A worker is one request or
one step of a rotation; `run` holds what it has read. A request that
ends in an audit record goes through `ReadHead` and `AppendRecord` (or `LogFails`);
a reveal records first and only then hands over. `Crash` ends every request and
seals the vault; `Unseal` brings back the KEKs or adds a newer one.
`Activate` and `Demote` are the statuses a rotation writes, whatever was there
(`service/rotation.go:826`). `RotateKEK` lists a batch, loads, rewraps and stores key by key; `Delete` destroys the
material, then the row; a backup inserts its row, lists one page of keys, reads
each private half, writes the file and completes; restore goes entry by entry.
Histories: `handed` (reveals with the number of their record), `late` (material
stored under a KEK superseded meanwhile), `removed` (archives taken away).

Run `KeyVault` (three keypairs and rows, a page of two, two KEKs, one archive name,
batches of one, two requests at a time; three in all, or two and a crash, failed audit
write or failed query, which the constraint `Budget` bounds together; beside a third row only
backups, creations and deletions go on):

- `ChainLinked`: every record links to the one before it;
- `RevealIsRecorded`: no key is handed out without a record of its own before it;
- `PrivateMeansMaterial`: a row that claims a private half has its material;
- `RotatedMeansRewrapped`: after `RotateKEK` returns, only `late` material is under an
  older KEK;
- `ArchiveHoldsKeys`: a completed archive is there, and a full one has the private
  half of every key of the page it listed that had one throughout;
- `RevokedStaysRevoked`: only an operator, a deployment that had read the key as
  pending, or a rotation of the key makes a revoked key usable.

Two requests show every race of two reads and writes, the third prepares the
state they meet in; batches of one make a rotation of two keys take two
passes. The server binary unseals only version 1 (`cmd/skm-server/main.go:82`); two
versions are what `service/e2e_test.go:545` does with the service. The archive a
restore reads may come from another install, so it may hold keys this one does
not have.

## Background

Instances contend for the advisory `lock`; the leader passes over the tasks that
are due (`Tick`), until it resigns, its connection drops without its knowing, or
it dies. `TickPolicies`, `MarkPolicyRun`, `SelectKeys`, `Plan`, `Await`,
`AddRotationTarget` and `Start` are a policy run, a statement each;
`DueDeliveries`, `Post` and `RecordDeliveryResult` are a drain. Operators reassign keys,
approve plans (`Approve` queues the first step too) and abort them, replay deliveries and delete webhooks meanwhile. The
other scheduled tasks are in the modules they act on (`Rotation`'s soak tick,
`Deployment`'s sweep, `KeyVault`'s pruning), or publish events only.

Run `Background` (two instances, a cron policy with approval and an age policy, a
key on two principals, one delivery of two attempts, two ticks, and two faults or
one fault and one request by an operator, which the constraint `Disturbances` bounds
together):

- `DeliveryIsLeased`: a delivery is in one instance's hands, and sent at most
  `MaxAttempts` times, but for what an operator replays;
- `StartedIsWhole`: a rotation that runs has a row for every principal found, unless an
  operator approved it while it was half written. (An operator's own `Start` is in
  `Rotation`; the code does not refuse a partial plan there either.)

Two ticks and a dropped connection are what makes two leaders act at once; two
principals are what can leave a plan half written; two faults let a crash follow
a dropped lock. The theorems below have none of these bounds.

## Accounts

`row` (the columns of `users`), `roles`, `session`, `token`; `req` is what each worker
has read. Login is `LoginLookup`, `LoginFails` or `LoginPassword`, `LoginRehash`,
`LoginSession` and `LoginRecord`, a statement each; `UpdateUser` reads the row and
`WriteProfile`, `ChooseRoles`, `GrantRole` and `RevokeRole` write it back;
second-factor requests read a secret and `SetTOTP` writes it; `Abandon` is a request cut
off anywhere. Guessing is counted in `guesses`, codes shown in `proved`.

Run `Accounts` (two accounts, two requests at a time, edits that overlap included;
three in all, or four when the last is a login and no factor, token, deletion or edit
is beside it; overlapping edits go without factors, tokens and wrong answers (`Crowd`);
lockout at two wrong answers):

- `LockoutHolds`: wrong answers before an account opens again exceed
  `MaxFailedLogins` by at most the other logins in flight;
- `EnrolmentIsProved`: an account asks for codes of a secret only after its owner
  has shown one for that very secret;
- `AdministratorRemains`: only an edit that another demotion or deletion has overtaken
  since it checked takes the last active administrator away;
- `TypeOK` includes what the foreign keys promise: no session, token or role of an
  account that is gone.

A fourth login is what it takes to exceed the lockout when the counter is
written from a stale reading. `overtaken` remembers the edits under way when an
administrator was lost, which is all that a check made before it can miss.

## Routes, Handlers and Api

`Routes` transcribes the permissions, roles and the route table; `Handlers` gives
each route the sequences of steps its handler and service take - parse, find,
require, guard, write - one for each way its fields select. `Api` sends one
request with any subject (anonymous, session with the second factor never, once or
recently shown, token with a narrowed list) through one path; each step passes or
answers with its status.

Run `Api` covers every route, path, built-in role and kind of subject:
`RefusedChangesNothing` (400, 401 and 403 mean nothing was written) and
`DeclaredIsEnforced` (what the table declares is what is asked for, in both
directions). The routes that differ are named in `MCApi`:

- `TwoStep` writes before its last refusal: `POST rotations` plans before it asks
  whether it may start, `POST` and `PATCH users` write before they read the account
  back under `user.read`, `POST deploy` stores its snapshot, or the failure of every
  assignment, before it answers what the connector refused, and delivering to or
  rebinding a consumer stores the error it then answers (`service/consumers.go:193`, `:218`).
- `Divergent` asks for something else than the table says: `GET status` declares
  `job.read` and asks for `settings.read`; `GET events/stream` declares `job.read` and asks
  for `key.read`; the connectors, the event types and the schedule preview
  ask for nothing; a dry run asks for `deploy.dry_run`; a queued reconcile leaves the
  check to its job; consumers declare `key.write` and ask for `key.reveal`, and a
  rebinding for nothing; ignoring a discovered key declares `target.write` and asks for
  `key.adopt`; a metadata backup needs no second factor and a rollback one that is
  not declared; a probe answers 200 to whatever its service refuses, a missing
  permission included (`api/handlers.go:505`); one's own password and a break-glass reveal have gates of their own.

## What the code does not keep

Run `RevokedKeys` expects a violation. `KeyService.Revoke` promises that the
reconciler removes a revoked key; `reconcilePrincipal` expects every key assigned
present whatever its status, so the key stays, the target is in sync, and TLC's
counterexample sweeps for ever.

The runs above hold under conditions. These are the behaviours behind them; they
were seen in the models, and have no run of their own.

- A worker that finishes after a cancel overwrites it (`store/jobs.go:205`);
  `SettledIsFinal` leaves cancelled jobs out.
- A crash inside a promotion: the retried step dispatches on the new state and
  the consumers stay behind (`service/rotation.go:821`). `ConsumersKeepAccess` is
  checked without crashes.
- Two drivers: a late "staged" overwrites a "verified", and `stepRetire` then
  neither retires nor counts the target (`rotation.go:910`). `RetiredMeansGone` is
  checked with one driver, and with pruning that works: when the managed
  fingerprints cannot be read, pruning is skipped and the removal still
  reported (`deploy.go:557`).
- A retryable error on the last attempt leaves the rotation in its running state
  (`worker.go:142`); `RotationFinishes` has an attempt to spare.
- A replacement on a single-key device that does not authenticate is not put
  back (`rotation.go:682`).
- A dry run whose worker dies after recording the successor is retried as a real
  one (`rotation.go:483`).
- A removal on `cisco_iosxe` or `cisco_nxos` clears the login: a prune of one key takes
  the wanted and the strangers' keys with it, the keys the same batch added included,
  and the guard counts only the wanted ones (`netdev/profile.go:151-155`, `:169`,
  `netdev.go:349`). The read-back then fails, and the next sweep puts the wanted
  keys back; the strangers' are gone.
- A device that cannot be listed is recorded without confirmation, with a warning
  (`netdev.go:393`).
- The sweep asks for 1000 keys and is given the newest 100 (`reconcile.go:440`,
  `store/keys.go:209`): an older key that nobody assigned is reported as a stranger's.
- A deployment overtaken after its read-back records what is no longer there, until
  the next sweep; pruning between the two writes of an adoption removes the key from
  the machine it was adopted on (`reconcile.go:331`).
- An abort does not stop a worker inside `stepRetire` (`rotation.go:408`); a crash after
  `Generate` leaves an orphan successor (`rotation.go:531`); a second driver can
  re-enter staging (`rotation.go:773`); a principal given the old key after
  the plan keeps it (`rotation.go:903`).
- Two administrators demoting each other at once both pass `assertNotLastAdmin`
  (`users.go:611`); `AdministratorRemains` names the overlap. `Update` writes back the
  `active` it read (`users.go:276`); a login that rehashes writes an old password back over a newer one and clears
  `must_change_pw` (`auth.go:122`); a bootstrap cut off before its grant is never run
  again (`auth.go:359`).
- A rotation promotes its successor whatever its status, so one revoked meanwhile
  comes back, and so does a revoked old key, as retiring (`rotation.go:826`, `:829`, `:944`);
  a verified deployment overwrites a revocation it has not seen (`store/keys.go:290`).
- `Plan` offers a rotation for approval before it writes its targets (`rotation.go:174`),
  and neither `Approve` nor `Start` asks for them (`rotation.go:373`, `:337`): a plan half
  written, or cut short, can be started.
- A backup asks for 5000 keys and `Keys.List` answers with the newest 100
  (`backup.go:230`): a full archive of a larger vault lacks the others; two
  backups of one name share a file (`backup.go:137`); pruning a backup that is
  still running leaves its archive behind. A full archive that
  holds a key without a private half never verifies (`backup.go:410`), and a restored
  key takes the status it had (`backup.go:507`).
- `Delete` checks the assignments, then deletes: an assignment made in between goes with
  the key (`keys.go:525`).
- A process that dies after `DueDeliveries` leaves the delivery pending and never due
  (`store/webhooks.go:230`). An age policy plans again while a rotation of the key is
  under way (`worker.go:373`).

## What is proved

TLC checks small instances; the proofs hold for every value of the constants,
from the named assumption of each module (sets disjoint where they must be,
bounds that are naturals, finite sets of workers where holders are counted) and
from no other hypothesis but those named below. Every invariant and every action
property of a passing run is proved, but for the two of `Api`. Most are not inductive: a worker acts on
what it read earlier, so each invariant carries, beside the rows, what every
worker holds at every step.

**`JobQueueProofs`**: type correctness, `AttemptsRemain`, `OneLiveJobPerKey`,
`OneWorkerPerJob`, `SettledIsFinal`. The first three are inductive together with
`LeaseHasOwner` (`QueueInv`). `OneWorkerPerJob` is not: a queued job held by a
worker would break it one step later. `Exclusive` adds `HolderKeepsLease` - a
worker's job, unless its lease was lost, is running under the worker's own
process with a fresh lease, or was cancelled under it - from which it follows
that a requeue never meets a holder.

**`RotationProofs`**: `RotationTypeOK`, `RotationProofBeforeRemoval`,
`RotationSoakBeforeRemoval`, and `RotationImplementsPromise`, that
`Spec => AddBeforeRemove!Spec` under the mapping. `IInv` is

- `TypeOK` and `JobInv` (a job that is not running has attempts left, which is why
  `tries` never exceeds its bound);
- `RowInv`: verified rows are proved, a passed deadline means a window ran, and
  the states behind each gate imply it (`retiring` implies `soaked`);
- `HostInv`: assignments lead the files - the old key leaves them first, and only
  when proved and soaked, and the successor enters them first - so a reconcile at
  any moment cannot pass a gate;
- `WorkerInv`: what a worker carries at each point, for example that every target on a
  retiring worker's list is proved, however late it acts.

`RunTypeStep`, `RowStep`, `HostStep`, `WorkerStep` and their companions prove one part
each; the `*Frame` lemmas name the actions that cannot disturb it. `PromiseStep`
then shows that each step is a step of `AddBeforeRemove` or a stutter.

`RotationCanaryFirst` and `RotationNeverKeyless` follow from `GateInv`, inductive beside
`IInv`: a running job has one holder (`LeaseInv`); before the first transition
there is one job, so one worker names the successor, and whoever stages carries
the recorded one (`EarlyInv`); nothing else enters a file, and no file is empty
(`OneSuccessor`); and a worker that could open wave 1, or act there, left no
canary unjudged (`WaveRows`, `WaveAt`, `WaveHosts`). Nothing is excluded: two
drivers, crashes, aborts and a late worker are all in `Next`.

**`RotationDriver`**: `RotationRetiredMeansGone`, `RotationConsumersKeepAccess`,
`RotationFinishedIsFinal`, `RotationTargetsOnlyAdvance`, under `Steady`: of the faults only
"denied" (the user who started the rotation loses the permission), of the
operators' requests a dry run and an approval. Each of the others can break one of
the four: a crash or a late enqueue makes a second driver, a crash or a failed
call in a promotion leaves consumers behind, an abort ends a rotation whose worker goes on, an
unpruned deploy reports a key removed that is there, an outsider given the old
key keeps it ("What the code does not keep"). Deployments, logins, thresholds and deliveries come out as they will, for
any number of workers, targets and consumers. `SteadyInv`, checked by TLC on the
instance of `RotationSteady` first, has

- `TokenInv`: until the soak one worker or one waiting job, never two, has the
  rotation in hand (from "soaking" on the scheduler queues the next step too);
- `DriverAt`: that worker is where the row is, so no transition is refused as stale;
- `ListAt`: what is on its list is what the rows leave to do, so an empty list means
  done;
- `ProgressInv`, `RetiredInv`, `ConsumerInv`: nothing of a finished wave is open, a retired
  target is rid of the old key, and consumers are rebound before the first removal.

**`DeploymentProofs`**: `DeploymentTyped`, `AccountsNeverEmptied`,
`UnmanagedKeysSurvive` and `PresentMeansLanded`, all from `DeploymentInvariant`. Whether a
write may empty an account is decided when it is planned, so `Sound` carries that
decision to the write: what a worker will add and remove leaves a key on the
machine it saw, and the machine is the one it saw or the worker is stale. Where the
removal clears the login nothing is decided, and nothing is claimed. Of a
worker about to record, `Sound` says that its goal was on the machine when it read back,
or that nothing was to be written; a lost write or an overlapping deployment in
between fails there.

**`KeyVaultProofs`**: `KeyVaultTyped`, `ChainStaysLinked`, `RevealsRecorded`,
`PrivateHasMaterial`, `RotationRewraps`, `RevocationsHold`. `Carried` types what a request
has read; `ChainSound` says that whoever is about to append holds the lock
and has the head; `KeysSound` that no row lies beyond those inserted and that no
request, rotation or KEK is newer than the newest one unsealed, which is why
material stored under an old KEK is always `late`. Most steps are `Quiet` (they touch
neither keys nor log), which leaves a dozen to each proof.
`RevocationsHold` names every way back, a rotation's
statuses included. `ArchivesHoldKeys` speaks of the page the request listed, for any number
of keys beyond it. `BackupsSound`
follows the request that makes an archive: each key on its page that still has its
private half is yet to be exported or in the output, then in the file (`Carries`);
no two requests make one archive (`OneMaker`).

**`BackgroundProofs`**: `BackgroundTyped`, `DeliveriesAreLeased`, `StartsAreWhole`. `LeaseInv`
counts: instances holding a delivery plus its place on the schedule never exceed
one lease and one per replay, and what was posted, is about to be and may be
again never exceeds `MaxAttempts` for each lease. A leader that lost the lock without knowing
is one more holder, so the count covers it. `Planning` says that the principals
found for a rotation are those with a row and those its planner has still to
insert, and a plan is started only with nothing left: a planner that fails or
dies leaves a partial plan that nobody on the scheduler's side starts. An approval starts
what is there; it is whole when `Planning` leaves nothing to insert, and marked hasty otherwise.

**`AccountsProofs`**: `AccountsTyped` (with the cascades), `LockoutIsKept`,
`EnrolmentsAreProved`, `AnAdministratorRemains`. `LockoutInv`: while an account is open each
wrong answer is in its row, and the answers given plus the requests let in that may still
answer stay below the bound. `EnrolmentInv` follows a confirmed secret to its
write. `AnAdministratorRemains` bounds nothing: `AdminInv` says that what an edit under way
has checked still holds when it writes, or the edit is in `overtaken`. An id is not used again after its
account is deleted, as ids are random, so no late request meets a successor.

Only model-checked: `JobsSettle`, `RotationFinishes`, `WantedKeysArrive`,
`UnwantedKeysLeave` and `DriftClears`, whose proofs need fairness and `ENABLED`, which
the prover does not handle; and `RefusedChangesNothing` and `DeclaredIsEnforced`, which
are about one fixed table that TLC covers whole.

## What is left

- `Rotation` over `Deployment`: replacing the one-step deploy by the real one would give
  up the assumption that two deploys of a principal do not overlap. The product
  is beyond TLC; it needs a refinement of the deploy action, proved.
- `Rotation` and `Background` use a summary of `JobQueue` (a live job per key, redelivered
  on a crash), not `JobQueue` itself.
- Consumers: the sinks and redelivery. Webhook deliveries that must settle.

## Not modelled

Wire protocols (SSH, git forges, device CLIs), ciphers, hashes and key
generation, parsing and rendering of `authorized_keys` lines, HTTP decoding,
configuration, the connection pool, migrations, the clients and the
integrations: I/O or library code, or no state of their own. One statement of
PostgreSQL is taken to be atomic. Read-only queries, listings, statistics,
logging and event payloads have no action. Scopes of a user are a step of `Api` that may
refuse.

Every property of a passing run has a mutant: an operator beside a definition,
marked "Mutant", that changes it as a plausible bug would. None of
them is used by a specification; with it in place of the original, TLC finds the
property violated.
