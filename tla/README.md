# JobGuard in TLA+

A verification development of JobGuard: TLA+ models of the parts of the system whose
correctness depends on the order in which things happen, the TLC runs that check them on small
instances, and proofs checked by TLAPS for every value of the constants. Paths are relative to
the repository.

## 1. The system

JobGuard is a TypeScript monorepo for building contractors: it keeps jobs, quotes, extra work,
evidence, invoices and the recovery of money, and sends messages to customers.

* `apps/api`: an HTTP application (Nest) and a worker process (`worker.ts`, graphile-worker).
  Both are stateless; any number of each may run and any may die at any point.
* `packages/db`: repositories, one PostgreSQL transaction per operation, and 342 SQL migrations
  that hold a good part of the rules: triggers, `SECURITY DEFINER` functions, row security.
* `packages/core`: pure functions, among them the state machines a device runs while offline.
* `packages/storage`, `packages/ai`, `packages/config`, `apps/web`: object storage, the gateway
  to a language model, environment gates, the user interface.

Processes share only the database. They meet in four ways: row locks and advisory locks; rows
compared and set after a call outside any transaction; jobs in the queue; and answers over a
network that may come late, twice or never. These are the behaviours worth a model checker.

### Inventory

State, operations, hard behaviour and what makes each component correct. "Modelled" names the
module; components without one are in the plan (section 3) or out of scope (section 8).

| Component | State | Operations | What is hard | Correct when |
| --- | --- | --- | --- | --- |
| **Outbox** (`packages/db/src/outbox.ts`, 0006, 0661): `Outbox`, `OutboxLifecycle`, `OutboxPromise` | `app.action_outbox` (status, `claimed_at`, `next_attempt_at`, `updated_at`), `app.action_attempt` | append, claim, deliver, complete, operator retry and cancel, reconcile, refuse | claim, delivery and completion are three steps; workers die between them; claims go stale; reconciliation reads, asks and writes in separate transactions; authority is withdrawn meanwhile | an action takes effect at most once; success is never assumed; a refusal is final; a dead claim is noticed |
| **Outbound pause** (`commercial-outbound-pause.ts`, 0552, 0581): `OutboundControl` | one row `outbound_control.state`, the history `event`, the facts `reconciliation` | pause, request resume, approve resume, record a reconciliation, read inside a claim | operators act on stale revisions; commands are repeated; a pause meets open claims | nothing is claimed while paused; each resume is justified by two people and a reconciliation |
| **Outbox discovery** (`worker.ts`): `OutboxDiscovery` | `app.signal_outbox`, the job queue | signal, discover, start, execute | a window of 100; job keys; crashes; several worker processes with different adapters | committed work that nothing bars any more is settled, whatever refused it, threw or crashed before |
| **Offline queue** (`core/src/offline-client-queue.ts`, `offline-upload.application.ts`): `OfflineQueue` | the device's items, its store, its backups; the server's receipts | capture, choose, upload, apply an answer, restore | lost, late and repeated answers; death between save and answer; reordered and conflicting backups | never shown as recorded what is not; capture order per job; the retry budget survives restarts; nothing captured is forgotten |
| **Sync device cache and download** (`core/src/sync-device-cache.ts`, `sync-download.ts`, `api/src/sync`, 0551): `SyncDeviceCache` | rows, purge marks, cursor, generation, schema, one pending request; the server's checkpoint of generations | begin, apply an answer, switch partition; subscribe, download, advance a generation | late and repeated answers; a generation that moves during a download; tenant switches | only what was granted is shown; a calm download is complete; a purged job returns only by a fresh answer; what is withdrawn leaves |
| Command receipts (`db/src/commands.ts`, 0521, 0522) | `command_receipt`, decisions, authorizations, lifecycle claims | begin, bind an effect, complete, replay | two dispatches with one command id or one semantic key | one effect and one stored result per command |
| **WORM holds and anchors** (`worm-command-repository.ts`, 0577, 0578): `WormHold` | `worm_command`, the object's hold | submit, claim, send, read back, finish; target, observe, reconcile | a claim, a call and a completion; writes that land late; an operator recovering a claim that is alive | receipts and object agree; only another person's release frees an object; a crashed hold is recovered |
| **Evidence uploads** (`evidence.ts`, `resumable-evidence.ts`, 0002, 0269): `EvidenceUpload` | upload, registered evidence, command identities, versions in object storage | begin, finalise in two transactions, reject, clean up | two finalisations, a cleanup that lists, deletes and rejects in three steps | one registration, of bytes that were asked for, and that stay unless a transient upload is registered after its expiry; each command answered once, as asked |
| **Recovery messages** (`recovery-message-repository.ts`, `recovery-message-adapter.ts`, 0107): `RecoveryMessage` | message events over an outbox row | preview, approve, revoke, deliver, check, read | commands that are chains of transactions; abandoned checks taken over; a history reconstructed from attempts | one delivery; a history that never lies (that it tells everything, and can always be read, is not so: section 6) |
| Contractor billing delivery (0243) | the same outbox table | claim, finish, inspect, reconcile | a second protocol on one table | as the outbox |
| Final account lock and final check | lock, manifest, request rows | lock, queue, execute, publish | late sources against the lock; queue and acknowledgment | a locked account does not change |
| Extra approvals, variations, quotes, purchase orders | versioned rows | issue, revise, accept, revoke | revision races, mostly under one row lock | an accepted version is the one that was sent |
| Fees, subscriptions, dunning, payments | ledgers, reservations | post, reserve, collect, reverse | reservation against executor; late webhooks | sums agree, nothing is collected twice |
| Audit chain and exports | hash chain, checkpoints | append, hand off, export | one lock orders appends | no gap, no fork |
| Identity (sessions, OIDC, SSO, SCIM, mobile) | sessions, grants, revocations | sign in, revoke, deactivate | revocation against use | a revoked member acts no more |
| Evidence packs, imports, matching, readiness, shadow detection, privacy, connectors, practice worlds, AI gateway, gates, calculators, web, tools | rows, files, environment | see `PROJECT.json` | little order, much data | mostly table tests |

Interactions. A business transaction (a quote, an extra, a recovery message, a bill) appends an
outbox row; the row's trigger writes a signal in the same transaction; the cron task
`discover_outbox` queues one job per signal under the action's key; `execute_outbox` runs
`ActionExecutor.execute`, whose claim reads the outbound pause under a shared lock; recovery messages and
quote deliveries run the executor and `reconcileOutbox` themselves, with adapters of their own
(`recovery-message-repository.ts:286,305,355`, `quote-delivery-repository.ts:43-44`);
`operateOutbox` is exported for operators, but only tests call it so far; business repositories
cancel rows they supersede. The worker holds one adapter, `fake_capture` (`worker.ts:45-47`), and
returns at once for the rows of any other. The offline queue uploads to an application that dispatches to the same commands
as the online routes, whose receipts make a repeated upload harmless.

## 2. Modules

| Module | Models | Extends |
| --- | --- | --- |
| `OutboxLifecycle` | the moves the trigger of migration 0661 admits | |
| `OutboxPromise` | what the outbox promises, with no attempts, claims or reconcilers | |
| `Outbox` | the programs that write the outbox; instantiates the two above | |
| `OutboxProofs` | types, no overlap, at most one effect, forward only; success, the retry budget, refinement of the promise | `Outbox` |
| `OutboundControl` | the pause, its history, and open claims | |
| `OutboundControlProofs` | types, claims before pauses, justified resumes, a history that explains the row | `OutboundControl` |
| `OutboxDiscovery` | signals, queue, executions | |
| `OutboxDiscoveryProofs` | types, with the retry limit | `OutboxDiscovery` |
| `OfflineQueue` | the device's queue and the upload server | |
| `OfflineQueueProofs` | types and the safety properties of the run | `OfflineQueue` |
| `SyncDeviceCache` | the device's cache, the download server, durable generations | |
| `SyncDeviceCacheProofs` | types and the safety properties of the run | `SyncDeviceCache` |
| `WormHold` | holds, releases, anchors, executors, operators, the object store | |
| `WormHoldProofs` | types, receipts against the object, release by another person | `WormHold` |
| `RecoveryMessage` | a case's messages, the executor and reconciler they drive | |
| `RecoveryMessageProofs` | types, one delivery, a true history | `RecoveryMessage` |
| `EvidenceUpload` | finalisations and cleanup of one upload | |
| `EvidenceUploadProofs` | types and the three properties of the runs | `EvidenceUpload` |
| `MCOutbox`, `MCOutboundControl`, `MCOfflineQueue`, `MCWormHold`, `MCRecoveryMessage` | values of the constants, and symmetry, for TLC | the module named |

Definitions named `Mut...` are mistakes the code could contain, written next to the definition
they would replace; nothing uses them except the mutants listed in `PROJECT.json`.

### Outbox

`status[a]` is `action_outbox.status`, with `"absent"` before the row is appended; `due[a]` is
`next_attempt_at <= now` and `stale[a]` is `claimed_at < now - 5 minutes`, each set by an action
of time. `attempts[a]` and `row[a][n]` are the rows of `action_attempt`. `worker[a][n]` is the
execution that made attempt `n`: claimed, delivering, or gone (dead, or finished). `provider[a][n]`
is what became of its request: on the wire, taken effect, or rejected for ever. `recon[r]` is what
a call of `reconcileOutbox` remembers between its transactions. Every transaction is one action,
and what runs outside a transaction (`adapter.deliver`, `adapter.reconcile`) is split from what
precedes and follows it, so any other action may come in between.

| Code | Actions |
| --- | --- |
| claim transaction of `ActionExecutor.execute` (`outbox.ts:64-117`) | `Claim`, `MarkStale`, `RefuseLapsed`, `RefuseRevoked` |
| `adapter.deliver` | `Deliver`, `Arrive` |
| completion transaction (`outbox.ts:123-133`) | `ApplyResult`, `EndWithoutResult` |
| `operateOutbox` | `OperatorCancel`, `OperatorRetry` |
| `reconcileOutbox` | `ReadUnknown`, `AskProvider`, `Reconcile`, `DropReading` |
| repositories that cancel a pending row | `Supersede` |
| withdrawal of authority, expiry, pause, clock | `ChangeAuthority`, `ChangeEligibility`, `ChangePause`, `ClaimAges`, `RetryFallsDue` |

Abstractions. The compare-and-set on `updated_at` is the flag `fresh`, which every write of the
row clears in every reader. Row locks make each transaction atomic. What stops a claim in front of
the status is `authority[a]`: `"member_revoked"` (the action is cancelled), or `"barred"` for all the
rest, which changes nothing: no current author, an approval that may not be sent, and the throw of
`beforeClaim` (`outbox.ts:81`; `worker.ts:51` passes a check that throws for the types this
environment does not settle). That check stands before the stale claim is looked for, so a barred
action's dead claim stays. What stops it behind the status is `sendable[a]`: `"lapsed"` (order
authority, authorization expiry, entitlement) cancels, `"throws"` (sign-in delivery unavailable,
altered content, `outbox.ts:109-111`) rolls back. Both may change at any time, in both directions.
Content, hashes and sign-in links themselves are left out.

Assumptions about the outside. `Punctual` says no execution outlives the five minutes after which
its claim is taken for dead; nothing in the code enforces it, and section 6 shows what happens
without it. The provider is truthful: it answers a delivery `retryable` only if the request will
never take effect, and a reconciliation `not_found` only if no request can still arrive. It does
*not* deduplicate by effect key: the properties are those of the outbox alone.

`OutboxPromise` has two variables, how often an action took effect and what the outbox says of it.
`Outbox` implements it under the mapping at the end of the module: the effects counted, and the
status read as a verdict. An operator may cancel an action whose outcome is unknown, which is why
a cancelled action may still take effect once, while a refused one may not.

### OutboundControl

`control` is the singleton row, `event` the append-only history, `reconciliation` the facts, `open`
the claim transactions that hold the shared lock. `Command` is the SQL function
`outbound_control.command` with all its refusals as guards (a replay and a conflict change
nothing). Operators choose any command, from any revision up to the current one, at any time.

### OutboxDiscovery

Signals are numbered in the order of `created_at`, but commit in any order. `Discover` may queue any
part of the window, since the task may die in its loop. The outbox row is reduced to what these tasks
turn on: pending (or retryable and due), executing, executing under a stale claim, retryable and not
yet due, and settled, which no worker reopens (operators and reconcilers do, in `Outbox`).

| Code | Actions |
| --- | --- |
| the signal's trigger, the business transaction | `Insert`, `EndTransaction` |
| `discover_outbox`, the queue and its job key | `Discover`, `Start` |
| the claim returns (`outbox.ts:68-80`, `:88`), throws (`:81`, `:109-111`), cancels (`:69`, `:89-106`), claims, finds a dead claim | `Pass`, `Throw`, `Cancel`, `Claim`, `MarkStale` |
| delivery and completion, with the retryable result and its limit (`outbox.ts:124`) | `Complete` |
| crashes | `DieStarted`, `DieDelivering` |
| time, and what the checks depend on | `ClaimAges`, `RetryFallsDue`, `ChangeChecks` |

`barred[a]` is every reason for which a check refuses or throws; it comes and goes.

### OfflineQueue

`queue` is the device's memory, `saved` its store, `backup` an older copy. `Choose` claims and
saves before the upload leaves, which is what the caller in the tests does. `Restart` restores from
the store, with the backup before or after it and perhaps a conflicting identity of one command.
`answers` only grows and every answer may be delivered any number of times. The delay before the
next attempt is a flag that time clears. `before` remembers, for the property of order, which of two
commands was captured first while both were held. `Restored` is the loop of
`restoreOfflineQueueV1` as a function of how many entries it has taken in. The server refuses, fails
before or after its commit, or records; recording twice is harmless because the commands it
dispatches to keep receipts. The application that calls the queue's functions, with its store and
its transport, is not in the repository: what the model lets it do, and what fairness asks of it, is
an assumption about it (section 5).

### SyncDeviceCache

`cache` is the device's `SyncDeviceCacheV1`; `token` the subscription token it carries. On the
server, `authority`, `member`, `revision` and `source` are what a download reads, `checkpoint` the
durable generation per tenant (`app.sync_snapshot_checkpoint`), `schema` the newest deployment.
`answers` holds what the server has said and the network may still deliver, repeatedly. `quality`
says what the source rows are like: good, replication rows that cannot be projected (the answer
refuses and cleans up), or not replication rows at all, which makes the request invalid and is
answered by a hold without any cleanup (`sync-download.ts:75,146`). They may stay so for ever.
`Subscribe` is the whole route: the checkpoint advances whatever is decided, and a token is given only
if a download would be allowed now (`download.application.ts:87`).

| Code | Actions |
| --- | --- |
| `beginSyncDeviceRequestV1` | `Begin` |
| the download route (`download.application.ts`, `snapshot.adapter.ts`, 0551) | `Subscribe`, `Download`, `DownloadWithoutSession` |
| `applySyncDeviceAnswerV1` | `Apply`; `Forget` is an answer that never arrives |
| `partitionSyncDeviceCacheV1` | `Partition` |
| the world | `ChangeAuthority`, `RevokeMembership`, `SwitchTenant` (of the session), `SourceChanges`, `Deploy`, `TokenExpires` |

`granted` (what each generation stood for), `purgedAt` and `calm` are history variables. Signing out
and in again as another user is left out.

### WormHold

`request`, `status` and `attempts` are columns of `worm_command`; `executor[c]` is the process that
claimed `c`, `recovery[o]` an operator's reconciliation, `writes` the writes on their way to the
object store and `held` what it holds. A write may land, be denied or be lost at any later time.

| Code | Actions |
| --- | --- |
| `app.worm_submit`, revocation of a membership | `Submit`, `Revoke` |
| `app.worm_claim` | `Claim`, `ClaimRevoked` |
| the executor between its transactions | `Send`, `Anchor`, `Readback`, `GiveUp`, `Crash` |
| the object store | `Land`, `Deny` |
| `app.worm_finish` | `Finish` |
| `app.worm_recovery_target`, the readback, `app.worm_reconcile` | `Target`, `Observe`, `Reconcile`, `Abandon` |

Time-stamp tokens are accepted or not; their signatures are not modelled, nor is the in-memory
harness of the retention tests. A command id and its idempotency key are one identity.

### RecoveryMessage

For each message `m` of one case: `content[m]` is the revision it was built from, `approval[m]` its
approval, `outbox[m]`, `due[m]` and `attempts[m]` its outbox row and attempts, `events[m]` its
history. `procs` are the processes that serve commands, and one worker that executes what is due.
`Fact`, `After` and `Add` are the guard of the history table; a transaction whose event the guard
refuses is rolled back, which is the conjunct `r.admitted` of `Commit`. `Finished` is `finishHistory`.

| Code | Actions |
| --- | --- |
| `read`, `preview`, `approve`, `revoke` | `Read`, `Preview`, `Approve`, `Revoke` |
| `advance`: claim, executor, finish | `Begin`, `ClaimAdvance`, `Execute`, `Deliver`, `Record`, `FinishAdvance` |
| `reconcile`: claim, ask, write, finish | `ClaimCheck`, `Ask`, `Write`, `FinishCheck` |
| the world | `CaseChanges`, `Expire`, `MinutePasses`, `FiveMinutesPass`, `Crash` |

The worker may act on any message at any time, also beside a second one. There is no operator's cancel:
`operateOutbox` has no caller outside the tests, and the repository's own `revoke` is the command that
cancels a message. Whether the transaction of `Read` is refused by the guard (`r.admitted`) is part of
the model: a case that cannot be read stays as it is, and no command on it gets further.

Time is assumed to treat commands kindly in two ways: an execution that holds a claim is over
within five minutes, and a command reaches the executor within a minute of its claim.

### EvidenceUpload

`upload` is the row of `evidence_upload`, `object` the row of `evidence_object`, `results` and
`completions` the stored results and callbacks of command ids, `stored` the versions under the
upload's key. `procs` are finalisations, `cleaner` is a run of `cleanupExpiredOrphans`.

| Code | Actions |
| --- | --- |
| `beginUpload`, the client's PUT | `Begin`, `Put` |
| first transaction of `finalize` | `Prepare`, `AdoptAtOnce` |
| `readExactVersion` and the checks of the bytes | `Read` |
| `reject` | `Reject` |
| second transaction of `finalize` | `Register`, `AdoptLate` |
| `cleanupExpiredOrphans` | `List`, `Delete`, `RejectOrphan`, `CleanupDies` |
| the world | `Expire`, `Lock`, `Abandon` |

A version has the bytes that were asked for, or others: size, type, hash and completeness of the
image are one question. `late` marks evidence that was registered after its upload had expired.

## 3. Plan

1. Done: the outbox with its lifecycle and its promise; the pause; discovery; the offline queue;
   the sync device cache; WORM holds and anchors; recovery messages; evidence uploads; proofs of
   the safety properties of each of them.
2. `CommandReceipt`: two keys, concurrent dispatch, replay; refinement of "one result per key".
3. Contractor billing as a second client of the outbox table; `OutboundSystem`: `Outbox`,
   `OutboundControl` and `OutboxDiscovery` composed, with provider events.
4. The final account lock against late sources; fee reservations.
5. Proofs: done for every safety property of the runs but two (section 7). What would make a
   recovery case readable for ever (section 6) is a question to the code first.

## 4. Runs

| Run | Instance | Shows |
| --- | --- | --- |
| `outbox` | one action, two reconcilers, `MaxTries` 2, three attempts, punctual and fair workers | `TypeOK`, `AttemptsDoNotOverlap`, `AtMostOneEffect`, `SuccessHasEffect`, `ResultOfItsOwnAttempt`, `RetryBudget`; every write is one the trigger admits (`ForwardOnly`); the promise is kept (`KeepsPromise`); `RefusalIsFinal`, `ExecutingIsReleased`, `DeliverableIsDecided` of actions that workers reach |
| `outbox_late` | not punctual | a counterexample: see section 6 |
| `outbox_revoked` | one attempt, fair workers | a counterexample: see section 6 |
| `outbound_control` | three operators, five commands, two receipts, two workers of which one has outbound enabled | `NoClaimCommitsPaused`, `HistoryExplainsState`, `EveryResumeIsJustified` |
| `discovery_fits` | three actions, a window of three, one action of another process, two attempts | `TypeOK`, `CommittedIsSettled` |
| `discovery_starves` | two actions, a window of one | a counterexample: see section 6 |
| `offline_queue` | a command and a commercial intent of one job, two attempts, three uploads | `RecordedIsOnServer`, `InCaptureOrder`, `BudgetHolds`, `OnlyCapturedIsSent`, `TerminalStays`, `CapturedIsSettled` |
| `sync_cache` | two jobs in pages of one, two tenants, two changes of the world, four requests | `TypeOK`, `ShownIsGranted`, `CompleteWhenCalm`, `AnswersAreAccepted`, `PurgedReturnsFresh`, `WithdrawnLeaves` |
| `worm_hold` | one object, three memberships of two persons, two commands, one operator | `TypeOK`, `AppliedHoldHolds`, `NoLateWrite`, `ReleasedByAnother`, `NoHoldStaysExecuting` |
| `recovery_message` | two messages, one delivery and two checks, two processes and a worker beside either message | `TypeOK`, `DeliveredOnce`, `HistoryIsTrue` |
| `recovery_history` | one message, two deliveries | a counterexample: see section 6 |
| `evidence_upload` | two versions, two types, two commands, two processes, one cleanup | `VerifiedIsRegistered`, `AnsweredAsAsked`, `RegisteredIsStored` |

Bounds, and why they are enough.

* Actions share no state but the pause, so one action is enough for the outbox; the theorems hold
  for any number. Three attempts with a limit of two exercise the limit and an attempt beyond it
  (reconciled from unknown); two reconcilers let one's write make the other's reading stale.
* Five commands are pause, request, approve and two more: a second pause, a second request, or a
  rival approval, which are all the ways a request can be overtaken. Three operators are one more
  than a resume needs.
* `MaxAttempts` 2 (8 in the code) lets an item be retried and be exhausted; `SendCap` 3 is above
  it, so the bound never hides a third upload. Two commands of one job are the least for order; one
  of them is a commercial intent, which is never recorded but reviewed, so the run sees an ordinary
  command behind or in front of a blocked one and no two that are recorded in order. The instance with
  two ordinary commands passes as well, and `JobsStayInOrder` (section 7) holds for any commands. The
  backup may be older by any number of saves.
* `Limit` 3 and 1 (100 in the code) stand for a window that holds everything and one that does
  not. `MaxRuns` 1: executions of one action do not overlap here before their claim, but a job may wait,
  another may be started and a delivery may be under way at the same time; overlapping claims are the
  business of `Outbox`. `MaxTries` 2 (5 in the code) allows one retry.

* `sync_cache`: the world changes at most `MaxChanges` 2 times, all before the last `Settling` 3
  requests of `MaxSequence` 4, so that it can stand still; a download takes three requests (subscribe
  and two pages). `MaxAnswers` 1 is one answer on the network in all: it is late when another request
  is pending by the time it arrives, and it is repeated because it may arrive again. `Outlasted` keeps
  the few requests of a run from all being spent within the minute of a token that malformed rows keep
  from being renewed; a device that asks for ever outlasts it.
* `worm_hold`: a release needs a hold, hence two commands; two persons, one of them with two
  memberships, are the least for "another person's". `MaxAttempts` 2 lets an anchor be claimed again
  while it is pending. Only one membership is ever revoked.
* `recovery_message`: a superseded message needs a second; a check taken over needs a second check.
  `AttemptCap` and `MaxTries` 2 reach the limit. `WorkerCap` 1 lets the worker make one attempt without
  a command, on either message and at any time. `MaxChanges` 1: an approval expires or the case changes
  once.
* `evidence_upload`: two commands, two versions and two types are the least for two requests that
  differ in either; a command may be sent with any request.

`outbound_control`, `sync_cache`, `worm_hold` and `evidence_upload` run without the deadlock check:
command ids, requests or versions run out, and then nothing is left to do.

## 5. Fairness

* `Outbox`: `Execute`, for the actions of `Reached` only: those whose adapter a worker holds
  (`worker.ts:45-47`, `outbox.ts:70`) and whose signal stays among the 100 oldest that `discover_outbox`
  queues each minute (`worker.ts:49`). Of an action outside `Reached` nothing is claimed.
  `ClaimAges` and `RetryFallsDue`, because time passes; `Proceed`, because an execution ends, if only by
  dying. Nothing is assumed of operators, reconcilers or authority: the liveness properties except an
  action that the claim's checks bar again and again.
* `OutboxDiscovery`: cron runs `Discover` to the end once in a while (weak), the queue hands out jobs
  (weak), an execution that is started over and over reaches its claim once in a while (strong):
  graphile-worker retries a job that failed and cron queues it again. A delivery ends, with a result of
  either kind or with the process; claims age and retries fall due (weak). Nothing lifts a bar: the
  property is about actions that are not barred any more from some time on.
* `OfflineQueue`: asked of the application that drives the queue, which is not in the repository: while
  it runs it keeps choosing, it comes back after it died, delays pass, and an upload ends, with any answer
  or only with the process that made it. No answer has to arrive, and the device may die in every single
  upload. Choosing is strongly fair because a late "unavailable" may put an item off again, and there are
  finitely many of them.

* `SyncDeviceCache`: a device that may ask, asks (weak); a download by the newest server instance, whatever
  its rows are like, the arrival of an answer and the loss of answers that no request waits for happen if they stay possible
  again and again (strong), since other requests and repeated answers come in between. A token expires
  while the rows are malformed: it lasts 60 seconds and such rows keep it from being renewed. Without
  that, withdrawn rows would stay: TLC finds it as soon as the assumption is taken away.
* `WormHold`: operators run the recovery again and again, for each command, and do not abandon it
  every time (strong): `docs/operations/evidence-storage.md:67-104` makes it their duty. Executors are
  assumed to do nothing: the property is about those that died.
* `RecoveryMessage` and `EvidenceUpload`: none; their properties are safety properties. Nothing calls
  `cleanupExpiredOrphans` regularly, so nothing is claimed of what it must eventually do.

## 6. What the runs found

* **`outbox_late`** (`outbox.ts:126`). The completion's UPDATE asks that the row is `executing`, not
  that it is this attempt that is. An execution that outlives its claim writes its result over the
  attempt that took the action over after a reconciliation. `BUILD_PLAN.md:119` asks that an unknown
  outcome is reconciled, "never blind retry or success". Without `Punctual`, `AtMostOneEffect` is violated
  too: a worker that sleeps for five minutes between its claim and its request sends after the action
  was found stale, reconciled as not found and claimed again. Nothing in the code rules that out; it
  has the same cause, and no run of its own.
* **`outbox_revoked`** (`outbox.ts:68`). The SELECT that finds a stale claim wants a currently
  authorized author, so the crashed execution of a revoked author stays `executing`: nothing
  marks it unknown and `operateOutbox` refuses it. `BUILD_PLAN.md:3846` promises "Durable replay or
  explicit unknown-outcome reconciliation".
* **`discovery_starves`** (`worker.ts:49`). Discovery reads the 100 oldest signals and nothing
  removes one, so the next is never queued.
* **`recovery_history`** (`recovery-message-repository.ts:506`). `finishHistory` matches the n-th run of
  start events with the n-th attempt. A delivery that claims after another's attempt was recorded
  retryable, and before that was told, adds its start to the other's run; its own result is then
  never told, though `packages/db/MIGRATIONS.md:581` says attempts "durably reconstruct interrupted
  terminal history".

Three more that the code does and that no run of this project stands for.

* *A case that cannot be read.* `finishHistory` may derive an event that the history refuses, by its
  unique key (0107:98) or by its guard; every later read of the case, and with it every command, then
  fails, although `MIGRATIONS.md:581` says that history is reconstructed on reads. It happens when
  attempts get ahead of the starts that were told. With the property "what `finishHistory` adds is
  admitted" TLC finds it in three ways. Two attempts of the worker with no read in between
  (`WorkerCap` 2): two starts under one command id. Three copies of one delivery that claimed together,
  whose attempts end unknown and are found undelivered by checks (one message, `WorkerCap` 0,
  `AttemptCap` 3, three processes, one delivery and two checks): the same. And with as many starts told
  as attempts were made (three deliveries, two checks, three processes, no worker): the starts of two
  attempts are in one run, the untold "retryable" of the first comes after the unknown outcome of the
  second, and the guard compares it with the last attempt. The instance of `recovery_message` is too
  small for any of them; it is not evidence that a case can be read, and no property of the project says so.
* *Registered evidence that is deleted.* `RegisteredIsStored` excepts transient uploads that were
  registered after they expired. Without the exception TLC finds a finalisation prepared before the
  expiry, a cleanup that lists its version, the registration, and then the deletion of the registered
  bytes. `docs/operations/evidence-storage.md:18-19` says that "registered evidence and retained classes
  are excluded" from the cleanup; `docs/review/NIGHT-AUDIT-TRIAGE-LATER-2026-10-16.md:90` knows of the
  race, and that no application calls the cleanup.
* *An anchor whose executor dies* stays `executing`: the reconciliation routines take holds and releases
  only (0578:21,38), while the comment at `worm-command-repository.ts:142` speaks of every executing
  claim; hence `NoHoldStaysExecuting`.

Worth knowing, and not listed as findings: one recovery command that is sent again may make a second
attempt; a second pause replaces `paused_by`, after which the
person who first paused may approve a request; the number of attempts may exceed the limit through
unknown outcomes that are reconciled as not found; the attempt's row stays `started` when its claim
goes stale; an action whose authorization (rather than membership) is withdrawn, or whose type the
environment does not settle (`beforeClaim`), stays pending, or executing if its worker died, as long as
that is so; rows of an adapter that no worker holds are executed only by the repository that made them.

## 7. Proofs

Checked by TLAPS for every value of the constants that satisfies the named assumption of the
module: their types, and that the values standing for "nobody" or "nothing" are no others.

### Outbox

For any set of actions and reconcilers, any `MaxTries` and `AttemptCap`.

| Theorem | Assumes `Punctual` | States |
| --- | --- | --- |
| `TypeCorrect` | no | `Spec => []TypeOK` |
| `NeverRefusedByTrigger` | no | `Spec => ForwardOnly` |
| `NoAssumedSuccess` | no | `Spec => []SuccessHasEffect` |
| `NoOverlap` | yes | `Spec => []AttemptsDoNotOverlap` |
| `EffectOnce` | yes | `Spec => []AtMostOneEffect` |
| `RetriesAreBounded` | yes | `Spec => []RetryBudget` |
| `PromiseKept` | yes | `Spec => KeepsPromise` |
| `RefusedForEver` | yes | `Spec => RefusalIsFinal` |

The argument. `AtMostOneEffect` is not inductive: nothing in it says that a second attempt is not
begun while the first one's request is on the wire. The strengthening is `AttemptsDoNotOverlap`, a
conjunction of five facts: attempts not yet begun have sent nothing; attempts followed by another
can have no effect any more; whoever still executes holds a young claim of the last attempt; a row
at rest (absent, pending, retryable, dead letter) has no request that may still land; and a
reconciler whose reading is fresh may trust a "not found". Each operation disturbs one or two of
them, and `OutboxProofs` has one step per action and part. The young claim is where `Punctual`
enters: without it `ClaimAges` makes a live execution's claim stale.

From it, an effect can only be the last attempt's, hence one; and the last part of the module shows step
by step that the mapping of `Outbox` takes each action to a step of `OutboxPromise` or to a stutter.
`SuccessHasEffect` has its own invariant, `Evidence`: an answer or a result that says "succeeded" was
given when the effect was there, and effects do not go away. It needs no punctuality. The retry budget
is inductive beside `AttemptsDoNotOverlap`: a result is written by the only execution that still lives,
so the attempt it compares with the limit is the last, and a claim, which takes the count further, leaves
no retryable row behind (`BudgetStep`).

### OutboundControl

`TypeCorrect`, `ClaimsPrecedePauses` (`NoClaimCommitsPaused`), `ResumesAreJustified`
(`EveryResumeIsJustified`) and `HistoryIsComplete` (`HistoryExplainsState`), for any operators, commands and workers. An approval reads the row and
not the history, so the last is not inductive. `HistoryStands` adds what the row stands for: results
number the events without repetition (`Numbered`); a pause in force is the latest pause event and
names its actor (`PauseStands`); a pending request is an event whose author expected a revision not
before that pause (`RequestStands`). A new event is later than all there are, so what an earlier
resume rests on does not change (`JustificationStays`).

`HistoryExplainsState` compares the row with a replay, which is a recursion over the numbers of the
events. The library's induction theorems cannot be used (they take an operator), but a set of
numbers that is not empty has a least element (`WFMin` and `NatLessThanWellFounded`): the replay of a
history exists for any length (`ReplayExists`), and that of a history with one event more agrees with
the shorter one at every earlier number, because there is no least number at which it would not.

### OutboxDiscovery

`TypeCorrect`, for any number of signals and any window. That tries stay within the limit is not
inductive: `TriesLeft` adds that an action which may still be claimed has been tried less often. What the
tasks promise, `CommittedIsSettled`, is a liveness property and model-checked.

### WormHold

| Theorem | States |
| --- | --- |
| `TypeCorrect` | `Spec => []TypeOK` |
| `AppliedHoldsHold` | `Spec => []AppliedHoldHolds` |
| `NothingLandsLate` | `Spec => []NoLateWrite` |
| `AnotherReleases` | `Spec => ReleasedByAnother` |

For any objects, memberships, commands and operators. An object has at most one live hold and that
at most one live release (`Chains`), so at most one unsettled command; until its one write lands the
object is as the settled commands left it (`Workings`, `FreeObjects`), and an operator's reading that
confirms a write was made after it landed (`Readings`). That is why a late executor, a late write and
a late reconciliation cannot contradict a receipt.

### OfflineQueue

| Theorem | States |
| --- | --- |
| `TypeCorrect` | `Spec => []TypeOK` |
| `ShownIsRecorded` | `Spec => []RecordedIsOnServer` |
| `JobsStayInOrder` | `Spec => []InCaptureOrder` |
| `BudgetIsKept` | `Spec => []BudgetHolds` |
| `NothingAlteredIsSent` | `Spec => []OnlyCapturedIsSent` |
| `SettledStays` | `Spec => TerminalStays` |

For any commands, jobs, budget and number of crashes. None of the properties is inductive, since a
restart may bring back a copy the property says nothing of. The invariant says the same of the three
copies the device can restore (`Copies`): each holds a command once; what it shows as recorded is;
what is altered is under review; of two commands it holds in the reverse of their capture the one in
front is under review; and it never holds a command without those captured before it. `Store` relates
the copies: the store lies within the memory and the backup within the store, the uploads of a
command are counted in the memory and in the store, and what the store has settled the memory has.
`Sending` counts uploads; `Order` says that a command was sent only when those before it in its job
took effect.

A restoration takes in entries one by one and merges duplicates. What is true of its result is
stated of every prefix (`FoldedUpTo`): which command comes from which entries, that an item is no
less final and has spent no less than any entry of its command, and where a command stands. It is
proved, again by the least prefix that fails, and then read off for the six sequences `Restart` may
find.

### SyncDeviceCache

| Theorem | States |
| --- | --- |
| `TypeCorrect` | `Spec => []TypeOK` |
| `ShownOnlyGranted` | `Spec => []ShownIsGranted` |
| `CalmIsComplete` | `Spec => []CompleteWhenCalm` |
| `NoAnswerRefused` | `Spec => []AnswersAreAccepted` |
| `PurgedComesBackFresh` | `Spec => PurgedReturnsFresh` |

For any jobs, tenants, page size, changes and requests. The device sees only answers, which may be
old or repeated. Two facts carry the safety of what it shows: a generation stands for the scope its
checkpoint was last called with (`Generations`), and the rows of an answer were granted in the
generation it names (`AnswersAreGranted`); both outlive any later change, because generations only
grow. Completeness needs what is true while nothing changes: the answer to the pending request is a
page of what the server says now (`CalmAnswers`), and the device holds the projection as far as its
cursor (`CalmCache`). That pages meet without a gap rests on a lemma about the rows below the least
row left out. A purge belongs to an earlier request than the pending one (`PurgedBefore`).

### RecoveryMessage

| Theorem | States |
| --- | --- |
| `TypeCorrect` | `Spec => []TypeOK` |
| `ToldOnce` | `Spec => []DeliveredOnce` |
| `HistoryTrue` | `Spec => []HistoryIsTrue` |

For any number of messages, commands and processes and any limits. That a case is told once is not
inductive: an answer is written long after the provider gave it. `Alone` says that one message of
the case has an action that may still take effect, and `SinkStands` that its status never contradicts
the provider. In between, a process that delivers has the claim to itself and its result is true of
the provider (`Attended`, where the assumption that a claim does not outlive five minutes enters),
and an answer of a check is true as long as it may be written (`Checking`): the action has not been
tried again unless its number of attempts moved on, which `Write` compares. The history is true
because of what the action was when its last event was written (`Narrative`), and what
`finishHistory` adds keeps that whatever state it finds (`FinishHistoryKeeps`).

### EvidenceUpload

`TypeCorrect`, `VerifiedMeansRegistered`, `AnsweredOnceAsAsked` and `EvidenceIsStored` state the three
properties of the run for any versions, types, commands and processes. The first two properties are
inductive over well-typed states. The last needs `AtWork`: a finalisation about to register has read
bytes that are still there unless a cleanup may run; a cleanup runs only on an expired transient
upload, and what was registered before the expiry it never lists.

### Model-checked only

Every liveness property (fairness and `ENABLED` are outside the prover's reach): `ExecutingIsReleased`,
`DeliverableIsDecided`, `CommittedIsSettled`, `CapturedIsSettled` (with its first part, that the store
never loses a command), `WithdrawnLeaves`, `NoHoldStaysExecuting`. And `ResultOfItsOwnAttempt`: it is what
the run `outbox` compares with `outbox_late`, and says nothing where executions are punctual by
assumption. Every other safety property of the passing runs is stated by a theorem.

## 8. Not modelled

Rendering, parsing and arithmetic (calculators, imports, matching, packs, the web application):
data without order. Cryptography and sign-in protocols: the outbox sees only whether an author is
authorized. Row security and encryption: enforced by the database. `ingestProviderEvent` is one
insert that keeps the first of an identity and has no reader in the code modelled so far. Follow-up reminders (0112), proof links
and previews add rows that nothing modelled changes. The chunks of `resumable-evidence.ts` are the
version a client puts: `append` refuses a full upload, and `finalize` wants a full one. The
remaining components are listed with their reasons in `PROJECT.json`.
