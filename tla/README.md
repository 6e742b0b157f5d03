# TLA+ models of Trading-Agent

This directory holds a verification development of the Trading-Agent repository: TLA+ modules
translated from its source, TLC configurations that check them on small instances, and TLAPS
proofs for every value of the constants. `PROJECT.json` is the index: components, runs, the map
from definitions to source lines, hazards, findings and theorems.

Contents: [the system](#the-system) · [modules](#modules-and-the-code-they-model) ·
[runs](#runs) · [proofs](#proofs) · [findings](#where-code-and-documents-disagree) ·
[not modelled](#not-modelled) · [plan](#plan)

## The system

Trading-Agent is a research and paper-trading platform. Untrusted work (market snapshots,
back-tests, alpha campaigns) is executed by child processes. What matters is decided by
PostgreSQL functions that run with their own authority; every process talks to the database
through a role that can call only its own functions. Submission of orders is guarded by a chain
of risk gates that fail closed.

### Inventory

| component | state | operations | interacts with |
|---|---|---|---|
| job plane (`alembic/versions/0004`–`0007`, `0011`) | `jobs`, `job_attempts`, `job_events` | enqueue, cancel, claim, start, control, finalize, recover | called by API, scheduler and worker |
| job contracts (`packages/job_contracts`) | none | transition policy, payload contracts | imported by store, API, worker |
| job store (`services/job_store`) | connection pool | one method per database function | worker, API, scheduler |
| job worker (`services/job_worker`) | claim, child process, inspector | recover at start, claim, run the child, heartbeat, validate, finalize | job store, safety state, systemd |
| job scheduler (`services/job_scheduler`) | `scheduler_heartbeats` | one tick per timer event | job store |
| job API, operator API and CLI, control API (`apps`) | none of their own | HTTP to repository calls | job store, operator control |
| operator control (`services/operator_control`, `packages/operator_control`) | intent journal, control state, receipts | accept, apply, receipt, recover | safety state |
| safety state and its exporter (`services/safety_state*`) | one evidence file | export (atomic replacement), read if fresh | worker preflight and heartbeat |
| runtime risk (`packages/runtime_risk`) | global halt, submit authority | halt, resume, prepare, consume | execution sandbox |
| event ledger (`packages/event_ledger`, `0008`) | append-only streams, inbox, outbox | append at an expected version, replay | projections |
| engine event ledger (`packages/engine_event_ledger`, `0010`, `0011`) | accepted batches | ingest under the worker's lease, project | job worker |
| trading domain, execution sandbox, portfolio reducer (`packages`) | orders, fills, positions | order state machine, recovery, reducers | event ledger |
| alpha lifecycle and P3 sessions (`packages/alpha_lifecycle`, `0020`, `0025`) | campaigns, one-use holdout | register, promote, open the holdout once | job worker |
| paper runtime (`services/paper_runtime`) | session controller, evidence | composes domain, risk, ledger and custodian | all of the above |
| market data, data catalog, security master | content-addressed registers | register or reject | job worker |
| research validation, runtime release, engine adapters, custodian, dashboard, legacy backend | — | numerical, offline or view code | — |

### What is hard in it

* **Interleaving.** API, scheduler, several workers and recoveries change one job row. A worker's
  handle on a job (attempt and lease token) is never revoked, so each database function must
  decide alone whether a late call still counts.
* **Stale reads.** `recover_expired_leases` reads candidates, inspects `/proc`, then acts; the
  world has moved on. `statement_timestamp()` is taken before the wait for a row lock, so two
  calls judge the same lease with different clocks.
* **Two worlds.** The table says who owns a job; the process table says who is executing it. A
  crash between `Popen` and `start_attempt` leaves a child that no row records.
* **Partial failure.** Cleanup of a child fails after a reason to stop was chosen; the commit of
  a transaction succeeds and its answer is lost.
* **Progress.** The worker's loop must find a way out of every refusal; recovery runs only at
  service start; a cancellation may arrive at any point.
* **History.** Seven functions write `job_events`; one audit query, written separately, must
  accept everything they write.
* **Compare-and-append.** Halts, recoveries, preparations and consumptions race for one sequence
  of the authority stream, each deciding on what it loaded before; a lost answer makes a caller
  repeat a consumption that is durable.
* **Journal and world.** An operator command changes source files that others write too, and
  records intent, application and receipt in files of their own; an execution stops anywhere.
* **Storing and finalizing.** The result of an engine back-test becomes durable in a transaction
  before the one that ends the job.
* **Statements and locks.** Ingestion and recovery of projections are transactions of many
  statements at READ COMMITTED; only advisory and table locks taken in order make them exact.
* **Delivery order.** The sandbox's venue moves when a command is given; its reports arrive by
  time, twice, or half of a drain.

### What makes each part correct

* Job plane: jobs and attempts agree on ownership; ended attempts are history; a retry starts
  from a clean row within budget; an accepted cancellation is honoured; the history passes the
  audit; the job follows the transition policy; an idempotency key creates one job.
* Job worker: a live child always belongs to the current attempt of a job that nobody else can
  be running; every claim is let go of.
* Job scheduler: the heartbeats tell exactly which slots have a job and who created it.
* Job worker with engine results: a durable result is never produced again, a success has one.
* Operator control: the journal always loads, a receipt is true, an applied command is not
  applied again, an activation that nobody saw and a clear took away comes back, a retried command
  ends.
* Runtime risk: the authority of a permit is returned at most once, within its lifetime and with
  no halt or recovery since its preparation; a recovery needs its own authorization.
* Engine event ledger: contiguous runs, exact projections, truthful receipts, completed runs are
  final, no circle of waiting transactions.
* Execution sandbox: what is queued leads the observed orders to the venue's; reconciliation
  neither misses nor invents a mismatch; a checkpoint is not restorable once the ledger is
  beyond it.

## Modules and the code they model

```
JobPolicy ── state vocabulary and transition policy
   ├── JobLifecycle ── what a job promises (abstract)
   └── JobPlane ── the three tables and the database functions; implements JobLifecycle
          ├── JobPlaneProofs ── JobEventChainProofs ── JobWorkerProofs (with JobIngestion)
          └── JobWorker ── services and child processes, composed with JobPlane
                 └── JobIngestion ── profiles that store a result; implements JobWorker
JobScheduler ── tick processes and scheduler_heartbeats ── JobSchedulerProofs
OperatorControl ── journal, source files and safety exporter ── OperatorControlProofs
SubmitPermits ── one-shot permits under a halt (abstract)
   └── SubmitAuthority ── the authority stream and its callers; implements SubmitPermits
          └── SubmitAuthorityProofs
EngineEventLedger ── ingestion and recovery as concurrent transactions ── EngineEventLedgerProofs
OrderStates ── order state machine and reducer
   └── ExecutionSandbox ── client, ledger, reconciliation and recovery classification
          └── ExecutionSandboxProofs
```

Each `MC…` module only gives constants and symmetry sets to TLC.

**JobPolicy** has `JobState`, `TerminalStates`, `OrdinaryTransitions` and `RetryTransitions` of
`packages/job_contracts`, and `ValidTransition`, the one operator of the policy.

**JobLifecycle** is the abstract specification: per job a state and an attempt count. A job is
created in QUEUED, is taken while attempts are left (which counts one), moves along ordinary
transitions and returns to QUEUED only from a retryable outcome with an attempt left.

**JobPlane** has one action per database function of migration `0006`, each one transaction:

| action | function |
|---|---|
| `ApiEnqueue`, `ScheduleEnqueue` (`InsertJob`) | `api_enqueue_snapshot`, `scheduler_enqueue_snapshot` |
| `ApiCancel` | `api_cancel_snapshot` |
| `WorkerClaim` | `worker_claim_snapshot` (`ORDER BY`, `SKIP LOCKED`) |
| `WorkerStart` | `worker_start_snapshot` |
| `WorkerControl` | `worker_control_snapshot_lease`, both phases |
| `WorkerFinalize` | `worker_finalize_snapshot`, with and without retry |
| `RecoveryScan` | the query of `recover_expired_leases` |
| `RecoverBlock`, `RecoverInterrupted` | `worker_recover_expired_snapshot` |

A row is a record; NULL is 0 or a named value. Hashes, payloads and metadata are reduced to
whether they are set. A lease token is a number not issued before. Calls present any handle ever
issued (`Issued`), with any statement time within `MaxLockWait` of the clock. What a handle does
after its worker stopped, crashed or was replaced is thereby included. A call whose fence fails
raises and changes nothing, so it is not a step. `ChainSound` and the operators before it are the
audit query of migration `0007`, code by code.

**JobWorker** extends JobPlane with the program of the services. `service[w]` is the local state
of `serve`/`run_once`/`ProcessRunner.run`, `child[a]` the session leader that attempt `a`'s
worker spawned. Every step makes at most one database call, so anything may happen between two
calls; `Crash` may happen at every point, and the unit's `KillMode` then ends the child. The
payload profile is the ordinary child process.

| program point | code |
|---|---|
| `down`, `recovering` | `main.serve` before its loop: `StartService`, `Inspect`, `Recover`, `EnterLoop` |
| `idle`, `claimed`, `prepared` | `run_once` to `runner.run`: `Claim`, `PollEmpty`, `BlockClaimed`, `PreSpawnControl`, `Spawn` |
| `looping`, `started`, `refused` | the runner's loop and its heartbeat callback: `HeartbeatDrift`, `HeartbeatStart`, `HeartbeatRefused`, `HeartbeatControl`, `Timeout`, `KillChild`, `Reap`, `CleanupUnproven` |
| `drained`, `validating`, `validated` | `ValidationProgress`, `ValidationBlocked`, `ValidationFailed`, `ValidationPassed` |
| `finalizing` | the decided `finalize_execution` or `finalize_retry`: `Finalize` |

**JobScheduler** models tick processes that read the clock once, call `schedule_snapshot` (one
transaction for the job and its heartbeat) and, on an exception, record FAILED in another
transaction. A call may fail before its commit (`ScheduleRaises`) or after it (`Schedule` with
exit to `failed`), and a process may die at any point. The job row is abstracted to its actor and
creator: what enqueueing does to `jobs` is `ScheduleEnqueue` of JobPlane.

**JobIngestion** extends JobWorker with the two profiles of `run_once` that store a result outside
the job tables: engine back-tests (`ingest_engine_job_result` of `0011`, under the worker's lease)
and snapshots with market data (by content, without a lease). `stage[w]` is how far `run_once` is:
the check for a prior receipt (`NoPriorReceipt`, `PriorReceipt`), the ingestion (`IngestEngine`,
`IngestFails`, `IngestRefused`), what follows a lost answer (`ReceiptFound`, `NoReceipt`), and
`PersistSnapshot`, `PersistFails`. An ingestion whose answer is lost commits before the receipt is
read. The heartbeat-row fence that `0012` adds is assumed satisfied. The parity verdict of a P1 run
is one of the validator's outcomes. Everything else is a step of JobWorker, which `ImplementsWorker`
shows.

**OperatorControl** has `execute` of `services/operator_control/service.py`: `AcceptCommand` writes
the intent; `Check` (the source and, for a clear, the evidence are read again), `Bind` (the state
store reads the state and the bytes of the file), `Rename` (`renameat2` takes whatever is there by
then), `Verify` (what it took is compared) or `TakeBack` (it is renamed back, unless a newer file is
in the way), `CreateApplied` and `CreateReceipt` follow one by one; `ResumeRetry`, `ResumeApplied`,
`ResumeRecovered` and `ResumeFails` are a repeated request, with `RecoveryDisposition` of the state
store; `RejectCommand`, `RefuseConflict`, `RefuseIntent` and `RefuseUnsafeJournal` the other
answers. `Interrupt` ends an execution anywhere, and a create may leave a torn record. `ExportRead`
and `ExportPublish` are the safety exporter, `Drift` anybody else who writes `.mode` or
`.kill_switch`. The file lock serialises executions, hence one `run`. Others may write and the
execution may stop between any two of these steps; the reads inside one of them are one. A file that
others replace by one with the same bytes, which the code tells by its inode, is not told apart.
Rejections that depend only on the request (actor, DRYRUN and LIVE) are left out. The clock is
coarse and does not go back.

**SubmitPermits** is what `packages/runtime_risk` promises: a permit is prepared while trading is
active, retired by any halt or recovery, consumed once, its authority handed out at most once.
**SubmitAuthority** has the calls: a caller verifies its safety reading (`StartRecord`,
`StartRecover`, `StartPrepare`, `StartConsume`), loads and replays the stream (`LoadRecord`,
`LoadRecover`, `LoadPrepare`, `LoadConsume`, or `LoadedWithoutAppend`), compare-and-appends
(`Insert`, `FindPresent`, `AppendConflicts`), and a consumption reads back (`ReturnAuthority`) or
tries once more (`RetryConsume`, `GiveUpConsume`). Callers choose event ids from a small set, so
repeated calls and clashes of ids happen; each has a clock of its own. `Admissible` is the replay's
judgement of one more event. Worth knowing of the code, and visible in the model: a permit prepared
with a later clock makes a halt with an earlier one inadmissible (`halt.py:770`); a consumption is
not retried when another stream has advanced (`submit_authority.py:916`); a caller that dies
between append and read-back loses the authority (at most once, not exactly once).

**EngineEventLedger** models the transactions of `0010` statement by statement. An ingestion locks
batch, run and messages in id order (`LockBatch`, `LockRun`, `LockMessages`), looks for its receipt
(`FindReceipt`, `NewBatch`), checks identities and the expected sequence (`CheckIdentity`,
`CheckSequence`), inserts (`InsertRows`) and commits with the projection (`CommitBatch`) or aborts. A
recovery takes the table lock, replays and rewrites (`LockTable`, `Replay`, `CommitRecovery`). Any
two sessions may carry the same document. Collisions of hashed lock keys and PostgreSQL's own
deadlock detection are not modelled.

**OrderStates** is the table of `packages/domain/orders.py` over status and pending cancellation and
`ReduceOrder`. **ExecutionSandbox** has the client: `Submit`, `Modify`, `Cancel`,
`ConnectionTransition`, `AdvanceTime`, `DrainReports`, and `DrainFails(n)` for a drain that stops
after `n` appends; `InventoryValid` and `PlanValid` are the validations before an effect, with the
delivery order they foresee. A queue is a sequence of reports, its insertion ordinals the positions;
`DueBefore` is the sort by delivery time and ordinal, `Keep` a filter that leaves the order alone.
`SubmitInterrupted` is a submit that stops between the consumption of its permit and the new state,
because the process ends or because the consumption was stored and its caller saw an error
(`client.py:141`), in which case the client goes on; a crash anywhere else leaves what the variables
hold. `ReconcileExecutionState` and `PlanSandboxRecovery` are operators, the first translated from
`reconciliation.py`, the second from `recovery.py`; `RecordCheckpoint` is the caller's durable
checkpoint. The repository has no code that restores one. Data is reduced so: an event's bytes are
its identity, fill `n` brings the cumulative quantity to `n`, a permit is named by its submit
command, and a lost response changes only what the caller knows.

## Runs

| run | instance | checks |
|---|---|---|
| `job_plane` | 1 job, 2 attempts, 2 workers, lease 2, lock wait 1, clock to 5; 284,000 states | `TypeOK`, `EventChainClean`, `OwnershipConsistent`, `NothingCarriedOver`, `AcceptedCancelHonoured`, `EndedAttemptsFrozen`, `ImplementsLifecycle` |
| `job_worker_progress` | 1 job, 1 service, clock to 4, `FairWorkerSpec` | `WorkerTypeOK`, `ClaimEnds` |
| `ingestion_two_workers` | 1 job of either profile, 2 attempts, 2 symmetric services, lease 1, clock to 3; 993,000 states | `IngestionTypeOK`, `NoRerunAfterResult`, `DurableBeforeSuccess`, `OwnFailureNeverDurable`, `LiveChildAccountedFor`, `WorkerInv`, `ImplementsWorker` |
| `scheduler_heartbeats` | 3 tick processes, 2 actors, 4 minutes, slots of 2 | `SchedulerTypeOK`, `HeartbeatsExplainJobs` |
| `operator_two_commands` | 2 keys, 3 commands, 1 interruption, `OperatorFairSpec`; 346,000 states | `OperatorTypeOK`, `JournalLoads`, `KillReceiptsTruthful`, `AppliedIsFinal`, `IntentsConclude` |
| `operator_other_writers` | 1 key, 3 commands, 1 interruption, 2 foreign writes; 1,314,000 states | `UnseenActivationRestored` |
| `submit_authority_race` | 2 callers, 2 permits, 4 event ids, 1 disturbance, one instant; 250,000 states | `AuthorityTypeOK`, `StreamReplays`, `AuthorityReturnedOnce`, `PermitsPromise` |
| `submit_authority_rotations` | 2 callers, 1 permit, 4 event ids, clocks 0 and 1 | `ConsumptionsJustified`, `RecoveriesAuthorized` |
| `engine_ledger` | 3 symmetric sessions, 5 overlapping batches of 2 runs, 2 claims; 116,000 states | `LedgerTypeOK`, `ProjectionsExact`, `LedgerReplays`, `NoUniqueError`, `AnswersTruthful`, `NoWaitCycle`, `CompletedRunsFinal` |
| `execution_sandbox` | 3 scenarios, every schedule of their reports over 2 instants; 93,000 states | `QueueLeadsToVenue`, `ReconciliationTruthful`, `RestoreIsExact` |
| `job_worker_leftovers`, `ingestion_blocks` | see [findings](#where-code-and-documents-disagree) | one property each, which TLC refutes |

What the runs show, beyond the table: the fences under the row locks keep jobs and attempts
consistent for handles of any age; two services never have two children for one job, and a result
that is durable is never computed again, even by a recovery that overtakes a paused worker; the
operator's journal survives any interruption; no interleaving of compare-and-appends hands out an
authority twice or across a halt; the locks of `0010` make its statement-wise transactions exact
without a circle of waiting; and the sandbox's validation before an effect foresees every delivery
order that a drain can meet.

**Bounds.** Two attempts are the smallest number for which an attempt is superseded, so that a
handle can be stale, a retry can be followed by a claim and the budget can be exhausted. With a
lease of 2, a lock wait of 1 and a clock to 5, a lease is renewed, runs out, and the job is
requeued, waits for its delay, is claimed again and expires again. Jobs meet only in the order of
claims and in `UniqueKeys`, which is proved for any number of jobs. Two services give one that is
paused while the other recovers and takes over; there a lease of 1 without delay, and a clock to 3,
leaves room for two expiries. Three tick processes give two that race for a slot and one that comes
after. Two operator keys give a command between the intent and the retry of another; two foreign
writes an activation before the rename of a clear and a newer one before it is taken back. Four
events of the authority stream are a halt or start, a preparation, a rotation or rival preparation,
and a consumption; since two permits and two instants together are too many states, one run has the
permits and one the clocks. The batches of `engine_ledger` include one that overlaps two others, one
of another run with the same messages in another order, and one that comes after a gap; three
sessions are two ingestions and a recovery, or three that might wait in a circle. The sandbox's
scenarios have a duplicate report, a modification, a disconnection, a race of fills with a
cancellation, a refused cancellation and a second order; with two instants every order of two waves
of delivery happens; three instants have more than a million states, which is longer than the runs
are meant to take.

`CHECK_DEADLOCK FALSE` is set where the bounded system stops by itself: all tick processes have
ended, every command has its receipt and time is up, the event ids are used up, all sessions have
ended, a scenario is played to its end. In `engine_ledger`, `NoWaitCycle` is the check that none of
them stops too early.

**Symmetry** is used for services, callers, permits, event ids and sessions: none is ordered or
named by a definition, and no run with symmetry checks liveness.

**Fairness** (`FairWorkerSpec`). A service that is up executes its program: each group of its
steps is weakly fair. `KillChild` and `Reap`/`CleanupUnproven` are strongly fair, because every
iteration of the runner's loop passes the cleanup step and the exit test whatever its heartbeat
did, while in the model heartbeats disable them for a moment. `Timeout` is weakly fair: the
deadline of the child passes. Leaving the validator is weakly fair: it is finite code. The
restart of a failed service is the unit's `Restart=on-failure`. The clock is weakly fair up to
its bound. Nothing is assumed of the operators, of crashes or of children that exit.

`OperatorFairSpec`: a client without a receipt sends its request again, an execution that is not
interrupted goes on, the exporter's loop reads and publishes again and again, and time passes.
`IntentsConclude` is about mode and activation commands; for clears see the disagreements below.
Nothing is assumed of interruptions or of other writers. The other specifications have no fairness
and their properties are safety.

**Each property has a mutant** in the module it is about: a variant of one definition that a
plausible bug would produce (a dropped fence, lease columns that survive, a retry that keeps the
result, an authorization not bound to its halt, messages locked in document order, a validation that
replays reports as they were queued). TLC finds the property violated with it.

## Proofs

Every theorem holds for all values of the constants that satisfy the assumption of its module; no
symmetry, bound or small set of a run enters a proof. All of them have the same outline: an
inductive invariant is true initially, one lemma per action shows that the action keeps it, and the
stated property follows from it.

| assumption | what it says | why the code justifies it |
|---|---|---|
| `JobPlaneAssumption` | positive attempt budget and lease, natural numbers elsewhere, disjoint key namespaces, a worker is not NULL | checks and defaults of `0004`–`0006` |
| `WorkerAssumption` | the reasons of a worker are reasons that finalize accepts | constants of `worker.py` |
| `SchedulerAssumption` | positive slot length, the name for "no actor" is not an actor | `NOT NULL` columns |
| `AuthorityAssumption` | natural numbers, `None` is neither a permit nor an event id | optional values of the code |
| `LedgerAssumption` | a batch is a non-empty sequence of distinct messages of one run, a completing batch starts the run, NULL is neither batch nor claim | `_validate_batch_envelopes` and the checks of `0010` |
| `OperatorAssumption` | known kinds of commands, positive evidence lifetime, an absent or torn record is no record | `Optional` results of the journal's readers |
| `SandboxAssumption` | a scenario is as its validators leave it: the reports of a command are of its order and of no other command, a duplicate has the event of its original, sequence numbers are natural and delivery times within `MaxTime` | validators of `execution_sandbox/models.py` and `OrderEvent` |

**Job plane** (`JobPlaneProofs`, `JobEventChainProofs`).

* `TypeCorrect`: `Spec => []TypeOK`.
* `Safety`: `Spec => []SafetyInv`, from which `Ownership`, `CleanRetry` and `CancelHonoured`
  follow. `OwnershipConsistent` alone is not inductive: whether finalize may requeue depends on
  what the row carries, and whether a cancelled job may be taken on its cancellation flag. The
  invariant therefore joins types, ownership and the soundness of each single row (`RowSound`).
  It needs **no** fact about candidates or about handles beyond "this attempt row exists": the
  fences under the row locks are enough, however old the information of the caller is. This is
  the point of the theorem. `OwnedStep` reduces a step on an owned job to the job's row and the
  row of its latest attempt; `SafeClose` is shared by finalize and recovery.
* `Frozen`: `Spec => EndedAttemptsFrozen`. Each fence implies that the attempt it changes is open.
* `Refinement`: `Spec => ImplementsLifecycle`, with the projection of `jobs` to state and attempt
  count as the mapping. A retry closes and requeues in one step, which the lifecycle has as one
  step too.
* `ChainClean`: `Spec => []EventChainClean`. Appending one ordinary edge, or a closing edge
  followed by a retry, to a history that ends in the job's state keeps every clause of the audit
  (`ChainOrdinary`, `ChainRetry`). The two clauses that relate distant events (one terminal per
  epoch, attempts that exist) need that the history ends where the row says and that attempt rows
  never disappear.
* `UniqueKeysHold`: `Spec => []UniqueKeys`. No function changes the key of a row, an insertion is
  fenced by `KeyFree`, and a job that ended keeps its key. One job is too few to see it in
  a run, so it is proved and not run.

**Worker and ingestion** (`JobWorkerProofs`).

* `WorkerSafety`: `WorkerSpec => []ServicesInv`, where `ServicesInv` is `SafetyInv` of the plane,
  the types and `WorkerInv`. From it `WorkerTypeCorrect`, `WorkerInvariant` and
  `LiveChildrenAccountedFor`. The last one alone says nothing about a service between `Popen` and
  `start_attempt`, or one whose job another service is about to recover; `WorkerInv` adds what a
  service remembers of its claim (`HeldSound`), of a child it may have (`SpawnSound`,
  `RunnerSound`) and of a candidate it inspected (`RecoverySound`). A database call is described by
  what it does to one job (`Effects`), a service step by the row and the children it leaves alone
  (`Frame`, `Moves`), and each family of actions is one lemma over these.
* `WorkerImplementsPlane`: `WorkerSpec => Spec`. The composition adds processes and no write to the
  tables, so every theorem about the plane is one about the services.
* `IngestionRefinesWorker`: `IngestionSpec => ImplementsWorker`. Storing a result is a stutter of
  the worker, finalizing afterwards one of the outcomes that its validator allows.
* `ServicesKeepThePlane`: by the last two, `IngestionSpec` has the plane's invariants, its action
  property and its refinement of the lifecycle.
* `IngestionSafety`: `IngestionSpec => []IngestionInv`, and with it `ResultNeverRerun`,
  `SuccessIsDurable`, `FailureIsNotDurable` and `IngestionTypeCorrect`. The three properties are
  about the tables; what keeps them is what a worker between storing and finalizing knows
  (`StageSound`) and which outcome it has decided on (`PlanSound`), together with `BoundSound`: a
  stored result belongs to an attempt of its own job that exists.

**Scheduler** (`JobSchedulerProofs`). `SchedulerSafety` with `SchedulerTypeCorrect` and
`HeartbeatsExplain`. The invariant adds that a heartbeat of a committed call is from a process that is
past its call, and so is the process that created the job of a slot; a process before its call can
therefore not be told about itself.

**Submit authority** (`SubmitAuthorityProofs`). `AuthoritySafety`: `AuthoritySpec => []AuthorityInv`,
and with it `AuthorityTypeCorrect`, `StreamAlwaysReplays`, `ReturnedOnce` and `AuthorizedRecoveries`.
The invariant says what a caller that has loaded the stream knows (`CallSound`): its event is
admissible after the prefix it loaded. Compare-and-append makes that enough: if the sequence is
still free, the prefix is the stream. `ReadersSound` says that at most one caller is on its way to
hand out a consumption. `JustifiedConsumptions` is a consequence of a stream that replays.
`PermitsRefinement`: `AuthoritySpec => PermitsPromise`; an append is the step of the abstract
specification that its event names, a returned authority a `HandOut`, everything else a stutter.

**Engine event ledger** (`EngineEventLedgerProofs`). `LedgerSafety`: `LedgerSpec => []LedgerInv`, and
with it `LedgerTypeCorrect`, `ExactProjections`, `LedgerCanReplay`, `UniqueKeysNeverHit` and
`TruthfulAnswers`. Neither `ProjectionsExact` nor `LedgerReplays` is inductive: an ingestion decides
on what it read some statements ago. The invariant adds for each session that what it has
established still holds while it has its locks (`SessionSound`), and that locks exclude
(`LocksExclusive`, `TableExclusive`). `RunsStayCompleted` is the action property, from the same
invariant. `NobodyWaitsInACircle` assumes a finite set of sessions, as any database has: a
session takes its batch lock, its run lock and its message locks by id in this order, so of finitely
many that wait one has come furthest and waits for none of the others; one that waits for the table,
or for a recovery that has it, holds up nobody who waits in turn.

**Operator control** (`OperatorControlProofs`). `OperatorSafety`: `OperatorSpec => []OperatorInv`, and
with it `OperatorTypeCorrect`, `JournalAlwaysLoads`, `TruthfulKillReceipts`; `AppliedStaysFinal` and
`UnseenActivationsRestored` are action properties from the same invariant. It says for each key how
far its records may be, given the point that its execution has reached, and that an applied clear
has the bytes of its intent in its tombstone (`KeyInv`); that bytes of a command are found in the
kill-switch file or a tombstone only after that command wrote them (`BytesWritten`), without which a
recovered receipt would not show that *this* command acted; and that an execution, and nothing else,
has a key (`RunKeyed`). A tombstone with other bytes therefore belongs to a command without an
applied record, whose execution, if it still runs, is about to take them back.

**Execution sandbox** (`ExecutionSandboxProofs`). `SandboxSafety`: `SandboxSpec => []SandboxInv`, and
with it `QueueAlwaysLeadsToVenue`, `ReconciliationAlwaysTruthful` and `RestoreAlwaysExact`, for
scenarios of any number of orders, commands and reports. What is delivered, queued and replayed are
sequences in three different orders: the venue applies reports as commands produce them, the
observer as they fall due, reconciliation by sequence number.

* `SandboxInv` joins five parts. `ReportsKept`: a retained report is of a command that was
  executed and of an order that exists, the queue has retained reports only, and what was delivered is
  in the ledger. A command that is executed now has therefore new reports. `ObservedIsDelivered`: an
  observed order is the reduction of exactly the events delivered of it. `VenueReached`: observing the queue in
  delivery order ends at the venue's order (`QueueLeadsToVenue` itself). `CheckpointIsPast`: the checkpoint has
  delivered a part of what is delivered, its observed orders are reductions of that part, and an
  order that the venue had ended by then has not moved. `SandboxTypes` is the rest.
* None of the three properties is inductive. A drain takes a part of the queue out of the middle; that
  the rest still leads to the venue needs `DueBeforeSplit` (what is due now, then what is due later, is
  the whole delivery order). Reconciliation compares with a replay in another order; that
  the two agree needs `Sound`: an order state is the reduction of the events it has applied, which are in
  increasing order and so known by their set. The reducer refuses a new event of lower number and
  skips one it has applied, so two sequences of the same events that both reduce end in the same
  state (`ArrivalOrderIrrelevant`).
* Induction over sequences is not taken from the library, whose theorems have an operator
  parameter. `AllNumbers` states it for a *set* of numbers (one that has 0 and with `n` also `n + 1`
  is `Nat`), `AllSequences` for a set of sequences; each fact is then a set comprehension. The
  recursive functions (`ReduceAll`, `Keep`, `DueBefore`, `ApplyVenueReports`) have one lemma each with
  their equations, and nothing else expands them.
* `InventoryValid`, the validation of a whole scenario, is only an additional guard: no proof uses it.
  What makes the effect safe is `PlanValid`, the check of the delivery order of the queue and the
  reports of the command at hand.

**Only model-checked.**

* Liveness under fairness (`ClaimEnds`, `IntentsConclude`), and that a deadlock-free run stays one:
  facts about fairness and ENABLED are beyond the proof system.
* `CrashLeftoversRecovered` and `AmbiguousOutcomeBlocks` do not hold (next section).

## Where code and documents disagree

Two are runs that TLC refutes.

1. `job_worker_leftovers`: recovery runs once, before the loop (`services/job_worker/main.py:432`). A
   service restarted before its own lease has expired (5 s against 600 s) never looks at the job it
   left.
2. `ingestion_blocks`: recovery closes a job whose attempts are used up as FAILED without looking for
   its durable engine result (`0006:868`); the P1 plan has an ambiguous outcome block.

Neither breaks a safety property above: the job stays owned, or is closed once and not run again.

Other disagreements met while modelling, each visible in a module and without a run of its own:

* A cancellation accepted between the last control call and finalization makes finalization fail
  (`services/job_worker/worker.py:226`), and the job stays in CANCEL_REQUESTED until a restart
  recovers it; `docs/adr/ADR-phase-4-job-state-machine.md:13` has it go to CANCELLED or BLOCKED.
* An invalid result is retried (`worker.py:744`); the same ADR, line 42: "Retry never applies to
  safety blocks, invalid payload/result".
* A child whose identity does not match is blocked (`0006:855`);
  `docs/adr/ADR-phase-4-lease-and-recovery.md:46` has it interrupted.
* A tick whose commit succeeded and whose answer was lost records two outcomes
  (`services/job_scheduler/scheduler.py:92`); its docstring, line 61: "Persist exactly one outcome".
* An operator command interrupted before its applied record is applied a second time when another
  command has put the prior state back (`services/operator_control/service.py:121`);
  `docs/adr/ADR-HWC-HEADLESS-OPERATOR-BOUNDARIES.md:34` calls commands idempotent.
* Activating a kill switch that is active is planned as no change (`packages/operator_control/policy.py:147`,
  expected by `tests/hwc/test_operator_policy.py:197`) and then refused by the journal's own
  validation (`services/operator_control/journal.py:275`).
* A clear interrupted before its mutation never concludes once the exporter has published again: the
  evidence digest differs (`service.py:143`); `tests/hwc/test_operator_recovery_subprocess.py:109` is
  "every command recovers deterministically at every failpoint".
* The bytes of the kill switch are compared before and after the rename of a clear
  (`services/operator_control/protected_fs.py:375`, `417`), which takes whatever is there (`390`). An
  activation between the comparison and the rename is taken back (`434`); if the process dies first,
  or the rename back fails (`452`), the switch stays off, the bytes are in the tombstone and the outcome
  is declared unknown. `docs/implementation/hwc/hwc-implementation-decisions-v1.md:14` has the
  prior kill-switch bytes become the tombstone, `docs/operations/hwc-process-topology.md:32`: "Clear requires
  fresh canonical safety-exporter evidence and an exact expected state digest".
  `UnseenActivationRestored` says what is left: never recorded as cleared, never lost, back unless
  the execution was interrupted.
* The retried consumption of a permit uses the safety reading of before the conflict
  (`packages/runtime_risk/submit_authority.py:1018`);
  `docs/superpowers/specs/2026-08-10-phase5-05d-global-halt-submit-authority-design.md:336` retries only
  while safety remains exact. No property speaks of the safety reading; what the retry does to the
  stream and to the permit is checked by `PermitsPromise` and `StreamReplays`.
* The classification of a checkpoint looks at the permits of the checkpoint only
  (`packages/execution_sandbox/recovery.py:716`), so a submit after it, with its permit consumed and
  nothing delivered, leaves the checkpoint restorable;
  `docs/superpowers/specs/2026-08-11-phase6-06c-recovery-authority-map.md:342`: "consumed permit +
  unknown economic outcome = reconciliation required". `RestoreIsExact` therefore speaks of the orders
  in the checkpoint, and of the venue only for settled ones.
* The sandbox's validation (`packages/execution_sandbox/client.py:418`) does not check that the
  ledger's stream positions arrive contiguously (`packages/event_ledger/repository.py:42`): such a
  scenario is accepted, its permit consumed and its drain refused for ever, while
  `docs/superpowers/specs/2026-08-10-phase6-06a-deterministic-execution-sandbox-design.md:150` has
  malformed scenario material raise before a new effect.

## Not modelled

* Input syntax checks and role grants of the database functions: they reject calls.
* `worker_heartbeats` rows, artifact storage, log capture: written, not read by any decision.
* P3 sessions and fixtures, alpha campaigns and their one-use holdout: other bodies of the claim.
* The order risk evaluator and the portfolio reducers: decimal arithmetic over single inputs, with
  no state beyond the fold.
* Durable approvals and the PostgreSQL repository of the event ledger beyond append and load; the
  inbox and outbox, which no modelled operation reads.
* The paper runtime, which composes the sandbox, risk and ledger packages in one process: its
  parts are modelled, its evidence files are not.
* Socket provider of the safety state, HTTP and CLI layers: they map requests to calls.
* Contents of payloads, results and hashes; numerical research and validation code; the dashboard; release tooling; the legacy backend; the native custodian.
* The release of a lock by a connection that dies in the middle of a transaction: PostgreSQL
  rolls back, so it is a call that was not made.

Most of the repository by lines is of these kinds: build and inventory scripts, evidence formats,
numerical research and the legacy backend. The modules cover the parts in which processes,
transactions or failures meet.

## Plan

1. *(done)* JobPolicy, JobLifecycle, JobPlane; safety, refinement, audit and key proofs.
2. *(done)* JobWorker: child accounting, progress. JobScheduler.
3. *(done)* OperatorControl with the exporter; SubmitAuthority implementing SubmitPermits;
   JobIngestion composed with the worker; EngineEventLedger; OrderStates and ExecutionSandbox.
4. *(done)* Proofs of every safety invariant, action property and refinement that a passing run
   checks.
5. The one-use holdout of alpha campaigns.
