----------------------------- MODULE JobIngestion -----------------------------
(***************************************************************************)
(* The two profiles of run_once that store the result of a job outside the *)
(* job tables, composed with the worker and the job plane: engine          *)
(* back-tests, whose event batch is ingested and bound to the job under    *)
(* the worker's lease (ingest_engine_job_result), and snapshots with       *)
(* market data, which are persisted by content without a lease.            *)
(*                                                                         *)
(* Storing and finalizing are separate transactions: crashes, lost         *)
(* answers, cancellations, recoveries and other workers fall between them. *)
(* The engine run of an attempt has an identity of its own, so a batch is  *)
(* named by its attempt, and a run consists of the one batch.              *)
(***************************************************************************)
EXTENDS JobWorker

VARIABLES
  profile,  \* what each job is: its type and payload
  bound,    \* engine_job_results: the attempt whose batch is the job's result
  snapshot, \* the jobs whose market data is persisted
  stage     \* how far run_once is with storing the result

ingestionVars == <<bound, snapshot, stage>>
systemVars == <<allVars, profile, ingestionVars>>

Profile == {"ENGINE", "MARKET"}

\* none: before the receipt check   clear: it passed   ready: the next call stores the result
\* lost: the call raised            stored: receipt or persistence outcome in hand
Stage == {"none", "clear", "ready", "lost", "stored"}

IngestionTypeOK ==
  /\ profile \in [Job -> Profile]
  /\ bound \in [Job -> Attempt \cup {NoAttempt}]
  /\ snapshot \subseteq Job
  /\ stage \in [Worker -> Stage]

IngestionInit ==
  /\ WorkerInit
  /\ profile \in [Job -> Profile]
  /\ bound = [j \in Job |-> NoAttempt]
  /\ snapshot = {}
  /\ stage = [w \in Worker |-> "none"]

JobOf(w) == Holds(w)[1]
AtStage(w, s) == service[w].pc = "validating" /\ stage[w] = s
Advance(w, s) == stage' = [stage EXCEPT ![w] = s]

\* The local variables of run_once live as long as its claim is worked on.
Carried(w) ==
  IF service'[w].pc \in {"prepared"} \cup InRunner \cup AfterRunner
  THEN stage[w] ELSE "none"
Keep(w) == Advance(w, Carried(w)) /\ UNCHANGED <<profile, bound, snapshot>>

-----------------------------------------------------------------------------
(* Before the child: load_job_receipt.                                      *)

NoPriorReceipt(w) ==
  /\ service[w].pc = "prepared" /\ stage[w] = "none"
  /\ profile[JobOf(w)] = "ENGINE" => bound[JobOf(w)] = NoAttempt
  /\ Advance(w, "clear")
  /\ UNCHANGED <<allVars, profile, bound, snapshot>>

\* ENGINE_EVENT_RECONCILIATION_REQUIRED
PriorReceipt(w) ==
  /\ service[w].pc = "prepared" /\ stage[w] = "none"
  /\ profile[JobOf(w)] = "ENGINE" /\ bound[JobOf(w)] # NoAttempt
  /\ Decide(w, BlockedPlan)
  /\ UNCHANGED <<vars, child>>
  /\ Keep(w)

SpawnClear(w) == stage[w] = "clear" /\ Spawn(w) /\ Keep(w)

-----------------------------------------------------------------------------
(* After the validator.                                                     *)

\* The validator ends and the progress call after it passes, then the result is stored; the
\* progress calls after that end the validation.
IngestionProgress(w) ==
  /\ stage[w] \in {"clear", "stored"}
  /\ ValidationProgress(w)
  /\ service'[w].pc = "validated" => stage[w] = "stored"
  /\ \/ Keep(w)
     \/ /\ AtStage(w, "clear") /\ service'[w].pc = "validating"
        /\ Advance(w, "ready")
        /\ UNCHANGED <<profile, bound, snapshot>>

\* Mutant of IngestFence: the job runs, whoever has its lease.
IngestFenceAnyLease(a, ts) == jobs[a[1]].state = "RUNNING"

\* ingest_engine_job_result: the job runs under the caller's lease, the attempt too.
IngestFence(a, ts) ==
  /\ jobs[a[1]].state = "RUNNING"
  /\ attempts[a].outcome = "RUNNING"
  /\ attempts[a].leaseExpires > ts
  /\ HoldsLease(a, ts)

\* The job has no other result.
Ingestible(a, ts) == IngestFence(a, ts) /\ bound[a[1]] \in {NoAttempt, a}

\* Mutant of IngestEngine: the attempt number is stored for the attempt.
IngestEngineNumber(w) ==
  LET a == Holds(w) IN
  /\ AtStage(w, "ready") /\ profile[a[1]] = "ENGINE"
  /\ \E ts \in CallTimes(w) : Ingestible(a, ts)
  /\ bound' = [bound EXCEPT ![a[1]] = <<a[1], 0>>]
  /\ \E s \in {"stored", "lost"} : Advance(w, s)
  /\ UNCHANGED <<allVars, profile, snapshot>>

\* The batch, its receipt and the binding commit together; the answer may be lost.
IngestEngine(w) ==
  LET a == Holds(w) IN
  /\ AtStage(w, "ready") /\ profile[a[1]] = "ENGINE"
  /\ \E ts \in CallTimes(w) : Ingestible(a, ts)
  /\ bound' = [bound EXCEPT ![a[1]] = a]
  /\ \E s \in {"stored", "lost"} : Advance(w, s)
  /\ UNCHANGED <<allVars, profile, snapshot>>

\* The call raises before its commit, for a reason the worker does not know.
IngestFails(w) ==
  /\ AtStage(w, "ready") /\ profile[JobOf(w)] = "ENGINE"
  /\ Advance(w, "lost")
  /\ UNCHANGED <<allVars, profile, bound, snapshot>>

Reconciliation == RunningPlan("BLOCKED", FALSE, "RESULT_RECONCILIATION_REQUIRED")

\* Mutant of IngestRefused: the job fails at once.
IngestRefusedAsFailure(w) ==
  LET a == Holds(w) IN
  /\ AtStage(w, "ready") /\ profile[a[1]] = "ENGINE"
  /\ \E ts \in CallTimes(w) : ~ Ingestible(a, ts)
  /\ Decide(w, RunningPlan("FAILED", FALSE, "RESULT_VALIDATION_FAILED"))
  /\ UNCHANGED <<vars, child>>
  /\ Keep(w)

\* EngineEventConflictError: the lease is lost, or the job has another result.
IngestRefused(w) ==
  LET a == Holds(w) IN
  /\ AtStage(w, "ready") /\ profile[a[1]] = "ENGINE"
  /\ \E ts \in CallTimes(w) : ~ Ingestible(a, ts)
  /\ Decide(w, Reconciliation)
  /\ UNCHANGED <<vars, child>>
  /\ Keep(w)

\* Mutant of ReceiptFound: the absence of a receipt is not an error.
ReceiptAssumed(w) ==
  /\ AtStage(w, "lost")
  /\ Advance(w, "stored")
  /\ UNCHANGED <<allVars, profile, bound, snapshot>>

\* The receipt of the job is loaded and compared with the batch.
ReceiptFound(w) ==
  /\ AtStage(w, "lost") /\ bound[JobOf(w)] = Holds(w)
  /\ Advance(w, "stored")
  /\ UNCHANGED <<allVars, profile, bound, snapshot>>

\* Mutant of NoReceipt: an ingestion that raised is a failed validation.
NoReceiptAsFailure(w) ==
  /\ AtStage(w, "lost")
  /\ ValidationFailed(w)
  /\ Keep(w)

\* There is none, or it cannot be loaded.
NoReceipt(w) ==
  /\ AtStage(w, "lost")
  /\ Decide(w, Reconciliation)
  /\ UNCHANGED <<vars, child>>
  /\ Keep(w)

\* save_market_snapshot inserts the content or finds it there.
PersistSnapshot(w) ==
  /\ AtStage(w, "ready") /\ profile[JobOf(w)] = "MARKET"
  /\ snapshot' = snapshot \cup {JobOf(w)}
  /\ Advance(w, "stored")
  /\ UNCHANGED <<allVars, profile, bound>>

\* Any exception is a failed validation, one after the commit too.
PersistFails(w) ==
  /\ AtStage(w, "ready") /\ profile[JobOf(w)] = "MARKET"
  /\ snapshot' \in {snapshot, snapshot \cup {JobOf(w)}}
  /\ ValidationFailed(w)
  /\ Advance(w, Carried(w))
  /\ UNCHANGED <<profile, bound>>

\* A validator that rejects the output; safety drift, or a parity that does not hold.
ValidatorRejects(w) == stage[w] = "clear" /\ ValidationFailed(w) /\ Keep(w)
StoredOrNotBlocked(w) == stage[w] \in {"clear", "stored"} /\ ValidationBlocked(w) /\ Keep(w)

-----------------------------------------------------------------------------
\* The steps of run_once and serve that are the same for every profile.
Unchanged(w) ==
  /\ \/ StartService(w) \/ Inspect(w) \/ Recover(w) \/ EnterLoop(w)
     \/ Claim(w) \/ PollEmpty(w) \/ BlockClaimed(w) \/ PreSpawnControl(w)
     \/ HeartbeatDrift(w) \/ HeartbeatStart(w) \/ HeartbeatRefused(w) \/ HeartbeatControl(w)
     \/ Timeout(w) \/ KillChild(w) \/ Reap(w) \/ CleanupUnproven(w)
     \/ ValidationPassed(w) \/ Finalize(w) \/ Crash(w)
  /\ Keep(w)

Storing(w) ==
  \/ NoPriorReceipt(w) \/ PriorReceipt(w) \/ SpawnClear(w) \/ IngestionProgress(w)
  \/ IngestEngine(w) \/ IngestFails(w) \/ IngestRefused(w) \/ ReceiptFound(w) \/ NoReceipt(w)
  \/ PersistSnapshot(w) \/ PersistFails(w) \/ ValidatorRejects(w) \/ StoredOrNotBlocked(w)

IngestionNext ==
  \/ /\ \/ (Tick \/ Operator) /\ UNCHANGED workerVars
        \/ \E a \in Attempt : ChildExit(a)
     /\ UNCHANGED <<profile, ingestionVars>>
  \/ \E w \in Worker : Unchanged(w) \/ Storing(w)

IngestionSpec == IngestionInit /\ [][IngestionNext]_systemVars

-----------------------------------------------------------------------------
(* Properties.                                                              *)

\* Once the result of an attempt is durable no later attempt of the job executes the engine, not
\* even when the worker that stored it was paused past its lease or crashed before finalizing.
NoRerunAfterResult ==
  \A a \in Attempt :
    LET result == bound[a[1]] IN
    result # NoAttempt /\ a[2] > result[2] => child[a] = "none"

\* "Durability before success": a job that succeeded has its result stored, the engine's by the
\* very attempt that succeeded, whatever answers were lost on the way.
DurableBeforeSuccess ==
  \A j \in Job :
    jobs[j].state = "SUCCEEDED" =>
      IF profile[j] = "ENGINE" THEN bound[j] = <<j, jobs[j].attemptCount>> ELSE j \in snapshot

\* No worker closes its own attempt as failed once its engine result is durable: what it could
\* not confirm is blocked for reconciliation.
OwnFailureNeverDurable ==
  \A a \in Attempt : bound[a[1]] = a => attempts[a].outcome \notin {"FAILED", "TIMED_OUT"}

\* The worker with these profiles is still the worker of JobWorker, so what is shown there of
\* children, claims and the job tables holds here.
ImplementsWorker == WorkerSpec

\* "No uncertain retry: ambiguous engine/ledger/paper outcome blocks for reconciliation" (P1
\* plan, invariant 15): a job with a durable engine result is not closed as FAILED.
AmbiguousOutcomeBlocks ==
  \A j \in Job : bound[j] # NoAttempt => jobs[j].state # "FAILED"
=============================================================================
