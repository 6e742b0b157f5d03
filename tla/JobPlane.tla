------------------------------- MODULE JobPlane -------------------------------
(***************************************************************************)
(* The durable job plane: the tables jobs, job_attempts and job_events and *)
(* the SECURITY DEFINER functions through which the job API, the scheduler *)
(* and the workers change them (alembic/versions/0006, promoted unchanged  *)
(* to the paper job types by 0011).                                        *)
(*                                                                         *)
(* One function call is one transaction that locks the job row, then the   *)
(* attempt row, so it is one atomic step.  Its clock is                    *)
(* statement_timestamp(), read when the statement arrives: a call that     *)
(* waited for the row lock decides with a time up to MaxLockWait old.      *)
(*                                                                         *)
(* A worker's handle on a job is what worker_claim_snapshot returned to    *)
(* it.  The handle is never revoked, so any handle ever issued may be      *)
(* presented at any later time: a paused, partitioned or superseded worker *)
(* is a late call with an old handle.                                      *)
(***************************************************************************)
EXTENDS Integers, Sequences, JobPolicy

CONSTANTS
  Job,           \* job identities; a set of numbers, for ORDER BY job_id
  Worker,
  OperatorKey,   \* idempotency keys outside the ^schedule: namespace
  ScheduleKey,   \* idempotency keys schedule:snapshot:<slot>
  Actor,
  Priority,
  FinalReason,   \* the reason codes workers finalize with
  BusySets,      \* the sets of rows concurrent transactions may hold locked
  MaxAttempts,   \* jobs.max_attempts
  LeaseSeconds,
  RetryDelay,    \* interval '30 seconds'
  MaxLockWait,   \* statement_timeout bounds the wait for a row lock
  MaxTime        \* bound on the clock

NoWorker == "NO_WORKER"
NoKey == "NO_KEY"
NoActor == "NO_ACTOR"
NoOutcome == "NONE"

ASSUME JobPlaneAssumption ==
  /\ Job \subseteq Nat
  /\ Priority \subseteq Nat
  /\ 0 \in Priority
  /\ MaxAttempts \in Nat \ {0}
  /\ LeaseSeconds \in Nat \ {0}
  /\ RetryDelay \in Nat
  /\ MaxLockWait \in Nat
  /\ MaxTime \in Nat
  /\ BusySets \subseteq SUBSET Job
  /\ OperatorKey \cap ScheduleKey = {}
  /\ NoWorker \notin Worker

Attempt == Job \X (1 .. MaxAttempts)

VARIABLES
  now,         \* the database clock
  jobs,        \* the table jobs
  attempts,    \* the table job_attempts; <<j, n>> is attempt number n of job j
  events,      \* the table job_events, per job in sequence order
  candidates,  \* rows that some recovery has read and may still act on
  lastToken    \* lease tokens are random: modelled as never issued before

vars == <<now, jobs, attempts, events, candidates, lastToken>>

-----------------------------------------------------------------------------
(* Rows.  NULL is 0 for a time or a token, and the named value otherwise.   *)

JobRow ==
  [ state           : JobState \cup {Absent},
    key             : OperatorKey \cup ScheduleKey \cup {NoKey},
    actor           : Actor \cup {NoActor},
    priority        : Priority,
    requestedAt     : Nat,
    attemptCount    : 0 .. MaxAttempts,
    leaseOwner      : Worker \cup {NoWorker},
    leaseToken      : Nat,
    leaseExpires    : Nat,
    nextAttemptAt   : Nat,
    result          : BOOLEAN,    \* result_hash or result_metadata is set
    cancelRequested : BOOLEAN ]   \* cancel_requested_at is set

AttemptRow ==
  [ outcome      : AttemptOutcome \cup {NoOutcome},
    worker       : Worker \cup {NoWorker},
    token        : Nat,
    leaseExpires : Nat,
    heartbeatAt  : Nat,           \* last statement of the holder; claimed_at first
    child        : BOOLEAN ]      \* the process identity columns are set

Reason ==
  FinalReason \cup
  {"ENQUEUED", "CANCEL_REQUESTED", "CLAIMED", "STARTED", "PROCESS_RETRY_SCHEDULED",
   "RESULT_RECONCILIATION_REQUIRED", "LEASE_EXPIRED_CHILD_STILL_RUNNING",
   "LEASE_EXPIRED_CHILD_IDENTITY_MISMATCH",
   "LEASE_EXPIRED_CHILD_IDENTITY_UNVERIFIABLE",
   "LEASE_EXPIRED_BEFORE_RESULT_STATE_UNCERTAIN", "LEASE_EXPIRED_CHILD_ABSENT",
   "LEASE_EXPIRED_ATTEMPTS_EXHAUSTED", "LEASE_EXPIRED_RETRY_SCHEDULED"}

Event ==
  [ from    : JobState \cup {Absent},
    to      : JobState,
    attempt : 0 .. MaxAttempts,   \* 0: attempt_id is NULL
    actor   : {"OPERATOR", "SCHEDULER", "WORKER", "RECOVERY"},
    reason  : Reason ]

Candidate ==
  [ attempt : Attempt, state : ActiveStates, outcome : {"CLAIMED", "RUNNING"},
    owner : Worker \cup {NoWorker}, token : Nat, child : BOOLEAN ]

Observation == {"ABSENT", "STILL_RUNNING", "IDENTITY_MISMATCH", "UNVERIFIABLE"}

NoJobRow ==
  [ state |-> Absent, key |-> NoKey, actor |-> NoActor, priority |-> 0,
    requestedAt |-> 0, attemptCount |-> 0, leaseOwner |-> NoWorker,
    leaseToken |-> 0, leaseExpires |-> 0, nextAttemptAt |-> 0,
    result |-> FALSE, cancelRequested |-> FALSE ]

NoAttemptRow ==
  [ outcome |-> NoOutcome, worker |-> NoWorker, token |-> 0,
    leaseExpires |-> 0, heartbeatAt |-> 0, child |-> FALSE ]

Init ==
  /\ now = 0
  /\ jobs = [j \in Job |-> NoJobRow]
  /\ attempts = [a \in Attempt |-> NoAttemptRow]
  /\ events = [j \in Job |-> << >>]
  /\ candidates = {}
  /\ lastToken = 0

-----------------------------------------------------------------------------
(* Building blocks of the functions.                                        *)

\* statement_timestamp() of a call that starts at or after since and whose row
\* locks are granted now.
StatementTimes(since) == {t \in since .. now : now - t =< MaxLockWait}

\* The row a claim works on holds the handle's lease and it has not run out.
HoldsLease(a, ts) ==
  /\ jobs[a[1]].leaseOwner = attempts[a].worker
  /\ jobs[a[1]].leaseToken = attempts[a].token
  /\ jobs[a[1]].leaseExpires > ts
  /\ jobs[a[1]].attemptCount = a[2]

LogEntry(from, to, n, actor, reason) ==
  [from |-> from, to |-> to, attempt |-> n, actor |-> actor, reason |-> reason]

\* Mutant of Closed: the lease columns survive the end of the attempt.
ClosedKeepingLease(row, final, hasResult) ==
  [row EXCEPT !.state = final, !.result = hasResult]

\* The job leaves its worker: the lease columns become NULL.
Closed(row, final, hasResult) ==
  [row EXCEPT !.state = final, !.result = hasResult,
              !.leaseOwner = NoWorker, !.leaseToken = 0, !.leaseExpires = 0]

\* Mutant of Requeued: the back-off is subtracted.
RequeuedInThePast(row, ts) ==
  [row EXCEPT !.state = "QUEUED", !.nextAttemptAt = ts - RetryDelay - 1,
              !.result = FALSE, !.cancelRequested = FALSE]

\* Mutant of Requeued: the result of the ended attempt stays in the row.
RequeuedWithResult(row, ts) ==
  [row EXCEPT !.state = "QUEUED", !.nextAttemptAt = ts + RetryDelay,
              !.cancelRequested = FALSE]

\* The second UPDATE of a retry: everything the ended attempt left is cleared.
Requeued(row, ts) ==
  [row EXCEPT !.state = "QUEUED", !.nextAttemptAt = ts + RetryDelay,
              !.result = FALSE, !.cancelRequested = FALSE]

KeyFree(key) == \A k \in Job : jobs[k].state # Absent => jobs[k].key # key

-----------------------------------------------------------------------------
(* The capabilities of the job API and of the scheduler.                    *)

\* INSERT ... ON CONFLICT DO NOTHING and the bootstrap event.  A request whose
\* key exists changes nothing, whether it is deduplicated or rejected.
InsertJob(j, key, actor, priority, actorType) ==
  /\ jobs[j].state = Absent
  /\ KeyFree(key)
  /\ jobs' = [jobs EXCEPT ![j] =
                [NoJobRow EXCEPT !.state = "QUEUED", !.key = key, !.actor = actor,
                                 !.priority = priority, !.requestedAt = now]]
  /\ events' = [events EXCEPT ![j] =
                  Append(@, LogEntry(Absent, "QUEUED", 0, actorType, "ENQUEUED"))]
  /\ UNCHANGED <<now, attempts, candidates, lastToken>>

ApiEnqueue(j, key, actor, priority) ==
  /\ key \in OperatorKey
  /\ InsertJob(j, key, actor, priority, "OPERATOR")

ScheduleEnqueue(j, key, actor) ==
  /\ key \in ScheduleKey
  /\ InsertJob(j, key, actor, 0, "SCHEDULER")

\* The only state a cancellation request may move a job to.
CancelTarget(current) ==
  IF current = "QUEUED" THEN "CANCELLED" ELSE "CANCEL_REQUESTED"

\* A job that is absent, terminal or already being cancelled is left alone.
ApiCancel(j) ==
  /\ jobs[j].state \in {"QUEUED", "CLAIMED", "RUNNING"}
  /\ jobs' = [jobs EXCEPT ![j] =
                [@ EXCEPT !.state = CancelTarget(jobs[j].state), !.cancelRequested = TRUE]]
  /\ events' = [events EXCEPT ![j] =
                  Append(@, LogEntry(jobs[j].state, CancelTarget(jobs[j].state), 0,
                                     "OPERATOR", "CANCEL_REQUESTED"))]
  /\ UNCHANGED <<now, attempts, candidates, lastToken>>

-----------------------------------------------------------------------------
(* The capabilities of the workers.                                         *)

Claimable(j) ==
  /\ jobs[j].state = "QUEUED"
  /\ jobs[j].nextAttemptAt =< now
  /\ jobs[j].attemptCount < MaxAttempts

\* ORDER BY priority DESC, requested_at ASC, job_id ASC
Ahead(k, j) ==
  \/ jobs[k].priority > jobs[j].priority
  \/ /\ jobs[k].priority = jobs[j].priority
     /\ \/ jobs[k].requestedAt < jobs[j].requestedAt
        \/ jobs[k].requestedAt = jobs[j].requestedAt /\ k < j

\* FOR UPDATE SKIP LOCKED LIMIT 1: the first claimable row that no concurrent
\* transaction holds.
ClaimChoice(j, busy) ==
  /\ Claimable(j)
  /\ j \notin busy
  /\ \A k \in Job \ (busy \cup {j}) : Claimable(k) => ~ Ahead(k, j)

WorkerClaim(w, j, busy) ==
  LET n == jobs[j].attemptCount + 1
  IN  /\ ClaimChoice(j, busy)
      /\ lastToken' = lastToken + 1
      /\ jobs' = [jobs EXCEPT ![j] =
                    [@ EXCEPT !.state = "CLAIMED", !.attemptCount = n,
                              !.leaseOwner = w, !.leaseToken = lastToken',
                              !.leaseExpires = now + LeaseSeconds,
                              !.nextAttemptAt = 0]]
      /\ attempts' = [attempts EXCEPT ![<<j, n>>] =
                        [outcome |-> "CLAIMED", worker |-> w, token |-> lastToken',
                         leaseExpires |-> now + LeaseSeconds, heartbeatAt |-> now,
                         child |-> FALSE]]
      /\ events' = [events EXCEPT ![j] =
                      Append(@, LogEntry("QUEUED", "CLAIMED", n, "WORKER", "CLAIMED"))]
      /\ UNCHANGED <<now, candidates>>

\* Mutant of StartFence: the lease alone is enough, whatever became of the job.
StartFenceIgnoringState(a, ts) ==
  /\ attempts[a].outcome = "CLAIMED"
  /\ HoldsLease(a, ts)

\* worker_start records the identity of the spawned child.
StartFence(a, ts) ==
  /\ jobs[a[1]].state = "CLAIMED"
  /\ attempts[a].outcome = "CLAIMED"
  /\ HoldsLease(a, ts)

WorkerStart(a, ts) ==
  /\ StartFence(a, ts)
  /\ jobs' = [jobs EXCEPT ![a[1]] = [@ EXCEPT !.state = "RUNNING"]]
  /\ attempts' = [attempts EXCEPT ![a] =
                    [@ EXCEPT !.outcome = "RUNNING", !.heartbeatAt = ts,
                              !.child = TRUE]]
  /\ events' = [events EXCEPT ![a[1]] =
                  Append(@, LogEntry("CLAIMED", "RUNNING", a[2], "WORKER", "STARTED"))]
  /\ UNCHANGED <<now, candidates, lastToken>>

\* phase PRE_SPAWN renews a claimed attempt, phase RUNNING a running one; both
\* also renew when the job is being cancelled, which the reply reports.
ControlFence(a, phase, ts) ==
  /\ jobs[a[1]].state \in {phase, "CANCEL_REQUESTED"}
  /\ attempts[a].outcome = phase
  /\ HoldsLease(a, ts)

WorkerControl(a, phase, ts) ==
  /\ ControlFence(a, phase, ts)
  /\ jobs' = [jobs EXCEPT ![a[1]] = [@ EXCEPT !.leaseExpires = ts + LeaseSeconds]]
  /\ attempts' = [attempts EXCEPT ![a] =
                    [@ EXCEPT !.leaseExpires = ts + LeaseSeconds,
                              !.heartbeatAt = ts]]
  /\ UNCHANGED <<now, events, candidates, lastToken>>

\* Mutant of FinalizeInput: a claimed attempt may fail before it was started.
FinalizeInputBeforeStart ==
  { <<"CLAIMED", "CLAIMED", "BLOCKED">>, <<"CLAIMED", "CLAIMED", "FAILED">> }
  \cup ({"RUNNING"} \X {"RUNNING"} \X {"SUCCEEDED", "FAILED", "BLOCKED", "TIMED_OUT"})
  \cup ({"CANCEL_REQUESTED"} \X {"CLAIMED", "RUNNING"} \X {"CANCELLED", "BLOCKED"})

\* The input matrix of worker_finalize: expected state, expected attempt
\* outcome, final state.
FinalizeInput ==
  { <<"CLAIMED", "CLAIMED", "BLOCKED">> }
  \cup ({"RUNNING"} \X {"RUNNING"} \X {"SUCCEEDED", "FAILED", "BLOCKED", "TIMED_OUT"})
  \cup ({"CANCEL_REQUESTED"} \X {"CLAIMED", "RUNNING"} \X {"CANCELLED", "BLOCKED"})

\* Mutant of FinalizeFence: the job is checked, the attempt and its lease are not.
FinalizeFenceJobOnly(a, expected, was, ts) ==
  /\ jobs[a[1]].state = expected

FinalizeFence(a, expected, was, ts) ==
  /\ jobs[a[1]].state = expected
  /\ attempts[a].outcome = was
  /\ HoldsLease(a, ts)

\* The worker closes its attempt.  Its result metadata is never empty.  With
\* retry the job goes back to the queue in the same transaction.
WorkerFinalize(a, expected, was, final, retry, reason, ts) ==
  LET closing == LogEntry(expected, final, a[2], "WORKER", reason)
      retrying == LogEntry(final, "QUEUED", a[2], "WORKER", "PROCESS_RETRY_SCHEDULED")
  IN  /\ <<expected, was, final>> \in FinalizeInput
      /\ retry => final \in {"FAILED", "TIMED_OUT"}
      /\ FinalizeFence(a, expected, was, ts)
      /\ retry => jobs[a[1]].attemptCount < MaxAttempts
      /\ jobs' = [jobs EXCEPT ![a[1]] =
                    IF retry THEN Requeued(Closed(@, final, TRUE), ts)
                             ELSE Closed(@, final, TRUE)]
      /\ attempts' = [attempts EXCEPT ![a] = [@ EXCEPT !.outcome = final]]
      /\ events' = [events EXCEPT ![a[1]] =
                      IF retry THEN Append(Append(@, closing), retrying)
                               ELSE Append(@, closing)]
      /\ UNCHANGED <<now, candidates, lastToken>>

-----------------------------------------------------------------------------
(* Recovery of expired leases: recover_expired_leases reads the candidates  *)
(* in one query, looks for each child in /proc, and then calls              *)
(* worker_recover_expired, which checks everything again under the locks.   *)

CandidateOf(a) ==
  [ attempt |-> a, state |-> jobs[a[1]].state, outcome |-> attempts[a].outcome,
    owner |-> jobs[a[1]].leaseOwner, token |-> jobs[a[1]].leaseToken,
    child |-> attempts[a].child ]

ExpiredCandidates ==
  { CandidateOf(a) : a \in
      { b \in Attempt :
          /\ b[2] = jobs[b[1]].attemptCount
          /\ <<jobs[b[1]].state, attempts[b].outcome>> \in ActiveAttemptOutcomes
          /\ jobs[b[1]].leaseExpires =< now } }

RecoveryScan ==
  /\ candidates' = candidates \cup ExpiredCandidates
  /\ UNCHANGED <<now, jobs, attempts, events, lastToken>>

\* The locked re-check; a candidate that fails it is LEASE_RECOVERY_STALE.
RecoveryFence(c, ts) ==
  /\ jobs[c.attempt[1]].state = c.state
  /\ jobs[c.attempt[1]].leaseOwner = c.owner
  /\ jobs[c.attempt[1]].leaseToken = c.token
  /\ jobs[c.attempt[1]].leaseExpires =< ts
  /\ jobs[c.attempt[1]].attemptCount = c.attempt[2]
  /\ attempts[c.attempt].outcome = c.outcome
  /\ attempts[c.attempt].worker = c.owner
  /\ attempts[c.attempt].token = c.token

\* An identity that was never stored, or is not the one that was inspected,
\* proves nothing about the child.
EffectiveObservation(c, observation) ==
  IF attempts[c.attempt].child /\ c.child THEN observation ELSE "UNVERIFIABLE"

\* Mutant of ProvenInterrupted: a cancelled job may be requeued as interrupted.
ProvenInterruptedAnyState(c, observation) ==
  /\ ~ jobs[c.attempt[1]].result
  /\ EffectiveObservation(c, observation) = "ABSENT"

\* Only a running job whose child is proven absent, and which has no result to
\* reconcile, may count as interrupted.
ProvenInterrupted(c, observation) ==
  /\ ~ jobs[c.attempt[1]].result
  /\ EffectiveObservation(c, observation) = "ABSENT"
  /\ jobs[c.attempt[1]].state = "RUNNING"

RecoveryReason(c, observation) ==
  CASE jobs[c.attempt[1]].result -> "RESULT_RECONCILIATION_REQUIRED"
    [] OTHER ->
         CASE EffectiveObservation(c, observation) = "STILL_RUNNING"
                -> "LEASE_EXPIRED_CHILD_STILL_RUNNING"
           [] EffectiveObservation(c, observation) = "IDENTITY_MISMATCH"
                -> "LEASE_EXPIRED_CHILD_IDENTITY_MISMATCH"
           [] EffectiveObservation(c, observation) = "UNVERIFIABLE"
                -> "LEASE_EXPIRED_CHILD_IDENTITY_UNVERIFIABLE"
           [] OTHER -> "LEASE_EXPIRED_BEFORE_RESULT_STATE_UNCERTAIN"

RecoverBlock(c, observation, ts) ==
  LET j == c.attempt[1]
  IN  /\ RecoveryFence(c, ts)
      /\ ~ ProvenInterrupted(c, observation)
      /\ jobs' = [jobs EXCEPT ![j] = Closed(@, "BLOCKED", @.result)]
      /\ attempts' = [attempts EXCEPT ![c.attempt] = [@ EXCEPT !.outcome = "BLOCKED"]]
      /\ events' = [events EXCEPT ![j] =
                      Append(@, LogEntry(c.state, "BLOCKED", c.attempt[2], "RECOVERY",
                                         RecoveryReason(c, observation)))]
      /\ UNCHANGED <<now, candidates, lastToken>>

RecoverInterrupted(c, observation, ts) ==
  LET j == c.attempt[1]
      retry == jobs[j].attemptCount < MaxAttempts
      closing == LogEntry(c.state, "FAILED", c.attempt[2], "RECOVERY",
                          IF retry THEN "LEASE_EXPIRED_CHILD_ABSENT"
                                   ELSE "LEASE_EXPIRED_ATTEMPTS_EXHAUSTED")
      retrying == LogEntry("FAILED", "QUEUED", c.attempt[2], "RECOVERY",
                           "LEASE_EXPIRED_RETRY_SCHEDULED")
  IN  /\ RecoveryFence(c, ts)
      /\ ProvenInterrupted(c, observation)
      /\ jobs' = [jobs EXCEPT ![j] =
                    IF retry THEN Requeued(Closed(@, "FAILED", @.result), ts)
                             ELSE Closed(@, "FAILED", @.result)]
      /\ attempts' = [attempts EXCEPT ![c.attempt] = [@ EXCEPT !.outcome = "INTERRUPTED"]]
      /\ events' = [events EXCEPT ![j] =
                      IF retry THEN Append(Append(@, closing), retrying)
                               ELSE Append(@, closing)]
      /\ UNCHANGED <<now, candidates, lastToken>>

-----------------------------------------------------------------------------
Tick ==
  /\ now < MaxTime
  /\ now' = now + 1
  /\ UNCHANGED <<jobs, attempts, events, candidates, lastToken>>

\* The handles that claims have returned.
Issued == {a \in Attempt : attempts[a].outcome # NoOutcome}

Next ==
  \/ Tick
  \/ \E j \in Job, actor \in Actor :
       \/ \E key \in OperatorKey, priority \in Priority : ApiEnqueue(j, key, actor, priority)
       \/ \E key \in ScheduleKey : ScheduleEnqueue(j, key, actor)
  \/ \E j \in Job : ApiCancel(j)
  \/ \E w \in Worker, j \in Job, busy \in BusySets : WorkerClaim(w, j, busy)
  \/ \E a \in Issued : \E ts \in StatementTimes(attempts[a].heartbeatAt) :
       \/ WorkerStart(a, ts)
       \/ \E phase \in {"CLAIMED", "RUNNING"} : WorkerControl(a, phase, ts)
       \/ \E f \in FinalizeInput, retry \in BOOLEAN, reason \in FinalReason :
            WorkerFinalize(a, f[1], f[2], f[3], retry, reason, ts)
  \/ RecoveryScan
  \/ \E c \in candidates, observation \in Observation, ts \in StatementTimes(0) :
       \/ RecoverBlock(c, observation, ts)
       \/ RecoverInterrupted(c, observation, ts)

Spec == Init /\ [][Next]_vars
-----------------------------------------------------------------------------
(* The audit of job_events that migration 0007 freezes: for one job,        *)
(* EVENT_CHAIN_VIOLATIONS_SQL returns no row.  log is the job's history and *)
(* known the numbers of its attempt rows.  A sequence number is an index    *)
(* here, because every function appends under the lock of the job row, so   *)
(* the three SEQUENCE codes have nothing to report.                         *)

IsRetry(e) == <<e.from, e.to>> \in RetryTransitions

RetryAuthority == { <<"PROCESS_RETRY_SCHEDULED", "WORKER">>,
                    <<"LEASE_EXPIRED_RETRY_SCHEDULED", "RECOVERY">> }

\* attempt_is_forged: the event names an attempt the job does not have
ForgedAttempt(e, known) == e.attempt # 0 /\ e.attempt \notin known

IsValidRetry(log, i, known) ==
  /\ i > 1
  /\ IsRetry(log[i])
  /\ <<log[i].reason, log[i].actor>> \in RetryAuthority
  /\ log[i].from = log[i - 1].to
  /\ log[i].attempt # 0
  /\ log[i].attempt = log[i - 1].attempt
  /\ ~ ForgedAttempt(log[i], known)
  /\ log[i].attempt < MaxAttempts

\* BOOTSTRAP_EDGE, BOOTSTRAP_ATTEMPT
BootstrapSound(e) == e.from = Absent /\ e.to = "QUEUED" /\ e.attempt = 0

\* LATER_NULL_FROM_STATE, DISCONNECTED_FROM_STATE, UNAPPROVED_EDGE, the RETRY
\* codes and EVENT_AFTER_TERMINAL: what an event may be, given the one before it
LinkSound(log, i, known) ==
  /\ log[i].from = log[i - 1].to
  /\ ValidTransition(log[i].from, log[i].to, TRUE)
  /\ IsRetry(log[i]) => IsValidRetry(log, i, known)
  /\ log[i - 1].to \in TerminalStates => IsValidRetry(log, i, known)

\* DUPLICATE_TERMINAL_IN_EPOCH: a valid retry separates two terminal events
EpochsSound(log, known) ==
  \A i, k \in 1 .. Len(log) :
    /\ i < k
    /\ log[i].to \in TerminalStates
    /\ log[k].to \in TerminalStates
    => \E m \in (i + 1) .. k : IsValidRetry(log, m, known)

\* NO_HISTORY, FINAL_STATE_MISMATCH, CROSS_JOB_ATTEMPT and the codes above
ChainSound(log, known, state) ==
  /\ log # << >>
  /\ BootstrapSound(log[1])
  /\ \A i \in 2 .. Len(log) : LinkSound(log, i, known)
  /\ EpochsSound(log, known)
  /\ \A i \in 1 .. Len(log) : ~ ForgedAttempt(log[i], known)
  /\ log[Len(log)].to = state

Known(j) == {n \in 1 .. MaxAttempts : attempts[<<j, n>>].outcome # NoOutcome}

-----------------------------------------------------------------------------
(* Properties.                                                              *)

\* Every column of the three tables has its type.
TypeOK ==
  /\ now \in 0 .. MaxTime
  /\ jobs \in [Job -> JobRow]
  /\ attempts \in [Attempt -> AttemptRow]
  /\ events \in [Job -> Seq(Event)]
  /\ candidates \in SUBSET Candidate
  /\ lastToken \in Nat

\* Whatever order API, workers and recoveries call in, the history that the
\* functions of 0006 write is one that the audit of 0007 accepts: it explains
\* the job's state, edge by edge, with every retry authorised and in budget.
EventChainClean ==
  \A j \in Job :
    /\ jobs[j].state # Absent => ChainSound(events[j], Known(j), jobs[j].state)
    /\ jobs[j].state = Absent => events[j] = << >>

\* What the row of a job says about the row of its attempt number n.
Owned(row, attempt, n) ==
  LET live == row.state \in ActiveStates /\ n = row.attemptCount
  IN  /\ live => /\ <<row.state, attempt.outcome>> \in ActiveAttemptOutcomes
                 /\ attempt.worker = row.leaseOwner
                 /\ attempt.token = row.leaseToken
                 /\ attempt.leaseExpires = row.leaseExpires
                 /\ attempt.child <=> attempt.outcome = "RUNNING"
      /\ ~ live => attempt.outcome \notin {"CLAIMED", "RUNNING"}
      /\ attempt.outcome # NoOutcome <=> n =< row.attemptCount
      /\ row.state \in ActiveStates => row.attemptCount > 0
      /\ row.state = Absent => row.attemptCount = 0
      /\ row.leaseToken # 0 <=> row.state \in ActiveStates
      /\ row.leaseOwner # NoWorker <=> row.state \in ActiveStates

\* jobs and job_attempts agree on who owns what: a job has a lease exactly
\* while it is active, that lease is the one of its latest attempt, every other
\* attempt of the job has ended, and attempt_count counts the attempt rows.
OwnershipConsistent ==
  \A a \in Attempt : Owned(jobs[a[1]], attempts[a], a[2])

\* A queued job is always claimable again once its delay is over: a retry never
\* leaves a job in the queue without an attempt to spend, and nothing of the
\* ended attempt survives in the row.  In particular no owned job carries a
\* result, so recovery never finds one to reconcile.
NothingCarriedOver ==
  \A j \in Job :
    /\ jobs[j].state = "QUEUED" => jobs[j].attemptCount < MaxAttempts
    /\ jobs[j].state \in ActiveStates \cup {"QUEUED"} => ~ jobs[j].result

\* A cancellation that was accepted is never undone: the job ends cancelled, or
\* blocked when its child cannot be accounted for, and it is never run again.
AcceptedCancelHonoured ==
  \A j \in Job :
    jobs[j].cancelRequested => jobs[j].state \in {"CANCEL_REQUESTED", "CANCELLED", "BLOCKED"}

\* An idempotency key names one job for ever: whatever has become of the job,
\* a repeated request creates no second one.
UniqueKeys ==
  \A j, k \in Job :
    jobs[j].state # Absent /\ jobs[k].state # Absent /\ jobs[j].key = jobs[k].key => j = k

EndedAttemptsKept ==
  \A a \in Attempt :
    attempts[a].outcome \notin {NoOutcome, "CLAIMED", "RUNNING"} => attempts'[a] = attempts[a]

\* An attempt that has ended is history: no late call of the worker that held
\* it, and no second recovery, touches its row again.
EndedAttemptsFrozen == [][EndedAttemptsKept]_vars

\* The job plane implements the lifecycle that the transition policy promises.
Lifecycle == INSTANCE JobLifecycle
               WITH state <- [j \in Job |-> jobs[j].state],
                    attemptCount <- [j \in Job |-> jobs[j].attemptCount]

\* Every step of every function is a lifecycle step of one job, or leaves all
\* jobs where they are in the lifecycle.
ImplementsLifecycle == Lifecycle!LSpec
=============================================================================
