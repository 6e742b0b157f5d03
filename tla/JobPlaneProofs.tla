---------------------------- MODULE JobPlaneProofs ----------------------------
(***************************************************************************)
(* Proofs about the durable job plane, for every set of jobs and workers   *)
(* and every value of the bounds: types, ownership, keys, ended attempts,  *)
(* and that every step is a step of the abstract lifecycle.                *)
(***************************************************************************)
EXTENDS JobPlane, TLAPS

\* The empty rows are rows of the two tables.
LEMMA ConstantTypes ==
  /\ 0 \in 0 .. MaxAttempts
  /\ NoJobRow \in JobRow
  /\ NoAttemptRow \in AttemptRow
  BY JobPlaneAssumption DEF NoJobRow, JobRow, NoAttemptRow, AttemptRow, JobState

\* log_transition writes a well-formed row of job_events.
LEMMA EventType ==
  ASSUME NEW from \in JobState \cup {Absent}, NEW to \in JobState,
         NEW n \in 0 .. MaxAttempts,
         NEW actor \in {"OPERATOR", "SCHEDULER", "WORKER", "RECOVERY"},
         NEW reason \in Reason
  PROVE  LogEntry(from, to, n, actor, reason) \in Event
  BY DEF LogEntry, Event

\* statement_timestamp() is a time that is not after the clock.
LEMMA StatementTimeType ==
  ASSUME TypeOK, NEW since \in Nat, NEW ts \in StatementTimes(since)
  PROVE  ts \in Nat /\ ts =< now
  BY DEF StatementTimes, TypeOK

\* A row that finalize or recovery closes is a job row.
LEMMA ClosedType ==
  ASSUME NEW row \in JobRow, NEW final \in JobState, NEW r \in BOOLEAN
  PROVE  Closed(row, final, r) \in JobRow
  BY DEF Closed, JobRow

\* A row that finalize or recovery requeues is a job row: availability is moved
\* forward, never to a time that does not exist.
LEMMA RequeuedType ==
  ASSUME NEW row \in JobRow, NEW ts \in Nat
  PROVE  Requeued(row, ts) \in JobRow
  <1>1. ts + RetryDelay \in Nat
    BY JobPlaneAssumption
  <1>2. "QUEUED" \in JobState /\ FALSE \in BOOLEAN
    BY DEF JobState
  <1> QED
    BY <1>1, <1>2 DEF Requeued, JobRow


-----------------------------------------------------------------------------
(* Type correctness.                                                        *)

\* An attempt handle is a job and a number within the attempt budget.
LEMMA AttemptParts ==
  ASSUME NEW a \in Attempt
  PROVE  /\ a[1] \in Job
         /\ a[2] \in 1 .. MaxAttempts
         /\ a[2] \in Nat
         /\ a = <<a[1], a[2]>>
  BY JobPlaneAssumption DEF Attempt

\* The rows that a handle or a candidate points at are typed.
LEMMA RowTypes ==
  ASSUME TypeOK, NEW a \in Attempt
  PROVE  /\ jobs[a[1]] \in JobRow
         /\ attempts[a] \in AttemptRow
         /\ events[a[1]] \in Seq(Event)
  BY AttemptParts DEF TypeOK

\* The enqueue functions keep every column typed.
LEMMA TypeInsert ==
  ASSUME TypeOK, NEW j \in Job, NEW key \in OperatorKey \cup ScheduleKey,
         NEW actor \in Actor, NEW priority \in Priority,
         NEW actorType \in {"OPERATOR", "SCHEDULER"},
         InsertJob(j, key, actor, priority, actorType)
  PROVE  TypeOK'
  <1> DEFINE row == [NoJobRow EXCEPT !.state = "QUEUED", !.key = key, !.actor = actor,
                                     !.priority = priority, !.requestedAt = now]
             e == LogEntry(Absent, "QUEUED", 0, actorType, "ENQUEUED")
  <1>1. now \in Nat
    BY JobPlaneAssumption DEF TypeOK
  <1>2. row \in JobRow
    BY <1>1, ConstantTypes DEF JobRow, JobState
  <1>3. e \in Event
    BY EventType, ConstantTypes DEF JobState, Reason
  <1>4. jobs' \in [Job -> JobRow]
    BY <1>2 DEF InsertJob, TypeOK
  <1>5. events' \in [Job -> Seq(Event)]
    BY <1>3 DEF InsertJob, TypeOK
  <1> QED
    BY <1>4, <1>5 DEF InsertJob, TypeOK

\* api_cancel keeps every column typed.
LEMMA TypeCancel ==
  ASSUME TypeOK, NEW j \in Job, ApiCancel(j)
  PROVE  TypeOK'
  <1> DEFINE row == [jobs[j] EXCEPT !.state = CancelTarget(jobs[j].state), !.cancelRequested = TRUE]
             e == LogEntry(jobs[j].state, CancelTarget(jobs[j].state), 0,
                           "OPERATOR", "CANCEL_REQUESTED")
  <1>1. jobs[j] \in JobRow
    BY DEF TypeOK
  <1>2. CancelTarget(jobs[j].state) \in JobState /\ TRUE \in BOOLEAN
    BY DEF CancelTarget, JobState
  <1>3. row \in JobRow
    BY <1>1, <1>2 DEF JobRow
  <1>4. jobs[j].state \in JobState
    BY DEF ApiCancel, JobState
  <1>5. e \in Event
    BY <1>2, <1>4, EventType, ConstantTypes DEF Reason
  <1>6. jobs' \in [Job -> JobRow]
    BY <1>3 DEF ApiCancel, TypeOK
  <1>7. events' \in [Job -> Seq(Event)]
    BY <1>5 DEF ApiCancel, TypeOK
  <1> QED
    BY <1>6, <1>7 DEF ApiCancel, TypeOK

\* worker_claim keeps every column typed: the attempt count stays in the budget.
LEMMA TypeClaim ==
  ASSUME TypeOK, NEW w \in Worker, NEW j \in Job, NEW busy \in BusySets,
         WorkerClaim(w, j, busy)
  PROVE  TypeOK'
  <1> DEFINE n == jobs[j].attemptCount + 1
  <1>1. jobs[j] \in JobRow
    BY DEF TypeOK
  <1>2. n \in 1 .. MaxAttempts /\ n \in 0 .. MaxAttempts
    <2>1. jobs[j].attemptCount < MaxAttempts
      BY DEF WorkerClaim, ClaimChoice, Claimable
    <2>2. jobs[j].attemptCount \in 0 .. MaxAttempts
      BY <1>1 DEF JobRow
    <2> QED
      BY <2>1, <2>2, JobPlaneAssumption
  <1>3. <<j, n>> \in Attempt
    BY <1>2 DEF Attempt
  <1>4. /\ now + LeaseSeconds \in Nat
        /\ now \in Nat
        /\ lastToken' \in Nat
    BY JobPlaneAssumption DEF WorkerClaim, TypeOK
  <1>5. jobs' \in [Job -> JobRow]
    <2> DEFINE row == [jobs[j] EXCEPT !.state = "CLAIMED", !.attemptCount = n,
                                      !.leaseOwner = w, !.leaseToken = lastToken',
                                      !.leaseExpires = now + LeaseSeconds,
                                      !.nextAttemptAt = 0]
    <2>1. row \in JobRow
      BY <1>1, <1>2, <1>4 DEF JobRow, JobState
    <2> QED
      BY <2>1 DEF WorkerClaim, TypeOK
  <1>6. attempts' \in [Attempt -> AttemptRow]
    <2> DEFINE row == [outcome |-> "CLAIMED", worker |-> w, token |-> lastToken',
                       leaseExpires |-> now + LeaseSeconds, heartbeatAt |-> now,
                       child |-> FALSE]
    <2>1. row \in AttemptRow
      BY <1>4 DEF AttemptRow, AttemptOutcome
    <2> QED
      BY <1>3, <2>1 DEF WorkerClaim, TypeOK
  <1>7. events' \in [Job -> Seq(Event)]
    <2>1. LogEntry("QUEUED", "CLAIMED", n, "WORKER", "CLAIMED") \in Event
      BY <1>2, EventType DEF JobState, Reason
    <2> QED
      BY <2>1 DEF WorkerClaim, TypeOK
  <1> QED
    BY <1>4, <1>5, <1>6, <1>7 DEF WorkerClaim, TypeOK

\* worker_start keeps every column typed.
LEMMA TypeStart ==
  ASSUME TypeOK, NEW a \in Attempt, NEW ts \in Nat, WorkerStart(a, ts)
  PROVE  TypeOK'
  <1>1. jobs' \in [Job -> JobRow]
    <2>1. [jobs[a[1]] EXCEPT !.state = "RUNNING"] \in JobRow
      BY RowTypes DEF JobRow, JobState
    <2> QED
      BY <2>1, AttemptParts DEF WorkerStart, TypeOK
  <1>2. attempts' \in [Attempt -> AttemptRow]
    <2>1. [attempts[a] EXCEPT !.outcome = "RUNNING", !.heartbeatAt = ts, !.child = TRUE]
            \in AttemptRow
      BY RowTypes DEF AttemptRow, AttemptOutcome
    <2> QED
      BY <2>1 DEF WorkerStart, TypeOK
  <1>3. events' \in [Job -> Seq(Event)]
    <2>1. a[2] \in 0 .. MaxAttempts
      BY AttemptParts
    <2>2. LogEntry("CLAIMED", "RUNNING", a[2], "WORKER", "STARTED") \in Event
      BY <2>1, EventType DEF JobState, Reason
    <2> QED
      BY <2>2, AttemptParts DEF WorkerStart, TypeOK
  <1> QED
    BY <1>1, <1>2, <1>3 DEF WorkerStart, TypeOK

\* worker_control keeps every column typed.
LEMMA TypeControl ==
  ASSUME TypeOK, NEW a \in Attempt, NEW ts \in Nat, NEW phase,
         WorkerControl(a, phase, ts)
  PROVE  TypeOK'
  <1>1. ts + LeaseSeconds \in Nat
    BY JobPlaneAssumption
  <1>2. jobs' \in [Job -> JobRow]
    <2>1. [jobs[a[1]] EXCEPT !.leaseExpires = ts + LeaseSeconds] \in JobRow
      BY <1>1, RowTypes DEF JobRow
    <2> QED
      BY <2>1, AttemptParts DEF WorkerControl, TypeOK
  <1>3. attempts' \in [Attempt -> AttemptRow]
    <2>1. [attempts[a] EXCEPT !.leaseExpires = ts + LeaseSeconds, !.heartbeatAt = ts]
            \in AttemptRow
      BY <1>1, RowTypes DEF AttemptRow
    <2> QED
      BY <2>1 DEF WorkerControl, TypeOK
  <1> QED
    BY <1>2, <1>3 DEF WorkerControl, TypeOK

\* What worker_finalize accepts names states and outcomes of the vocabulary.
LEMMA FinalizeInputTypes ==
  ASSUME NEW f \in FinalizeInput
  PROVE  /\ f = <<f[1], f[2], f[3]>>
         /\ f[1] \in JobState /\ f[3] \in TerminalStates
         /\ f[3] \in JobState /\ f[3] \in AttemptOutcome
         /\ <<f[1], f[2]>> \in ActiveAttemptOutcomes
         /\ f[1] \in ActiveStates
         /\ <<f[1], f[3]>> \in OrdinaryTransitions
  BY DEF FinalizeInput, JobState, TerminalStates, AttemptOutcome,
         ActiveAttemptOutcomes, ActiveStates, OrdinaryTransitions

\* worker_finalize keeps every column typed, whether it closes or requeues.
LEMMA TypeFinalize ==
  ASSUME TypeOK, NEW a \in Attempt, NEW ts \in Nat, NEW f \in FinalizeInput,
         NEW retry \in BOOLEAN, NEW reason \in FinalReason,
         WorkerFinalize(a, f[1], f[2], f[3], retry, reason, ts)
  PROVE  TypeOK'
  <1> DEFINE closing == LogEntry(f[1], f[3], a[2], "WORKER", reason)
             retrying == LogEntry(f[3], "QUEUED", a[2], "WORKER", "PROCESS_RETRY_SCHEDULED")
  <1>1. jobs' \in [Job -> JobRow]
    <2>1. Closed(jobs[a[1]], f[3], TRUE) \in JobRow
      BY RowTypes, ClosedType, FinalizeInputTypes
    <2>2. Requeued(Closed(jobs[a[1]], f[3], TRUE), ts) \in JobRow
      BY <2>1, RequeuedType
    <2> QED
      BY <2>1, <2>2, AttemptParts DEF WorkerFinalize, TypeOK
  <1>2. attempts' \in [Attempt -> AttemptRow]
    <2>1. [attempts[a] EXCEPT !.outcome = f[3]] \in AttemptRow
      BY RowTypes, FinalizeInputTypes DEF AttemptRow
    <2> QED
      BY <2>1 DEF WorkerFinalize, TypeOK
  <1>3. events' \in [Job -> Seq(Event)]
    <2>1. a[2] \in 0 .. MaxAttempts
      BY AttemptParts
    <2>2. closing \in Event
      BY <2>1, EventType, FinalizeInputTypes DEF Reason
    <2>3. retrying \in Event
      BY <2>1, EventType, FinalizeInputTypes DEF Reason, JobState
    <2>4. /\ Append(events[a[1]], closing) \in Seq(Event)
          /\ Append(Append(events[a[1]], closing), retrying) \in Seq(Event)
      BY <2>2, <2>3, RowTypes
    <2> QED
      BY <2>4, AttemptParts DEF WorkerFinalize, TypeOK
  <1> QED
    BY <1>1, <1>2, <1>3 DEF WorkerFinalize, TypeOK

\* The recovery scan returns well-formed candidates.
LEMMA TypeScan ==
  ASSUME TypeOK, RecoveryScan
  PROVE  TypeOK'
  <1>1. ExpiredCandidates \subseteq Candidate
    <2> SUFFICES ASSUME NEW a \in Attempt,
                        <<jobs[a[1]].state, attempts[a].outcome>> \in ActiveAttemptOutcomes
                 PROVE  CandidateOf(a) \in Candidate
      BY DEF ExpiredCandidates
    <2>1. jobs[a[1]].state \in ActiveStates /\ attempts[a].outcome \in {"CLAIMED", "RUNNING"}
      BY DEF ActiveAttemptOutcomes, ActiveStates
    <2>2. /\ jobs[a[1]].leaseOwner \in Worker \cup {NoWorker}
          /\ jobs[a[1]].leaseToken \in Nat
          /\ attempts[a].child \in BOOLEAN
      BY RowTypes DEF JobRow, AttemptRow
    <2> QED
      BY <2>1, <2>2 DEF CandidateOf, Candidate
  <1> QED
    BY <1>1 DEF RecoveryScan, TypeOK

\* A candidate was read from an active attempt.
LEMMA CandidateParts ==
  ASSUME TypeOK, NEW c \in candidates
  PROVE  /\ c.attempt \in Attempt
         /\ c.state \in JobState
         /\ c.state \in ActiveStates
         /\ c.outcome \in {"CLAIMED", "RUNNING"}
  BY DEF TypeOK, Candidate, ActiveStates, JobState

\* Recovery that blocks keeps every column typed.
LEMMA TypeRecoverBlock ==
  ASSUME TypeOK, NEW c \in candidates, NEW observation \in Observation, NEW ts \in Nat,
         RecoverBlock(c, observation, ts)
  PROVE  TypeOK'
  <1> DEFINE a == c.attempt
  <1>1. a \in Attempt /\ c.state \in JobState
    BY CandidateParts
  <1>2. jobs[a[1]] \in JobRow /\ attempts[a] \in AttemptRow /\ events[a[1]] \in Seq(Event)
    BY <1>1, RowTypes
  <1>3. jobs' \in [Job -> JobRow]
    <2>1. jobs[a[1]].result \in BOOLEAN
      BY <1>2 DEF JobRow
    <2>2. Closed(jobs[a[1]], "BLOCKED", jobs[a[1]].result) \in JobRow
      BY <1>2, <2>1, ClosedType DEF JobState
    <2> QED
      BY <1>1, <2>2, AttemptParts DEF RecoverBlock, TypeOK
  <1>4. attempts' \in [Attempt -> AttemptRow]
    <2>1. [attempts[a] EXCEPT !.outcome = "BLOCKED"] \in AttemptRow
      BY <1>2 DEF AttemptRow, AttemptOutcome
    <2> QED
      BY <1>1, <2>1 DEF RecoverBlock, TypeOK
  <1>5. events' \in [Job -> Seq(Event)]
    <2>1. RecoveryReason(c, observation) \in Reason
      BY DEF RecoveryReason, Reason
    <2>2. a[2] \in 0 .. MaxAttempts
      BY <1>1, AttemptParts
    <2>3. LogEntry(c.state, "BLOCKED", a[2], "RECOVERY", RecoveryReason(c, observation))
            \in Event
      BY <1>1, <2>1, <2>2, EventType DEF JobState
    <2> QED
      BY <1>1, <1>2, <2>3, AttemptParts DEF RecoverBlock, TypeOK
  <1> QED
    BY <1>3, <1>4, <1>5 DEF RecoverBlock, TypeOK

\* Recovery that interrupts keeps every column typed.
LEMMA TypeRecoverInterrupted ==
  ASSUME TypeOK, NEW c \in candidates, NEW observation \in Observation, NEW ts \in Nat,
         RecoverInterrupted(c, observation, ts)
  PROVE  TypeOK'
  <1> DEFINE a == c.attempt
             retry == jobs[a[1]].attemptCount < MaxAttempts
             closing == LogEntry(c.state, "FAILED", a[2], "RECOVERY",
                                 IF retry THEN "LEASE_EXPIRED_CHILD_ABSENT"
                                          ELSE "LEASE_EXPIRED_ATTEMPTS_EXHAUSTED")
             retrying == LogEntry("FAILED", "QUEUED", a[2], "RECOVERY",
                                  "LEASE_EXPIRED_RETRY_SCHEDULED")
  <1>1. a \in Attempt /\ c.state \in JobState
    BY CandidateParts
  <1>2. jobs[a[1]] \in JobRow /\ attempts[a] \in AttemptRow /\ events[a[1]] \in Seq(Event)
    BY <1>1, RowTypes
  <1>3. jobs' \in [Job -> JobRow]
    <2>1. jobs[a[1]].result \in BOOLEAN
      BY <1>2 DEF JobRow
    <2>2. Closed(jobs[a[1]], "FAILED", jobs[a[1]].result) \in JobRow
      BY <1>2, <2>1, ClosedType DEF JobState
    <2>3. Requeued(Closed(jobs[a[1]], "FAILED", jobs[a[1]].result), ts) \in JobRow
      BY <2>2, RequeuedType
    <2> QED
      BY <1>1, <2>2, <2>3, AttemptParts DEF RecoverInterrupted, TypeOK
  <1>4. attempts' \in [Attempt -> AttemptRow]
    <2>1. [attempts[a] EXCEPT !.outcome = "INTERRUPTED"] \in AttemptRow
      BY <1>2 DEF AttemptRow, AttemptOutcome
    <2> QED
      BY <1>1, <2>1 DEF RecoverInterrupted, TypeOK
  <1>5. events' \in [Job -> Seq(Event)]
    <2>1. a[2] \in 0 .. MaxAttempts
      BY <1>1, AttemptParts
    <2>2. closing \in Event
      BY <1>1, <2>1, EventType DEF JobState, Reason
    <2>3. retrying \in Event
      BY <2>1, EventType DEF JobState, Reason
    <2>4. /\ Append(events[a[1]], closing) \in Seq(Event)
          /\ Append(Append(events[a[1]], closing), retrying) \in Seq(Event)
      BY <1>2, <2>2, <2>3
    <2> QED
      BY <1>1, <2>4, AttemptParts DEF RecoverInterrupted, TypeOK
  <1> QED
    BY <1>3, <1>4, <1>5 DEF RecoverInterrupted, TypeOK

\* Every step of the job plane keeps the types.
LEMMA TypeStep ==
  ASSUME TypeOK, [Next]_vars
  PROVE  TypeOK'
  <1>1. CASE Tick
    BY <1>1, JobPlaneAssumption DEF Tick, TypeOK
  <1>2. CASE \E j \in Job, actor \in Actor, key \in OperatorKey, priority \in Priority :
               ApiEnqueue(j, key, actor, priority)
    BY <1>2, TypeInsert DEF ApiEnqueue
  <1>3. CASE \E j \in Job, actor \in Actor, key \in ScheduleKey :
               ScheduleEnqueue(j, key, actor)
    BY <1>3, TypeInsert, JobPlaneAssumption DEF ScheduleEnqueue
  <1>4. CASE \E j \in Job : ApiCancel(j)
    BY <1>4, TypeCancel
  <1>5. CASE \E w \in Worker, j \in Job, busy \in BusySets : WorkerClaim(w, j, busy)
    BY <1>5, TypeClaim
  <1>6. CASE \E a \in Issued : \E ts \in StatementTimes(attempts[a].heartbeatAt) :
               \/ WorkerStart(a, ts)
               \/ \E phase \in {"CLAIMED", "RUNNING"} : WorkerControl(a, phase, ts)
               \/ \E f \in FinalizeInput, retry \in BOOLEAN, reason \in FinalReason :
                    WorkerFinalize(a, f[1], f[2], f[3], retry, reason, ts)
    <2>1. PICK a \in Issued : \E ts \in StatementTimes(attempts[a].heartbeatAt) :
               \/ WorkerStart(a, ts)
               \/ \E phase \in {"CLAIMED", "RUNNING"} : WorkerControl(a, phase, ts)
               \/ \E f \in FinalizeInput, retry \in BOOLEAN, reason \in FinalReason :
                    WorkerFinalize(a, f[1], f[2], f[3], retry, reason, ts)
      BY <1>6
    <2>2. a \in Attempt /\ attempts[a].heartbeatAt \in Nat
      BY RowTypes DEF Issued, AttemptRow
    <2>3. PICK ts \in StatementTimes(attempts[a].heartbeatAt) :
               \/ WorkerStart(a, ts)
               \/ \E phase \in {"CLAIMED", "RUNNING"} : WorkerControl(a, phase, ts)
               \/ \E f \in FinalizeInput, retry \in BOOLEAN, reason \in FinalReason :
                    WorkerFinalize(a, f[1], f[2], f[3], retry, reason, ts)
      BY <2>1
    <2>4. ts \in Nat
      BY <2>2, StatementTimeType
    <2> QED
      BY <2>2, <2>3, <2>4, TypeStart, TypeControl, TypeFinalize
  <1>7. CASE RecoveryScan
    BY <1>7, TypeScan
  <1>8. CASE \E c \in candidates, observation \in Observation, ts \in StatementTimes(0) :
               \/ RecoverBlock(c, observation, ts)
               \/ RecoverInterrupted(c, observation, ts)
    BY <1>8, StatementTimeType, TypeRecoverBlock, TypeRecoverInterrupted
  <1>9. CASE UNCHANGED vars
    BY <1>9 DEF vars, TypeOK
  <1> QED
    BY <1>1, <1>2, <1>3, <1>4, <1>5, <1>6, <1>7, <1>8, <1>9 DEF Next

\* Every column always has its type, whatever the callers do.
THEOREM TypeCorrect == Spec => []TypeOK
  <1>1. Init => TypeOK
    BY ConstantTypes, JobPlaneAssumption DEF Init, TypeOK
  <1>2. TypeOK /\ [Next]_vars => TypeOK'
    BY TypeStep
  <1> QED
    BY <1>1, <1>2, PTL DEF Spec

-----------------------------------------------------------------------------
(* Ownership, retry and cancellation.  The three invariants are inductive   *)
(* together with the types: a step of a worker or of a recovery changes one *)
(* job row and the row of that job's latest attempt, and every other pair   *)
(* of rows is left as it was.                                               *)

SafetyInv == TypeOK /\ OwnershipConsistent /\ NothingCarriedOver /\ AcceptedCancelHonoured

\* What the last two invariants say of one row of jobs.
RowSound(row) ==
  /\ row.state = "QUEUED" => row.attemptCount < MaxAttempts
  /\ row.state \in ActiveStates \cup {"QUEUED"} => ~ row.result
  /\ row.cancelRequested => row.state \in {"CANCEL_REQUESTED", "CANCELLED", "BLOCKED"}

\* The two invariants about rows of jobs are those of the single rows.
LEMMA RowsSound ==
  (NothingCarriedOver /\ AcceptedCancelHonoured) <=> \A j \in Job : RowSound(jobs[j])
  BY DEF NothingCarriedOver, AcceptedCancelHonoured, RowSound

\* A step that replaces one row by a sound one keeps all rows sound.
LEMMA RowStep ==
  ASSUME TypeOK, NothingCarriedOver, AcceptedCancelHonoured,
         NEW j \in Job, NEW row, jobs' = [jobs EXCEPT ![j] = row], RowSound(row)
  PROVE  NothingCarriedOver' /\ AcceptedCancelHonoured'
  <1>1. \A k \in Job : RowSound(jobs[k])
    BY RowsSound
  <1>2. \A k \in Job : jobs'[k] = IF k = j THEN row ELSE jobs[k]
    BY DEF TypeOK
  <1>3. \A k \in Job : RowSound(jobs'[k])
    BY <1>1, <1>2
  <1> QED
    BY <1>3 DEF NothingCarriedOver, AcceptedCancelHonoured, RowSound

\* A step on an owned job changes its row and the row of its latest attempt:
\* it is enough that these two agree.
LEMMA OwnedStep ==
  ASSUME TypeOK, OwnershipConsistent, NEW a \in Attempt, NEW row, NEW att,
         jobs[a[1]].attemptCount = a[2],
         row.attemptCount = a[2],
         row.state # Absent,
         jobs' = [jobs EXCEPT ![a[1]] = row],
         attempts' = [attempts EXCEPT ![a] = att],
         Owned(row, att, a[2])
  PROVE  OwnershipConsistent'
  <1> SUFFICES ASSUME NEW b \in Attempt
               PROVE  Owned(jobs'[b[1]], attempts'[b], b[2])
    BY DEF OwnershipConsistent
  <1>1. a[1] \in Job /\ b[1] \in Job /\ a[2] \in Nat /\ b[2] \in Nat
    BY AttemptParts
  <1>2. jobs'[a[1]] = row /\ attempts'[a] = att
    BY <1>1 DEF TypeOK
  <1>3. CASE b = a
    BY <1>2, <1>3
  <1>4. CASE b[1] # a[1]
    <2>1. b # a /\ jobs'[b[1]] = jobs[b[1]]
      BY <1>1, <1>4 DEF TypeOK
    <2>2. attempts'[b] = attempts[b]
      BY <2>1 DEF TypeOK
    <2> QED
      BY <2>1, <2>2 DEF OwnershipConsistent
  <1>5. CASE b[1] = a[1] /\ b[2] # a[2]
    <2>1. b # a /\ attempts'[b] = attempts[b] /\ jobs'[b[1]] = row
      BY <1>1, <1>2, <1>5 DEF TypeOK
    <2>2. Owned(jobs[a[1]], attempts[b], b[2])
      BY <1>5 DEF OwnershipConsistent
    <2>3. Owned(row, attempts[b], b[2])
      BY <1>1, <1>5, <2>2 DEF Owned
    <2> QED
      BY <2>1, <2>3
  <1>6. b = a \/ b[1] # a[1] \/ b[2] # a[2]
    BY AttemptParts
  <1> QED
    BY <1>3, <1>4, <1>5, <1>6

\* The enqueue functions insert a row that no attempt belongs to.
LEMMA SafeInsert ==
  ASSUME SafetyInv, NEW j \in Job, NEW key, NEW actor, NEW priority, NEW actorType,
         InsertJob(j, key, actor, priority, actorType)
  PROVE  OwnershipConsistent' /\ NothingCarriedOver' /\ AcceptedCancelHonoured'
  <1> DEFINE row == [NoJobRow EXCEPT !.state = "QUEUED", !.key = key, !.actor = actor,
                                     !.priority = priority, !.requestedAt = now]
  <1>1. /\ row.state = "QUEUED" /\ row.attemptCount = 0 /\ row.result = FALSE
        /\ row.cancelRequested = FALSE /\ row.leaseToken = 0 /\ row.leaseOwner = NoWorker
    BY DEF NoJobRow
  <1>2. RowSound(row)
    BY <1>1, JobPlaneAssumption DEF RowSound, ActiveStates
  <1>3. jobs' = [jobs EXCEPT ![j] = row] /\ attempts' = attempts
    BY DEF InsertJob
  <1>4. NothingCarriedOver' /\ AcceptedCancelHonoured'
    <2> HIDE DEF row
    <2> QED
      BY <1>2, <1>3, RowStep DEF SafetyInv
  <1>5. ASSUME NEW b \in Attempt
        PROVE  Owned(jobs'[b[1]], attempts'[b], b[2])
    <2>1. b[1] \in Job /\ b[2] \in Nat \ {0} /\ jobs \in [Job -> JobRow]
      BY AttemptParts DEF SafetyInv, TypeOK
    <2>2. Owned(jobs[b[1]], attempts[b], b[2])
      BY DEF SafetyInv, OwnershipConsistent
    <2>3. CASE b[1] = j
      <3>1. jobs[j].state = Absent
        BY DEF InsertJob
      <3>2. jobs[j].attemptCount = 0
        BY <2>2, <2>3, <3>1 DEF Owned
      <3>3. attempts[b].outcome = NoOutcome
        BY <2>1, <2>2, <2>3, <3>2 DEF Owned
      <3>4. jobs'[b[1]] = row
        BY <1>3, <2>1, <2>3
      <3>5. Owned(row, attempts[b], b[2])
        <4> HIDE DEF row
        <4> QED
          BY <1>1, <2>1, <3>3 DEF Owned, ActiveStates, NoOutcome, Absent
      <3> QED
        BY <1>3, <3>4, <3>5
    <2>4. CASE b[1] # j
      BY <1>3, <2>1, <2>2, <2>4
    <2> QED
      BY <2>3, <2>4
  <1> QED
    BY <1>4, <1>5 DEF OwnershipConsistent

\* What the invariant says of the rows behind a handle or a candidate.
LEMMA HandleFacts ==
  ASSUME SafetyInv, NEW a \in Attempt
  PROVE  /\ jobs[a[1]] \in JobRow
         /\ attempts[a] \in AttemptRow
         /\ a[1] \in Job
         /\ a[2] \in Nat \ {0}
         /\ Owned(jobs[a[1]], attempts[a], a[2])
         /\ RowSound(jobs[a[1]])
  BY AttemptParts, RowTypes, RowsSound DEF SafetyInv, OwnershipConsistent

\* api_cancel touches no attempt and leaves the lease where it is.
LEMMA SafeCancel ==
  ASSUME SafetyInv, NEW j \in Job, ApiCancel(j)
  PROVE  OwnershipConsistent' /\ NothingCarriedOver' /\ AcceptedCancelHonoured'
  <1> DEFINE row == [jobs[j] EXCEPT !.state = CancelTarget(jobs[j].state), !.cancelRequested = TRUE]
  <1>1. jobs[j] \in JobRow /\ RowSound(jobs[j])
    BY RowsSound DEF SafetyInv, TypeOK
  <1>2. /\ row.state = CancelTarget(jobs[j].state)
        /\ row.attemptCount = jobs[j].attemptCount
        /\ row.leaseOwner = jobs[j].leaseOwner
        /\ row.leaseToken = jobs[j].leaseToken
        /\ row.leaseExpires = jobs[j].leaseExpires
        /\ row.result = jobs[j].result
    BY <1>1 DEF JobRow
  <1>3. /\ jobs' = [jobs EXCEPT ![j] = row]
        /\ attempts' = attempts
        /\ jobs[j].state \in {"QUEUED", "CLAIMED", "RUNNING"}
    BY DEF ApiCancel
  <1> HIDE DEF row
  <1>4. RowSound(row)
    BY <1>1, <1>2, <1>3 DEF RowSound, CancelTarget, ActiveStates
  <1>5. ASSUME NEW b \in Attempt
        PROVE  Owned(jobs'[b[1]], attempts'[b], b[2])
    <2>1. b[1] \in Job /\ jobs \in [Job -> JobRow] /\ Owned(jobs[b[1]], attempts[b], b[2])
      BY HandleFacts DEF SafetyInv, TypeOK
    <2>2. CASE b[1] = j
      <3>1. Owned(row, attempts[b], b[2])
        BY <1>2, <1>3, <2>1, <2>2
           DEF Owned, CancelTarget, ActiveStates, ActiveAttemptOutcomes, Absent
      <3> QED
        BY <1>3, <2>1, <2>2, <3>1
    <2>3. CASE b[1] # j
      BY <1>3, <2>1, <2>3
    <2> QED
      BY <2>2, <2>3
  <1> QED
    BY <1>3, <1>4, <1>5, RowStep DEF OwnershipConsistent, SafetyInv

\* worker_claim opens the next attempt of a job that no one owns.
LEMMA SafeClaim ==
  ASSUME SafetyInv, NEW w \in Worker, NEW j \in Job, NEW busy \in BusySets,
         WorkerClaim(w, j, busy)
  PROVE  OwnershipConsistent' /\ NothingCarriedOver' /\ AcceptedCancelHonoured'
  <1> DEFINE n == jobs[j].attemptCount + 1
             a == <<j, n>>
             row == [jobs[j] EXCEPT !.state = "CLAIMED", !.attemptCount = n,
                                    !.leaseOwner = w, !.leaseToken = lastToken',
                                    !.leaseExpires = now + LeaseSeconds,
                                    !.nextAttemptAt = 0]
             att == [outcome |-> "CLAIMED", worker |-> w, token |-> lastToken',
                     leaseExpires |-> now + LeaseSeconds, heartbeatAt |-> now,
                     child |-> FALSE]
  <1>1. jobs[j] \in JobRow /\ RowSound(jobs[j]) /\ jobs \in [Job -> JobRow]
    BY RowsSound DEF SafetyInv, TypeOK
  <1>2. jobs[j].attemptCount \in Nat /\ n \in 1 .. MaxAttempts /\ n \in Nat \ {0}
    BY <1>1, JobPlaneAssumption DEF WorkerClaim, ClaimChoice, Claimable, JobRow
  <1>3. a \in Attempt /\ a[1] = j /\ a[2] = n
    BY <1>2 DEF Attempt
  <1>4. jobs[j].state = "QUEUED" /\ lastToken' # 0
    BY DEF WorkerClaim, ClaimChoice, Claimable, SafetyInv, TypeOK
  <1>5. jobs' = [jobs EXCEPT ![j] = row] /\ attempts' = [attempts EXCEPT ![a] = att]
    BY DEF WorkerClaim
  <1>6. /\ row.state = "CLAIMED" /\ row.attemptCount = n /\ row.leaseOwner = w
        /\ row.leaseToken = lastToken' /\ row.leaseExpires = now + LeaseSeconds
        /\ row.result = jobs[j].result /\ row.cancelRequested = jobs[j].cancelRequested
    BY <1>1 DEF JobRow
  <1>7. /\ att.outcome = "CLAIMED" /\ att.worker = w /\ att.token = lastToken'
        /\ att.leaseExpires = now + LeaseSeconds /\ att.child = FALSE
    OBVIOUS
  <1> HIDE DEF row, att, a, n
  <1>8. RowSound(row)
    BY <1>1, <1>4, <1>6 DEF RowSound, ActiveStates
  <1>9. ASSUME NEW b \in Attempt
        PROVE  Owned(jobs'[b[1]], attempts'[b], b[2])
    <2>1. /\ b[1] \in Job /\ b[2] \in Nat \ {0}
          /\ attempts \in [Attempt -> AttemptRow]
          /\ Owned(jobs[b[1]], attempts[b], b[2])
      BY HandleFacts DEF SafetyInv, TypeOK
    <2>2. CASE b = a
      <3>1. Owned(row, att, n)
        BY <1>2, <1>4, <1>6, <1>7, JobPlaneAssumption
           DEF Owned, ActiveStates, ActiveAttemptOutcomes, NoOutcome, Absent
      <3> QED
        BY <1>1, <1>3, <1>5, <2>1, <2>2, <3>1
    <2>3. CASE b # a /\ b[1] = j
      <3>1. b[2] # n
        BY <1>3, <2>3, AttemptParts
      <3>2. n = jobs[j].attemptCount + 1
        BY DEF n
      <3>3. Owned(row, attempts[b], b[2])
        BY <1>2, <1>4, <1>6, <2>1, <2>3, <3>1, <3>2, JobPlaneAssumption
           DEF Owned, ActiveStates, NoOutcome, Absent
      <3> QED
        BY <1>1, <1>3, <1>5, <2>1, <2>3, <3>3
    <2>4. CASE b[1] # j
      BY <1>1, <1>3, <1>5, <2>1, <2>4
    <2> QED
      BY <2>2, <2>3, <2>4
  <1> QED
    BY <1>5, <1>8, <1>9, RowStep DEF OwnershipConsistent, SafetyInv

\* worker_start moves the job and its attempt together.
LEMMA SafeStart ==
  ASSUME SafetyInv, NEW a \in Attempt, NEW ts, WorkerStart(a, ts)
  PROVE  OwnershipConsistent' /\ NothingCarriedOver' /\ AcceptedCancelHonoured'
  <1> DEFINE row == [jobs[a[1]] EXCEPT !.state = "RUNNING"]
             att == [attempts[a] EXCEPT !.outcome = "RUNNING", !.heartbeatAt = ts,
                                        !.child = TRUE]
  <1>1. /\ jobs' = [jobs EXCEPT ![a[1]] = row]
        /\ attempts' = [attempts EXCEPT ![a] = att]
        /\ jobs[a[1]].state = "CLAIMED"
        /\ jobs[a[1]].attemptCount = a[2]
    BY DEF WorkerStart, StartFence, HoldsLease
  <1>2. /\ row.state = "RUNNING" /\ row.attemptCount = jobs[a[1]].attemptCount
        /\ row.leaseOwner = jobs[a[1]].leaseOwner /\ row.leaseToken = jobs[a[1]].leaseToken
        /\ row.leaseExpires = jobs[a[1]].leaseExpires /\ row.result = jobs[a[1]].result
        /\ row.cancelRequested = jobs[a[1]].cancelRequested
    BY HandleFacts DEF JobRow
  <1>3. /\ att.outcome = "RUNNING" /\ att.child = TRUE /\ att.worker = attempts[a].worker
        /\ att.token = attempts[a].token /\ att.leaseExpires = attempts[a].leaseExpires
    BY HandleFacts DEF AttemptRow
  <1> HIDE DEF row, att
  <1>4. RowSound(row)
    BY <1>1, <1>2, HandleFacts DEF RowSound, ActiveStates
  <1>5. Owned(row, att, a[2])
    BY <1>1, <1>2, <1>3, HandleFacts
       DEF Owned, ActiveStates, ActiveAttemptOutcomes, NoOutcome, Absent
  <1>6. row.state # Absent
    BY <1>2 DEF Absent
  <1> QED
    BY <1>1, <1>2, <1>4, <1>5, <1>6, HandleFacts, OwnedStep, RowStep DEF SafetyInv

\* worker_control gives both rows the same new expiry.
LEMMA SafeControl ==
  ASSUME SafetyInv, NEW a \in Attempt, NEW ts, NEW phase \in {"CLAIMED", "RUNNING"},
         WorkerControl(a, phase, ts)
  PROVE  OwnershipConsistent' /\ NothingCarriedOver' /\ AcceptedCancelHonoured'
  <1> DEFINE row == [jobs[a[1]] EXCEPT !.leaseExpires = ts + LeaseSeconds]
             att == [attempts[a] EXCEPT !.leaseExpires = ts + LeaseSeconds,
                                        !.heartbeatAt = ts]
  <1>1. /\ jobs' = [jobs EXCEPT ![a[1]] = row]
        /\ attempts' = [attempts EXCEPT ![a] = att]
        /\ jobs[a[1]].state \in {phase, "CANCEL_REQUESTED"}
        /\ jobs[a[1]].attemptCount = a[2]
    BY DEF WorkerControl, ControlFence, HoldsLease
  <1>2. /\ row.state = jobs[a[1]].state /\ row.attemptCount = jobs[a[1]].attemptCount
        /\ row.leaseOwner = jobs[a[1]].leaseOwner /\ row.leaseToken = jobs[a[1]].leaseToken
        /\ row.leaseExpires = ts + LeaseSeconds /\ row.result = jobs[a[1]].result
        /\ row.cancelRequested = jobs[a[1]].cancelRequested
    BY HandleFacts DEF JobRow
  <1>3. /\ att.outcome = attempts[a].outcome /\ att.child = attempts[a].child
        /\ att.worker = attempts[a].worker /\ att.token = attempts[a].token
        /\ att.leaseExpires = ts + LeaseSeconds
    BY HandleFacts DEF AttemptRow
  <1> HIDE DEF row, att
  <1>4. RowSound(row)
    BY <1>1, <1>2, HandleFacts DEF RowSound, ActiveStates
  <1>5. Owned(row, att, a[2])
    BY <1>1, <1>2, <1>3, HandleFacts DEF Owned, ActiveStates
  <1>6. row.state # Absent
    BY <1>1, <1>2 DEF Absent
  <1> QED
    BY <1>1, <1>2, <1>4, <1>5, <1>6, HandleFacts, OwnedStep, RowStep DEF SafetyInv

\* The end of an attempt: the job becomes terminal, or returns to the queue
\* while attempts are left, and the attempt row gets a final outcome.
LEMMA SafeClose ==
  ASSUME SafetyInv, NEW a \in Attempt, NEW ts, NEW final \in TerminalStates,
         NEW outcome \in AttemptOutcome \ {"CLAIMED", "RUNNING"},
         NEW hasResult \in BOOLEAN, NEW retry \in BOOLEAN,
         jobs[a[1]].attemptCount = a[2],
         jobs[a[1]].cancelRequested => final \in {"CANCELLED", "BLOCKED"},
         retry => jobs[a[1]].attemptCount < MaxAttempts,
         jobs' = [jobs EXCEPT ![a[1]] =
                    IF retry THEN Requeued(Closed(jobs[a[1]], final, hasResult), ts)
                             ELSE Closed(jobs[a[1]], final, hasResult)],
         attempts' = [attempts EXCEPT ![a] = [attempts[a] EXCEPT !.outcome = outcome]]
  PROVE  OwnershipConsistent' /\ NothingCarriedOver' /\ AcceptedCancelHonoured'
  <1> DEFINE closed == Closed(jobs[a[1]], final, hasResult)
             row == IF retry THEN Requeued(closed, ts) ELSE closed
             att == [attempts[a] EXCEPT !.outcome = outcome]
  <1>1. /\ closed.state = final /\ closed.attemptCount = jobs[a[1]].attemptCount
        /\ closed.leaseOwner = NoWorker /\ closed.leaseToken = 0
        /\ closed.cancelRequested = jobs[a[1]].cancelRequested
    BY HandleFacts DEF Closed, JobRow
  <1>2. closed \in JobRow
    BY HandleFacts, ClosedType DEF TerminalStates, JobState
  <1>3. /\ row.state = IF retry THEN "QUEUED" ELSE final
        /\ row.attemptCount = jobs[a[1]].attemptCount
        /\ row.leaseOwner = NoWorker /\ row.leaseToken = 0
    <2> HIDE DEF closed
    <2> QED
      BY <1>1, <1>2 DEF Requeued, JobRow
  <1>4. retry => row.result = FALSE /\ row.cancelRequested = FALSE
    <2> HIDE DEF closed
    <2> QED
      BY <1>1, <1>2 DEF Requeued, JobRow
  <1>5. ~ retry => row.cancelRequested = jobs[a[1]].cancelRequested
    BY <1>1
  <1>6. att.outcome = outcome
    BY HandleFacts DEF AttemptRow
  <1>7. jobs' = [jobs EXCEPT ![a[1]] = row] /\ attempts' = [attempts EXCEPT ![a] = att]
    OBVIOUS
  <1> HIDE DEF row, att, closed
  <1>8. RowSound(row)
    BY <1>3, <1>4, <1>5 DEF RowSound, ActiveStates, TerminalStates
  <1>9. Owned(row, att, a[2])
    <2>1. row.state \notin ActiveStates /\ row.state # Absent
      BY <1>3 DEF ActiveStates, TerminalStates, Absent
    <2>2. att.outcome \notin {"CLAIMED", "RUNNING"} /\ att.outcome # NoOutcome
      BY <1>6 DEF AttemptOutcome, NoOutcome
    <2>3. a[2] =< row.attemptCount /\ row.leaseToken = 0 /\ row.leaseOwner = NoWorker
      BY <1>3, HandleFacts
    <2> QED
      BY <2>1, <2>2, <2>3 DEF Owned
  <1>10. row.state # Absent
    BY <1>3 DEF Absent, TerminalStates
  <1>11. OwnershipConsistent'
    <2>1. row.attemptCount = a[2] /\ TypeOK /\ OwnershipConsistent
      BY <1>3 DEF SafetyInv
    <2> QED
      BY <1>7, <1>9, <1>10, <2>1, OwnedStep, Zenon
  <1>12. NothingCarriedOver' /\ AcceptedCancelHonoured'
    BY <1>7, <1>8, HandleFacts, RowStep DEF SafetyInv
  <1> QED
    BY <1>11, <1>12

\* worker_finalize closes the attempt that holds the lease.
LEMMA SafeFinalize ==
  ASSUME SafetyInv, NEW a \in Attempt, NEW ts, NEW f \in FinalizeInput,
         NEW retry \in BOOLEAN, NEW reason \in FinalReason,
         WorkerFinalize(a, f[1], f[2], f[3], retry, reason, ts)
  PROVE  OwnershipConsistent' /\ NothingCarriedOver' /\ AcceptedCancelHonoured'
  <1>1. /\ jobs[a[1]].attemptCount = a[2]
        /\ jobs[a[1]].state = f[1]
        /\ retry => jobs[a[1]].attemptCount < MaxAttempts
    BY DEF WorkerFinalize, FinalizeFence, HoldsLease
  <1>2. f[3] \in TerminalStates /\ f[3] \in AttemptOutcome \ {"CLAIMED", "RUNNING"}
    BY FinalizeInputTypes DEF TerminalStates
  <1>3. f[1] = "CANCEL_REQUESTED" => f[3] \in {"CANCELLED", "BLOCKED"}
    BY DEF FinalizeInput
  <1>4. f[1] \in {"CLAIMED", "RUNNING", "CANCEL_REQUESTED"}
    BY DEF FinalizeInput
  <1>5. jobs[a[1]].cancelRequested => f[3] \in {"CANCELLED", "BLOCKED"}
    BY <1>1, <1>3, <1>4, HandleFacts DEF RowSound
  <1>6. /\ jobs' = [jobs EXCEPT ![a[1]] =
                      IF retry THEN Requeued(Closed(jobs[a[1]], f[3], TRUE), ts)
                               ELSE Closed(jobs[a[1]], f[3], TRUE)]
        /\ attempts' = [attempts EXCEPT ![a] = [attempts[a] EXCEPT !.outcome = f[3]]]
    BY DEF WorkerFinalize
  <1>7. TRUE \in BOOLEAN
    OBVIOUS
  <1> QED
    BY <1>1, <1>2, <1>5, <1>6, <1>7, SafeClose

\* A recovery closes an attempt only when it is still the one it inspected.
LEMMA SafeRecoverBlock ==
  ASSUME SafetyInv, NEW c \in candidates, NEW observation, NEW ts,
         RecoverBlock(c, observation, ts)
  PROVE  OwnershipConsistent' /\ NothingCarriedOver' /\ AcceptedCancelHonoured'
  <1> DEFINE a == c.attempt
  <1>1. a \in Attempt /\ jobs[a[1]].attemptCount = a[2]
    BY CandidateParts DEF RecoverBlock, RecoveryFence, SafetyInv
  <1>2. jobs[a[1]].result \in BOOLEAN
    BY <1>1, HandleFacts DEF JobRow
  <1>3. /\ jobs' = [jobs EXCEPT ![a[1]] =
                      IF FALSE THEN Requeued(Closed(jobs[a[1]], "BLOCKED", jobs[a[1]].result), ts)
                               ELSE Closed(jobs[a[1]], "BLOCKED", jobs[a[1]].result)]
        /\ attempts' = [attempts EXCEPT ![a] = [attempts[a] EXCEPT !.outcome = "BLOCKED"]]
    BY DEF RecoverBlock
  <1>4. /\ "BLOCKED" \in TerminalStates
        /\ "BLOCKED" \in AttemptOutcome \ {"CLAIMED", "RUNNING"}
        /\ FALSE \in BOOLEAN
    BY DEF TerminalStates, AttemptOutcome
  <1> HIDE DEF a
  <1> QED
    BY <1>1, <1>2, <1>3, <1>4, SafeClose

\* An interrupted attempt was running, so its job was not being cancelled.
LEMMA SafeRecoverInterrupted ==
  ASSUME SafetyInv, NEW c \in candidates, NEW observation, NEW ts,
         RecoverInterrupted(c, observation, ts)
  PROVE  OwnershipConsistent' /\ NothingCarriedOver' /\ AcceptedCancelHonoured'
  <1> DEFINE a == c.attempt
             retry == jobs[a[1]].attemptCount < MaxAttempts
  <1>1. a \in Attempt /\ jobs[a[1]].attemptCount = a[2] /\ jobs[a[1]].state = "RUNNING"
    BY CandidateParts DEF RecoverInterrupted, RecoveryFence, ProvenInterrupted, SafetyInv
  <1>2. jobs[a[1]].result \in BOOLEAN /\ ~ jobs[a[1]].cancelRequested
    BY <1>1, HandleFacts DEF JobRow, RowSound
  <1>3. /\ jobs' = [jobs EXCEPT ![a[1]] =
                      IF retry THEN Requeued(Closed(jobs[a[1]], "FAILED", jobs[a[1]].result), ts)
                               ELSE Closed(jobs[a[1]], "FAILED", jobs[a[1]].result)]
        /\ attempts' = [attempts EXCEPT ![a] = [attempts[a] EXCEPT !.outcome = "INTERRUPTED"]]
    BY DEF RecoverInterrupted
  <1>4. /\ "FAILED" \in TerminalStates
        /\ "INTERRUPTED" \in AttemptOutcome \ {"CLAIMED", "RUNNING"}
    BY DEF TerminalStates, AttemptOutcome
  <1>5. retry \in BOOLEAN
    OBVIOUS
  <1>6. retry => jobs[a[1]].attemptCount < MaxAttempts
    OBVIOUS
  <1> HIDE DEF a, retry
  <1> QED
    BY <1>1, <1>2, <1>3, <1>4, <1>5, <1>6, SafeClose

\* Every step of the job plane keeps jobs and job_attempts consistent.
LEMMA SafetyStep ==
  ASSUME SafetyInv, Next
  PROVE  OwnershipConsistent' /\ NothingCarriedOver' /\ AcceptedCancelHonoured'
  <1>1. ASSUME jobs' = jobs, attempts' = attempts
        PROVE  OwnershipConsistent' /\ NothingCarriedOver' /\ AcceptedCancelHonoured'
    BY <1>1 DEF SafetyInv, OwnershipConsistent, NothingCarriedOver, AcceptedCancelHonoured
  <1>2. CASE Tick \/ RecoveryScan
    BY <1>1, <1>2 DEF Tick, RecoveryScan
  <1>3. CASE \E j \in Job, actor \in Actor :
               \/ \E key \in OperatorKey, priority \in Priority :
                    ApiEnqueue(j, key, actor, priority)
               \/ \E key \in ScheduleKey : ScheduleEnqueue(j, key, actor)
    BY <1>3, SafeInsert DEF ApiEnqueue, ScheduleEnqueue
  <1>4. CASE \E j \in Job : ApiCancel(j)
    BY <1>4, SafeCancel
  <1>5. CASE \E w \in Worker, j \in Job, busy \in BusySets : WorkerClaim(w, j, busy)
    BY <1>5, SafeClaim
  <1>6. CASE \E a \in Issued : \E ts \in StatementTimes(attempts[a].heartbeatAt) :
               \/ WorkerStart(a, ts)
               \/ \E phase \in {"CLAIMED", "RUNNING"} : WorkerControl(a, phase, ts)
               \/ \E f \in FinalizeInput, retry \in BOOLEAN, reason \in FinalReason :
                    WorkerFinalize(a, f[1], f[2], f[3], retry, reason, ts)
    BY <1>6, SafeStart, SafeControl, SafeFinalize DEF Issued
  <1>7. CASE \E c \in candidates, observation \in Observation, ts \in StatementTimes(0) :
               \/ RecoverBlock(c, observation, ts)
               \/ RecoverInterrupted(c, observation, ts)
    BY <1>7, SafeRecoverBlock, SafeRecoverInterrupted
  <1> QED
    BY <1>2, <1>3, <1>4, <1>5, <1>6, <1>7 DEF Next

\* The initial tables are consistent.
LEMMA SafetyInit ==
  ASSUME Init
  PROVE  SafetyInv
  <1>1. TypeOK
    BY ConstantTypes, JobPlaneAssumption DEF Init, TypeOK
  <1>2. \A j \in Job : RowSound(jobs[j])
    BY DEF Init, RowSound, NoJobRow, ActiveStates, Absent
  <1>3. ASSUME NEW a \in Attempt
        PROVE  Owned(jobs[a[1]], attempts[a], a[2])
    BY AttemptParts DEF Init, Owned, NoJobRow, NoAttemptRow, ActiveStates, Absent, NoOutcome
  <1> QED
    BY <1>1, <1>2, <1>3, RowsSound DEF SafetyInv, OwnershipConsistent

\* The invariant is inductive.
LEMMA SafetyKept ==
  ASSUME SafetyInv, [Next]_vars
  PROVE  SafetyInv'
  <1>1. TypeOK'
    BY TypeStep DEF SafetyInv
  <1>2. CASE UNCHANGED vars
    BY <1>1, <1>2 DEF vars, SafetyInv, OwnershipConsistent, NothingCarriedOver,
                      AcceptedCancelHonoured
  <1>3. CASE Next
    BY <1>1, <1>3, SafetyStep DEF SafetyInv
  <1> QED
    BY <1>2, <1>3

\* The inductive invariant holds in every reachable state.
THEOREM Safety == Spec => []SafetyInv
  BY SafetyInit, SafetyKept, PTL DEF Spec

\* For every number of jobs, workers and attempts: the two tables never
\* disagree on who owns a job.
THEOREM Ownership == Spec => []OwnershipConsistent
  <1>1. SafetyInv => OwnershipConsistent
    BY DEF SafetyInv
  <1> QED
    BY <1>1, Safety, PTL

\* A retried job carries nothing over, and always has an attempt left.
THEOREM CleanRetry == Spec => []NothingCarriedOver
  <1>1. SafetyInv => NothingCarriedOver
    BY DEF SafetyInv
  <1> QED
    BY <1>1, Safety, PTL

\* No interleaving of workers and recoveries revives a cancelled job.
THEOREM CancelHonoured == Spec => []AcceptedCancelHonoured
  <1>1. SafetyInv => AcceptedCancelHonoured
    BY DEF SafetyInv
  <1> QED
    BY <1>1, Safety, PTL

-----------------------------------------------------------------------------
(* Idempotency keys.                                                        *)

\* What every function but the two enqueues leaves alone.
KeysKept ==
  \A j \in Job : /\ jobs'[j].key = jobs[j].key
                 /\ jobs'[j].state = Absent <=> jobs[j].state = Absent

\* A function that rewrites the row of one existing job, and leaves its key and
\* its existence alone, disturbs no key.
LEMMA RowKeepsKeys ==
  ASSUME TypeOK, NEW j \in Job, NEW row, jobs' = [jobs EXCEPT ![j] = row],
         row.key = jobs[j].key, row.state # Absent, jobs[j].state # Absent
  PROVE  KeysKept
  BY DEF TypeOK, KeysKept

\* Finalizing, requeueing and recovery rewrite neither the key nor the existence
\* of the row.
LEMMA ClosedKey ==
  ASSUME NEW row \in JobRow, NEW final \in JobState, NEW r \in BOOLEAN
  PROVE  /\ Closed(row, final, r).key = row.key
         /\ Closed(row, final, r).state = final
  BY DEF Closed, JobRow

\* The second update of a retry keeps the key.
LEMMA RequeuedKey ==
  ASSUME NEW row \in JobRow, NEW ts \in Nat
  PROVE  /\ Requeued(row, ts).key = row.key
         /\ Requeued(row, ts).state = "QUEUED"
  BY DEF Requeued, JobRow

\* No step of a worker, of a recovery or of a cancellation touches a key.
LEMMA OthersKeepKeys ==
  ASSUME TypeOK,
         \/ \E j \in Job : ApiCancel(j)
         \/ \E w \in Worker, j \in Job, busy \in BusySets : WorkerClaim(w, j, busy)
         \/ \E a \in Issued : \E ts \in StatementTimes(attempts[a].heartbeatAt) :
              \/ WorkerStart(a, ts)
              \/ \E phase \in {"CLAIMED", "RUNNING"} : WorkerControl(a, phase, ts)
              \/ \E f \in FinalizeInput, retry \in BOOLEAN, reason \in FinalReason :
                   WorkerFinalize(a, f[1], f[2], f[3], retry, reason, ts)
         \/ \E c \in candidates, observation \in Observation, ts \in StatementTimes(0) :
              \/ RecoverBlock(c, observation, ts)
              \/ RecoverInterrupted(c, observation, ts)
  PROVE  KeysKept
  <1>0. /\ Absent \notin JobState
        /\ Absent \notin ActiveStates
        /\ \A s \in {"CLAIMED", "RUNNING", "QUEUED", "CANCELLED", "CANCEL_REQUESTED", "BLOCKED", "FAILED",
                     "SUCCEEDED", "TIMED_OUT"} : s \in JobState /\ s # Absent
    BY DEF Absent, JobState, ActiveStates
  <1>1. ASSUME NEW j \in Job, ApiCancel(j)
        PROVE  KeysKept
    <2> DEFINE row == [jobs[j] EXCEPT !.state = CancelTarget(jobs[j].state), !.cancelRequested = TRUE]
    <2>1. jobs[j] \in JobRow
      BY DEF TypeOK
    <2>2. row.key = jobs[j].key /\ row.state # Absent
      BY <2>1, <1>0 DEF JobRow, CancelTarget
    <2>3. jobs[j].state # Absent /\ jobs' = [jobs EXCEPT ![j] = row]
      BY <1>1, <1>0 DEF ApiCancel
    <2> QED
      BY <2>2, <2>3, RowKeepsKeys
  <1>2. ASSUME NEW w \in Worker, NEW j \in Job, NEW busy \in BusySets, WorkerClaim(w, j, busy)
        PROVE  KeysKept
    <2> DEFINE row == [jobs[j] EXCEPT !.state = "CLAIMED", !.attemptCount = jobs[j].attemptCount + 1,
                              !.leaseOwner = w, !.leaseToken = lastToken',
                              !.leaseExpires = now + LeaseSeconds,
                              !.nextAttemptAt = 0]
    <2>1. jobs[j] \in JobRow
      BY DEF TypeOK
    <2>2. row.key = jobs[j].key /\ row.state # Absent
      BY <2>1, <1>0 DEF JobRow
    <2>3. jobs[j].state # Absent /\ jobs' = [jobs EXCEPT ![j] = row]
      BY <1>2, <1>0 DEF WorkerClaim, ClaimChoice, Claimable
    <2> QED
      BY <2>2, <2>3, RowKeepsKeys
  <1>3. ASSUME NEW a \in Attempt, NEW ts \in Nat, WorkerStart(a, ts)
        PROVE  KeysKept
    <2> DEFINE row == [jobs[a[1]] EXCEPT !.state = "RUNNING"]
    <2>1. a[1] \in Job /\ jobs[a[1]] \in JobRow
      BY AttemptParts, RowTypes
    <2>2. row.key = jobs[a[1]].key /\ row.state # Absent
      BY <2>1, <1>0 DEF JobRow
    <2>3. jobs[a[1]].state # Absent /\ jobs' = [jobs EXCEPT ![a[1]] = row]
      BY <1>3, <1>0 DEF WorkerStart, StartFence
    <2> QED
      BY <2>1, <2>2, <2>3, RowKeepsKeys
  <1>4. ASSUME NEW a \in Attempt, NEW ts \in Nat, NEW phase \in {"CLAIMED", "RUNNING"},
               WorkerControl(a, phase, ts)
        PROVE  KeysKept
    <2> DEFINE row == [jobs[a[1]] EXCEPT !.leaseExpires = ts + LeaseSeconds]
    <2>1. a[1] \in Job /\ jobs[a[1]] \in JobRow
      BY AttemptParts, RowTypes
    <2>2. jobs[a[1]].state # Absent /\ jobs' = [jobs EXCEPT ![a[1]] = row]
      BY <1>4, <1>0 DEF WorkerControl, ControlFence
    <2>3. row.key = jobs[a[1]].key /\ row.state = jobs[a[1]].state
      BY <2>1 DEF JobRow
    <2> QED
      BY <2>1, <2>2, <2>3, RowKeepsKeys
  <1>5. ASSUME NEW a \in Attempt, NEW ts \in Nat, NEW f \in FinalizeInput, NEW retry \in BOOLEAN,
               NEW reason \in FinalReason, WorkerFinalize(a, f[1], f[2], f[3], retry, reason, ts)
        PROVE  KeysKept
    <2> DEFINE closed == Closed(jobs[a[1]], f[3], TRUE)
               row == IF retry THEN Requeued(closed, ts) ELSE closed
    <2>1. a[1] \in Job /\ jobs[a[1]] \in JobRow
      BY AttemptParts, RowTypes
    <2>2. f[1] \in JobState /\ f[3] \in JobState
      BY <1>0 DEF FinalizeInput
    <2>3. closed \in JobRow /\ closed.key = jobs[a[1]].key /\ closed.state = f[3]
      BY <2>1, <2>2, ClosedType, ClosedKey
    <2>4. row.key = jobs[a[1]].key /\ row.state # Absent
      <3>1. CASE retry
        BY <3>1, <2>3, <1>0, RequeuedKey
      <3>2. CASE ~ retry
        BY <3>2, <2>2, <2>3, <1>0
      <3> QED
        BY <3>1, <3>2
    <2>5. jobs[a[1]].state = f[1]
      BY <1>5 DEF WorkerFinalize, FinalizeFence
    <2>6. jobs' = [jobs EXCEPT ![a[1]] = row]
      BY <1>5 DEF WorkerFinalize
    <2> HIDE DEF row
    <2> QED
      BY <1>0, <2>1, <2>2, <2>4, <2>5, <2>6, RowKeepsKeys
  <1>6. ASSUME NEW c \in Candidate, NEW observation \in Observation, NEW ts \in Nat,
               RecoverBlock(c, observation, ts) \/ RecoverInterrupted(c, observation, ts)
        PROVE  KeysKept
    <2> DEFINE j == c.attempt[1]
               final == IF ProvenInterrupted(c, observation) THEN "FAILED" ELSE "BLOCKED"
               closed == Closed(jobs[j], final, jobs[j].result)
               retry == ProvenInterrupted(c, observation) /\ jobs[j].attemptCount < MaxAttempts
               row == IF retry THEN Requeued(closed, ts) ELSE closed
    <2>1. c.attempt \in Attempt /\ c.state \in ActiveStates
      BY DEF Candidate
    <2>2. j \in Job /\ jobs[j] \in JobRow
      BY <2>1, AttemptParts, RowTypes
    <2>3. jobs[j].state # Absent
      BY <1>6, <1>0, <2>1 DEF RecoverBlock, RecoverInterrupted, RecoveryFence
    <2>4. final \in JobState /\ jobs[j].result \in BOOLEAN
      BY <1>0, <2>2 DEF JobRow
    <2>5. jobs' = [jobs EXCEPT ![j] = row]
      BY <1>6 DEF RecoverBlock, RecoverInterrupted
    <2> HIDE DEF final, j
    <2>6. closed \in JobRow /\ closed.key = jobs[j].key /\ closed.state = final
      BY <2>2, <2>4, ClosedType, ClosedKey
    <2>7. row.key = jobs[j].key /\ row.state # Absent
      <3>1. CASE retry
        BY <3>1, <2>6, <1>0, RequeuedKey
      <3>2. CASE ~ retry
        BY <3>2, <2>4, <2>6, <1>0
      <3> QED
        BY <3>1, <3>2
    <2> HIDE DEF row
    <2> QED
      BY <2>2, <2>3, <2>5, <2>7, RowKeepsKeys
  <1>7. \A a \in Issued : a \in Attempt
    BY DEF Issued
  <1>8. \A since \in Nat : \A ts \in StatementTimes(since) : ts \in Nat
    BY StatementTimeType
  <1>9. \A a \in Attempt : attempts[a].heartbeatAt \in Nat
    BY DEF TypeOK, AttemptRow
  <1>10. candidates \subseteq Candidate /\ 0 \in Nat
    BY DEF TypeOK
  <1> QED
    BY <1>1, <1>2, <1>3, <1>4, <1>5, <1>6, <1>7, <1>8, <1>9, <1>10

\* The enqueue functions add a key that no job has.
LEMMA InsertKeepsUnique ==
  ASSUME TypeOK, UniqueKeys, NEW j \in Job, NEW key, NEW actor, NEW priority, NEW actorType,
         InsertJob(j, key, actor, priority, actorType)
  PROVE  UniqueKeys'
  <1> DEFINE row == [NoJobRow EXCEPT !.state = "QUEUED", !.key = key, !.actor = actor,
                                     !.priority = priority, !.requestedAt = now]
  <1>1. row.key = key
    BY DEF NoJobRow
  <1>2. jobs' = [jobs EXCEPT ![j] = row] /\ KeyFree(key)
    BY DEF InsertJob
  <1> HIDE DEF row
  <1>3. jobs'[j] = row /\ \A k \in Job \ {j} : jobs'[k] = jobs[k]
    BY <1>2 DEF TypeOK
  <1> QED
    BY <1>1, <1>2, <1>3 DEF UniqueKeys, KeyFree

\* An idempotency key names one job for ever, for every set of jobs and keys and
\* whatever the workers, the recoveries and the cancellations do in between.
THEOREM UniqueKeysHold == Spec => []UniqueKeys
  <1>1. Init => UniqueKeys
    BY DEF Init, UniqueKeys, NoJobRow
  <1>2. TypeOK /\ UniqueKeys /\ [Next]_vars => UniqueKeys'
    <2> SUFFICES ASSUME TypeOK, UniqueKeys, [Next]_vars
                 PROVE  UniqueKeys'
      OBVIOUS
    <2>1. CASE jobs' = jobs
      BY <2>1 DEF UniqueKeys
    <2>2. CASE \E j \in Job, actor \in Actor :
                 \/ \E key \in OperatorKey, priority \in Priority : ApiEnqueue(j, key, actor, priority)
                 \/ \E key \in ScheduleKey : ScheduleEnqueue(j, key, actor)
      BY <2>2, InsertKeepsUnique DEF ApiEnqueue, ScheduleEnqueue
    <2>3. CASE KeysKept
      BY <2>3 DEF UniqueKeys, KeysKept
    <2> QED
      BY <2>1, <2>2, <2>3, OthersKeepKeys DEF Next, vars, Tick, RecoveryScan
  <1> QED
    BY <1>1, <1>2, TypeCorrect, PTL DEF Spec

-----------------------------------------------------------------------------
(* Ended attempts.                                                          *)

\* A function that changes an attempt row changes one that is claimed or
\* running, and worker_claim fills a row that did not exist.
LEMMA OneAttemptChanged ==
  ASSUME NEW a \in Attempt,
         attempts[a].outcome \in {NoOutcome, "CLAIMED", "RUNNING"},
         \A b \in Attempt \ {a} : attempts'[b] = attempts[b]
  PROVE  EndedAttemptsKept
  BY DEF EndedAttemptsKept

\* A claim never reuses the row of an earlier attempt.
LEMMA ClaimedRowIsNew ==
  ASSUME SafetyInv, NEW j \in Job, jobs[j].attemptCount < MaxAttempts
  PROVE  /\ <<j, jobs[j].attemptCount + 1>> \in Attempt
         /\ attempts[<<j, jobs[j].attemptCount + 1>>].outcome = NoOutcome
  <1> DEFINE n == jobs[j].attemptCount + 1
  <1>1. jobs[j] \in JobRow
    BY DEF SafetyInv, TypeOK
  <1>2. jobs[j].attemptCount \in Nat /\ n \in 1 .. MaxAttempts
    BY <1>1, JobPlaneAssumption DEF JobRow
  <1>3. <<j, n>> \in Attempt
    BY <1>2 DEF Attempt
  <1>4. Owned(jobs[j], attempts[<<j, n>>], n)
    BY <1>3 DEF SafetyInv, OwnershipConsistent
  <1>5. ~ (n =< jobs[j].attemptCount)
    BY <1>2
  <1> QED
    BY <1>3, <1>4, <1>5 DEF Owned

\* No step changes the row of an ended attempt.
LEMMA FrozenStep ==
  ASSUME SafetyInv, Next
  PROVE  EndedAttemptsKept
  <1>1. ASSUME attempts' = attempts
        PROVE  EndedAttemptsKept
    BY <1>1 DEF EndedAttemptsKept
  <1> attempts \in [Attempt -> AttemptRow]
    BY DEF SafetyInv, TypeOK
  <1>2. CASE Tick \/ RecoveryScan
    BY <1>1, <1>2 DEF Tick, RecoveryScan
  <1>3. CASE \E j \in Job, actor \in Actor :
               \/ \E key \in OperatorKey, priority \in Priority :
                    ApiEnqueue(j, key, actor, priority)
               \/ \E key \in ScheduleKey : ScheduleEnqueue(j, key, actor)
    BY <1>1, <1>3 DEF ApiEnqueue, ScheduleEnqueue, InsertJob
  <1>4. CASE \E j \in Job : ApiCancel(j)
    BY <1>1, <1>4 DEF ApiCancel
  <1>5. ASSUME NEW w \in Worker, NEW j \in Job, NEW busy \in BusySets, WorkerClaim(w, j, busy)
        PROVE  EndedAttemptsKept
    <2> DEFINE n == jobs[j].attemptCount + 1
               att == [outcome |-> "CLAIMED", worker |-> w, token |-> lastToken',
                       leaseExpires |-> now + LeaseSeconds, heartbeatAt |-> now,
                       child |-> FALSE]
    <2>1. attempts' = [attempts EXCEPT ![<<j, n>>] = att] /\ jobs[j].attemptCount < MaxAttempts
      BY <1>5 DEF WorkerClaim, ClaimChoice, Claimable
    <2>2. <<j, n>> \in Attempt /\ attempts[<<j, n>>].outcome = NoOutcome
      BY <2>1, ClaimedRowIsNew
    <2> HIDE DEF att, n
    <2>3. \A b \in Attempt \ {<<j, n>>} : attempts'[b] = attempts[b]
      BY <2>1
    <2> QED
      BY <2>2, <2>3, OneAttemptChanged
  <1>6. ASSUME NEW a \in Attempt, NEW ts, WorkerStart(a, ts)
        PROVE  EndedAttemptsKept
    BY <1>6, OneAttemptChanged DEF WorkerStart, StartFence
  <1>7. ASSUME NEW a \in Attempt, NEW ts, NEW phase \in {"CLAIMED", "RUNNING"},
               WorkerControl(a, phase, ts)
        PROVE  EndedAttemptsKept
    BY <1>7, OneAttemptChanged DEF WorkerControl, ControlFence
  <1>8. ASSUME NEW a \in Attempt, NEW ts, NEW f \in FinalizeInput,
               NEW retry \in BOOLEAN, NEW reason \in FinalReason,
               WorkerFinalize(a, f[1], f[2], f[3], retry, reason, ts)
        PROVE  EndedAttemptsKept
    <2>1. f[2] \in {"CLAIMED", "RUNNING"}
      BY DEF FinalizeInput
    <2> QED
      BY <1>8, <2>1, OneAttemptChanged DEF WorkerFinalize, FinalizeFence
  <1>9. ASSUME NEW c \in candidates, NEW observation, NEW ts,
               RecoverBlock(c, observation, ts) \/ RecoverInterrupted(c, observation, ts)
        PROVE  EndedAttemptsKept
    <2>1. c.attempt \in Attempt /\ attempts[c.attempt].outcome \in {"CLAIMED", "RUNNING"}
      BY <1>9, CandidateParts DEF RecoverBlock, RecoverInterrupted, RecoveryFence, SafetyInv
    <2> QED
      BY <1>9, <2>1, OneAttemptChanged DEF RecoverBlock, RecoverInterrupted
  <1> QED
    BY <1>2, <1>3, <1>4, <1>5, <1>6, <1>7, <1>8, <1>9 DEF Next, Issued

\* For every instance: a late call of a superseded worker, or a second
\* recovery, never rewrites the history of an attempt that has ended.
THEOREM Frozen == Spec => EndedAttemptsFrozen
  <1>1. SafetyInv /\ [Next]_vars => [EndedAttemptsKept]_vars
    BY FrozenStep
  <1> QED
    BY <1>1, Safety, PTL DEF Spec, EndedAttemptsFrozen

-----------------------------------------------------------------------------
(* Refinement.  A step changes at most one row of jobs.                     *)

BarState == [j \in Job |-> jobs[j].state]
BarCount == [j \in Job |-> jobs[j].attemptCount]

\* The image of a step that changes one row.
LEMMA BarStep ==
  ASSUME NEW j \in Job, \A k \in Job \ {j} : jobs'[k] = jobs[k]
  PROVE  /\ BarState' = [BarState EXCEPT ![j] = jobs'[j].state]
         /\ BarCount' = [BarCount EXCEPT ![j] = jobs'[j].attemptCount]
  BY DEF BarState, BarCount

\* A step that keeps the state and the count of every job is a stuttering step.
LEMMA LifecycleStutter ==
  ASSUME NEW j \in Job, \A k \in Job \ {j} : jobs'[k] = jobs[k],
         jobs'[j].state = jobs[j].state, jobs'[j].attemptCount = jobs[j].attemptCount
  PROVE  UNCHANGED Lifecycle!lifecycleVars
  BY DEF Lifecycle!lifecycleVars

\* The insertion of a job is Create.
LEMMA LifecycleCreate ==
  ASSUME NEW j \in Job, \A k \in Job \ {j} : jobs'[k] = jobs[k],
         jobs[j].state = Absent, jobs'[j].state = "QUEUED",
         jobs'[j].attemptCount = jobs[j].attemptCount
  PROVE  Lifecycle!LNext
  <1>1. Lifecycle!Create(j)
    BY BarStep DEF Lifecycle!Create, BarState, BarCount, Lifecycle!Absent, Absent
  <1> QED
    BY <1>1 DEF Lifecycle!LNext

\* A claim is Take.
LEMMA LifecycleTake ==
  ASSUME NEW j \in Job, \A k \in Job \ {j} : jobs'[k] = jobs[k],
         jobs[j].state = "QUEUED", jobs'[j].state = "CLAIMED",
         jobs[j].attemptCount < MaxAttempts,
         jobs'[j].attemptCount = jobs[j].attemptCount + 1
  PROVE  Lifecycle!LNext
  <1>1. Lifecycle!Take(j)
    <2>1. Lifecycle!ValidTransition(jobs[j].state, "CLAIMED", FALSE)
      BY DEF Lifecycle!ValidTransition, Lifecycle!OrdinaryTransitions
    <2> QED
      BY <2>1, BarStep DEF Lifecycle!Take, BarState, BarCount
  <1> QED
    BY <1>1 DEF Lifecycle!LNext

\* Cancellation, start and the end of an execution are Advance.
LEMMA LifecycleAdvance ==
  ASSUME NEW j \in Job, \A k \in Job \ {j} : jobs'[k] = jobs[k],
         <<jobs[j].state, jobs'[j].state>> \in OrdinaryTransitions \ {<<"QUEUED", "CLAIMED">>},
         jobs'[j].attemptCount = jobs[j].attemptCount
  PROVE  Lifecycle!LNext
  <1>1. PICK target \in Lifecycle!JobState : target = jobs'[j].state
    BY DEF OrdinaryTransitions, Lifecycle!JobState
  <1>2. target # "CLAIMED" /\ Lifecycle!ValidTransition(jobs[j].state, target, FALSE)
    BY <1>1 DEF OrdinaryTransitions, Lifecycle!ValidTransition, Lifecycle!OrdinaryTransitions
  <1>3. Lifecycle!Advance(j, target)
    BY <1>1, <1>2, BarStep DEF Lifecycle!Advance, BarState, BarCount
  <1> QED
    BY <1>3 DEF Lifecycle!LNext

\* An execution that ends with a retry is EndAndRequeue.
LEMMA LifecycleRequeue ==
  ASSUME NEW j \in Job, \A k \in Job \ {j} : jobs'[k] = jobs[k],
         NEW ended \in {"FAILED", "TIMED_OUT"},
         jobs[j].state = "RUNNING", jobs'[j].state = "QUEUED",
         jobs[j].attemptCount < MaxAttempts,
         jobs'[j].attemptCount = jobs[j].attemptCount
  PROVE  Lifecycle!LNext
  <1>1. /\ Lifecycle!ValidTransition(jobs[j].state, ended, FALSE)
        /\ Lifecycle!ValidTransition(ended, "QUEUED", jobs[j].attemptCount < MaxAttempts)
    BY DEF Lifecycle!ValidTransition, Lifecycle!OrdinaryTransitions, Lifecycle!RetryTransitions
  <1>2. Lifecycle!EndAndRequeue(j, ended)
    BY <1>1, BarStep DEF Lifecycle!EndAndRequeue, BarState, BarCount
  <1>3. ended \in Lifecycle!TerminalStates
    BY DEF Lifecycle!TerminalStates
  <1> QED
    BY <1>2, <1>3 DEF Lifecycle!LNext

\* The end of an attempt, by its worker or by a recovery, is a lifecycle step.
LEMMA LifecycleClose ==
  ASSUME SafetyInv, NEW a \in Attempt, NEW ts, NEW final, NEW hasResult, NEW retry \in BOOLEAN,
         <<jobs[a[1]].state, final>> \in OrdinaryTransitions \ {<<"QUEUED", "CLAIMED">>},
         retry => /\ jobs[a[1]].state = "RUNNING"
                  /\ final \in {"FAILED", "TIMED_OUT"}
                  /\ jobs[a[1]].attemptCount < MaxAttempts,
         jobs' = [jobs EXCEPT ![a[1]] =
                    IF retry THEN Requeued(Closed(jobs[a[1]], final, hasResult), ts)
                             ELSE Closed(jobs[a[1]], final, hasResult)]
  PROVE  Lifecycle!LNext
  <1> DEFINE j == a[1]
             closed == Closed(jobs[j], final, hasResult)
  <1>1. j \in Job /\ jobs[j] \in JobRow /\ jobs \in [Job -> JobRow]
    BY HandleFacts DEF SafetyInv, TypeOK
  <1>2. /\ closed.state = final
        /\ closed.attemptCount = jobs[j].attemptCount
        /\ Requeued(closed, ts).state = "QUEUED"
        /\ Requeued(closed, ts).attemptCount = jobs[j].attemptCount
    BY <1>1 DEF Closed, Requeued, JobRow
  <1>3. jobs'[j] = IF retry THEN Requeued(closed, ts) ELSE closed
    BY <1>1
  <1>4. \A k \in Job \ {j} : jobs'[k] = jobs[k]
    BY <1>1
  <1> HIDE DEF closed, j
  <1>5. CASE retry
    <2>1. /\ jobs[j].state = "RUNNING" /\ jobs'[j].state = "QUEUED"
          /\ final \in {"FAILED", "TIMED_OUT"}
          /\ jobs[j].attemptCount < MaxAttempts
          /\ jobs'[j].attemptCount = jobs[j].attemptCount
      BY <1>2, <1>3, <1>5 DEF j
    <2> QED
      BY <1>1, <1>4, <2>1, LifecycleRequeue
  <1>6. CASE ~ retry
    <2>1. /\ <<jobs[j].state, jobs'[j].state>> \in OrdinaryTransitions \ {<<"QUEUED", "CLAIMED">>}
          /\ jobs'[j].attemptCount = jobs[j].attemptCount
      BY <1>2, <1>3, <1>6 DEF j
    <2> QED
      BY <1>1, <1>4, <2>1, LifecycleAdvance
  <1> QED
    BY <1>5, <1>6

\* Every step of every function is a lifecycle step of one job or a stutter.
LEMMA LifecycleStep ==
  ASSUME SafetyInv, Next
  PROVE  Lifecycle!LNext \/ UNCHANGED Lifecycle!lifecycleVars
  <1> jobs \in [Job -> JobRow]
    BY DEF SafetyInv, TypeOK
  <1>1. CASE Tick \/ RecoveryScan
    BY <1>1 DEF Tick, RecoveryScan, Lifecycle!lifecycleVars
  <1>2. ASSUME NEW j \in Job, NEW key, NEW actor, NEW priority, NEW actorType,
               InsertJob(j, key, actor, priority, actorType)
        PROVE  Lifecycle!LNext
    <2>1. jobs[j].state = Absent /\ \A k \in Job \ {j} : jobs'[k] = jobs[k]
      BY <1>2 DEF InsertJob
    <2>2. jobs'[j].state = "QUEUED" /\ jobs'[j].attemptCount = 0
      BY <1>2 DEF InsertJob, NoJobRow
    <2>3. <<j, 1>> \in Attempt
      BY JobPlaneAssumption DEF Attempt
    <2>4. Owned(jobs[j], attempts[<<j, 1>>], 1)
      BY <2>3, HandleFacts
    <2>5. jobs[j].attemptCount = 0
      BY <2>1, <2>4 DEF Owned
    <2> QED
      BY <2>1, <2>2, <2>5, LifecycleCreate
  <1>3. ASSUME NEW j \in Job, ApiCancel(j)
        PROVE  Lifecycle!LNext
    <2>1. jobs[j].state \in {"QUEUED", "CLAIMED", "RUNNING"}
           /\ \A k \in Job \ {j} : jobs'[k] = jobs[k]
      BY <1>3 DEF ApiCancel
    <2>2. /\ jobs'[j].state = CancelTarget(jobs[j].state)
          /\ jobs'[j].attemptCount = jobs[j].attemptCount
      BY <1>3 DEF ApiCancel, JobRow
    <2>3. <<jobs[j].state, CancelTarget(jobs[j].state)>>
            \in OrdinaryTransitions \ {<<"QUEUED", "CLAIMED">>}
      BY <2>1 DEF CancelTarget, OrdinaryTransitions
    <2> QED
      BY <2>1, <2>2, <2>3, LifecycleAdvance
  <1>4. ASSUME NEW w \in Worker, NEW j \in Job, NEW busy \in BusySets, WorkerClaim(w, j, busy)
        PROVE  Lifecycle!LNext
    <2>1. jobs[j].state = "QUEUED" /\ jobs[j].attemptCount < MaxAttempts
      BY <1>4 DEF WorkerClaim, ClaimChoice, Claimable
    <2>2. \A k \in Job \ {j} : jobs'[k] = jobs[k]
      BY <1>4 DEF WorkerClaim
    <2>3. jobs'[j].state = "CLAIMED" /\ jobs'[j].attemptCount = jobs[j].attemptCount + 1
      BY <1>4 DEF WorkerClaim, JobRow
    <2> QED
      BY <2>1, <2>2, <2>3, LifecycleTake
  <1>5. ASSUME NEW a \in Attempt, NEW ts, WorkerStart(a, ts)
        PROVE  Lifecycle!LNext
    <2> DEFINE j == a[1]
    <2>1. j \in Job /\ jobs[j].state = "CLAIMED"
      BY <1>5, HandleFacts DEF WorkerStart, StartFence
    <2>2. \A k \in Job \ {j} : jobs'[k] = jobs[k]
      BY <1>5 DEF WorkerStart
    <2>3. jobs'[j].state = "RUNNING" /\ jobs'[j].attemptCount = jobs[j].attemptCount
      BY <1>5, <2>1 DEF WorkerStart, JobRow
    <2>4. <<"CLAIMED", "RUNNING">> \in OrdinaryTransitions \ {<<"QUEUED", "CLAIMED">>}
      BY DEF OrdinaryTransitions
    <2> QED
      BY <2>1, <2>2, <2>3, <2>4, LifecycleAdvance
  <1>6. ASSUME NEW a \in Attempt, NEW ts, NEW phase, WorkerControl(a, phase, ts)
        PROVE  UNCHANGED Lifecycle!lifecycleVars
    <2> DEFINE j == a[1]
    <2>1. j \in Job
      BY HandleFacts
    <2>2. \A k \in Job \ {j} : jobs'[k] = jobs[k]
      BY <1>6 DEF WorkerControl
    <2>3. jobs'[j].state = jobs[j].state /\ jobs'[j].attemptCount = jobs[j].attemptCount
      BY <1>6, <2>1 DEF WorkerControl, JobRow
    <2> QED
      BY <2>1, <2>2, <2>3, LifecycleStutter
  <1>7. ASSUME NEW a \in Attempt, NEW ts, NEW f \in FinalizeInput,
               NEW retry \in BOOLEAN, NEW reason \in FinalReason,
               WorkerFinalize(a, f[1], f[2], f[3], retry, reason, ts)
        PROVE  Lifecycle!LNext
    <2>1. /\ jobs[a[1]].state = f[1]
          /\ <<f[1], f[3]>> \in OrdinaryTransitions \ {<<"QUEUED", "CLAIMED">>}
      BY <1>7, FinalizeInputTypes DEF WorkerFinalize, FinalizeFence, ActiveStates
    <2>2. f[3] \in {"FAILED", "TIMED_OUT"} => f[1] = "RUNNING"
      BY DEF FinalizeInput
    <2>3. retry => /\ f[3] \in {"FAILED", "TIMED_OUT"}
                   /\ jobs[a[1]].attemptCount < MaxAttempts
      BY <1>7 DEF WorkerFinalize
    <2>4. jobs' = [jobs EXCEPT ![a[1]] =
                     IF retry THEN Requeued(Closed(jobs[a[1]], f[3], TRUE), ts)
                              ELSE Closed(jobs[a[1]], f[3], TRUE)]
      BY <1>7 DEF WorkerFinalize
    <2> QED
      BY <2>1, <2>2, <2>3, <2>4, LifecycleClose, Zenon
  <1>8. ASSUME NEW c \in candidates, NEW observation, NEW ts, RecoverBlock(c, observation, ts)
        PROVE  Lifecycle!LNext
    <2> DEFINE a == c.attempt
    <2>1. a \in Attempt /\ jobs[a[1]].state \in ActiveStates
      BY <1>8, CandidateParts DEF RecoverBlock, RecoveryFence, SafetyInv
    <2>2. <<jobs[a[1]].state, "BLOCKED">> \in OrdinaryTransitions \ {<<"QUEUED", "CLAIMED">>}
      BY <2>1 DEF OrdinaryTransitions, ActiveStates
    <2>3. jobs' = [jobs EXCEPT ![a[1]] =
                     IF FALSE THEN Requeued(Closed(jobs[a[1]], "BLOCKED", jobs[a[1]].result), ts)
                              ELSE Closed(jobs[a[1]], "BLOCKED", jobs[a[1]].result)]
      BY <1>8 DEF RecoverBlock
    <2>4. FALSE \in BOOLEAN
      OBVIOUS
    <2> HIDE DEF a
    <2> QED
      BY <2>1, <2>2, <2>3, <2>4, LifecycleClose
  <1>9. ASSUME NEW c \in candidates, NEW observation, NEW ts,
               RecoverInterrupted(c, observation, ts)
        PROVE  Lifecycle!LNext
    <2> DEFINE a == c.attempt
               retry == jobs[a[1]].attemptCount < MaxAttempts
    <2>1. a \in Attempt /\ jobs[a[1]].state = "RUNNING"
      BY <1>9, CandidateParts DEF RecoverInterrupted, ProvenInterrupted, SafetyInv
    <2>2. <<jobs[a[1]].state, "FAILED">> \in OrdinaryTransitions \ {<<"QUEUED", "CLAIMED">>}
      BY <2>1 DEF OrdinaryTransitions
    <2>3. jobs' = [jobs EXCEPT ![a[1]] =
                     IF retry THEN Requeued(Closed(jobs[a[1]], "FAILED", jobs[a[1]].result), ts)
                              ELSE Closed(jobs[a[1]], "FAILED", jobs[a[1]].result)]
      BY <1>9 DEF RecoverInterrupted
    <2>4. retry \in BOOLEAN /\ (retry => jobs[a[1]].attemptCount < MaxAttempts)
      OBVIOUS
    <2>5. "FAILED" \in {"FAILED", "TIMED_OUT"}
      OBVIOUS
    <2> HIDE DEF a, retry
    <2> QED
      BY <2>1, <2>2, <2>3, <2>4, <2>5, LifecycleClose
  <1> QED
    BY <1>1, <1>2, <1>3, <1>4, <1>5, <1>6, <1>7, <1>8, <1>9
       DEF Next, Issued, ApiEnqueue, ScheduleEnqueue

\* For every instance: the functions of 0006 implement the lifecycle that the
\* transition policy of packages/job_contracts promises.
THEOREM Refinement == Spec => ImplementsLifecycle
  <1>1. Init => Lifecycle!LInit
    BY DEF Init, NoJobRow, Lifecycle!LInit, Lifecycle!Absent, Absent
  <1>2. SafetyInv /\ [Next]_vars => [Lifecycle!LNext]_(Lifecycle!lifecycleVars)
    <2>1. CASE UNCHANGED vars
      BY <2>1 DEF vars, Lifecycle!lifecycleVars
    <2> QED
      BY <2>1, LifecycleStep
  <1> QED
    BY <1>1, <1>2, Safety, PTL DEF Spec, ImplementsLifecycle, Lifecycle!LSpec
=============================================================================
