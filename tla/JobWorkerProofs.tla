---------------------------- MODULE JobWorkerProofs ----------------------------
(***************************************************************************)
(* Proofs about the worker services, for any jobs, any number of workers   *)
(* and any bounds: composed with the job plane they implement it, and a    *)
(* child that is alive belongs to the latest attempt of an owned or        *)
(* blocked job.  For the profiles that store a result outside the job      *)
(* tables: the result is durable before a job succeeds, and no attempt     *)
(* executes the engine again once there is one.                            *)
(***************************************************************************)
EXTENDS JobIngestion, JobEventChainProofs

-----------------------------------------------------------------------------
(* What a call of the job plane does to attempts.                           *)

HeldStates == ActiveStates \cup {"BLOCKED"}

\* The latest attempt of a job that is owned or blocked.
Current(a) == a[2] = jobs[a[1]].attemptCount /\ jobs[a[1]].state \in HeldStates

IsIssued(a) == attempts[a].outcome # NoOutcome

\* A call gives up the attempts in E and records the child of those in S; it takes no issued
\* attempt away from its worker and forgets no candidate.
Effects(E, S) ==
  /\ \A a \in Attempt : IsIssued(a) =>
       attempts'[a].outcome # NoOutcome /\ attempts'[a].worker = attempts[a].worker
  /\ \A a \in Attempt \ S : attempts'[a].child => attempts[a].child
  /\ \A a \in Attempt \ E : Current(a) =>
       a[2] = jobs'[a[1]].attemptCount /\ jobs'[a[1]].state \in HeldStates
  /\ candidates \subseteq candidates'

\* A call that leaves jobs and attempts as they are.
LEMMA EffectsNone ==
  ASSUME jobs' = jobs, attempts' = attempts, candidates \subseteq candidates'
  PROVE  Effects({}, {})
  BY DEF Effects, Current, IsIssued

\* A call that rewrites the row of a job and the row of its attempt a.
LEMMA EffectsRow ==
  ASSUME TypeOK, NEW a \in Attempt, NEW row, NEW att, NEW E, NEW S,
         jobs' = [jobs EXCEPT ![a[1]] = row], attempts' = [attempts EXCEPT ![a] = att],
         candidates' = candidates,
         row.attemptCount = jobs[a[1]].attemptCount,
         att.worker = attempts[a].worker, att.outcome # NoOutcome,
         a \in S \/ (att.child => attempts[a].child),
         row.state \in HeldStates \/ (a \in E /\ jobs[a[1]].attemptCount = a[2])
  PROVE  Effects(E, S)
  <1>1. a[1] \in Job
    BY AttemptParts
  <1>2. /\ \A b \in Attempt : attempts'[b] = IF b = a THEN att ELSE attempts[b]
        /\ \A j \in Job : jobs'[j] = IF j = a[1] THEN row ELSE jobs[j]
    BY <1>1 DEF TypeOK
  <1>3. ASSUME NEW b \in Attempt \ E, Current(b)
        PROVE  b[2] = jobs'[b[1]].attemptCount /\ jobs'[b[1]].state \in HeldStates
    <2>1. b[1] \in Job /\ b = <<b[1], b[2]>> /\ a = <<a[1], a[2]>>
      BY <1>3, AttemptParts DEF Attempt
    <2>2. b[1] = a[1] /\ row.state \notin HeldStates => b = a
      BY <1>3, <2>1 DEF Current
    <2> QED
      BY <1>2, <1>3, <2>1, <2>2 DEF Current
  <1> QED
    BY <1>2, <1>3 DEF Effects, IsIssued

\* Requests of operators: a new job has no attempt, and a cancelled one keeps its attempt.
LEMMA EffectsOperator ==
  ASSUME SafetyInv, Operator
  PROVE  Effects({}, {})
  <1>1. ASSUME NEW j \in Job, NEW row, row.attemptCount = jobs[j].attemptCount,
               jobs[j].state \in HeldStates => row.state \in HeldStates,
               jobs' = [jobs EXCEPT ![j] = row], attempts' = attempts, candidates' = candidates
        PROVE  Effects({}, {})
    <2>1. \A i \in Job : jobs'[i] = IF i = j THEN row ELSE jobs[i]
      BY <1>1 DEF SafetyInv, TypeOK
    <2>2. \A a \in Attempt : a[1] \in Job
      BY AttemptParts
    <2> QED
      BY <1>1, <2>1, <2>2 DEF Effects, Current, IsIssued
  <1>2. ASSUME NEW j \in Job, NEW key, NEW actor, NEW priority, ApiEnqueue(j, key, actor, priority)
        PROVE  Effects({}, {})
    <2> DEFINE row == [NoJobRow EXCEPT !.state = "QUEUED", !.key = key, !.actor = actor,
                                       !.priority = priority, !.requestedAt = now]
    <2>1. /\ jobs[j].state = Absent /\ jobs' = [jobs EXCEPT ![j] = row]
          /\ attempts' = attempts /\ candidates' = candidates
      BY <1>2 DEF ApiEnqueue, InsertJob
    <2>2. row.attemptCount = 0 /\ Absent \notin HeldStates
      BY DEF NoJobRow, HeldStates, ActiveStates, Absent
    <2>3. jobs[j].attemptCount = 0
      <3>1. <<j, 1>> \in Attempt
        BY JobPlaneAssumption DEF Attempt
      <3>2. Owned(jobs[j], attempts[<<j, 1>>], 1)
        BY <3>1 DEF SafetyInv, OwnershipConsistent
      <3> QED
        BY <2>1, <3>2 DEF Owned
    <2> HIDE DEF row
    <2> QED
      BY <1>1, <2>1, <2>2, <2>3
  <1>3. ASSUME NEW j \in Job, ApiCancel(j) PROVE Effects({}, {})
    <2> DEFINE row == [jobs[j] EXCEPT !.state = CancelTarget(jobs[j].state), !.cancelRequested = TRUE]
    <2>1. /\ jobs[j].state \in {"QUEUED", "CLAIMED", "RUNNING"} /\ jobs' = [jobs EXCEPT ![j] = row]
          /\ attempts' = attempts /\ candidates' = candidates
      BY <1>3 DEF ApiCancel
    <2>2. jobs[j] \in JobRow
      BY DEF SafetyInv, TypeOK
    <2>3. row.attemptCount = jobs[j].attemptCount /\ row.state = CancelTarget(jobs[j].state)
      BY <2>2 DEF JobRow
    <2>4. jobs[j].state \in HeldStates => row.state \in HeldStates
      BY <2>1, <2>3 DEF HeldStates, ActiveStates, CancelTarget
    <2> HIDE DEF row
    <2> QED
      BY <1>1, <2>1, <2>3, <2>4
  <1> QED
    BY <1>2, <1>3 DEF Operator

\* A claim creates the next attempt of a queued job.
LEMMA EffectsClaim ==
  ASSUME SafetyInv, NEW w \in Worker, NEW j \in Job, NEW busy, WorkerClaim(w, j, busy),
         NEW a, a = <<j, jobs[j].attemptCount + 1>>
  PROVE  /\ Effects({}, {})
         /\ a \in Attempt /\ ~IsIssued(a)
         /\ attempts'[a].worker = w /\ attempts'[a].outcome # NoOutcome
         /\ a[2] = jobs'[a[1]].attemptCount /\ jobs'[a[1]].state \in HeldStates
         /\ jobs[j].state = "QUEUED"
  <1> DEFINE n == jobs[j].attemptCount + 1
             row == [jobs[j] EXCEPT !.state = "CLAIMED", !.attemptCount = n, !.leaseOwner = w,
                                    !.leaseToken = lastToken',
                                    !.leaseExpires = now + LeaseSeconds, !.nextAttemptAt = 0]
             att == [outcome |-> "CLAIMED", worker |-> w, token |-> lastToken',
                     leaseExpires |-> now + LeaseSeconds, heartbeatAt |-> now, child |-> FALSE]
  <1>1. /\ jobs[j].state = "QUEUED" /\ jobs[j].attemptCount < MaxAttempts
        /\ jobs' = [jobs EXCEPT ![j] = row] /\ attempts' = [attempts EXCEPT ![a] = att]
        /\ candidates' = candidates
    BY DEF WorkerClaim, ClaimChoice, Claimable
  <1>2. jobs[j] \in JobRow /\ jobs[j].attemptCount \in Nat
    BY DEF SafetyInv, TypeOK, JobRow
  <1>3. a \in Attempt /\ a[1] = j /\ a[2] = n /\ n \in Nat
    BY <1>1, <1>2, JobPlaneAssumption DEF Attempt
  <1>4. ~IsIssued(a)
    <2>1. Owned(jobs[j], attempts[a], n)
      BY <1>3 DEF SafetyInv, OwnershipConsistent
    <2> QED
      BY <1>2, <2>1 DEF Owned, IsIssued
  <1>5. row.attemptCount = n /\ row.state = "CLAIMED" /\ "QUEUED" \notin HeldStates
    BY <1>2 DEF JobRow, HeldStates, ActiveStates
  <1>6. /\ att.outcome = "CLAIMED" /\ att.worker = w /\ att.child = FALSE /\ "CLAIMED" # NoOutcome
        /\ "CLAIMED" \in HeldStates
    BY DEF NoOutcome, HeldStates, ActiveStates
  <1> HIDE DEF row, att, n
  <1>7. /\ \A b \in Attempt : attempts'[b] = IF b = a THEN att ELSE attempts[b]
        /\ \A i \in Job : jobs'[i] = IF i = j THEN row ELSE jobs[i]
    BY <1>1, <1>3 DEF SafetyInv, TypeOK
  <1>8. \A b \in Attempt : b[1] \in Job
    BY AttemptParts
  <1>9. Effects({}, {})
    BY <1>1, <1>4, <1>5, <1>6, <1>7, <1>8 DEF Effects, Current, IsIssued
  <1> QED
    BY <1>1, <1>3, <1>4, <1>5, <1>6, <1>7, <1>9

\* worker_start records the child of the attempt.
LEMMA EffectsStart ==
  ASSUME SafetyInv, NEW a \in Attempt, NEW ts, WorkerStart(a, ts)
  PROVE  Effects({}, {a})
  <1> DEFINE row == [jobs[a[1]] EXCEPT !.state = "RUNNING"]
             att == [attempts[a] EXCEPT !.outcome = "RUNNING", !.heartbeatAt = ts, !.child = TRUE]
  <1>1. /\ jobs' = [jobs EXCEPT ![a[1]] = row] /\ attempts' = [attempts EXCEPT ![a] = att]
        /\ candidates' = candidates
    BY DEF WorkerStart
  <1>2. jobs[a[1]] \in JobRow /\ attempts[a] \in AttemptRow /\ TypeOK
    BY RowTypes DEF SafetyInv
  <1>3. row.attemptCount = jobs[a[1]].attemptCount /\ row.state = "RUNNING"
    BY <1>2 DEF JobRow
  <1>4. att.worker = attempts[a].worker /\ att.outcome = "RUNNING"
    BY <1>2 DEF AttemptRow
  <1>5. "RUNNING" # NoOutcome /\ "RUNNING" \in HeldStates
    BY DEF NoOutcome, HeldStates, ActiveStates
  <1> HIDE DEF row, att
  <1> QED
    BY <1>1, <1>2, <1>3, <1>4, <1>5, EffectsRow

\* A control call renews the lease and nothing else.
LEMMA EffectsControl ==
  ASSUME SafetyInv, NEW a \in Attempt, NEW ts, NEW phase \in {"CLAIMED", "RUNNING"},
         WorkerControl(a, phase, ts)
  PROVE  Effects({}, {})
  <1> DEFINE row == [jobs[a[1]] EXCEPT !.leaseExpires = ts + LeaseSeconds]
             att == [attempts[a] EXCEPT !.leaseExpires = ts + LeaseSeconds, !.heartbeatAt = ts]
  <1>1. /\ jobs' = [jobs EXCEPT ![a[1]] = row] /\ attempts' = [attempts EXCEPT ![a] = att]
        /\ candidates' = candidates /\ ControlFence(a, phase, ts)
    BY DEF WorkerControl
  <1>2. jobs[a[1]] \in JobRow /\ attempts[a] \in AttemptRow /\ TypeOK
    BY RowTypes DEF SafetyInv
  <1>3. row.attemptCount = jobs[a[1]].attemptCount /\ row.state = jobs[a[1]].state
    BY <1>2 DEF JobRow
  <1>4. /\ att.worker = attempts[a].worker /\ att.outcome = attempts[a].outcome
        /\ att.child = attempts[a].child
    BY <1>2 DEF AttemptRow
  <1>5. jobs[a[1]].state \in HeldStates /\ attempts[a].outcome # NoOutcome
    BY <1>1 DEF ControlFence, NoOutcome, HeldStates, ActiveStates
  <1> HIDE DEF row, att
  <1> QED
    BY <1>1, <1>2, <1>3, <1>4, <1>5, EffectsRow

\* What closing and requeueing leave of a row of jobs.
LEMMA ClosedRow ==
  ASSUME NEW row \in JobRow, NEW final \in JobState, NEW result \in BOOLEAN, NEW ts
  PROVE  /\ Closed(row, final, result).attemptCount = row.attemptCount
         /\ Closed(row, final, result).state = final
         /\ Requeued(Closed(row, final, result), ts).attemptCount = row.attemptCount
         /\ Requeued(Closed(row, final, result), ts).state = "QUEUED"
  <1>1. Closed(row, final, result) \in JobRow
    BY ClosedType
  <1>2. /\ Closed(row, final, result).attemptCount = row.attemptCount
        /\ Closed(row, final, result).state = final
    BY DEF Closed, JobRow
  <1> QED
    BY <1>1, <1>2 DEF Requeued, JobRow

\* The finalization that plan p asks for.
FinalizeCall(a, p, ts) == WorkerFinalize(a, p[1], p[2], p[3], p[4], p[5], ts)

\* A finalization gives its attempt up, unless it blocks the job.
LEMMA EffectsFinalize ==
  ASSUME SafetyInv, NEW a \in Attempt, NEW ts, NEW p \in Plan, FinalizeCall(a, p, ts)
  PROVE  /\ Effects({a}, {})
         /\ p[3] = "BLOCKED" => Effects({}, {})
         /\ jobs[a[1]].attemptCount = a[2] /\ jobs'[a[1]].attemptCount = a[2]
         /\ jobs'[a[1]].state = IF p[4] THEN "QUEUED" ELSE p[3]
         /\ \A j \in Job \ {a[1]} : jobs'[j] = jobs[j]
         /\ attempts'[a].outcome = p[3] /\ \A b \in Attempt \ {a} : attempts'[b] = attempts[b]
  <1>0. PICK retry \in BOOLEAN : retry = p[4]
    BY DEF Plan
  <1>11. PICK final : final = p[3]
    OBVIOUS
  <1> DEFINE row == IF retry THEN Requeued(Closed(jobs[a[1]], final, TRUE), ts)
                    ELSE Closed(jobs[a[1]], final, TRUE)
             att == [attempts[a] EXCEPT !.outcome = final]
  <1>1. /\ jobs' = [jobs EXCEPT ![a[1]] = row] /\ attempts' = [attempts EXCEPT ![a] = att]
        /\ candidates' = candidates /\ \E e, was : <<e, was, final>> \in FinalizeInput
        /\ retry => final \in {"FAILED", "TIMED_OUT"}
        /\ jobs[a[1]].attemptCount = a[2]
    BY <1>0, <1>11 DEF FinalizeCall, WorkerFinalize, FinalizeFence, HoldsLease
  <1>2. jobs[a[1]] \in JobRow /\ attempts[a] \in AttemptRow /\ TypeOK /\ a[1] \in Job
    BY RowTypes, AttemptParts DEF SafetyInv
  <1>3. final \in TerminalStates /\ final \in JobState
    BY <1>1, FinalizeInputTypes
  <1>4. row.attemptCount = jobs[a[1]].attemptCount /\ row.state = IF retry THEN "QUEUED" ELSE final
    <2> DEFINE closed == Closed(jobs[a[1]], final, TRUE)
    <2>0. /\ closed.attemptCount = jobs[a[1]].attemptCount /\ closed.state = final
          /\ Requeued(closed, ts).attemptCount = jobs[a[1]].attemptCount
          /\ Requeued(closed, ts).state = "QUEUED"
      <3>1. closed \in JobRow
        BY <1>2, <1>3, ClosedType
      <3>2. closed.attemptCount = jobs[a[1]].attemptCount /\ closed.state = final
        BY <1>2, <1>3 DEF Closed, JobRow
      <3> HIDE DEF closed
      <3> QED
        BY <3>1, <3>2 DEF Requeued, JobRow
    <2> HIDE DEF closed
    <2>1. CASE retry
      <3>1. row = Requeued(closed, ts)
        BY <2>1 DEF closed
      <3> QED
        BY <2>0, <2>1, <3>1
    <2>2. CASE ~retry
      <3>1. row = closed
        BY <2>2 DEF closed
      <3> QED
        BY <2>0, <2>2, <3>1
    <2> QED
      BY <2>1, <2>2
  <1>5. att.worker = attempts[a].worker /\ att.outcome = final /\ att.child = attempts[a].child
    BY <1>2 DEF AttemptRow
  <1>6. final # NoOutcome
    BY <1>3 DEF TerminalStates, NoOutcome
  <1>7. jobs'[a[1]] = row /\ \A j \in Job \ {a[1]} : jobs'[j] = jobs[j]
    BY <1>1, <1>2 DEF TypeOK
  <1>8. attempts'[a].outcome = final /\ \A b \in Attempt \ {a} : attempts'[b] = attempts[b]
    BY <1>1, <1>2, <1>5 DEF TypeOK
  <1> HIDE DEF row, att
  <1>9. Effects({a}, {})
    BY <1>1, <1>2, <1>4, <1>5, <1>6, EffectsRow
  <1>10. ASSUME final = "BLOCKED" PROVE Effects({}, {})
    <2>1. row.state \in HeldStates
      BY <1>1, <1>4, <1>10 DEF HeldStates
    <2> QED
      BY <1>1, <1>2, <1>4, <1>5, <1>6, <2>1, EffectsRow
  <1> QED
    BY <1>0, <1>11, <1>1, <1>4, <1>7, <1>8, <1>9, <1>10

\* A recovery that blocks the job leaves the attempt its latest one.
LEMMA EffectsBlock ==
  ASSUME SafetyInv, NEW c \in candidates, NEW o, NEW ts, RecoverBlock(c, o, ts)
  PROVE  /\ Effects({}, {})
         /\ jobs'[c.attempt[1]].state = "BLOCKED"
         /\ \A j \in Job \ {c.attempt[1]} : jobs'[j] = jobs[j]
         /\ c.attempt \in Attempt /\ attempts' = [attempts EXCEPT ![c.attempt].outcome = "BLOCKED"]
  <1>1. PICK a \in Attempt : a = c.attempt
    BY CandidateParts DEF SafetyInv
  <1> DEFINE row == Closed(jobs[a[1]], "BLOCKED", jobs[a[1]].result)
             att == [attempts[a] EXCEPT !.outcome = "BLOCKED"]
  <1>2. /\ jobs' = [jobs EXCEPT ![a[1]] = row] /\ attempts' = [attempts EXCEPT ![a] = att]
        /\ candidates' = candidates
    BY <1>1 DEF RecoverBlock
  <1>3. jobs[a[1]] \in JobRow /\ attempts[a] \in AttemptRow /\ TypeOK /\ a[1] \in Job
    BY RowTypes, AttemptParts DEF SafetyInv
  <1>4. "BLOCKED" \in JobState /\ "BLOCKED" \in HeldStates /\ "BLOCKED" # NoOutcome
    BY DEF JobState, HeldStates, NoOutcome
  <1>5. row.attemptCount = jobs[a[1]].attemptCount /\ row.state = "BLOCKED"
    BY <1>3, <1>4 DEF Closed, JobRow
  <1>6. att.worker = attempts[a].worker /\ att.outcome = "BLOCKED" /\ att.child = attempts[a].child
    BY <1>3 DEF AttemptRow
  <1>7. /\ jobs'[a[1]] = row /\ \A j \in Job \ {a[1]} : jobs'[j] = jobs[j]
        /\ attempts' = [attempts EXCEPT ![a].outcome = "BLOCKED"]
    BY <1>2, <1>3 DEF TypeOK
  <1> HIDE DEF row, att
  <1>8. Effects({}, {})
    BY <1>2, <1>3, <1>4, <1>5, <1>6, EffectsRow
  <1> QED
    BY <1>1, <1>5, <1>7, <1>8

\* A recovery that requeues or fails the job gives its attempt up, which had a recorded child.
LEMMA EffectsInterrupted ==
  ASSUME SafetyInv, NEW c \in candidates, NEW o, NEW ts, RecoverInterrupted(c, o, ts)
  PROVE  /\ Effects({c.attempt}, {})
         /\ o = "ABSENT" /\ c.child /\ attempts[c.attempt].child
         /\ jobs[c.attempt[1]].state \in HeldStates
         /\ jobs'[c.attempt[1]].state \in {"QUEUED", "FAILED"}
         /\ \A j \in Job \ {c.attempt[1]} : jobs'[j] = jobs[j]
         /\ c.attempt \in Attempt
         /\ attempts' = [attempts EXCEPT ![c.attempt].outcome = "INTERRUPTED"]
  <1>1. PICK a \in Attempt : a = c.attempt
    BY CandidateParts DEF SafetyInv
  <1> DEFINE retry == jobs[a[1]].attemptCount < MaxAttempts
             row == IF retry THEN Requeued(Closed(jobs[a[1]], "FAILED", jobs[a[1]].result), ts)
                    ELSE Closed(jobs[a[1]], "FAILED", jobs[a[1]].result)
             att == [attempts[a] EXCEPT !.outcome = "INTERRUPTED"]
  <1>2. /\ jobs' = [jobs EXCEPT ![a[1]] = row] /\ attempts' = [attempts EXCEPT ![a] = att]
        /\ candidates' = candidates /\ RecoveryFence(c, ts) /\ ProvenInterrupted(c, o)
    BY <1>1 DEF RecoverInterrupted
  <1>3. jobs[a[1]] \in JobRow /\ attempts[a] \in AttemptRow /\ TypeOK /\ a[1] \in Job
    BY RowTypes, AttemptParts DEF SafetyInv
  <1>4. "FAILED" \in JobState /\ "INTERRUPTED" # NoOutcome /\ jobs[a[1]].result \in BOOLEAN
    BY <1>3 DEF JobState, NoOutcome, JobRow
  <1>5. row.attemptCount = jobs[a[1]].attemptCount /\ row.state \in {"QUEUED", "FAILED"}
    BY <1>3, <1>4, ClosedRow
  <1>6. att.worker = attempts[a].worker /\ att.outcome = "INTERRUPTED" /\ att.child = attempts[a].child
    BY <1>3 DEF AttemptRow
  <1>7. jobs[a[1]].attemptCount = a[2] /\ jobs[a[1]].state \in HeldStates
    BY <1>1, <1>2 DEF RecoveryFence, ProvenInterrupted, HeldStates, ActiveStates
  <1>8. o = "ABSENT" /\ c.child /\ attempts[a].child
    BY <1>1, <1>2 DEF ProvenInterrupted, EffectiveObservation
  <1>9. /\ jobs'[a[1]] = row /\ \A j \in Job \ {a[1]} : jobs'[j] = jobs[j]
        /\ attempts' = [attempts EXCEPT ![a].outcome = "INTERRUPTED"]
    BY <1>2, <1>3 DEF TypeOK
  <1> HIDE DEF row, att, retry
  <1>10. Effects({a}, {})
    BY <1>2, <1>3, <1>4, <1>5, <1>6, <1>7, EffectsRow
  <1> QED
    BY <1>1, <1>5, <1>7, <1>8, <1>9, <1>10

-----------------------------------------------------------------------------
(* Every step of the services is a step of the job plane, or none.          *)

ServiceSound(w) == HeldSound(w) /\ SpawnSound(w) /\ RunnerSound(w) /\ RecoverySound(w)

\* The inductive invariant: the tables are consistent, and what the services remember and which
\* children exist is in step with them.
ServicesInv == SafetyInv /\ WorkerTypeOK /\ WorkerInv

\* A service at work presents a handle that was issued to it, at a time that is one.
LEMMA HandleOf ==
  ASSUME ServicesInv, NEW w \in Worker, service[w].pc \in Working
  PROVE  /\ Holds(w) \in Issued /\ Holds(w) \in Attempt /\ IsIssued(Holds(w))
         /\ attempts[Holds(w)].worker = w
         /\ \A ts \in CallTimes(w) : ts \in Nat
  <1>1. HeldSound(w)
    BY DEF ServicesInv, WorkerInv
  <1>2. /\ Holds(w) \in Attempt /\ attempts[Holds(w)].worker = w
        /\ attempts[Holds(w)].outcome # NoOutcome
    BY <1>1 DEF HeldSound
  <1>3. attempts[Holds(w)].heartbeatAt \in Nat /\ TypeOK
    BY <1>2, RowTypes DEF ServicesInv, SafetyInv, AttemptRow
  <1> QED
    BY <1>2, <1>3, StatementTimeType DEF Issued, IsIssued, CallTimes

\* Two services never hold the same attempt.
LEMMA HandlesDiffer ==
  ASSUME ServicesInv, NEW w \in Worker, NEW v \in Worker \ {w},
         service[w].pc \in Working
  PROVE  Holds(v) # Holds(w)
  <1>1. HeldSound(w) /\ HeldSound(v)
    BY DEF ServicesInv, WorkerInv
  <1>2. NoAttempt \notin Attempt
    BY JobPlaneAssumption DEF NoAttempt, Attempt
  <1> QED
    BY <1>1, <1>2 DEF HeldSound

\* A control call renews the lease or is refused.
LEMMA ControlIsCall ==
  ASSUME ServicesInv, NEW w \in Worker, service[w].pc \in Working, NEW ts \in CallTimes(w),
         NEW phase \in {"CLAIMED", "RUNNING"}, ControlCall(Holds(w), phase, ts)
  PROVE  [Next]_vars /\ Effects({}, {})
  <1>1. CASE WorkerControl(Holds(w), phase, ts)
    <2>1. [Next]_vars
      BY <1>1, HandleOf DEF Next, CallTimes
    <2>2. Effects({}, {})
      BY <1>1, HandleOf, EffectsControl DEF ServicesInv
    <2> QED
      BY <2>1, <2>2
  <1>2. CASE UNCHANGED vars
    BY <1>2, EffectsNone DEF vars
  <1> QED
    BY <1>1, <1>2 DEF ControlCall

\* The parts of a plan.
LEMMA PlanParts ==
  ASSUME NEW p \in Plan
  PROVE  /\ p[3] \in TerminalStates /\ p[4] \in BOOLEAN /\ p[5] \in FinalReason
         /\ p[2] \in {"CLAIMED", "RUNNING"} /\ p[1] \in JobState
  BY WorkerAssumption DEF Plan

\* The finalization is the call of the job plane that the service decided on.
LEMMA FinalizeIsCall ==
  ASSUME ServicesInv, NEW w \in Worker, service[w].pc = "finalizing", NEW ts \in CallTimes(w),
         NEW p, p = service[w].plan, FinalizeCall(Holds(w), p, ts)
  PROVE  Next
  <1>1. p \in Plan /\ service[w].pc \in Working
    BY DEF ServicesInv, WorkerInv, RunnerSound, Working
  <1>2. PICK f \in FinalizeInput : f = <<p[1], p[2], p[3]>>
    BY DEF FinalizeCall, WorkerFinalize
  <1>3. f[1] = p[1] /\ f[2] = p[2] /\ f[3] = p[3]
    BY <1>2
  <1>4. WorkerFinalize(Holds(w), f[1], f[2], f[3], p[4], p[5], ts)
    BY <1>3 DEF FinalizeCall
  <1>5. p[4] \in BOOLEAN /\ p[5] \in FinalReason
    BY <1>1, PlanParts
  <1>6. Holds(w) \in Issued /\ ts \in StatementTimes(attempts[Holds(w)].heartbeatAt)
    BY <1>1, HandleOf DEF CallTimes
  <1> QED
    BY <1>4, <1>5, <1>6 DEF Next

\* The recovery of a candidate is a call of the job plane or is refused.
LEMMA RecoverIsCall ==
  ASSUME ServicesInv, NEW w \in Worker, Recover(w)
  PROVE  [Next]_vars
  <1>1. /\ service[w].seen # << >> /\ service[w].seen[1] \in candidates
        /\ service[w].seen[2] \in Observation
    BY DEF ServicesInv, WorkerInv, RecoverySound, Recover
  <1> QED
    BY <1>1 DEF Recover, Next

\* Every step of a service is a step of the job plane or leaves its tables alone.
LEMMA StepIsCall ==
  ASSUME ServicesInv, [WorkerNext]_allVars
  PROVE  [Next]_vars
  <1>1. ASSUME NEW w \in Worker, ServiceStep(w) \/ Crash(w) PROVE [Next]_vars
    <2>1. CASE StartService(w)
      BY <2>1 DEF StartService, Next
    <2>2. CASE Recover(w)
      BY <2>2, RecoverIsCall
    <2>3. CASE Claim(w)
      BY <2>3 DEF Claim, Next
    <2>4. CASE PreSpawnControl(w)
      <3>1. service[w].pc \in Working
        BY <2>4 DEF PreSpawnControl, Working, BeforeSpawn
      <3> QED
        BY <2>4, <3>1, ControlIsCall DEF PreSpawnControl
    <2>5. CASE HeartbeatStart(w)
      <3>1. service[w].pc \in Working
        BY <2>5 DEF HeartbeatStart, Working, InRunner
      <3> QED
        BY <2>5, <3>1, HandleOf DEF HeartbeatStart, Next, CallTimes
    <2>6. CASE HeartbeatRefused(w)
      <3>1. service[w].pc \in Working
        BY <2>6 DEF HeartbeatRefused, Working, InRunner
      <3> QED
        BY <2>6, <3>1, ControlIsCall DEF HeartbeatRefused
    <2>7. CASE HeartbeatControl(w)
      <3>1. service[w].pc \in Working
        BY <2>7 DEF HeartbeatControl, Working, InRunner
      <3> QED
        BY <2>7, <3>1, ControlIsCall DEF HeartbeatControl
    <2>8. CASE ValidationProgress(w)
      <3>1. service[w].pc \in Working
        BY <2>8 DEF ValidationProgress, Working, AfterRunner
      <3> QED
        BY <2>8, <3>1, ControlIsCall DEF ValidationProgress
    <2>9. CASE Finalize(w)
      BY <2>9, FinalizeIsCall DEF Finalize, FinalizeCall
    <2>10. CASE \/ Inspect(w) \/ EnterLoop(w) \/ PollEmpty(w) \/ BlockClaimed(w) \/ Spawn(w)
                \/ HeartbeatDrift(w) \/ Timeout(w) \/ KillChild(w) \/ Reap(w)
                \/ CleanupUnproven(w) \/ ValidationBlocked(w) \/ ValidationFailed(w)
                \/ ValidationPassed(w) \/ Crash(w)
      BY <2>10 DEF Inspect, EnterLoop, PollEmpty, BlockClaimed, Spawn, HeartbeatDrift, Timeout,
                   KillChild, Reap, CleanupUnproven, ValidationBlocked, ValidationFailed,
                   ValidationPassed, Crash, allVars
    <2> QED
      BY <1>1, <2>1, <2>2, <2>3, <2>4, <2>5, <2>6, <2>7, <2>8, <2>9, <2>10 DEF ServiceStep
  <1>2. ASSUME NEW a \in Attempt, ChildExit(a) PROVE [Next]_vars
    BY <1>2 DEF ChildExit
  <1>3. CASE Tick \/ Operator
    BY <1>3 DEF Operator, Next
  <1>4. CASE UNCHANGED allVars
    BY <1>4 DEF allVars
  <1> QED
    BY <1>1, <1>2, <1>3, <1>4 DEF WorkerNext

-----------------------------------------------------------------------------
(* One step of a service, and everything it leaves alone.                   *)

\* Nobody is spawned but for the attempts in X, and nobody comes back.
ChildKept(X) ==
  /\ \A a \in Attempt : child[a] # "none" => child'[a] # "none"
  /\ \A a \in Attempt : child[a] = "gone" => child'[a] = "gone"
  /\ \A a \in Attempt \ X : /\ child'[a] = "alive" => child[a] = "alive"
                            /\ child[a] = "none" => child'[a] = "none"

\* Children that do not change.
LEMMA ChildSame ==
  ASSUME UNCHANGED child
  PROVE  ChildKept({})
  BY DEF ChildKept

\* No call takes a claim away from the service that holds it.
LEMMA HeldKept ==
  ASSUME NEW w \in Worker, HeldSound(w), NEW E, NEW S, Effects(E, S),
         service'[w].held = service[w].held,
         service'[w].pc \in Working <=> service[w].pc \in Working
  PROVE  HeldSound(w)'
  BY DEF HeldSound, Holds, Effects, IsIssued

\* What a recovery found out stays true.
LEMMA RecoveryKept ==
  ASSUME TypeOK, NEW w \in Worker, RecoverySound(w), NEW E, NEW S, Effects(E, S),
         NEW X, ChildKept(X),
         service'[w].todo = service[w].todo, service'[w].seen = service[w].seen
  PROVE  RecoverySound(w)'
  <1>1. \A c \in candidates : c.attempt \in Attempt
    BY DEF TypeOK, Candidate
  <1>2. candidates \subseteq candidates'
    BY DEF Effects
  <1>3. ASSUME NEW c \in service[w].todo, c.child PROVE child'[c.attempt] # "none"
    BY <1>1, <1>3 DEF RecoverySound, ChildKept
  <1>4. ASSUME service[w].seen # << >>, service[w].seen[2] = "ABSENT"
        PROVE  child'[service[w].seen[1].attempt] = "gone"
    BY <1>1, <1>4 DEF RecoverySound, ChildKept
  <1> QED
    BY <1>2, <1>3, <1>4 DEF RecoverySound

\* A service that takes no step stays sound, whatever the others do.
LEMMA QuietService ==
  ASSUME TypeOK, NEW v \in Worker, ServiceSound(v), service'[v] = service[v],
         NEW E, NEW S, Effects(E, S), NEW X, ChildKept(X), Holds(v) \notin X,
         service[v].pc \in BeforeSpawn => Holds(v) \notin E
  PROVE  ServiceSound(v)'
  <1>1. HeldSound(v)'
    BY HeldKept DEF ServiceSound
  <1>2. RecoverySound(v)'
    BY RecoveryKept DEF ServiceSound
  <1>3. service[v].pc \in Working => Holds(v) \in Attempt
    BY DEF ServiceSound, HeldSound
  <1>4. SpawnSound(v)'
    BY <1>3 DEF ServiceSound, SpawnSound, Holds, Working, Effects, Current, HeldStates, ChildKept
  <1>5. RunnerSound(v)'
    BY <1>3 DEF ServiceSound, RunnerSound, Holds, Working, ChildKept
  <1> QED
    BY <1>1, <1>2, <1>4, <1>5 DEF ServiceSound

\* The children stay accounted for, if those given up or spawned are.
LEMMA ChildrenStep ==
  ASSUME ServicesInv, NEW E, NEW S, Effects(E, S), NEW X, ChildKept(X),
         \A a \in (E \cup X) \cap Attempt : child'[a] = "alive" => Current(a)',
         \A a \in S : child'[a] # "none",
         \A a \in X \cap Attempt : IsIssued(a)
  PROVE  (\A a \in Attempt : ChildSound(a))' /\ LiveChildAccountedFor'
  <1>1. \A a \in Attempt : ChildSound(a) /\ (child[a] = "alive" => Current(a))
    BY DEF ServicesInv, WorkerInv, LiveChildAccountedFor, Current, HeldStates
  <1>2. ASSUME NEW a \in Attempt PROVE ChildSound(a)'
    BY <1>1 DEF ChildSound, Effects, ChildKept, IsIssued
  <1>3. ASSUME NEW a \in Attempt, child'[a] = "alive"
        PROVE  a[2] = jobs'[a[1]].attemptCount /\ jobs'[a[1]].state \in HeldStates
    <2>1. CASE a \in E \cup X
      BY <1>3, <2>1 DEF Current
    <2>2. CASE a \notin E \cup X
      BY <1>1, <1>3, <2>2 DEF Effects, ChildKept
    <2> QED
      BY <2>1, <2>2
  <1> QED
    BY <1>2, <1>3 DEF LiveChildAccountedFor, HeldStates

\* The program state of service w becomes row.
Moves(w, row) ==
  /\ row \in ServiceRow
  /\ service' = [service EXCEPT ![w] = row]
  /\ child' \in [Attempt -> ChildState]

\* Service w gives up the attempts in E, records the child of those in S and spawns those in X:
\* none of them is held by another service that may still need it.
Frame(w, E, S, X) ==
  /\ Effects(E, S) /\ ChildKept(X)
  /\ \A v \in Worker \ {w} : Holds(v) \notin X
  /\ \A v \in Worker \ {w} : service[v].pc \in BeforeSpawn => Holds(v) \notin E
  /\ \A a \in (E \cup X) \cap Attempt : child'[a] = "alive" => Current(a)'
  /\ \A a \in S : child'[a] # "none"
  /\ \A a \in X \cap Attempt : IsIssued(a)

\* One service moves, inside its frame.
LEMMA MoverStep ==
  ASSUME ServicesInv, [Next]_vars, NEW w \in Worker, NEW row, Moves(w, row),
         NEW E, NEW S, NEW X, Frame(w, E, S, X), ServiceSound(w)'
  PROVE  ServicesInv'
  <1>1. SafetyInv'
    BY SafetyKept DEF ServicesInv
  <1>2. /\ service \in [Worker -> ServiceRow]
        /\ \A v \in Worker : service'[v] = IF v = w THEN row ELSE service[v]
    BY DEF ServicesInv, WorkerTypeOK, Moves
  <1>3. WorkerTypeOK'
    BY <1>2 DEF WorkerTypeOK, Moves
  <1>4. \A v \in Worker : ServiceSound(v)'
    <2>1. TypeOK /\ \A v \in Worker : ServiceSound(v)
      BY DEF ServicesInv, SafetyInv, WorkerInv, ServiceSound
    <2>2. ASSUME NEW v \in Worker \ {w} PROVE ServiceSound(v)'
      <3>1. service'[v] = service[v] /\ ServiceSound(v)
        BY <1>2, <2>1
      <3> QED
        BY <2>1, <3>1, QuietService DEF Frame
    <2> QED
      BY <2>2
  <1>5. (\A a \in Attempt : ChildSound(a))' /\ LiveChildAccountedFor'
    BY ChildrenStep DEF Frame
  <1> QED
    BY <1>1, <1>3, <1>4, <1>5 DEF ServicesInv, WorkerInv, ServiceSound

\* A call that gives nothing up and spawns nobody is always inside the frame.
LEMMA QuietFrame ==
  ASSUME NEW w \in Worker, NEW S, Effects({}, S), ChildKept({}), \A a \in S : child'[a] # "none"
  PROVE  Frame(w, {}, S, {})
  BY DEF Frame

\* Service w stays at work on the claim it holds.
AtWork(w, row) ==
  /\ service[w].pc \in Working /\ row.pc \in Working
  /\ row.held = service[w].held /\ row.todo = service[w].todo /\ row.seen = service[w].seen
  /\ row.pc \in BeforeSpawn => service[w].pc \in BeforeSpawn
  /\ row.pc \in InRunner => child'[Holds(w)] # "none"
  /\ row.pc \in AfterRunner => child'[Holds(w)] = "gone"
  /\ row.pc = "finalizing" =>
       /\ row.plan \in Plan
       /\ child'[Holds(w)] = "alive" => row.plan[3] = "BLOCKED" /\ ~row.plan[4]

\* A service at work stays at work on its claim.
LEMMA WorkStep ==
  ASSUME ServicesInv, [Next]_vars, NEW w \in Worker, NEW row, Moves(w, row), AtWork(w, row),
         NEW S, Effects({}, S), ChildKept({}), \A a \in S : child'[a] # "none"
  PROVE  ServicesInv'
  <1>1. service'[w] = row
    BY DEF ServicesInv, WorkerTypeOK, Moves
  <1>2. TypeOK /\ ServiceSound(w)
    BY DEF ServicesInv, SafetyInv, WorkerInv, ServiceSound
  <1>3. HeldSound(w)'
    BY <1>1, <1>2, HeldKept DEF ServiceSound, AtWork
  <1>4. RecoverySound(w)'
    BY <1>1, <1>2, RecoveryKept DEF ServiceSound, AtWork
  <1>5. Holds(w) \in Attempt
    BY HandleOf DEF AtWork
  <1>6. SpawnSound(w)'
    BY <1>1, <1>2, <1>5
       DEF ServiceSound, SpawnSound, Holds, Effects, Current, HeldStates, ChildKept, AtWork
  <1>7. RunnerSound(w)'
    BY <1>1 DEF RunnerSound, Holds, AtWork
  <1>8. ServiceSound(w)'
    BY <1>3, <1>4, <1>6, <1>7 DEF ServiceSound
  <1>9. Frame(w, {}, S, {})
    BY QuietFrame
  <1> QED
    BY <1>8, <1>9, MoverStep

\* The service moves on in its program and changes nothing else.
LEMMA GotoStep ==
  ASSUME ServicesInv, [Next]_vars, NEW w \in Worker, service[w].pc \in Working,
         NEW pc \in Working \ {"finalizing"}, Goto(w, pc), UNCHANGED child, Effects({}, {}),
         pc \in BeforeSpawn => service[w].pc \in BeforeSpawn,
         pc \in InRunner => child[Holds(w)] # "none",
         pc \in AfterRunner => child[Holds(w)] = "gone"
  PROVE  ServicesInv'
  <1>1. service[w] \in ServiceRow /\ child \in [Attempt -> ChildState]
        /\ service \in [Worker -> ServiceRow]
    BY DEF ServicesInv, WorkerTypeOK
  <1>2. PICK row : row = [service[w] EXCEPT !.pc = pc]
    OBVIOUS
  <1>3. /\ row \in ServiceRow /\ row.held = service[w].held /\ row.todo = service[w].todo
        /\ row.seen = service[w].seen /\ row.pc = pc
    BY <1>1, <1>2 DEF ServiceRow, Pc, Working, BeforeSpawn, InRunner, AfterRunner
  <1>4. service' = [service EXCEPT ![w] = row]
    BY <1>1, <1>2 DEF Goto
  <1>5. Moves(w, row) /\ AtWork(w, row) /\ ChildKept({})
    BY <1>1, <1>3, <1>4, ChildSame DEF Moves, AtWork
  <1> QED
    BY <1>5, WorkStep

\* The loop of the runner goes on, with or without a reason to terminate.
LEMMA LoopingStep ==
  ASSUME ServicesInv, [Next]_vars, NEW w \in Worker, service[w].pc \in InRunner,
         NEW reason \in {NoReason, "CANCELLED", "SAFETY_DRIFT", "STALE_LEASE", "TIMEOUT"},
         Looping(w, reason), UNCHANGED child, Effects({}, {})
  PROVE  ServicesInv'
  <1>1. service[w] \in ServiceRow /\ child \in [Attempt -> ChildState]
        /\ service \in [Worker -> ServiceRow]
    BY DEF ServicesInv, WorkerTypeOK
  <1>2. PICK row : row = [service[w] EXCEPT !.pc = "looping", !.reason = Because(w, reason)]
    OBVIOUS
  <1>3. Because(w, reason) \in {NoReason, "CANCELLED", "SAFETY_DRIFT", "STALE_LEASE", "TIMEOUT"}
    BY <1>1 DEF Because, ServiceRow
  <1>4. /\ row \in ServiceRow /\ row.held = service[w].held /\ row.todo = service[w].todo
        /\ row.seen = service[w].seen /\ row.pc = "looping"
    BY <1>1, <1>2, <1>3 DEF ServiceRow, Pc
  <1>5. service' = [service EXCEPT ![w] = row]
    BY <1>1, <1>2 DEF Looping
  <1>6. ChildKept({}) /\ service[w].pc \in Working /\ "looping" \in Working
        /\ "looping" \notin BeforeSpawn /\ "looping" \notin AfterRunner
    BY ChildSame DEF Working, InRunner, BeforeSpawn, AfterRunner
  <1>7. child'[Holds(w)] # "none"
    BY DEF ServicesInv, WorkerInv, RunnerSound
  <1>8. Moves(w, row) /\ AtWork(w, row)
    BY <1>1, <1>4, <1>5, <1>6, <1>7 DEF Moves, AtWork
  <1> QED
    BY <1>6, <1>8, WorkStep

\* The service decides how to finalize.
LEMMA DecideStep ==
  ASSUME ServicesInv, [Next]_vars, NEW w \in Worker, service[w].pc \in Working,
         NEW plan \in Plan, Decide(w, plan),
         child' \in [Attempt -> ChildState], ChildKept({}), Effects({}, {}),
         child'[Holds(w)] = "alive" => plan[3] = "BLOCKED" /\ ~plan[4]
  PROVE  ServicesInv'
  <1>1. service[w] \in ServiceRow /\ service \in [Worker -> ServiceRow]
    BY DEF ServicesInv, WorkerTypeOK
  <1>2. PICK row : row = [service[w] EXCEPT !.pc = "finalizing", !.plan = plan]
    OBVIOUS
  <1>3. /\ row \in ServiceRow /\ row.held = service[w].held /\ row.todo = service[w].todo
        /\ row.seen = service[w].seen /\ row.pc = "finalizing" /\ row.plan = plan
    BY <1>1, <1>2 DEF ServiceRow, Pc
  <1>4. service' = [service EXCEPT ![w] = row]
    BY <1>1, <1>2 DEF Decide
  <1>5. /\ "finalizing" \in Working /\ "finalizing" \notin BeforeSpawn
        /\ "finalizing" \notin InRunner /\ "finalizing" \notin AfterRunner
    BY DEF Working, InRunner, BeforeSpawn, AfterRunner
  <1>6. Moves(w, row) /\ AtWork(w, row)
    BY <1>3, <1>4, <1>5 DEF Moves, AtWork
  <1> QED
    BY <1>6, WorkStep

\* A service that holds nothing has nothing to be wrong about.
LEMMA ResetSound ==
  ASSUME NEW w \in Worker, NEW pc \in {"idle", "down"}, service'[w] = ServiceAt(pc)
  PROVE  ServiceSound(w)'
  BY DEF ServiceSound, HeldSound, SpawnSound, RunnerSound, RecoverySound, ServiceAt, Holds,
         Working, InRunner, BeforeSpawn, AfterRunner

\* A fresh service has its type.
LEMMA FreshRow ==
  ASSUME NEW pc \in Pc
  PROVE  ServiceAt(pc) \in ServiceRow
  BY DEF ServiceAt, ServiceRow, NoReason

\* The service lets go of its claim and touches no table.
LEMMA ResetStep ==
  ASSUME ServicesInv, [Next]_vars, NEW w \in Worker, NEW pc \in {"idle", "down"}, Become(w, pc),
         child' \in [Attempt -> ChildState], ChildKept({}), Effects({}, {})
  PROVE  ServicesInv'
  <1>1. service \in [Worker -> ServiceRow]
    BY DEF ServicesInv, WorkerTypeOK
  <1>2. PICK row : row = ServiceAt(pc)
    OBVIOUS
  <1>3. row \in ServiceRow
    BY <1>2, FreshRow DEF Pc
  <1>4. service' = [service EXCEPT ![w] = row] /\ service'[w] = row
    BY <1>1, <1>2 DEF Become
  <1>5. ServiceSound(w)'
    BY <1>2, <1>4, ResetSound
  <1>6. Moves(w, row) /\ Frame(w, {}, {}, {})
    BY <1>3, <1>4, QuietFrame DEF Moves
  <1> QED
    BY <1>5, <1>6, MoverStep

-----------------------------------------------------------------------------
(* The steps of a service, one lemma per action or family of actions.       *)

\* A step that leaves the job tables alone.
LEMMA TablesSame ==
  ASSUME UNCHANGED vars
  PROVE  Effects({}, {}) /\ [Next]_vars
  BY EffectsNone DEF vars

\* The types of the children, and what changing one of them may do.
LEMMA ChildMoves ==
  ASSUME ServicesInv, NEW a \in Attempt, NEW s \in {"zombie", "gone"},
         child[a] \in {"alive", "zombie"} \/ (child[a] # "none" /\ s = "gone"),
         child' = [child EXCEPT ![a] = s], s = "zombie" => child[a] = "alive"
  PROVE  child' \in [Attempt -> ChildState] /\ ChildKept({}) /\ child'[a] = s
  BY DEF ServicesInv, WorkerTypeOK, ChildState, ChildKept

\* Every plan a service makes is one.
LEMMA PlansAreTyped ==
  /\ BlockedPlan \in Plan /\ BlockedPlan[3] = "BLOCKED" /\ ~BlockedPlan[4]
  /\ \A was \in {"CLAIMED", "RUNNING"} : CancelPlan(was) \in Plan
  /\ \A final \in {"SUCCEEDED", "FAILED", "BLOCKED"}, retry \in BOOLEAN, reason \in WorkerReason :
       RunningPlan(final, retry, reason) \in Plan
  BY DEF BlockedPlan, CancelPlan, RunningPlan, Plan, JobState, TerminalStates, WorkerReason

\* _finalize_termination makes a plan, and a child that may be alive makes it block.
LEMMA TerminationTyped ==
  ASSUME NEW running \in BOOLEAN,
         NEW reason \in {"CANCELLED", "TIMEOUT", "SAFETY_DRIFT", "OUTPUT_DRAIN_TRUNCATED",
                         "PROCESS_GROUP_CLEANUP_UNPROVEN"}
  PROVE  /\ TerminationPlan(reason, running) \in Plan
         /\ TerminationPlan(reason, running)[3] # "SUCCEEDED"
         /\ reason = "PROCESS_GROUP_CLEANUP_UNPROVEN" =>
              TerminationPlan(reason, running)[3] = "BLOCKED" /\ ~TerminationPlan(reason, running)[4]
  BY DEF TerminationPlan, CancelPlan, Plan, JobState, TerminalStates, WorkerReason

\* A control call: the lease is renewed or lost, and the children are as they were.
LEMMA ControlStep ==
  ASSUME ServicesInv, NEW w \in Worker, service[w].pc \in Working, NEW ts \in CallTimes(w),
         NEW phase \in {"CLAIMED", "RUNNING"}, ControlCall(Holds(w), phase, ts), UNCHANGED child
  PROVE  /\ [Next]_vars /\ Effects({}, {}) /\ ChildKept({})
         /\ child' \in [Attempt -> ChildState]
  BY ControlIsCall, ChildSame DEF ServicesInv, WorkerTypeOK

\* Inspection: the recovery takes a candidate and asks the operating system about its child.
LEMMA InspectStep ==
  ASSUME ServicesInv, NEW w \in Worker, Inspect(w)
  PROVE  ServicesInv'
  <1>1. PICK c \in service[w].todo : \E o \in Observed(c) :
          service' = [service EXCEPT ![w].seen = <<c, o>>, ![w].todo = @ \ {c}]
    BY DEF Inspect
  <1>2. PICK o \in Observed(c) :
          service' = [service EXCEPT ![w].seen = <<c, o>>, ![w].todo = @ \ {c}]
    BY <1>1
  <1>3. /\ service \in [Worker -> ServiceRow] /\ child \in [Attempt -> ChildState]
        /\ TypeOK /\ RecoverySound(w) /\ HeldSound(w)
        /\ service[w].pc = "recovering" /\ UNCHANGED <<vars, child>>
    BY DEF ServicesInv, WorkerTypeOK, WorkerInv, SafetyInv, Inspect
  <1>4. c \in candidates /\ c \in Candidate /\ c.attempt \in Attempt
    BY <1>3 DEF RecoverySound, TypeOK, Candidate
  <1>5. o \in Observation /\ (o = "ABSENT" => child[c.attempt] = "gone")
    <2>1. child[c.attempt] \in ChildState
      BY <1>3, <1>4
    <2>2. c.child => child[c.attempt] # "none"
      BY <1>3 DEF RecoverySound
    <2>3. CASE c.child
      BY <1>2, <2>1, <2>2, <2>3 DEF Observed, Observation, ChildState
    <2>4. CASE ~c.child
      BY <1>2, <2>4 DEF Observed, Observation
    <2> QED
      BY <2>3, <2>4
  <1>6. PICK row : row = [service[w] EXCEPT !.seen = <<c, o>>, !.todo = @ \ {c}]
    OBVIOUS
  <1>7. /\ row \in ServiceRow /\ row.pc = "recovering" /\ row.held = service[w].held
        /\ row.todo = service[w].todo \ {c} /\ row.seen = <<c, o>>
    BY <1>3, <1>4, <1>5, <1>6 DEF ServiceRow
  <1>8. service' = [service EXCEPT ![w] = row] /\ service'[w] = row
    BY <1>2, <1>3, <1>6
  <1>9. ServiceSound(w)'
    <2>1. "recovering" \notin Working /\ "recovering" # "finalizing"
      BY DEF Working, BeforeSpawn, InRunner, AfterRunner
    <2>2. HeldSound(w)'
      BY <1>3, <1>7, <1>8, <2>1 DEF HeldSound, Holds
    <2>3. SpawnSound(w)' /\ RunnerSound(w)'
      BY <1>7, <1>8 DEF SpawnSound, RunnerSound, BeforeSpawn, InRunner, AfterRunner
    <2>4. RecoverySound(w)'
      BY <1>3, <1>4, <1>5, <1>7, <1>8 DEF RecoverySound, vars
    <2> QED
      BY <2>2, <2>3, <2>4 DEF ServiceSound
  <1>10. Effects({}, {}) /\ [Next]_vars /\ ChildKept({})
    BY <1>3, TablesSame, ChildSame
  <1>11. Moves(w, row) /\ Frame(w, {}, {}, {})
    BY <1>3, <1>7, <1>8, <1>10, QuietFrame DEF Moves
  <1> QED
    BY <1>9, <1>10, <1>11, MoverStep

\* A service that starts reads the expired leases; a recorded child was spawned.
LEMMA StartStep ==
  ASSUME ServicesInv, NEW w \in Worker, StartService(w)
  PROVE  ServicesInv'
  <1>1. [Next]_vars /\ RecoveryScan /\ UNCHANGED child
    BY DEF StartService, Next
  <1>2. SafetyInv'
    BY <1>1, SafetyKept DEF ServicesInv
  <1>3. /\ candidates' = candidates \cup ExpiredCandidates
        /\ jobs' = jobs /\ attempts' = attempts
    BY <1>1 DEF RecoveryScan
  <1>4. ExpiredCandidates \subseteq Candidate
    BY <1>2, <1>3 DEF SafetyInv, TypeOK
  <1>5. \A c \in ExpiredCandidates : c.child => child[c.attempt] # "none"
    <2>1. ASSUME NEW c \in ExpiredCandidates, c.child PROVE child[c.attempt] # "none"
      <3>1. PICK a \in Attempt : c = CandidateOf(a)
        BY <2>1 DEF ExpiredCandidates
      <3>2. c.attempt = a /\ c.child = attempts[a].child
        BY <3>1 DEF CandidateOf
      <3>3. ChildSound(a)
        BY DEF ServicesInv, WorkerInv
      <3> QED
        BY <2>1, <3>2, <3>3 DEF ChildSound
    <2> QED
      BY <2>1
  <1>6. /\ service \in [Worker -> ServiceRow] /\ child \in [Attempt -> ChildState]
    BY DEF ServicesInv, WorkerTypeOK
  <1>7. PICK row : row = [ServiceAt("recovering") EXCEPT !.todo = ExpiredCandidates]
    OBVIOUS
  <1>8. service' = [service EXCEPT ![w] = row] /\ service'[w] = row
    BY <1>6, <1>7 DEF StartService
  <1>9. /\ row \in ServiceRow /\ row.pc = "recovering" /\ row.held = NoAttempt
        /\ row.todo = ExpiredCandidates /\ row.seen = << >>
    <2>1. ServiceAt("recovering") \in ServiceRow
      BY FreshRow DEF Pc
    <2>2. row.pc = "recovering" /\ row.held = NoAttempt /\ row.seen = << >>
          /\ row.todo = ExpiredCandidates
      BY <1>7 DEF ServiceAt
    <2> QED
      BY <1>4, <1>7, <2>1, <2>2 DEF ServiceRow
  <1>10. ServiceSound(w)'
    <2>1. "recovering" \notin Working
      BY DEF Working, BeforeSpawn, InRunner, AfterRunner
    <2>2. HeldSound(w)'
      BY <1>8, <1>9, <2>1 DEF HeldSound, Holds
    <2>3. SpawnSound(w)' /\ RunnerSound(w)'
      BY <1>8, <1>9 DEF SpawnSound, RunnerSound, BeforeSpawn, InRunner, AfterRunner
    <2>4. RecoverySound(w)'
      BY <1>1, <1>3, <1>5, <1>8, <1>9 DEF RecoverySound
    <2> QED
      BY <2>2, <2>3, <2>4 DEF ServiceSound
  <1>11. Effects({}, {}) /\ ChildKept({})
    BY <1>1, <1>3, EffectsNone, ChildSame
  <1>12. Moves(w, row) /\ Frame(w, {}, {}, {})
    BY <1>1, <1>6, <1>8, <1>9, <1>11, QuietFrame DEF Moves
  <1> QED
    BY <1>1, <1>10, <1>12, MoverStep

\* Recovery decides about one candidate: what it requeues has no child left, so no service that
\* is still to spawn holds it.
LEMMA RecoverStep ==
  ASSUME ServicesInv, NEW w \in Worker, Recover(w)
  PROVE  ServicesInv'
  <1>1. [Next]_vars
    BY RecoverIsCall
  <1>2. PICK c, o : c = service[w].seen[1] /\ o = service[w].seen[2]
    OBVIOUS
  <1>3. /\ service \in [Worker -> ServiceRow] /\ child \in [Attempt -> ChildState]
        /\ SafetyInv /\ RecoverySound(w) /\ HeldSound(w)
        /\ service[w].pc = "recovering" /\ service[w].seen # << >> /\ UNCHANGED child
        /\ service' = [service EXCEPT ![w].seen = << >>]
    BY DEF ServicesInv, WorkerTypeOK, WorkerInv, Recover
  <1>4. /\ c \in candidates /\ (o = "ABSENT" => child[c.attempt] = "gone")
        /\ service[w].todo \subseteq candidates
        /\ \A d \in service[w].todo : d.child => child[d.attempt] # "none"
    BY <1>2, <1>3 DEF RecoverySound
  <1>5. \E E : Frame(w, E, {}, {})
    <2>0. ChildKept({})
      BY <1>3, ChildSame
    <2>1. PICK ts \in StatementTimes(0) :
            \/ RecoverBlock(c, o, ts) \/ RecoverInterrupted(c, o, ts) \/ UNCHANGED vars
      BY <1>2 DEF Recover
    <2>2. CASE RecoverBlock(c, o, ts) \/ UNCHANGED vars
      <3>1. Effects({}, {})
        BY <1>3, <1>4, <2>2, EffectsBlock, TablesSame
      <3> QED
        BY <2>0, <3>1, QuietFrame
    <2>3. CASE RecoverInterrupted(c, o, ts)
      <3>1. Effects({c.attempt}, {}) /\ o = "ABSENT"
        BY <1>3, <1>4, <2>3, EffectsInterrupted
      <3>2. child[c.attempt] = "gone" /\ child'[c.attempt] = "gone"
        BY <1>3, <1>4, <3>1
      <3>3. \A v \in Worker \ {w} : service[v].pc \in BeforeSpawn => Holds(v) \notin {c.attempt}
        BY <3>2 DEF ServicesInv, WorkerInv, SpawnSound
      <3>4. Frame(w, {c.attempt}, {}, {})
        BY <2>0, <3>1, <3>2, <3>3 DEF Frame
      <3> QED
        BY <3>4
    <2> QED
      BY <2>1, <2>2, <2>3
  <1>6. PICK E : Frame(w, E, {}, {})
    BY <1>5
  <1>7. PICK row : row = [service[w] EXCEPT !.seen = << >>]
    OBVIOUS
  <1>8. service' = [service EXCEPT ![w] = row] /\ service'[w] = row
    BY <1>3, <1>7
  <1>9. /\ row \in ServiceRow /\ row.pc = "recovering" /\ row.held = service[w].held
        /\ row.todo = service[w].todo /\ row.seen = << >>
    BY <1>3, <1>7 DEF ServiceRow
  <1>10. ServiceSound(w)'
    <2>1. "recovering" \notin Working
      BY DEF Working, BeforeSpawn, InRunner, AfterRunner
    <2>2. HeldSound(w)'
      BY <1>3, <1>8, <1>9, <2>1 DEF HeldSound, Holds
    <2>3. SpawnSound(w)' /\ RunnerSound(w)'
      BY <1>8, <1>9 DEF SpawnSound, RunnerSound, BeforeSpawn, InRunner, AfterRunner
    <2>4. candidates \subseteq candidates'
      BY <1>6 DEF Frame, Effects
    <2>5. RecoverySound(w)'
      BY <1>3, <1>4, <1>8, <1>9, <2>4 DEF RecoverySound
    <2> QED
      BY <2>2, <2>3, <2>5 DEF ServiceSound
  <1>11. Moves(w, row)
    BY <1>3, <1>8, <1>9 DEF Moves
  <1> QED
    BY <1>1, <1>6, <1>10, <1>11, MoverStep

\* A claim: the attempt is new, so it has no child.
LEMMA ClaimStep ==
  ASSUME ServicesInv, NEW w \in Worker, Claim(w)
  PROVE  ServicesInv'
  <1>1. [Next]_vars /\ UNCHANGED child /\ service[w].pc = "idle"
    BY DEF Claim, Next
  <1>2. PICK j \in Job, busy \in BusySets :
          /\ WorkerClaim(w, j, busy)
          /\ service' = [service EXCEPT ![w].pc = "claimed",
                                        ![w].held = <<j, jobs[j].attemptCount + 1>>]
    BY DEF Claim
  <1>3. PICK a : a = <<j, jobs[j].attemptCount + 1>>
    OBVIOUS
  <1>4. /\ service \in [Worker -> ServiceRow] /\ child \in [Attempt -> ChildState]
        /\ SafetyInv /\ TypeOK /\ RecoverySound(w)
    BY DEF ServicesInv, WorkerTypeOK, WorkerInv, SafetyInv
  <1>5. /\ Effects({}, {}) /\ a \in Attempt /\ ~IsIssued(a)
        /\ attempts'[a].worker = w /\ attempts'[a].outcome # NoOutcome
        /\ a[2] = jobs'[a[1]].attemptCount /\ jobs'[a[1]].state \in HeldStates
    BY <1>2, <1>3, <1>4, EffectsClaim
  <1>6. child[a] = "none"
    BY <1>5 DEF ServicesInv, WorkerInv, ChildSound, IsIssued
  <1>7. PICK row : row = [service[w] EXCEPT !.pc = "claimed", !.held = a]
    OBVIOUS
  <1>8. service' = [service EXCEPT ![w] = row] /\ service'[w] = row
    BY <1>2, <1>3, <1>4, <1>7
  <1>9. /\ row \in ServiceRow /\ row.pc = "claimed" /\ row.held = a
        /\ row.todo = service[w].todo /\ row.seen = service[w].seen
    <2>1. a \in Attempt /\ service[w] \in ServiceRow
      BY <1>4, <1>5
    <2> QED
      BY <1>7, <2>1 DEF ServiceRow, Pc
  <1>10. ChildKept({})
    BY <1>1, ChildSame
  <1>11. ServiceSound(w)'
    <2>1. HeldSound(w)'
      BY <1>5, <1>8, <1>9 DEF HeldSound, Holds, Working, BeforeSpawn
    <2>2. SpawnSound(w)'
      BY <1>1, <1>5, <1>6, <1>8, <1>9 DEF SpawnSound, Holds, HeldStates
    <2>4. RunnerSound(w)'
      BY <1>8, <1>9 DEF RunnerSound, InRunner, AfterRunner
    <2>3. RecoverySound(w)'
      BY <1>4, <1>5, <1>8, <1>9, <1>10, RecoveryKept
    <2> QED
      BY <2>1, <2>2, <2>3, <2>4 DEF ServiceSound
  <1>12. Moves(w, row) /\ Frame(w, {}, {}, {})
    BY <1>1, <1>4, <1>5, <1>8, <1>9, <1>10, QuietFrame DEF Moves
  <1> QED
    BY <1>1, <1>11, <1>12, MoverStep

\* Popen: the job is still the one that was claimed, or is blocked.
LEMMA SpawnStep ==
  ASSUME ServicesInv, NEW w \in Worker, Spawn(w)
  PROVE  ServicesInv'
  <1>1. /\ service \in [Worker -> ServiceRow] /\ child \in [Attempt -> ChildState]
        /\ TypeOK /\ RecoverySound(w) /\ HeldSound(w) /\ SpawnSound(w)
        /\ service[w].pc = "prepared" /\ UNCHANGED vars
        /\ child' = [child EXCEPT ![Holds(w)] = "alive"]
        /\ service' = [service EXCEPT ![w].pc = "looping"]
    BY DEF ServicesInv, WorkerTypeOK, WorkerInv, SafetyInv, Spawn, Goto
  <1>2. /\ "prepared" \in Working /\ "prepared" \in BeforeSpawn /\ "looping" \in Working
        /\ "looping" \in InRunner /\ "looping" \notin BeforeSpawn /\ "looping" \notin AfterRunner
    BY DEF Working, BeforeSpawn, InRunner, AfterRunner
  <1>3. Holds(w) \in Attempt /\ IsIssued(Holds(w))
    BY <1>1, <1>2, HandleOf
  <1>4. PICK a \in Attempt : a = Holds(w)
    BY <1>3
  <1>5. PICK row : row = [service[w] EXCEPT !.pc = "looping"]
    OBVIOUS
  <1>6. service' = [service EXCEPT ![w] = row] /\ service'[w] = row
    BY <1>1, <1>5
  <1>7. /\ row \in ServiceRow /\ row.pc = "looping" /\ row.held = service[w].held
        /\ row.todo = service[w].todo /\ row.seen = service[w].seen
    BY <1>1, <1>5 DEF ServiceRow, Pc
  <1>8. /\ child' \in [Attempt -> ChildState] /\ child'[a] = "alive" /\ child[a] = "none"
        /\ \A b \in Attempt \ {a} : child'[b] = child[b]
    BY <1>1, <1>2, <1>4 DEF ChildState, SpawnSound
  <1>9. ChildKept({a})
    BY <1>8 DEF ChildKept
  <1>10. Effects({}, {}) /\ [Next]_vars
    BY <1>1, TablesSame
  <1>11. ServiceSound(w)'
    <2>1. HeldSound(w)'
      BY <1>1, <1>2, <1>6, <1>7, <1>10, HeldKept
    <2>2. SpawnSound(w)'
      BY <1>2, <1>6, <1>7 DEF SpawnSound
    <2>3. RunnerSound(w)'
      BY <1>2, <1>4, <1>6, <1>7, <1>8 DEF RunnerSound, Holds
    <2>4. RecoverySound(w)'
      BY <1>1, <1>6, <1>7, <1>9, <1>10, RecoveryKept
    <2> QED
      BY <2>1, <2>2, <2>3, <2>4 DEF ServiceSound
  <1>12. Current(a)'
    BY <1>1, <1>2, <1>4 DEF SpawnSound, Current, HeldStates, vars
  <1>13. \A v \in Worker \ {w} : Holds(v) \notin {a}
    BY <1>1, <1>2, <1>4, HandlesDiffer
  <1>14. Frame(w, {}, {}, {a})
    BY <1>3, <1>4, <1>9, <1>10, <1>12, <1>13 DEF Frame
  <1>15. Moves(w, row)
    BY <1>6, <1>7, <1>8 DEF Moves
  <1> QED
    BY <1>10, <1>11, <1>14, <1>15, MoverStep

\* A finalization: an attempt whose child may be alive is blocked, never given up.
LEMMA FinalizeStep ==
  ASSUME ServicesInv, NEW w \in Worker, Finalize(w)
  PROVE  ServicesInv'
  <1>1. /\ service \in [Worker -> ServiceRow] /\ child \in [Attempt -> ChildState]
        /\ SafetyInv /\ RunnerSound(w) /\ service[w].pc = "finalizing" /\ "finalizing" \in Working
        /\ UNCHANGED child /\ service' = [service EXCEPT ![w] = ServiceAt("idle")]
    BY DEF ServicesInv, WorkerTypeOK, WorkerInv, Finalize, Become, Working
  <1>2. PICK a \in Attempt : a = Holds(w)
    BY <1>1, HandleOf
  <1>3. PICK p \in Plan : p = service[w].plan
    BY <1>1 DEF RunnerSound
  <1>4. p[4] \in BOOLEAN /\ (child[a] = "alive" => p[3] = "BLOCKED" /\ ~p[4])
    BY <1>1, <1>2, <1>3, PlanParts DEF RunnerSound
  <1>5. PICK ts \in CallTimes(w) :
          FinalizeCall(a, p, ts) \/ UNCHANGED vars
    BY <1>2, <1>3 DEF Finalize, FinalizeCall
  <1>6. [Next]_vars
    <2>1. CASE FinalizeCall(a, p, ts)
      BY <1>1, <1>2, <1>3, <2>1, FinalizeIsCall
    <2> QED
      BY <1>5, <2>1
  <1>7. ChildKept({})
    BY <1>1, ChildSame
  <1>8. PICK row : row = ServiceAt("idle")
    OBVIOUS
  <1>9. row \in ServiceRow
    BY <1>8, FreshRow DEF Pc
  <1>10. Moves(w, row) /\ service'[w] = row
    BY <1>1, <1>8, <1>9 DEF Moves
  <1>11. ServiceSound(w)'
    BY <1>8, <1>10, ResetSound
  <1>12. CASE FinalizeCall(a, p, ts)
    <2>1. /\ Effects({a}, {}) /\ jobs'[a[1]].attemptCount = a[2]
          /\ jobs'[a[1]].state = IF p[4] THEN "QUEUED" ELSE p[3]
      BY <1>1, <1>4, <1>12, EffectsFinalize
    <2>2. child'[a] = "alive" => Current(a)'
      BY <1>1, <1>4, <2>1 DEF Current, HeldStates
    <2>3. \A v \in Worker \ {w} : Holds(v) \notin {a}
      BY <1>1, <1>2, HandlesDiffer
    <2>4. Frame(w, {a}, {}, {})
      BY <1>7, <2>1, <2>2, <2>3 DEF Frame
    <2> QED
      BY <1>6, <1>10, <1>11, <2>4, MoverStep
  <1>13. CASE UNCHANGED vars
    <2>1. Frame(w, {}, {}, {})
      BY <1>7, <1>13, TablesSame, QuietFrame
    <2> QED
      BY <1>6, <1>10, <1>11, <2>1, MoverStep
  <1> QED
    BY <1>5, <1>12, <1>13

\* worker_start records a child that was spawned, or is refused.
LEMMA HeartbeatStartStep ==
  ASSUME ServicesInv, NEW w \in Worker, HeartbeatStart(w)
  PROVE  ServicesInv'
  <1>1. /\ service \in [Worker -> ServiceRow] /\ child \in [Attempt -> ChildState]
        /\ SafetyInv /\ RunnerSound(w) /\ service[w].pc = "looping" /\ UNCHANGED child
    BY DEF ServicesInv, WorkerTypeOK, WorkerInv, HeartbeatStart
  <1>2. /\ {"looping", "started", "refused"} \subseteq Working \cap InRunner
        /\ \A pc \in {"looping", "started", "refused"} :
             pc \notin BeforeSpawn /\ pc \notin AfterRunner /\ pc # "finalizing"
    BY DEF Working, BeforeSpawn, InRunner, AfterRunner
  <1>3. Holds(w) \in Attempt /\ Holds(w) \in Issued
    BY <1>1, <1>2, HandleOf
  <1>4. child[Holds(w)] # "none" /\ ChildKept({})
    BY <1>1, <1>2, ChildSame DEF RunnerSound
  <1>5. PICK ts \in CallTimes(w) :
          \/ /\ WorkerStart(Holds(w), ts)
             /\ service' = [service EXCEPT ![w].pc = "started", ![w].running = TRUE]
          \/ UNCHANGED vars /\ Goto(w, "refused")
    BY DEF HeartbeatStart
  <1>6. CASE UNCHANGED vars /\ Goto(w, "refused")
    BY <1>1, <1>2, <1>4, <1>6, TablesSame, GotoStep
  <1>7. CASE /\ WorkerStart(Holds(w), ts)
             /\ service' = [service EXCEPT ![w].pc = "started", ![w].running = TRUE]
    <2>1. Effects({}, {Holds(w)})
      BY <1>1, <1>3, <1>7, EffectsStart
    <2>2. [Next]_vars
      BY <1>3, <1>7 DEF Next, CallTimes
    <2>3. PICK row : row = [service[w] EXCEPT !.pc = "started", !.running = TRUE]
      OBVIOUS
    <2>4. service' = [service EXCEPT ![w] = row]
      BY <1>1, <1>7, <2>3
    <2>5. /\ row \in ServiceRow /\ row.pc = "started" /\ row.held = service[w].held
          /\ row.todo = service[w].todo /\ row.seen = service[w].seen
      BY <1>1, <2>3 DEF ServiceRow, Pc
    <2>6. Moves(w, row) /\ AtWork(w, row)
      BY <1>1, <1>2, <1>4, <2>4, <2>5 DEF Moves, AtWork
    <2>7. \A a \in {Holds(w)} : child'[a] # "none"
      BY <1>1, <1>4
    <2> QED
      BY <1>4, <2>1, <2>2, <2>6, <2>7, WorkStep
  <1> QED
    BY <1>5, <1>6, <1>7

\* What the invariant says of a service inside the runner or after it.
LEMMA RunnerFacts ==
  ASSUME ServicesInv, NEW w \in Worker
  PROVE  /\ service[w] \in ServiceRow /\ child \in [Attempt -> ChildState]
         /\ service[w].pc \in BeforeSpawn \cup InRunner \cup AfterRunner => service[w].pc \in Working
         /\ service[w].pc \in BeforeSpawn => child[Holds(w)] = "none"
         /\ service[w].pc \in InRunner => child[Holds(w)] # "none"
         /\ service[w].pc \in AfterRunner => child[Holds(w)] = "gone"
  BY DEF ServicesInv, WorkerTypeOK, WorkerInv, SpawnSound, RunnerSound, Working

\* Before the child exists: blocking the claim, and the control call that asks whether to go on.
LEMMA BeforeChildStep ==
  ASSUME ServicesInv, NEW w \in Worker, BlockClaimed(w) \/ PreSpawnControl(w)
  PROVE  ServicesInv'
  <1>1. service[w].pc \in BeforeSpawn /\ UNCHANGED child
    BY DEF BlockClaimed, PreSpawnControl, BeforeSpawn
  <1>2. service[w].pc \in Working /\ child[Holds(w)] = "none" /\ child'[Holds(w)] = "none"
    BY <1>1, RunnerFacts
  <1>3. child' \in [Attempt -> ChildState] /\ ChildKept({})
    BY <1>1, RunnerFacts, ChildSame
  <1>4. CASE BlockClaimed(w)
    BY <1>2, <1>3, <1>4, TablesSame, PlansAreTyped, DecideStep DEF BlockClaimed
  <1>5. CASE PreSpawnControl(w)
    <2>1. PICK ts \in CallTimes(w) :
            /\ ControlCall(Holds(w), "CLAIMED", ts)
            /\ \/ Become(w, "idle") \/ Decide(w, CancelPlan("CLAIMED")) \/ Goto(w, "prepared")
      BY <1>5 DEF PreSpawnControl
    <2>2. [Next]_vars /\ Effects({}, {})
      BY <1>1, <1>2, <2>1, ControlStep
    <2>3. CASE Become(w, "idle")
      BY <1>3, <2>2, <2>3, ResetStep
    <2>4. CASE Decide(w, CancelPlan("CLAIMED"))
      <3>1. CancelPlan("CLAIMED") \in Plan
        BY PlansAreTyped
      <3> QED
        BY <1>2, <1>3, <2>2, <2>4, <3>1, DecideStep
    <2>5. CASE Goto(w, "prepared")
      <3>1. /\ "prepared" \in Working \ {"finalizing"} /\ "prepared" \in BeforeSpawn
            /\ "prepared" \notin InRunner /\ "prepared" \notin AfterRunner
        BY DEF Working, BeforeSpawn, InRunner, AfterRunner
      <3> QED
        BY <1>1, <1>2, <2>2, <2>5, <3>1, GotoStep
    <2> QED
      BY <2>1, <2>3, <2>4, <2>5
  <1> QED
    BY <1>4, <1>5

\* The loop of the runner and its heartbeat.
LEMMA LoopStep ==
  ASSUME ServicesInv, NEW w \in Worker,
         HeartbeatDrift(w) \/ HeartbeatRefused(w) \/ HeartbeatControl(w) \/ Timeout(w)
  PROVE  ServicesInv'
  <1>1. service[w].pc \in InRunner /\ UNCHANGED child
    BY DEF HeartbeatDrift, HeartbeatRefused, HeartbeatControl, Timeout, InRunner
  <1>2. service[w].pc \in Working /\ child[Holds(w)] # "none"
    BY <1>1, RunnerFacts
  <1>3. /\ "looping" \in Working \ {"finalizing"} /\ "looping" \notin BeforeSpawn
        /\ "looping" \notin AfterRunner
    BY DEF Working, BeforeSpawn, InRunner, AfterRunner
  <1>4. CASE HeartbeatDrift(w)
    BY <1>1, <1>4, TablesSame, LoopingStep DEF HeartbeatDrift
  <1>5. CASE Timeout(w)
    BY <1>1, <1>5, TablesSame, LoopingStep DEF Timeout
  <1>6. CASE HeartbeatRefused(w)
    <2>1. PICK ts \in CallTimes(w), reason \in {"CANCELLED", "STALE_LEASE"} :
            ControlCall(Holds(w), "CLAIMED", ts) /\ Looping(w, reason)
      BY <1>6 DEF HeartbeatRefused
    <2>2. [Next]_vars /\ Effects({}, {})
      BY <1>1, <1>2, <2>1, ControlStep
    <2> QED
      BY <1>1, <2>1, <2>2, LoopingStep
  <1>7. CASE HeartbeatControl(w)
    <2>1. PICK ts \in CallTimes(w) :
            /\ ControlCall(Holds(w), "RUNNING", ts)
            /\ \/ Looping(w, "STALE_LEASE") \/ Looping(w, "CANCELLED") \/ Goto(w, "looping")
      BY <1>7 DEF HeartbeatControl
    <2>2. [Next]_vars /\ Effects({}, {})
      BY <1>1, <1>2, <2>1, ControlStep
    <2>3. CASE Looping(w, "STALE_LEASE") \/ Looping(w, "CANCELLED")
      BY <1>1, <2>2, <2>3, LoopingStep
    <2>4. CASE Goto(w, "looping")
      BY <1>1, <1>2, <1>3, <2>2, <2>4, GotoStep
    <2> QED
      BY <2>1, <2>3, <2>4
  <1> QED
    BY <1>4, <1>5, <1>6, <1>7

\* A step that is not one of a service.
LEMMA NobodyMoves ==
  ASSUME ServicesInv, [Next]_vars, Effects({}, {}), UNCHANGED service,
         child' \in [Attempt -> ChildState], ChildKept({})
  PROVE  ServicesInv'
  <1>1. SafetyInv'
    BY SafetyKept DEF ServicesInv
  <1>2. WorkerTypeOK'
    BY DEF ServicesInv, WorkerTypeOK
  <1>3. \A v \in Worker : ServiceSound(v)'
    <2>1. TypeOK /\ \A v \in Worker : ServiceSound(v)
      BY DEF ServicesInv, SafetyInv, WorkerInv, ServiceSound
    <2> QED
      BY <2>1, QuietService
  <1>4. (\A a \in Attempt : ChildSound(a))' /\ LiveChildAccountedFor'
    BY ChildrenStep
  <1> QED
    BY <1>1, <1>2, <1>3, <1>4 DEF ServicesInv, WorkerInv, ServiceSound

\* The clock, the operators, and stuttering.
LEMMA OutsideStep ==
  ASSUME ServicesInv, Tick \/ Operator \/ UNCHANGED vars, UNCHANGED workerVars
  PROVE  ServicesInv'
  <1>1. [Next]_vars
    BY DEF Operator, Next
  <1>2. Effects({}, {})
    <2>1. CASE Tick
      BY <2>1, EffectsNone DEF Tick
    <2>2. CASE Operator
      BY <2>2, EffectsOperator DEF ServicesInv
    <2> QED
      BY <2>1, <2>2, TablesSame
  <1>3. UNCHANGED <<service, child>> /\ ChildKept({}) /\ child' \in [Attempt -> ChildState]
    BY ChildSame DEF workerVars, ServicesInv, WorkerTypeOK
  <1> QED
    BY <1>1, <1>2, <1>3, NobodyMoves

\* A child exits by itself, or is killed.
LEMMA ExitStep ==
  ASSUME ServicesInv, NEW a \in Attempt, child[a] = "alive",
         child' = [child EXCEPT ![a] = "zombie"], UNCHANGED <<vars, service>>
  PROVE  ServicesInv'
  BY TablesSame, ChildMoves, NobodyMoves

\* The end of the loop: the child is reaped, or nobody can say that it is gone.
LEMMA RunnerEndsStep ==
  ASSUME ServicesInv, NEW w \in Worker, Reap(w) \/ CleanupUnproven(w)
  PROVE  ServicesInv'
  <1>1. service[w].pc = "looping" /\ UNCHANGED vars
    BY DEF Reap, CleanupUnproven
  <1>2. service[w].pc \in InRunner /\ Effects({}, {}) /\ [Next]_vars
    BY <1>1, TablesSame DEF InRunner
  <1>3. /\ service[w] \in ServiceRow /\ child \in [Attempt -> ChildState]
        /\ service[w].pc \in Working /\ child[Holds(w)] # "none"
    BY <1>2, RunnerFacts
  <1>4. PICK a \in Attempt : a = Holds(w)
    BY <1>3, HandleOf
  <1>5. service[w].running \in BOOLEAN
        /\ service[w].reason \in {NoReason, "CANCELLED", "SAFETY_DRIFT", "STALE_LEASE", "TIMEOUT"}
    BY <1>3 DEF ServiceRow
  <1>6. CASE Reap(w)
    <2>1. child' = [child EXCEPT ![a] = "gone"] /\ child[a] = "zombie"
      BY <1>4, <1>6 DEF Reap
    <2>2. child' \in [Attempt -> ChildState] /\ ChildKept({}) /\ child'[a] = "gone"
      BY <2>1, ChildMoves
    <2>3. CASE Become(w, "idle")
      BY <1>2, <2>2, <2>3, ResetStep
    <2>4. CASE Goto(w, "drained")
      <3>1. PICK row : row = [service[w] EXCEPT !.pc = "drained"]
        OBVIOUS
      <3>2. /\ row \in ServiceRow /\ row.pc = "drained" /\ row.held = service[w].held
            /\ row.todo = service[w].todo /\ row.seen = service[w].seen
        BY <1>3, <3>1 DEF ServiceRow, Pc
      <3>3. service' = [service EXCEPT ![w] = row]
        BY <2>4, <3>1 DEF Goto, ServicesInv, WorkerTypeOK
      <3>4. Moves(w, row)
        BY <2>2, <3>2, <3>3 DEF Moves
      <3>5. AtWork(w, row)
        BY <1>3, <1>4, <2>2, <3>2 DEF AtWork, Working, BeforeSpawn, InRunner, AfterRunner
      <3> QED
        BY <1>2, <2>2, <3>4, <3>5, WorkStep
    <2>5. CASE Decide(w, TerminationPlan("OUTPUT_DRAIN_TRUNCATED", TRUE))
      <3>1. TerminationPlan("OUTPUT_DRAIN_TRUNCATED", TRUE) \in Plan
        BY DEF TerminationPlan, Plan, JobState, TerminalStates, WorkerReason
      <3> QED
        BY <1>2, <1>3, <1>4, <2>2, <2>5, <3>1, DecideStep
    <2>6. CASE /\ service[w].reason \notin {NoReason, "STALE_LEASE"}
               /\ Decide(w, TerminationPlan(service[w].reason, service[w].running))
      <3>1. TerminationPlan(service[w].reason, service[w].running) \in Plan
        BY <1>5, <2>6, TerminationTyped
      <3> QED
        BY <1>2, <1>3, <1>4, <2>2, <2>6, <3>1, DecideStep
    <2> QED
      BY <1>6, <2>3, <2>4, <2>5, <2>6 DEF Reap
  <1>7. CASE CleanupUnproven(w)
    <2>1. child' \in [Attempt -> ChildState] /\ ChildKept({})
      <3>1. CASE UNCHANGED child
        BY <1>3, <3>1, ChildSame
      <3>2. CASE child' = [child EXCEPT ![a] = "gone"]
        BY <1>3, <1>4, <3>2, ChildMoves
      <3> QED
        BY <1>4, <1>7, <3>1, <3>2 DEF CleanupUnproven
    <2>2. PICK plan : plan = TerminationPlan("PROCESS_GROUP_CLEANUP_UNPROVEN", service[w].running)
      OBVIOUS
    <2>3. plan \in Plan /\ plan[3] = "BLOCKED" /\ ~plan[4]
      BY <1>5, <2>2, TerminationTyped
    <2>4. Decide(w, plan)
      BY <1>7, <2>2 DEF CleanupUnproven
    <2> QED
      BY <1>2, <1>3, <2>1, <2>3, <2>4, DecideStep
  <1> QED
    BY <1>6, <1>7

\* Around the result validator.
LEMMA ValidationStep ==
  ASSUME ServicesInv, NEW w \in Worker,
         \/ ValidationProgress(w) \/ ValidationBlocked(w)
         \/ ValidationFailed(w) \/ ValidationPassed(w)
  PROVE  ServicesInv'
  <1>1. service[w].pc \in AfterRunner /\ UNCHANGED child
    BY DEF ValidationProgress, ValidationBlocked, ValidationFailed, ValidationPassed, AfterRunner
  <1>2. /\ service[w].pc \in Working /\ child[Holds(w)] = "gone" /\ child'[Holds(w)] # "alive"
        /\ child' \in [Attempt -> ChildState] /\ ChildKept({})
    BY <1>1, RunnerFacts, ChildSame
  <1>3. CASE ValidationBlocked(w) \/ ValidationFailed(w) \/ ValidationPassed(w)
    <2>1. PICK plan \in Plan : Decide(w, plan) /\ UNCHANGED vars
      <3>1. \A retry \in BOOLEAN, reason \in WorkerReason :
               /\ <<"RUNNING", "RUNNING", "SUCCEEDED", retry, reason>> \in Plan
               /\ <<"RUNNING", "RUNNING", "FAILED", retry, reason>> \in Plan
               /\ <<"RUNNING", "RUNNING", "BLOCKED", retry, reason>> \in Plan
        BY DEF Plan, JobState, TerminalStates
      <3>2. {"SAFETY_DRIFT", "RESULT_RECONCILIATION_REQUIRED", "RESULT_VALIDATION_FAILED",
             "RESULT_VALIDATED"} \subseteq WorkerReason
        BY DEF WorkerReason
      <3>3. CASE ValidationBlocked(w)
        BY <3>1, <3>2, <3>3 DEF ValidationBlocked, RunningPlan
      <3>4. CASE ValidationFailed(w)
        BY <3>1, <3>2, <3>4 DEF ValidationFailed, RunningPlan
      <3>5. CASE ValidationPassed(w)
        BY <3>1, <3>2, <3>5 DEF ValidationPassed, RunningPlan
      <3> QED
        BY <1>3, <3>3, <3>4, <3>5
    <2> QED
      BY <1>2, <2>1, TablesSame, DecideStep
  <1>4. CASE ValidationProgress(w)
    <2>1. PICK ts \in CallTimes(w) :
            /\ ControlCall(Holds(w), "RUNNING", ts)
            /\ \/ Become(w, "idle") \/ Decide(w, CancelPlan("RUNNING"))
               \/ Goto(w, "validating") \/ Goto(w, "validated")
      BY <1>4 DEF ValidationProgress
    <2>2. [Next]_vars /\ Effects({}, {})
      BY <1>1, <1>2, <2>1, ControlStep
    <2>3. CASE Become(w, "idle")
      BY <1>2, <2>2, <2>3, ResetStep
    <2>4. CASE Decide(w, CancelPlan("RUNNING"))
      <3>1. CancelPlan("RUNNING") \in Plan
        BY PlansAreTyped
      <3> QED
        BY <1>2, <2>2, <2>4, <3>1, DecideStep
    <2>5. CASE Goto(w, "validating") \/ Goto(w, "validated")
      <3>1. \A pc \in {"validating", "validated"} :
              pc \in Working \ {"finalizing"} /\ pc \notin BeforeSpawn /\ pc \notin InRunner
        BY DEF Working, BeforeSpawn, InRunner, AfterRunner
      <3> QED
        BY <1>1, <1>2, <2>2, <2>5, <3>1, GotoStep
    <2> QED
      BY <2>1, <2>3, <2>4, <2>5
  <1> QED
    BY <1>3, <1>4

\* A service ends, and its control group with it; or it enters the claim loop.
LEMMA CrashStep ==
  ASSUME ServicesInv, NEW w \in Worker, Crash(w) \/ EnterLoop(w)
  PROVE  ServicesInv'
  <1>1. CASE Crash(w)
    <2>1. child \in [Attempt -> ChildState]
      BY DEF ServicesInv, WorkerTypeOK
    <2>2. child' \in [Attempt -> ChildState] /\ ChildKept({})
      BY <1>1, <2>1 DEF Crash, ChildState, ChildKept
    <2> QED
      BY <1>1, <2>2, TablesSame, ResetStep DEF Crash
  <1>2. CASE EnterLoop(w)
    <2>1. child' \in [Attempt -> ChildState] /\ ChildKept({})
      BY <1>2, ChildSame DEF EnterLoop, ServicesInv, WorkerTypeOK
    <2> QED
      BY <1>2, <2>1, TablesSame, ResetStep DEF EnterLoop
  <1> QED
    BY <1>1, <1>2

-----------------------------------------------------------------------------
(* The theorems about the worker services.                                  *)

\* In the initial state nothing runs.
LEMMA ServicesInit ==
  ASSUME WorkerInit
  PROVE  ServicesInv
  <1>1. SafetyInv
    BY SafetyInit DEF WorkerInit
  <1>2. WorkerTypeOK
    BY FreshRow DEF WorkerInit, WorkerTypeOK, ChildState, Pc
  <1>3. ASSUME NEW w \in Worker
        PROVE  HeldSound(w) /\ SpawnSound(w) /\ RunnerSound(w) /\ RecoverySound(w)
    <2>1. service[w] = ServiceAt("down")
      BY DEF WorkerInit
    <2> QED
      BY <2>1 DEF HeldSound, SpawnSound, RunnerSound, RecoverySound, ServiceAt, Holds, Working,
                  BeforeSpawn, InRunner, AfterRunner
  <1>4. (\A a \in Attempt : ChildSound(a)) /\ LiveChildAccountedFor
    BY DEF WorkerInit, Init, NoAttemptRow, ChildSound, LiveChildAccountedFor
  <1> QED
    BY <1>1, <1>2, <1>3, <1>4 DEF ServicesInv, WorkerInv

\* Every step of services, children, operators and the clock preserves the invariant.
LEMMA ServicesStep ==
  ASSUME ServicesInv, [WorkerNext]_allVars
  PROVE  ServicesInv'
  <1>1. ASSUME NEW w \in Worker, ServiceStep(w) \/ Crash(w) PROVE ServicesInv'
    <2>1. CASE PollEmpty(w)
      BY <2>1, OutsideStep DEF PollEmpty, allVars
    <2>2. CASE KillChild(w)
      <3>1. service[w].pc \in Working
        BY <2>2 DEF KillChild, Working, InRunner
      <3> QED
        BY <2>2, <3>1, HandleOf, ExitStep DEF KillChild
    <2> QED
      BY <1>1, <2>1, <2>2, StartStep, InspectStep, RecoverStep, CrashStep, ClaimStep,
         BeforeChildStep, SpawnStep, LoopStep, HeartbeatStartStep, RunnerEndsStep, ValidationStep,
         FinalizeStep DEF ServiceStep
  <1>2. ASSUME NEW a \in Attempt, ChildExit(a) PROVE ServicesInv'
    BY <1>2, ExitStep DEF ChildExit
  <1>3. CASE (Tick \/ Operator) /\ UNCHANGED workerVars
    BY <1>3, OutsideStep
  <1>4. CASE UNCHANGED allVars
    BY <1>4, OutsideStep DEF allVars
  <1> QED
    BY <1>1, <1>2, <1>3, <1>4 DEF WorkerNext

\* Whatever the services, the children, crashes, restarts, recoveries, operators and the clock do,
\* and in whatever order, the tables, the memories of the services and the processes of the host
\* stay in step.
THEOREM WorkerSafety == WorkerSpec => []ServicesInv
  <1>1. WorkerInit => ServicesInv
    BY ServicesInit
  <1>2. ServicesInv /\ [WorkerNext]_allVars => ServicesInv'
    BY ServicesStep
  <1> QED
    BY <1>1, <1>2, PTL DEF WorkerSpec

\* The program state of every service and the state of every child has its type.
THEOREM WorkerTypeCorrect == WorkerSpec => []WorkerTypeOK
  <1>1. ServicesInv => WorkerTypeOK
    BY DEF ServicesInv
  <1> QED
    BY <1>1, WorkerSafety, PTL

\* The invariant that the run checks holds for any number of jobs, workers, attempts and ticks.
THEOREM WorkerInvariant == WorkerSpec => []WorkerInv
  <1>1. ServicesInv => WorkerInv
    BY DEF ServicesInv
  <1> QED
    BY <1>1, WorkerSafety, PTL

\* Never two live children of one job: a child that is alive belongs to the latest attempt of a
\* job that is owned, or that was blocked because of it.
THEOREM LiveChildrenAccountedFor == WorkerSpec => []LiveChildAccountedFor
  <1>1. ServicesInv => LiveChildAccountedFor
    BY DEF ServicesInv, WorkerInv
  <1> QED
    BY <1>1, WorkerSafety, PTL

\* The services use the job plane only through its functions, with handles they were issued: the
\* composed system implements the job plane, and its theorems hold of it.
THEOREM WorkerImplementsPlane == WorkerSpec => Spec
  <1>1. WorkerInit => Init
    BY DEF WorkerInit
  <1>2. ServicesInv /\ [WorkerNext]_allVars => [Next]_vars
    BY StepIsCall
  <1> QED
    BY <1>1, <1>2, WorkerSafety, PTL DEF WorkerSpec, Spec

-----------------------------------------------------------------------------
(* The profiles that store a result outside the job tables.                 *)

\* Every step of run_once with these profiles is one of the worker or leaves it where it is.
LEMMA IngestionIsWorker ==
  ASSUME [IngestionNext]_systemVars
  PROVE  [WorkerNext]_allVars
  <1>1. ASSUME NEW w \in Worker, Unchanged(w) PROVE WorkerNext
    BY <1>1 DEF Unchanged, WorkerNext, ServiceStep
  <1>2. ASSUME NEW w \in Worker, Storing(w) PROVE [WorkerNext]_allVars
    <2>1. CASE \/ NoPriorReceipt(w) \/ IngestEngine(w) \/ IngestFails(w) \/ ReceiptFound(w)
               \/ PersistSnapshot(w)
      BY <2>1 DEF NoPriorReceipt, IngestEngine, IngestFails, ReceiptFound, PersistSnapshot
    <2>2. CASE PriorReceipt(w)
      <3>1. BlockClaimed(w)
        BY <2>2 DEF PriorReceipt, BlockClaimed
      <3> QED
        BY <3>1 DEF WorkerNext, ServiceStep
    <2>3. CASE IngestRefused(w) \/ NoReceipt(w)
      <3>1. ValidationBlocked(w)
        BY <2>3 DEF IngestRefused, NoReceipt, AtStage, Reconciliation, ValidationBlocked
      <3> QED
        BY <3>1 DEF WorkerNext, ServiceStep
    <2>4. CASE \/ SpawnClear(w) \/ IngestionProgress(w) \/ PersistFails(w) \/ ValidatorRejects(w)
               \/ StoredOrNotBlocked(w)
      BY <2>4 DEF SpawnClear, IngestionProgress, PersistFails, ValidatorRejects,
                  StoredOrNotBlocked, WorkerNext, ServiceStep
    <2> QED
      BY <1>2, <2>1, <2>2, <2>3, <2>4 DEF Storing
  <1>3. CASE /\ \/ (Tick \/ Operator) /\ UNCHANGED workerVars
                \/ \E a \in Attempt : ChildExit(a)
    BY <1>3 DEF WorkerNext
  <1>4. CASE UNCHANGED systemVars
    BY <1>4 DEF systemVars
  <1> QED
    BY <1>1, <1>2, <1>3, <1>4 DEF IngestionNext

\* The worker with these profiles is the worker of JobWorker.
THEOREM IngestionRefinesWorker == IngestionSpec => ImplementsWorker
  <1>1. IngestionInit => WorkerInit
    BY DEF IngestionInit
  <1>2. [IngestionNext]_systemVars => [WorkerNext]_allVars
    BY IngestionIsWorker
  <1> QED
    BY <1>1, <1>2, PTL DEF IngestionSpec, ImplementsWorker, WorkerSpec

\* The result of attempt a is durable.
Stored(a) == IF profile[a[1]] = "ENGINE" THEN bound[a[1]] = a ELSE a[1] \in snapshot

\* The result of a job is one of its own attempts.
BoundSound(j) ==
  bound[j] # NoAttempt =>
    bound[j] \in Attempt /\ bound[j][1] = j /\ IsIssued(bound[j]) /\ profile[j] = "ENGINE"

\* What run_once knows about its result is true: it checked for a receipt and none has come since,
\* it stored the result, or it has stored nothing.
StageSound(w) ==
  /\ stage[w] # "none" => service[w].pc \in {"prepared"} \cup InRunner \cup AfterRunner
  /\ stage[w] \in {"ready", "lost"} => service[w].pc = "validating"
  /\ stage[w] = "stored" => service[w].pc \in {"validating", "validated"} /\ Stored(Holds(w))
  /\ service[w].pc = "validated" => stage[w] = "stored"
  /\ service[w].pc = "prepared" /\ stage[w] = "clear" => bound[JobOf(w)] = NoAttempt
  /\ service[w].pc \in Working \ {"finalizing"} /\ stage[w] \notin {"lost", "stored"} =>
       bound[JobOf(w)] # Holds(w)

\* A success that was decided on is durable, a failure is not.
PlanSound(w) ==
  service[w].pc = "finalizing" =>
    /\ service[w].plan[3] = "SUCCEEDED" => Stored(Holds(w))
    /\ service[w].plan[3] \in {"FAILED", "TIMED_OUT"} => bound[JobOf(w)] # Holds(w)

ResultsSound ==
  /\ \A j \in Job : BoundSound(j)
  /\ NoRerunAfterResult /\ DurableBeforeSuccess /\ OwnFailureNeverDurable

\* The inductive invariant of the worker with these profiles.
IngestionInv ==
  /\ ServicesInv /\ IngestionTypeOK /\ ResultsSound
  /\ \A w \in Worker : StageSound(w) /\ PlanSound(w)

\* What a step of service w may do to the results: it removes and replaces none, and adds none that
\* another service relies on not being there.
ResultsKept(w) ==
  /\ profile' = profile /\ snapshot \subseteq snapshot'
  /\ \A j \in Job : bound[j] # NoAttempt => bound'[j] = bound[j]
  /\ \A v \in Worker \ {w} :
       /\ service'[v] = service[v] /\ stage'[v] = stage[v]
       /\ service[v].pc \in Working =>
            /\ bound'[JobOf(v)] = Holds(v) => bound[JobOf(v)] = Holds(v)
            /\ service[v].pc = "prepared" /\ bound[JobOf(v)] = NoAttempt =>
                 bound'[JobOf(v)] = NoAttempt

\* The job of a service at work.
LEMMA JobOfWork ==
  ASSUME ServicesInv, NEW w \in Worker, service[w].pc \in Working
  PROVE  /\ JobOf(w) \in Job /\ Holds(w) \in Attempt /\ Holds(w) # NoAttempt
         /\ Holds(w) = <<JobOf(w), Holds(w)[2]>>
  <1>1. Holds(w) \in Attempt
    BY HandleOf
  <1>2. NoAttempt \notin Attempt
    BY JobPlaneAssumption DEF NoAttempt, Attempt
  <1> QED
    BY <1>1, <1>2, AttemptParts DEF JobOf, Attempt

\* The services that do not move keep what they know about results.
LEMMA OthersKept ==
  ASSUME IngestionInv, NEW w \in Worker, ResultsKept(w)
  PROVE  \A v \in Worker \ {w} : StageSound(v)' /\ PlanSound(v)'
  <1> SUFFICES ASSUME NEW v \in Worker \ {w} PROVE StageSound(v)' /\ PlanSound(v)'
    OBVIOUS
  <1>1. /\ service'[v] = service[v] /\ stage'[v] = stage[v] /\ StageSound(v) /\ PlanSound(v)
        /\ ServicesInv
    BY DEF ResultsKept, IngestionInv
  <1>2. service[v].pc \in Working => JobOf(v) \in Job /\ Holds(v) # NoAttempt
    BY <1>1, JobOfWork
  <1>3. service[v].pc \in Working =>
          /\ bound'[JobOf(v)] = Holds(v) => bound[JobOf(v)] = Holds(v)
          /\ service[v].pc = "prepared" /\ bound[JobOf(v)] = NoAttempt =>
               bound'[JobOf(v)] = NoAttempt
    BY DEF ResultsKept
  <1>4. service[v].pc \in Working /\ Stored(Holds(v)) =>
          IF profile'[JobOf(v)] = "ENGINE" THEN bound'[JobOf(v)] = Holds(v) ELSE JobOf(v) \in snapshot'
    BY <1>2 DEF Stored, ResultsKept, JobOf
  <1>5. {"prepared", "validating", "validated", "finalizing"} \subseteq Working
    BY DEF Working, BeforeSpawn, AfterRunner
  <1>6. StageSound(v)'
    BY <1>1, <1>3, <1>4, <1>5 DEF StageSound, Stored, JobOf, Holds
  <1>7. PlanSound(v)'
    BY <1>1, <1>3, <1>4, <1>5 DEF PlanSound, Stored, JobOf, Holds
  <1> QED
    BY <1>6, <1>7

\* No job succeeds and no attempt ends as failed or timed out.
NoNewEnds ==
  /\ \A j \in Job : jobs'[j] = jobs[j] \/ jobs'[j].state # "SUCCEEDED"
  /\ \A a \in Attempt :
       attempts'[a] = attempts[a] \/ attempts'[a].outcome \notin {NoOutcome, "FAILED", "TIMED_OUT"}

\* A call that rewrites the row of a job and of an attempt.
LEMMA RowEnds ==
  ASSUME TypeOK, NEW j \in Job, NEW a \in Attempt, NEW row, NEW att,
         jobs' = [jobs EXCEPT ![j] = row], attempts' = [attempts EXCEPT ![a] = att],
         row.state # "SUCCEEDED", att.outcome \notin {NoOutcome, "FAILED", "TIMED_OUT"}
  PROVE  NoNewEnds
  BY DEF TypeOK, NoNewEnds

\* Only a finalization ends a job in success, or an attempt in failure.
LEMMA CallEnds ==
  ASSUME SafetyInv, NEW a \in Attempt, NEW ts, NEW w, NEW busy, NEW j \in Job,
         \/ WorkerClaim(w, j, busy) \/ WorkerStart(a, ts)
         \/ WorkerControl(a, "CLAIMED", ts) \/ WorkerControl(a, "RUNNING", ts)
  PROVE  NoNewEnds
  <1>1. /\ jobs[a[1]] \in JobRow /\ attempts[a] \in AttemptRow /\ TypeOK /\ a[1] \in Job
        /\ jobs[j] \in JobRow
    BY RowTypes, AttemptParts DEF SafetyInv, TypeOK
  <1>2. /\ \A s \in ActiveStates \cup {"QUEUED", "BLOCKED"} : s # "SUCCEEDED"
        /\ \A s \in {"CLAIMED", "RUNNING", "BLOCKED", "INTERRUPTED"} :
             s \notin {NoOutcome, "FAILED", "TIMED_OUT"}
    BY DEF ActiveStates, NoOutcome
  <1>3. CASE WorkerClaim(w, j, busy)
    <2>1. PICK n : n = jobs[j].attemptCount + 1
      OBVIOUS
    <2>2. PICK row : row = [jobs[j] EXCEPT !.state = "CLAIMED", !.attemptCount = n, !.leaseOwner = w,
                                    !.leaseToken = lastToken',
                                    !.leaseExpires = now + LeaseSeconds, !.nextAttemptAt = 0]
      OBVIOUS
    <2>3. PICK att : att = [outcome |-> "CLAIMED", worker |-> w, token |-> lastToken',
                     leaseExpires |-> now + LeaseSeconds, heartbeatAt |-> now, child |-> FALSE]
      OBVIOUS
    <2>4. jobs' = [jobs EXCEPT ![j] = row] /\ attempts' = [attempts EXCEPT ![<<j, n>>] = att]
      BY <1>3, <2>1, <2>2, <2>3 DEF WorkerClaim
    <2>5. row.state = "CLAIMED" /\ att.outcome = "CLAIMED"
      BY <1>1, <2>2, <2>3 DEF JobRow
    <2>6. /\ \A b \in Attempt : attempts'[b] = attempts[b] \/ attempts'[b] = att
          /\ \A i \in Job : jobs'[i] = jobs[i] \/ jobs'[i] = row
      BY <1>1, <2>4 DEF TypeOK
    <2> QED
      BY <2>5, <2>6 DEF NoNewEnds, NoOutcome
  <1>4. CASE WorkerStart(a, ts)
    <2>1. PICK row, att : /\ row = [jobs[a[1]] EXCEPT !.state = "RUNNING"]
                          /\ att = [attempts[a] EXCEPT !.outcome = "RUNNING", !.heartbeatAt = ts,
                                                       !.child = TRUE]
      OBVIOUS
    <2>2. row.state = "RUNNING" /\ att.outcome = "RUNNING"
      BY <1>1, <2>1 DEF JobRow, AttemptRow
    <2>3. jobs' = [jobs EXCEPT ![a[1]] = row] /\ attempts' = [attempts EXCEPT ![a] = att]
      BY <1>4, <2>1 DEF WorkerStart
    <2> QED
      BY <1>1, <1>2, <2>2, <2>3, RowEnds
  <1>5. ASSUME NEW phase \in {"CLAIMED", "RUNNING"}, WorkerControl(a, phase, ts)
        PROVE  NoNewEnds
    <2>1. PICK row, att : /\ row = [jobs[a[1]] EXCEPT !.leaseExpires = ts + LeaseSeconds]
                          /\ att = [attempts[a] EXCEPT !.leaseExpires = ts + LeaseSeconds,
                                                       !.heartbeatAt = ts]
      OBVIOUS
    <2>2. row.state = jobs[a[1]].state /\ att.outcome = attempts[a].outcome
      BY <1>1, <2>1 DEF JobRow, AttemptRow
    <2>3. jobs' = [jobs EXCEPT ![a[1]] = row] /\ attempts' = [attempts EXCEPT ![a] = att]
      BY <1>5, <2>1 DEF WorkerControl
    <2>4. row.state # "SUCCEEDED" /\ att.outcome \in {"CLAIMED", "RUNNING"}
      BY <1>5, <2>2 DEF WorkerControl, ControlFence
    <2> QED
      BY <1>1, <1>2, <2>3, <2>4, RowEnds
  <1> QED
    BY <1>3, <1>4, <1>5

\* A recovery blocks, fails or requeues the job; the attempt ends as blocked or interrupted.
LEMMA RecoverEnds ==
  ASSUME SafetyInv, NEW c \in candidates, NEW o, NEW ts,
         RecoverBlock(c, o, ts) \/ RecoverInterrupted(c, o, ts)
  PROVE  NoNewEnds
  <1>1. TypeOK
    BY DEF SafetyInv
  <1>2. \A s \in {"BLOCKED", "INTERRUPTED"} : s \notin {NoOutcome, "FAILED", "TIMED_OUT"}
    BY DEF NoOutcome
  <1>3. CASE RecoverBlock(c, o, ts)
    <2>1. /\ jobs'[c.attempt[1]].state = "BLOCKED"
          /\ \A i \in Job \ {c.attempt[1]} : jobs'[i] = jobs[i]
          /\ c.attempt \in Attempt /\ attempts' = [attempts EXCEPT ![c.attempt].outcome = "BLOCKED"]
      BY <1>3, EffectsBlock
    <2>2. attempts'[c.attempt].outcome = "BLOCKED"
          /\ \A b \in Attempt \ {c.attempt} : attempts'[b] = attempts[b]
      BY <1>1, <2>1 DEF TypeOK, AttemptRow
    <2> QED
      BY <1>2, <2>1, <2>2 DEF NoNewEnds
  <1>4. CASE RecoverInterrupted(c, o, ts)
    <2>1. /\ jobs'[c.attempt[1]].state \in {"QUEUED", "FAILED"}
          /\ \A i \in Job \ {c.attempt[1]} : jobs'[i] = jobs[i]
          /\ c.attempt \in Attempt
          /\ attempts' = [attempts EXCEPT ![c.attempt].outcome = "INTERRUPTED"]
      BY <1>4, EffectsInterrupted
    <2>2. attempts'[c.attempt].outcome = "INTERRUPTED"
          /\ \A b \in Attempt \ {c.attempt} : attempts'[b] = attempts[b]
      BY <1>1, <2>1 DEF TypeOK, AttemptRow
    <2> QED
      BY <1>2, <2>1, <2>2 DEF NoNewEnds
  <1> QED
    BY <1>3, <1>4

\* The clock and the operators end nothing in success or failure.
LEMMA OutsideEnds ==
  ASSUME SafetyInv, Tick \/ Operator \/ UNCHANGED vars
  PROVE  NoNewEnds
  <1>1. jobs \in [Job -> JobRow]
    BY DEF SafetyInv, TypeOK
  <1>2. CASE Tick \/ UNCHANGED vars
    BY <1>2 DEF Tick, vars, NoNewEnds
  <1>3. ASSUME NEW j \in Job, NEW key, NEW actor, NEW priority, ApiEnqueue(j, key, actor, priority)
        PROVE  NoNewEnds
    <2>1. PICK row : row = [NoJobRow EXCEPT !.state = "QUEUED", !.key = key, !.actor = actor,
                                            !.priority = priority, !.requestedAt = now]
      OBVIOUS
    <2>2. row.state = "QUEUED"
      BY <2>1 DEF NoJobRow
    <2>3. jobs' = [jobs EXCEPT ![j] = row] /\ attempts' = attempts
      BY <1>3, <2>1 DEF ApiEnqueue, InsertJob
    <2> QED
      BY <1>1, <2>2, <2>3 DEF NoNewEnds
  <1>4. ASSUME NEW j \in Job, ApiCancel(j) PROVE NoNewEnds
    <2>1. PICK row : row = [jobs[j] EXCEPT !.state = CancelTarget(jobs[j].state),
                                           !.cancelRequested = TRUE]
      OBVIOUS
    <2>2. row.state \in {"CANCELLED", "CANCEL_REQUESTED"}
      BY <1>1, <2>1 DEF JobRow, CancelTarget
    <2>3. jobs' = [jobs EXCEPT ![j] = row] /\ attempts' = attempts
      BY <1>4, <2>1 DEF ApiCancel
    <2> QED
      BY <1>1, <2>2, <2>3 DEF NoNewEnds
  <1> QED
    BY <1>2, <1>3, <1>4 DEF Operator

\* No step of a service that is not about to finalize does.
LEMMA ServiceEnds ==
  ASSUME ServicesInv, NEW w \in Worker,
         (ServiceStep(w) /\ service[w].pc # "finalizing") \/ Crash(w)
  PROVE  NoNewEnds
  <1>1. SafetyInv /\ (UNCHANGED vars => NoNewEnds)
    BY OutsideEnds DEF ServicesInv
  <1>2. ASSUME service[w].pc \in Working, NEW ts \in CallTimes(w), NEW phase \in {"CLAIMED", "RUNNING"},
               ControlCall(Holds(w), phase, ts)
        PROVE  NoNewEnds
    <2>1. Holds(w) \in Attempt /\ Holds(w)[1] \in Job
      BY <1>2, HandleOf, AttemptParts
    <2> QED
      BY <1>1, <1>2, <2>1, CallEnds DEF ControlCall
  <1>3. CASE StartService(w)
    BY <1>3 DEF StartService, RecoveryScan, NoNewEnds
  <1>4. CASE Recover(w)
    <2>1. PICK c, o : c = service[w].seen[1] /\ o = service[w].seen[2]
      OBVIOUS
    <2>2. c \in candidates
      BY <1>4, <2>1 DEF Recover, ServicesInv, WorkerInv, RecoverySound
    <2>3. PICK ts \in StatementTimes(0) :
            \/ RecoverBlock(c, o, ts) \/ RecoverInterrupted(c, o, ts) \/ UNCHANGED vars
      BY <1>4, <2>1 DEF Recover
    <2> QED
      BY <1>1, <2>2, <2>3, RecoverEnds
  <1>5. CASE Claim(w)
    <2>1. PICK j \in Job, busy \in BusySets : WorkerClaim(w, j, busy)
      BY <1>5 DEF Claim
    <2>2. <<j, 1>> \in Attempt
      BY JobPlaneAssumption DEF Attempt
    <2> QED
      BY <1>1, <2>1, <2>2, CallEnds
  <1>6. CASE HeartbeatStart(w)
    <2>1. service[w].pc \in Working
      BY <1>6 DEF HeartbeatStart, Working, InRunner
    <2>2. Holds(w) \in Attempt /\ Holds(w)[1] \in Job
      BY <2>1, HandleOf, AttemptParts
    <2>3. PICK ts \in CallTimes(w) : WorkerStart(Holds(w), ts) \/ UNCHANGED vars
      BY <1>6 DEF HeartbeatStart
    <2> QED
      BY <1>1, <2>2, <2>3, CallEnds
  <1>7. CASE PreSpawnControl(w) \/ HeartbeatRefused(w) \/ HeartbeatControl(w) \/ ValidationProgress(w)
    <2>1. service[w].pc \in Working
      BY <1>7 DEF PreSpawnControl, HeartbeatRefused, HeartbeatControl, ValidationProgress,
                  Working, BeforeSpawn, InRunner, AfterRunner
    <2> QED
      BY <1>2, <1>7, <2>1
         DEF PreSpawnControl, HeartbeatRefused, HeartbeatControl, ValidationProgress
  <1>8. CASE \/ Inspect(w) \/ EnterLoop(w) \/ PollEmpty(w) \/ BlockClaimed(w) \/ Spawn(w)
             \/ HeartbeatDrift(w) \/ Timeout(w) \/ KillChild(w) \/ Reap(w)
             \/ CleanupUnproven(w) \/ ValidationBlocked(w) \/ ValidationFailed(w)
             \/ ValidationPassed(w) \/ Crash(w)
    <2>1. UNCHANGED vars
      BY <1>8 DEF Inspect, EnterLoop, PollEmpty, BlockClaimed, Spawn, HeartbeatDrift, Timeout,
                   KillChild, Reap, CleanupUnproven, ValidationBlocked, ValidationFailed,
                   ValidationPassed, Crash, allVars
    <2> QED
      BY <1>1, <2>1
  <1>9. service[w].pc # "finalizing" => ~Finalize(w)
    BY DEF Finalize
  <1> QED
    BY <1>3, <1>4, <1>5, <1>6, <1>7, <1>8, <1>9 DEF ServiceStep

\* Nobody is spawned.
NoNewChild == \A a \in Attempt : child'[a] # "none" => child[a] # "none"

\* Only Spawn spawns, and a step of a service is its own.
LEMMA ServiceChildren ==
  ASSUME ServicesInv, NEW w \in Worker, ServiceStep(w) \/ Crash(w)
  PROVE  /\ ~Spawn(w) => NoNewChild
         /\ \A v \in Worker \ {w} : service'[v] = service[v]
  <1>1. service \in [Worker -> ServiceRow] /\ child \in [Attempt -> ChildState]
    BY DEF ServicesInv, WorkerTypeOK
  <1>2. ~Spawn(w) => NoNewChild
    <2>1. CASE KillChild(w)
      BY <1>1, <2>1 DEF KillChild, NoNewChild
    <2>2. CASE Reap(w)
      BY <1>1, <2>2 DEF Reap, NoNewChild
    <2>3. CASE CleanupUnproven(w)
      <3>1. child[Holds(w)] # "none"
        BY <2>3, RunnerFacts DEF CleanupUnproven, InRunner
      <3> QED
        BY <1>1, <2>3, <3>1 DEF CleanupUnproven, NoNewChild
    <2>4. CASE Crash(w)
      BY <1>1, <2>4 DEF Crash, NoNewChild
    <2>5. CASE \/ StartService(w) \/ Inspect(w) \/ Recover(w) \/ EnterLoop(w)
               \/ Claim(w) \/ PollEmpty(w) \/ BlockClaimed(w) \/ PreSpawnControl(w)
               \/ HeartbeatDrift(w) \/ HeartbeatStart(w) \/ HeartbeatRefused(w) \/ HeartbeatControl(w)
               \/ Timeout(w) \/ ValidationProgress(w) \/ ValidationBlocked(w) \/ ValidationFailed(w)
               \/ ValidationPassed(w) \/ Finalize(w)
      <3>1. UNCHANGED child
        BY <2>5 DEF StartService, Inspect, Recover, EnterLoop, Claim, PollEmpty, BlockClaimed,
                    PreSpawnControl, HeartbeatDrift, HeartbeatStart, HeartbeatRefused,
                    HeartbeatControl, Timeout, ValidationProgress, ValidationBlocked,
                    ValidationFailed, ValidationPassed, Finalize, allVars, workerVars
      <3> QED
        BY <3>1 DEF NoNewChild
    <2> QED
      BY <2>1, <2>2, <2>3, <2>4, <2>5 DEF ServiceStep
  <1>3. ASSUME NEW v \in Worker \ {w} PROVE service'[v] = service[v]
    <2>1. CASE StartService(w) \/ Inspect(w) \/ Recover(w) \/ Claim(w)
      BY <1>1, <2>1 DEF StartService, Inspect, Recover, Claim
    <2>2. CASE PollEmpty(w) \/ KillChild(w)
      BY <2>2 DEF PollEmpty, KillChild, allVars, workerVars
    <2>3. CASE \/ EnterLoop(w) \/ BlockClaimed(w) \/ PreSpawnControl(w) \/ Spawn(w)
               \/ HeartbeatDrift(w) \/ HeartbeatStart(w) \/ HeartbeatRefused(w) \/ HeartbeatControl(w)
               \/ Timeout(w)
      BY <1>1, <2>3 DEF EnterLoop, BlockClaimed, PreSpawnControl, Spawn, HeartbeatDrift,
                        HeartbeatStart, HeartbeatRefused, HeartbeatControl, Timeout,
                        Become, Goto, Decide, Looping
    <2>4. CASE \/ Reap(w) \/ CleanupUnproven(w) \/ ValidationProgress(w) \/ ValidationBlocked(w)
               \/ ValidationFailed(w) \/ ValidationPassed(w) \/ Finalize(w) \/ Crash(w)
      BY <1>1, <2>4 DEF Reap, CleanupUnproven, ValidationProgress, ValidationBlocked,
                        ValidationFailed, ValidationPassed, Finalize, Crash, Become, Goto, Decide
    <2> QED
      BY <2>1, <2>2, <2>3, <2>4 DEF ServiceStep
  <1> QED
    BY <1>2, <1>3

\* Results stay sound while none is added, nothing is spawned and nothing ends.
LEMMA ResultsStay ==
  ASSUME IngestionInv, NoNewEnds, NoNewChild, UNCHANGED <<profile, bound>>, snapshot \subseteq snapshot'
  PROVE  ResultsSound'
  <1>1. \A j \in Job : BoundSound(j)'
    BY DEF IngestionInv, ResultsSound, BoundSound, IsIssued, NoNewEnds
  <1>2. NoRerunAfterResult'
    BY DEF IngestionInv, ResultsSound, NoRerunAfterResult, NoNewChild
  <1>3. DurableBeforeSuccess'
    BY DEF IngestionInv, ResultsSound, DurableBeforeSuccess, NoNewEnds
  <1>4. OwnFailureNeverDurable'
    BY DEF IngestionInv, ResultsSound, OwnFailureNeverDurable, NoNewEnds
  <1> QED
    BY <1>1, <1>2, <1>3, <1>4 DEF ResultsSound

\* The parts of the invariant after a step of service w.
LEMMA IngestionMove ==
  ASSUME IngestionInv, ServicesInv', IngestionTypeOK', NEW w \in Worker, ResultsKept(w),
         ResultsSound', StageSound(w)', PlanSound(w)'
  PROVE  IngestionInv'
  BY OthersKept DEF IngestionInv

\* A step that adds no engine result.
LEMMA SameResults ==
  ASSUME IngestionInv, NEW w \in Worker, NEW s \in Stage, Advance(w, s),
         \A v \in Worker \ {w} : service'[v] = service[v],
         UNCHANGED <<profile, bound>>, snapshot \subseteq snapshot', snapshot' \subseteq Job
  PROVE  ResultsKept(w) /\ IngestionTypeOK' /\ stage'[w] = s
  <1>1. stage \in [Worker -> Stage] /\ IngestionTypeOK
    BY DEF IngestionInv, IngestionTypeOK
  <1>2. stage' \in [Worker -> Stage] /\ stage'[w] = s /\ \A v \in Worker \ {w} : stage'[v] = stage[v]
    BY <1>1 DEF Advance
  <1>3. ResultsKept(w)
    BY <1>2 DEF ResultsKept
  <1>4. IngestionTypeOK'
    BY <1>1, <1>2 DEF IngestionTypeOK
  <1> QED
    BY <1>2, <1>3, <1>4

\* The row of a service after Goto, Looping, Decide and Become.
LEMMA RowAfter ==
  ASSUME ServicesInv, NEW w \in Worker, NEW pc, NEW x
  PROVE  /\ Goto(w, pc) => service'[w].pc = pc /\ service'[w].held = service[w].held
         /\ Looping(w, x) => service'[w].pc = "looping" /\ service'[w].held = service[w].held
         /\ Decide(w, x) => /\ service'[w].pc = "finalizing" /\ service'[w].held = service[w].held
                            /\ service'[w].plan = x
         /\ Become(w, pc) => service'[w].pc = pc
  <1>1. service \in [Worker -> ServiceRow] /\ service[w] \in ServiceRow
    BY DEF ServicesInv, WorkerTypeOK
  <1>2. Goto(w, pc) => service'[w].pc = pc /\ service'[w].held = service[w].held
    BY <1>1 DEF Goto, ServiceRow
  <1>3. Looping(w, x) => service'[w].pc = "looping" /\ service'[w].held = service[w].held
    BY <1>1 DEF Looping, ServiceRow
  <1>4. Decide(w, x) => /\ service'[w].pc = "finalizing" /\ service'[w].held = service[w].held
                        /\ service'[w].plan = x
    BY <1>1 DEF Decide, ServiceRow
  <1>5. Become(w, pc) => service'[w].pc = pc
    BY <1>1 DEF Become, ServiceAt
  <1> QED
    BY <1>2, <1>3, <1>4, <1>5

\* Service w decides how to finalize: for success only after it stored the result, for failure only
\* before it could have.
Decided(w) ==
  /\ service'[w].held = service[w].held /\ service'[w].pc = "finalizing"
  /\ \/ service[w].pc \in BeforeSpawn \cup InRunner /\ service'[w].plan[3] # "SUCCEEDED"
     \/ service[w].pc \in AfterRunner /\ service'[w].plan[3] \in {"BLOCKED", "CANCELLED"}
     \/ service[w].pc = "validated" /\ service'[w].plan[3] = "SUCCEEDED"

\* Service w goes on with its claim, up to the end of the runner.
Continued(w) ==
  /\ service'[w].held = service[w].held
  /\ \/ service[w].pc = "claimed" /\ service'[w].pc = "prepared"
     \/ service[w].pc \in InRunner /\ service'[w].pc \in InRunner \cup {"drained"}

\* The steps of a service between two calls that store or finalize.
LEMMA ServiceMoved ==
  ASSUME ServicesInv, NEW w \in Worker,
         \/ StartService(w) \/ Inspect(w) \/ Recover(w) \/ EnterLoop(w)
         \/ PollEmpty(w) \/ BlockClaimed(w) \/ PreSpawnControl(w)
         \/ HeartbeatDrift(w) \/ HeartbeatStart(w) \/ HeartbeatRefused(w) \/ HeartbeatControl(w)
         \/ Timeout(w) \/ KillChild(w) \/ Reap(w) \/ CleanupUnproven(w)
         \/ ValidationPassed(w) \/ ValidationBlocked(w) \/ Crash(w)
  PROVE  service'[w].pc \notin Working \/ Decided(w) \/ Continued(w)
  <1>1. /\ service \in [Worker -> ServiceRow] /\ service[w] \in ServiceRow
        /\ service[w].running \in BOOLEAN
        /\ service[w].reason \in {NoReason, "CANCELLED", "SAFETY_DRIFT", "STALE_LEASE", "TIMEOUT"}
    BY DEF ServicesInv, WorkerTypeOK, ServiceRow
  <1>2. \A pc \in {"down", "recovering", "idle"} : pc \notin Working
    BY DEF Working, BeforeSpawn, InRunner, AfterRunner
  <1>3. CASE StartService(w) \/ Inspect(w) \/ Recover(w) \/ PollEmpty(w)
    <2>1. service'[w].pc \in {"recovering", "idle"}
      <3>1. CASE StartService(w)
        <4>1. service'[w] = [ServiceAt("recovering") EXCEPT !.todo = ExpiredCandidates]
          BY <1>1, <3>1 DEF StartService
        <4> QED
          BY <4>1 DEF ServiceAt
      <3>2. CASE Inspect(w)
        <4>1. PICK c, o :
                service' = [service EXCEPT ![w].seen = <<c, o>>, ![w].todo = @ \ {c}]
          BY <3>2 DEF Inspect
        <4>2. service'[w] = [service[w] EXCEPT !.seen = <<c, o>>, !.todo = @ \ {c}]
          BY <1>1, <4>1
        <4>3. service'[w].pc = service[w].pc
          BY <1>1, <4>2 DEF ServiceRow
        <4> QED
          BY <3>2, <4>3 DEF Inspect
      <3>3. CASE Recover(w)
        BY <1>1, <3>3 DEF Recover, ServiceRow
      <3>4. CASE PollEmpty(w)
        BY <3>4 DEF PollEmpty, allVars, workerVars
      <3> QED
        BY <1>3, <3>1, <3>2, <3>3, <3>4
    <2> QED
      BY <1>2, <2>1
  <1>4. CASE EnterLoop(w) \/ Crash(w)
    BY <1>2, <1>4, RowAfter DEF EnterLoop, Crash
  <1>5. CASE BlockClaimed(w)
    <2>1. Decide(w, BlockedPlan) /\ service[w].pc \in BeforeSpawn /\ BlockedPlan[3] = "BLOCKED"
      BY <1>5 DEF BlockClaimed, BeforeSpawn, BlockedPlan
    <2> QED
      BY <2>1, RowAfter DEF Decided
  <1>6. CASE PreSpawnControl(w)
    <2>1. /\ service[w].pc = "claimed" /\ "claimed" \in BeforeSpawn
          /\ CancelPlan("CLAIMED")[3] = "CANCELLED"
      BY <1>6 DEF PreSpawnControl, BeforeSpawn, CancelPlan
    <2>2. Become(w, "idle") \/ Decide(w, CancelPlan("CLAIMED")) \/ Goto(w, "prepared")
      BY <1>6 DEF PreSpawnControl
    <2>3. CASE Become(w, "idle")
      BY <1>2, <2>3, RowAfter
    <2>4. CASE Decide(w, CancelPlan("CLAIMED"))
      BY <2>1, <2>4, RowAfter DEF Decided
    <2>5. CASE Goto(w, "prepared")
      BY <2>1, <2>5, RowAfter DEF Continued
    <2> QED
      BY <2>2, <2>3, <2>4, <2>5
  <1>7. CASE \/ HeartbeatDrift(w) \/ HeartbeatStart(w) \/ HeartbeatRefused(w) \/ HeartbeatControl(w)
             \/ Timeout(w) \/ KillChild(w)
    <2>1. service[w].pc \in InRunner /\ {"looping", "started", "refused"} \subseteq InRunner
      BY <1>7 DEF HeartbeatDrift, HeartbeatStart, HeartbeatRefused, HeartbeatControl, Timeout,
                  KillChild, InRunner
    <2>2. CASE HeartbeatStart(w)
      BY <1>1, <2>1, <2>2 DEF HeartbeatStart, Goto, Continued, ServiceRow
    <2>3. CASE KillChild(w)
      BY <2>1, <2>3 DEF KillChild, Continued
    <2>4. CASE HeartbeatDrift(w) \/ HeartbeatRefused(w) \/ HeartbeatControl(w) \/ Timeout(w)
      <3>1. (\E x : Looping(w, x)) \/ Goto(w, "looping")
        BY <2>4 DEF HeartbeatDrift, HeartbeatRefused, HeartbeatControl, Timeout
      <3> QED
        BY <2>1, <3>1, RowAfter DEF Continued
    <2> QED
      BY <1>7, <2>2, <2>3, <2>4
  <1>8. CASE Reap(w) \/ CleanupUnproven(w)
    <2>1. service[w].pc \in InRunner
      BY <1>8 DEF Reap, CleanupUnproven, InRunner
    <2>2. \/ Goto(w, "drained") \/ Become(w, "idle")
          \/ \E x : Decide(w, x) /\ x[3] # "SUCCEEDED"
      <3>1. CASE Decide(w, TerminationPlan("OUTPUT_DRAIN_TRUNCATED", TRUE))
        <4>1. TerminationPlan("OUTPUT_DRAIN_TRUNCATED", TRUE)[3] # "SUCCEEDED"
          BY DEF TerminationPlan
        <4> QED
          BY <3>1, <4>1
      <3>2. CASE /\ service[w].reason \notin {NoReason, "STALE_LEASE"}
                 /\ Decide(w, TerminationPlan(service[w].reason, service[w].running))
        <4>1. TerminationPlan(service[w].reason, service[w].running)[3] # "SUCCEEDED"
          BY <1>1, <3>2, TerminationTyped
        <4> QED
          BY <3>2, <4>1
      <3>3. CASE CleanupUnproven(w)
        <4>1. TerminationPlan("PROCESS_GROUP_CLEANUP_UNPROVEN", service[w].running)[3] # "SUCCEEDED"
          BY <1>1, TerminationTyped
        <4> QED
          BY <3>3, <4>1 DEF CleanupUnproven
      <3> QED
        BY <1>8, <3>1, <3>2, <3>3 DEF Reap
    <2>3. CASE Goto(w, "drained")
      BY <2>1, <2>3, RowAfter DEF Continued
    <2>4. CASE Become(w, "idle")
      BY <1>2, <2>4, RowAfter
    <2>5. CASE \E x : Decide(w, x) /\ x[3] # "SUCCEEDED"
      <3>1. PICK x : Decide(w, x) /\ x[3] # "SUCCEEDED"
        BY <2>5
      <3> QED
        BY <2>1, <3>1, RowAfter DEF Decided
    <2> QED
      BY <2>2, <2>3, <2>4, <2>5
  <1>9. CASE ValidationPassed(w)
    <2>1. PICK x : Decide(w, x) /\ x[3] = "SUCCEEDED"
      BY <1>9 DEF ValidationPassed, RunningPlan
    <2> QED
      BY <1>9, <2>1, RowAfter DEF Decided, ValidationPassed
  <1>10. CASE ValidationBlocked(w)
    <2>1. PICK x : Decide(w, x) /\ x[3] = "BLOCKED"
      BY <1>10 DEF ValidationBlocked, RunningPlan
    <2>2. service[w].pc \in AfterRunner
      BY <1>10 DEF ValidationBlocked, AfterRunner
    <2> QED
      BY <2>1, <2>2, RowAfter DEF Decided
  <1> QED
    BY <1>3, <1>4, <1>5, <1>6, <1>7, <1>8, <1>9, <1>10

\* What run_once knows about its result after such a step.
LEMMA MovedSound ==
  ASSUME IngestionInv, NEW w \in Worker, service'[w].pc \notin Working \/ Decided(w) \/ Continued(w),
         stage'[w] = Carried(w), UNCHANGED <<profile, bound>>, snapshot \subseteq snapshot'
  PROVE  StageSound(w)' /\ PlanSound(w)'
  <1>1. StageSound(w)
    BY DEF IngestionInv
  <1>2. /\ stage'[w] # "none" =>
             /\ service'[w].pc \in {"prepared"} \cup InRunner \cup AfterRunner
             /\ stage'[w] = stage[w]
        /\ "finalizing" \notin {"prepared"} \cup InRunner \cup AfterRunner
        /\ {"prepared"} \cup InRunner \cup AfterRunner \subseteq Working
        /\ "finalizing" \in Working
    BY DEF Carried, Working, BeforeSpawn, InRunner, AfterRunner
  <1>3. CASE service'[w].pc \notin Working
    <2>1. stage'[w] = "none"
      BY <1>2, <1>3
    <2>2. service'[w].pc \notin {"prepared", "validated", "finalizing"}
      BY <1>3 DEF Working, BeforeSpawn, AfterRunner
    <2> QED
      BY <1>3, <2>1, <2>2 DEF StageSound, PlanSound
  <1>4. CASE Decided(w)
    <2>1. stage'[w] = "none" /\ service'[w].pc = "finalizing" /\ service'[w].held = service[w].held
      BY <1>2, <1>4 DEF Decided
    <2>2. StageSound(w)'
      BY <2>1 DEF StageSound
    <2>3. CASE service[w].pc \in BeforeSpawn \cup InRunner /\ service'[w].plan[3] # "SUCCEEDED"
      <3>1. /\ service[w].pc \in Working \ {"finalizing"}
            /\ service[w].pc \notin {"validating", "validated"}
        BY <2>3 DEF Working, BeforeSpawn, InRunner
      <3>2. bound[JobOf(w)] # Holds(w)
        BY <1>1, <3>1 DEF StageSound
      <3> QED
        BY <2>1, <2>2, <2>3, <3>2 DEF PlanSound, JobOf, Holds
    <2>4. CASE service'[w].plan[3] \in {"BLOCKED", "CANCELLED"}
      BY <2>2, <2>4 DEF PlanSound
    <2>5. CASE service[w].pc = "validated" /\ service'[w].plan[3] = "SUCCEEDED"
      <3>1. Stored(Holds(w))
        BY <1>1, <2>5 DEF StageSound
      <3>2. Stored(Holds(w))'
        BY <2>1, <3>1 DEF Stored, Holds
      <3> QED
        BY <2>2, <2>5, <3>2 DEF PlanSound
    <2> QED
      BY <1>4, <2>3, <2>4, <2>5 DEF Decided
  <1>5. CASE Continued(w)
    <2>1. /\ service'[w].held = service[w].held
          /\ service[w].pc \in Working \ {"finalizing"}
          /\ service[w].pc \notin {"prepared", "validating", "validated"}
          /\ service'[w].pc \notin {"validating", "validated", "finalizing"}
          /\ service'[w].pc = "prepared" => service[w].pc = "claimed"
          /\ "claimed" \notin {"prepared"} \cup InRunner \cup AfterRunner
      BY <1>5 DEF Continued, Working, BeforeSpawn, InRunner, AfterRunner
    <2>2. stage[w] \notin {"ready", "lost", "stored"} /\ bound[JobOf(w)] # Holds(w)
          /\ (service[w].pc = "claimed" => stage[w] = "none")
      BY <1>1, <2>1 DEF StageSound
    <2>3. stage'[w] \notin {"ready", "lost", "stored"}
          /\ (service'[w].pc = "prepared" => stage'[w] = "none")
      BY <1>2, <2>1, <2>2
    <2>4. StageSound(w)'
      BY <1>2, <2>1, <2>2, <2>3 DEF StageSound, JobOf, Holds
    <2> QED
      BY <2>1, <2>4 DEF PlanSound
  <1> QED
    BY <1>3, <1>4, <1>5

-----------------------------------------------------------------------------
(* The steps of run_once with these profiles.                               *)

\* A local variable of run_once is kept or dropped with the claim.
LEMMA CarriedStage ==
  ASSUME IngestionInv, NEW w \in Worker
  PROVE  Carried(w) \in Stage
  BY DEF IngestionInv, IngestionTypeOK, Carried, Stage

\* A step between two calls that store or finalize.
LEMMA KeptStep ==
  ASSUME IngestionInv, ServicesInv', NEW w \in Worker, Keep(w),
         \/ StartService(w) \/ Inspect(w) \/ Recover(w) \/ EnterLoop(w)
         \/ PollEmpty(w) \/ BlockClaimed(w) \/ PreSpawnControl(w)
         \/ HeartbeatDrift(w) \/ HeartbeatStart(w) \/ HeartbeatRefused(w) \/ HeartbeatControl(w)
         \/ Timeout(w) \/ KillChild(w) \/ Reap(w) \/ CleanupUnproven(w)
         \/ ValidationPassed(w) \/ ValidationBlocked(w) \/ Crash(w)
  PROVE  IngestionInv'
  <1>1. ServicesInv /\ (ServiceStep(w) \/ Crash(w))
    BY DEF IngestionInv, ServiceStep
  <1>2. NoNewEnds
    <2>1. CASE Crash(w)
      BY <1>1, <2>1, ServiceEnds
    <2>2. CASE ~Crash(w)
      <3>1. service[w].pc # "finalizing"
        BY <2>2 DEF StartService, Inspect, Recover, EnterLoop, PollEmpty, BlockClaimed,
                    PreSpawnControl, HeartbeatDrift, HeartbeatStart, HeartbeatRefused,
                    HeartbeatControl, Timeout, KillChild, Reap, CleanupUnproven,
                    ValidationPassed, ValidationBlocked
      <3> QED
        BY <1>1, <2>2, <3>1, ServiceEnds
    <2> QED
      BY <2>1, <2>2
  <1>3. NoNewChild
    <2>1. CASE UNCHANGED child
      BY <2>1 DEF NoNewChild
    <2>2. CASE ~Spawn(w)
      BY <1>1, <2>2, ServiceChildren
    <2>3. ~Spawn(w) \/ UNCHANGED child
      <3>1. CASE KillChild(w) \/ Reap(w) \/ CleanupUnproven(w)
        BY <3>1 DEF KillChild, Reap, CleanupUnproven, Spawn
      <3>2. CASE Crash(w)
        <4>1. Spawn(w) => service'[w].pc = "looping"
          BY <1>1, RowAfter DEF Spawn
        <4>2. service'[w].pc = "down"
          BY <1>1, <3>2, RowAfter DEF Crash
        <4> QED
          BY <4>1, <4>2
      <3>3. CASE ~(KillChild(w) \/ Reap(w) \/ CleanupUnproven(w) \/ Crash(w))
        BY <3>3 DEF StartService, Inspect, Recover, EnterLoop, PollEmpty, BlockClaimed,
                    PreSpawnControl, HeartbeatDrift, HeartbeatStart, HeartbeatRefused,
                    HeartbeatControl, Timeout, ValidationPassed, ValidationBlocked,
                    allVars, workerVars
      <3> QED
        BY <3>1, <3>2, <3>3
    <2> QED
      BY <2>1, <2>2, <2>3
  <1>4. \A v \in Worker \ {w} : service'[v] = service[v]
    BY <1>1, ServiceChildren
  <1>5. Advance(w, Carried(w)) /\ UNCHANGED <<profile, bound, snapshot>> /\ snapshot' \subseteq Job
    BY DEF Keep, IngestionInv, IngestionTypeOK
  <1>6. ResultsKept(w) /\ IngestionTypeOK' /\ stage'[w] = Carried(w)
    <2>1. PICK s \in Stage : s = Carried(w)
      BY CarriedStage
    <2> QED
      BY <1>4, <1>5, <2>1, SameResults
  <1>7. StageSound(w)' /\ PlanSound(w)'
    BY <1>1, <1>5, <1>6, ServiceMoved, MovedSound
  <1>8. ResultsSound'
    BY <1>2, <1>3, <1>5, ResultsStay
  <1> QED
    BY <1>6, <1>7, <1>8, IngestionMove

\* A claim: the attempt is new, so it has no result.
LEMMA ClaimKept ==
  ASSUME IngestionInv, ServicesInv', NEW w \in Worker, Keep(w), Claim(w)
  PROVE  IngestionInv'
  <1>1. /\ ServicesInv /\ SafetyInv /\ ServiceStep(w) /\ service[w].pc = "idle"
        /\ service \in [Worker -> ServiceRow]
    BY DEF IngestionInv, ServiceStep, Claim, ServicesInv, WorkerTypeOK
  <1>2. NoNewEnds /\ NoNewChild /\ \A v \in Worker \ {w} : service'[v] = service[v]
    <2>1. NoNewChild
      BY DEF Claim, NoNewChild
    <2> QED
      BY <1>1, <2>1, ServiceEnds, ServiceChildren
  <1>3. PICK j \in Job, busy \in BusySets :
          /\ WorkerClaim(w, j, busy)
          /\ service' = [service EXCEPT ![w].pc = "claimed",
                                        ![w].held = <<j, jobs[j].attemptCount + 1>>]
    BY DEF Claim
  <1>4. PICK a : a = <<j, jobs[j].attemptCount + 1>>
    OBVIOUS
  <1>5. a \in Attempt /\ ~IsIssued(a) /\ a[1] = j
    BY <1>1, <1>3, <1>4, EffectsClaim
  <1>6. service'[w].pc = "claimed" /\ service'[w].held = a
    BY <1>1, <1>3, <1>4 DEF ServiceRow
  <1>7. /\ Advance(w, Carried(w)) /\ UNCHANGED <<profile, bound, snapshot>> /\ snapshot' \subseteq Job
        /\ Carried(w) = "none"
    BY <1>6 DEF Keep, IngestionInv, IngestionTypeOK, Carried, InRunner, AfterRunner
  <1>8. ResultsKept(w) /\ IngestionTypeOK' /\ stage'[w] = "none"
    BY <1>2, <1>7, SameResults DEF Stage
  <1>9. bound[j] # a
    <2>1. BoundSound(j)
      BY DEF IngestionInv, ResultsSound
    <2>2. a # NoAttempt
      BY <1>5, JobPlaneAssumption DEF NoAttempt, Attempt
    <2> QED
      BY <1>5, <2>1, <2>2 DEF BoundSound
  <1>10. StageSound(w)' /\ PlanSound(w)'
    BY <1>5, <1>6, <1>7, <1>8, <1>9 DEF StageSound, PlanSound, JobOf, Holds
  <1>11. ResultsSound'
    BY <1>2, <1>7, ResultsStay
  <1> QED
    BY <1>8, <1>10, <1>11, IngestionMove

\* Popen: there was no receipt, and nobody else could have stored one since.
LEMMA SpawnKept ==
  ASSUME IngestionInv, ServicesInv', NEW w \in Worker, SpawnClear(w)
  PROVE  IngestionInv'
  <1>1. /\ ServicesInv /\ ServiceStep(w) /\ Spawn(w) /\ service[w].pc = "prepared"
        /\ stage[w] = "clear" /\ StageSound(w) /\ Keep(w)
        /\ service \in [Worker -> ServiceRow] /\ child \in [Attempt -> ChildState]
    BY DEF IngestionInv, ServiceStep, SpawnClear, Spawn, ServicesInv, WorkerTypeOK
  <1>2. NoNewEnds /\ \A v \in Worker \ {w} : service'[v] = service[v]
    BY <1>1, ServiceEnds, ServiceChildren
  <1>3. service'[w].pc = "looping" /\ service'[w].held = service[w].held
    BY <1>1, RowAfter DEF Spawn
  <1>4. /\ Advance(w, Carried(w)) /\ UNCHANGED <<profile, bound, snapshot>> /\ snapshot' \subseteq Job
        /\ Carried(w) = "clear"
    BY <1>1, <1>3 DEF Keep, IngestionInv, IngestionTypeOK, Carried, InRunner
  <1>5. ResultsKept(w) /\ IngestionTypeOK' /\ stage'[w] = "clear"
    BY <1>2, <1>4, SameResults DEF Stage
  <1>6. PICK a \in Attempt : a = Holds(w) /\ a[1] = JobOf(w) /\ a # NoAttempt
    BY <1>1, JobOfWork DEF JobOf, Working, BeforeSpawn
  <1>7. bound[a[1]] = NoAttempt
    BY <1>1, <1>6 DEF StageSound
  <1>8. StageSound(w)' /\ PlanSound(w)'
    BY <1>3, <1>4, <1>5, <1>6, <1>7 DEF StageSound, PlanSound, JobOf, Holds, InRunner
  <1>9. NoRerunAfterResult'
    <2>1. \A b \in Attempt \ {a} : child'[b] = child[b]
      BY <1>1, <1>6 DEF Spawn
    <2>2. NoRerunAfterResult
      BY DEF IngestionInv, ResultsSound
    <2>3. ASSUME NEW b \in Attempt, bound'[b[1]] # NoAttempt, b[2] > bound'[b[1]][2]
          PROVE  child'[b] = "none"
      BY <1>4, <1>7, <2>1, <2>2, <2>3 DEF NoRerunAfterResult
    <2> QED
      BY <2>3 DEF NoRerunAfterResult
  <1>10. ResultsSound'
    <2>1. \A j \in Job : BoundSound(j)'
      BY <1>2, <1>4 DEF IngestionInv, ResultsSound, BoundSound, IsIssued, NoNewEnds
    <2>2. DurableBeforeSuccess'
      BY <1>2, <1>4 DEF IngestionInv, ResultsSound, DurableBeforeSuccess, NoNewEnds
    <2>3. OwnFailureNeverDurable'
      BY <1>2, <1>4 DEF IngestionInv, ResultsSound, OwnFailureNeverDurable, NoNewEnds
    <2> QED
      BY <1>9, <2>1, <2>2, <2>3 DEF ResultsSound
  <1> QED
    BY <1>5, <1>8, <1>10, IngestionMove

\* A finalization does what was decided: a success that is durable, a failure that is not.
LEMMA FinalizeKept ==
  ASSUME IngestionInv, ServicesInv', NEW w \in Worker, Keep(w), Finalize(w)
  PROVE  IngestionInv'
  <1>1. /\ ServicesInv /\ SafetyInv /\ ServiceStep(w) /\ service[w].pc = "finalizing" /\ PlanSound(w)
        /\ RunnerSound(w) /\ UNCHANGED child /\ Become(w, "idle") /\ "finalizing" \in Working
    BY DEF IngestionInv, ServiceStep, Finalize, ServicesInv, WorkerInv, Working
  <1>2. \A v \in Worker \ {w} : service'[v] = service[v]
    BY <1>1, ServiceChildren
  <1>3. service'[w].pc = "idle"
    BY <1>1, RowAfter
  <1>4. /\ Advance(w, Carried(w)) /\ UNCHANGED <<profile, bound, snapshot>> /\ snapshot' \subseteq Job
        /\ Carried(w) = "none"
    BY <1>3 DEF Keep, IngestionInv, IngestionTypeOK, Carried, InRunner, AfterRunner
  <1>5. ResultsKept(w) /\ IngestionTypeOK' /\ stage'[w] = "none"
    BY <1>2, <1>4, SameResults DEF Stage
  <1>6. StageSound(w)' /\ PlanSound(w)'
    BY <1>3, <1>5 DEF StageSound, PlanSound, Working, BeforeSpawn, InRunner, AfterRunner
  <1>7. PICK a \in Attempt : a = Holds(w) /\ a[1] = JobOf(w) /\ a = <<a[1], a[2]>> /\ a[1] \in Job
    BY <1>1, JobOfWork DEF JobOf
  <1>8. PICK p \in Plan : p = service[w].plan
    BY <1>1 DEF RunnerSound
  <1>9. p[4] \in BOOLEAN /\ p[3] \in TerminalStates
    BY <1>8, PlanParts
  <1>10. PICK ts \in CallTimes(w) : FinalizeCall(a, p, ts) \/ UNCHANGED vars
    BY <1>7, <1>8 DEF Finalize, FinalizeCall
  <1>11. CASE UNCHANGED vars
    <2>1. NoNewEnds /\ NoNewChild
      BY <1>1, <1>11, OutsideEnds DEF NoNewChild
    <2> QED
      BY <1>4, <1>5, <1>6, <2>1, ResultsStay, IngestionMove
  <1>12. CASE FinalizeCall(a, p, ts)
    <2>1. /\ jobs'[a[1]].attemptCount = a[2] /\ jobs'[a[1]].state = IF p[4] THEN "QUEUED" ELSE p[3]
          /\ \A j \in Job \ {a[1]} : jobs'[j] = jobs[j]
          /\ attempts'[a].outcome = p[3] /\ \A b \in Attempt \ {a} : attempts'[b] = attempts[b]
      BY <1>1, <1>12, EffectsFinalize
    <2>3. /\ p[3] = "SUCCEEDED" => Stored(a)
          /\ p[3] \in {"FAILED", "TIMED_OUT"} => bound[a[1]] # a
      BY <1>1, <1>7, <1>8 DEF PlanSound
    <2>4. NoRerunAfterResult'
      BY <1>1, <1>4 DEF IngestionInv, ResultsSound, NoRerunAfterResult
    <2>5. \A j \in Job : BoundSound(j)'
      <3>1. p[3] # NoOutcome
        BY <1>9 DEF TerminalStates, NoOutcome
      <3> QED
        BY <1>4, <2>1, <3>1 DEF IngestionInv, ResultsSound, BoundSound, IsIssued
    <2>6. OwnFailureNeverDurable'
      BY <1>4, <2>1, <2>3 DEF IngestionInv, ResultsSound, OwnFailureNeverDurable
    <2>7. DurableBeforeSuccess'
      <3>1. ASSUME NEW j \in Job \ {a[1]}, jobs'[j].state = "SUCCEEDED"
            PROVE  IF profile'[j] = "ENGINE" THEN bound'[j] = <<j, jobs'[j].attemptCount>>
                   ELSE j \in snapshot'
        BY <1>4, <2>1, <3>1 DEF IngestionInv, ResultsSound, DurableBeforeSuccess
      <3>2. ASSUME jobs'[a[1]].state = "SUCCEEDED"
            PROVE  IF profile'[a[1]] = "ENGINE" THEN bound'[a[1]] = <<a[1], jobs'[a[1]].attemptCount>>
                   ELSE a[1] \in snapshot'
        <4>1. Stored(a)
          BY <1>9, <2>1, <2>3, <3>2
        <4> QED
          BY <1>4, <1>7, <2>1, <4>1 DEF Stored
      <3> QED
        BY <3>1, <3>2 DEF DurableBeforeSuccess
    <2>8. ResultsSound'
      BY <2>4, <2>5, <2>6, <2>7 DEF ResultsSound
    <2> QED
      BY <1>5, <1>6, <2>8, IngestionMove
  <1> QED
    BY <1>10, <1>11, <1>12

\* run_once stays inside the validation and knows s about its result, which is true.
Validates(w, s) ==
  /\ s \in Stage \ {"none"} /\ Advance(w, s) /\ UNCHANGED <<profile, bound>>
  /\ snapshot \subseteq snapshot' /\ snapshot' \subseteq Job
  /\ service'[w].held = service[w].held /\ service[w].pc \in AfterRunner
  /\ service'[w].pc \in {"validating", "validated"}
  /\ service'[w].pc = "validated" => s = "stored"
  /\ s = "stored" => IF profile[JobOf(w)] = "ENGINE" THEN bound[JobOf(w)] = Holds(w)
                     ELSE JobOf(w) \in snapshot'
  /\ s \notin {"lost", "stored"} => bound[JobOf(w)] # Holds(w)

\* Such a step preserves the invariant.
LEMMA StageStep ==
  ASSUME IngestionInv, ServicesInv', NEW w \in Worker, NoNewEnds, NoNewChild,
         \A v \in Worker \ {w} : service'[v] = service[v], NEW s, Validates(w, s)
  PROVE  IngestionInv'
  <1>1. ResultsKept(w) /\ IngestionTypeOK' /\ stage'[w] = s
    BY SameResults DEF Validates
  <1>2. s = "stored" => Stored(Holds(w))'
    BY DEF Stored, Holds, JobOf, Validates
  <1>3. StageSound(w)'
    BY <1>1, <1>2 DEF StageSound, AfterRunner, JobOf, Holds, Validates
  <1>4. PlanSound(w)'
    BY DEF PlanSound, Validates
  <1>5. ResultsSound'
    BY ResultsStay DEF Validates
  <1> QED
    BY <1>1, <1>3, <1>4, <1>5, IngestionMove

\* The progress calls around the validator and around storing the result.
LEMMA ProgressKept ==
  ASSUME IngestionInv, ServicesInv', NEW w \in Worker, IngestionProgress(w)
  PROVE  IngestionInv'
  <1>1. /\ ServicesInv /\ ServiceStep(w) /\ ValidationProgress(w) /\ StageSound(w)
        /\ service[w].pc \in {"drained", "validating"} /\ stage[w] \in {"clear", "stored"}
        /\ UNCHANGED <<profile, bound, snapshot>> /\ snapshot' \subseteq Job /\ UNCHANGED child
    BY DEF IngestionInv, IngestionTypeOK, ServiceStep, IngestionProgress, ValidationProgress, Keep
  <1>2. NoNewEnds /\ NoNewChild /\ \A v \in Worker \ {w} : service'[v] = service[v]
    BY <1>1, ServiceEnds, ServiceChildren DEF NoNewChild
  <1>3. service[w].pc \in AfterRunner /\ service[w].pc \in Working \ {"finalizing"}
    BY <1>1 DEF AfterRunner, Working
  <1>4. \/ Become(w, "idle") \/ Decide(w, CancelPlan("RUNNING"))
        \/ Goto(w, "validating") \/ Goto(w, "validated")
    BY <1>1 DEF ValidationProgress
  <1>5. CASE Become(w, "idle") \/ Decide(w, CancelPlan("RUNNING"))
    <2>1. service'[w].pc \in {"idle", "finalizing"}
      BY <1>1, <1>5, RowAfter
    <2>2. Advance(w, Carried(w)) /\ Carried(w) = "none"
      BY <2>1 DEF IngestionProgress, Keep, Carried, InRunner, AfterRunner
    <2>3. ResultsKept(w) /\ IngestionTypeOK' /\ stage'[w] = Carried(w)
      BY <1>1, <1>2, <2>2, SameResults DEF Stage
    <2>4. service'[w].pc \notin Working \/ Decided(w)
      <3>1. CancelPlan("RUNNING")[3] = "CANCELLED" /\ "idle" \notin Working
        BY DEF CancelPlan, Working, BeforeSpawn, InRunner, AfterRunner
      <3>2. CASE Become(w, "idle")
        BY <1>1, <3>1, <3>2, RowAfter
      <3>3. CASE Decide(w, CancelPlan("RUNNING"))
        BY <1>1, <1>3, <3>1, <3>3, RowAfter DEF Decided
      <3> QED
        BY <1>5, <3>2, <3>3
    <2>5. StageSound(w)' /\ PlanSound(w)'
      BY <1>1, <2>3, <2>4, MovedSound
    <2> QED
      BY <1>1, <1>2, <2>3, <2>5, ResultsStay, IngestionMove
  <1>6. CASE Goto(w, "validating") \/ Goto(w, "validated")
    <2>1. service'[w].pc \in {"validating", "validated"} /\ service'[w].held = service[w].held
      BY <1>1, <1>6, RowAfter
    <2>2. Carried(w) = stage[w]
      BY <2>1 DEF Carried, AfterRunner
    <2>3. /\ stage[w] = "stored" => Stored(Holds(w))
          /\ stage[w] = "clear" => bound[JobOf(w)] # Holds(w)
      BY <1>1, <1>3 DEF StageSound
    <2>4. service'[w].pc = "validated" => stage[w] = "stored"
      BY DEF IngestionProgress
    <2>5. CASE Keep(w)
      <3>1. Advance(w, stage[w])
        BY <2>2, <2>5 DEF Keep
      <3>2. Validates(w, stage[w])
        BY <1>1, <1>3, <2>1, <2>3, <2>4, <3>1 DEF Validates, Stage, Stored, JobOf
      <3> QED
        BY <1>2, <3>2, StageStep
    <2>6. CASE stage[w] = "clear" /\ Advance(w, "ready") /\ service'[w].pc = "validating"
      <3>1. Validates(w, "ready")
        BY <1>1, <1>3, <2>1, <2>3, <2>6 DEF Validates, Stage
      <3> QED
        BY <1>2, <3>1, StageStep
    <2> QED
      BY <2>5, <2>6 DEF IngestionProgress, AtStage
  <1> QED
    BY <1>4, <1>5, <1>6

\* A step that leaves worker and job plane alone ends and spawns nothing.
LEMMA NothingHappens ==
  ASSUME IngestionInv, UNCHANGED allVars
  PROVE  /\ NoNewEnds /\ NoNewChild
         /\ UNCHANGED <<vars, service, child>>
  BY OutsideEnds DEF IngestionInv, ServicesInv, allVars, workerVars, NoNewChild

\* The receipt check before the child: no result of the job is there.
LEMMA NoPriorKept ==
  ASSUME IngestionInv, ServicesInv', NEW w \in Worker, NoPriorReceipt(w)
  PROVE  IngestionInv'
  <1>1. /\ service[w].pc = "prepared" /\ stage[w] = "none" /\ StageSound(w) /\ ServicesInv
        /\ Advance(w, "clear") /\ UNCHANGED <<profile, bound, snapshot>> /\ snapshot' \subseteq Job
        /\ UNCHANGED allVars /\ (profile[JobOf(w)] = "ENGINE" => bound[JobOf(w)] = NoAttempt)
    BY DEF NoPriorReceipt, IngestionInv, IngestionTypeOK
  <1>2. NoNewEnds /\ NoNewChild /\ UNCHANGED service
    BY <1>1, NothingHappens
  <1>3. ResultsKept(w) /\ IngestionTypeOK' /\ stage'[w] = "clear"
    BY <1>1, <1>2, SameResults DEF Stage
  <1>4. JobOf(w) \in Job /\ Holds(w) # NoAttempt
    BY <1>1, JobOfWork DEF Working, BeforeSpawn
  <1>5. bound[JobOf(w)] = NoAttempt
    BY <1>1, <1>4 DEF IngestionInv, ResultsSound, BoundSound
  <1>6. StageSound(w)' /\ PlanSound(w)'
    BY <1>1, <1>2, <1>3, <1>4, <1>5 DEF StageSound, PlanSound, JobOf, Holds
  <1> QED
    BY <1>1, <1>2, <1>3, <1>6, ResultsStay, IngestionMove

\* The engine's batch is bound to the job by the one service that holds the lease: no service that
\* passed the receipt check is still to spawn, and no later attempt exists.
LEMMA IngestKept ==
  ASSUME IngestionInv, ServicesInv', NEW w \in Worker, IngestEngine(w)
  PROVE  IngestionInv'
  <1>1. /\ ServicesInv /\ SafetyInv /\ service[w].pc = "validating" /\ service[w].pc \in Working
        /\ UNCHANGED allVars /\ UNCHANGED <<profile, snapshot>> /\ IngestionTypeOK
    BY DEF IngestionInv, ServicesInv, IngestEngine, AtStage, Working, AfterRunner
  <1>2. NoNewEnds /\ NoNewChild /\ UNCHANGED <<vars, service, child>>
    BY <1>1, NothingHappens
  <1>3. /\ JobOf(w) \in Job /\ Holds(w) \in Attempt /\ Holds(w) # NoAttempt
        /\ Holds(w) = <<JobOf(w), Holds(w)[2]>>
    BY <1>1, JobOfWork
  <1>4. PICK a \in Attempt : a = Holds(w) /\ a = <<a[1], a[2]>> /\ a[1] \in Job /\ a # NoAttempt
    BY <1>3 DEF JobOf
  <1>5. /\ profile[a[1]] = "ENGINE" /\ bound' = [bound EXCEPT ![a[1]] = a]
        /\ bound[a[1]] \in {NoAttempt, a}
        /\ jobs[a[1]].state = "RUNNING" /\ attempts[a].outcome = "RUNNING"
        /\ jobs[a[1]].attemptCount = a[2]
    BY <1>4 DEF IngestEngine, Ingestible, IngestFence, HoldsLease
  <1>6. PICK s \in {"stored", "lost"} : Advance(w, s)
    BY DEF IngestEngine
  <1>7. bound'[a[1]] = a /\ \A j \in Job \ {a[1]} : bound'[j] = bound[j]
    BY <1>1, <1>4, <1>5 DEF IngestionTypeOK
  <1>8. stage' \in [Worker -> Stage] /\ stage'[w] = s /\ \A v \in Worker \ {w} : stage'[v] = stage[v]
    BY <1>1, <1>6 DEF IngestionTypeOK, Advance, Stage
  <1>9. IngestionTypeOK'
    BY <1>1, <1>4, <1>5, <1>8 DEF IngestionTypeOK
  <1>10. ResultsKept(w)
    <2>1. ASSUME NEW v \in Worker \ {w}, service[v].pc \in Working
          PROVE  /\ bound'[JobOf(v)] = Holds(v) => bound[JobOf(v)] = Holds(v)
                 /\ service[v].pc = "prepared" /\ bound[JobOf(v)] = NoAttempt =>
                      bound'[JobOf(v)] = NoAttempt
      <3>1. Holds(v) # a
        BY <1>1, <1>4, HandlesDiffer
      <3>2. JobOf(v) \in Job /\ Holds(v) = <<JobOf(v), Holds(v)[2]>>
        BY <1>1, <2>1, JobOfWork
      <3>3. service[v].pc = "prepared" => JobOf(v) # a[1]
        <4>1. service[v].pc = "prepared" => Holds(v)[2] = jobs[JobOf(v)].attemptCount
          BY <1>1 DEF ServicesInv, WorkerInv, SpawnSound, BeforeSpawn, JobOf
        <4> QED
          BY <1>4, <1>5, <3>1, <3>2, <4>1
      <3> QED
        BY <1>7, <3>1, <3>2, <3>3
    <2> QED
      BY <1>1, <1>2, <1>5, <1>7, <1>8, <2>1 DEF ResultsKept
  <1>11. \A j \in Job : BoundSound(j)'
    <2>1. BoundSound(a[1])'
      BY <1>1, <1>2, <1>4, <1>5, <1>7 DEF BoundSound, IsIssued, NoOutcome, vars
    <2>2. ASSUME NEW j \in Job \ {a[1]} PROVE BoundSound(j)'
      BY <1>1, <1>2, <1>7 DEF IngestionInv, ResultsSound, BoundSound, IsIssued, vars
    <2> QED
      BY <2>1, <2>2
  <1>12. NoRerunAfterResult'
    <2>1. ASSUME NEW b \in Attempt, b[1] = a[1], b[2] > a[2] PROVE child[b] = "none"
      <3>1. Owned(jobs[a[1]], attempts[b], b[2])
        BY <1>1, <2>1 DEF SafetyInv, OwnershipConsistent
      <3>2. a[2] \in Nat /\ b[2] \in Nat
        BY AttemptParts DEF Attempt
      <3>3. attempts[b].outcome = NoOutcome
        BY <1>5, <2>1, <3>1, <3>2 DEF Owned
      <3> QED
        BY <1>1, <3>3 DEF ServicesInv, WorkerInv, ChildSound
    <2>2. ASSUME NEW b \in Attempt, bound'[b[1]] # NoAttempt, b[2] > bound'[b[1]][2]
          PROVE  child'[b] = "none"
      <3>1. CASE b[1] = a[1]
        BY <1>2, <1>7, <2>1, <2>2, <3>1
      <3>2. CASE b[1] # a[1]
        <4>1. b[1] \in Job /\ bound'[b[1]] = bound[b[1]]
          BY <1>7, <3>2, AttemptParts
        <4> QED
          BY <1>2, <2>2, <4>1 DEF IngestionInv, ResultsSound, NoRerunAfterResult
      <3> QED
        BY <3>1, <3>2
    <2> QED
      BY <2>2 DEF NoRerunAfterResult
  <1>13. DurableBeforeSuccess'
    BY <1>1, <1>2, <1>5, <1>7 DEF IngestionInv, ResultsSound, DurableBeforeSuccess, vars
  <1>14. OwnFailureNeverDurable'
    <2>1. ASSUME NEW b \in Attempt, bound'[b[1]] = b
          PROVE  attempts'[b].outcome \notin {"FAILED", "TIMED_OUT"}
      <3>1. b[1] \in Job /\ attempts' = attempts
        BY <1>2, AttemptParts DEF vars
      <3>2. CASE b[1] = a[1]
        BY <1>5, <1>7, <2>1, <3>1, <3>2
      <3>3. CASE b[1] # a[1]
        BY <1>7, <2>1, <3>1, <3>3 DEF IngestionInv, ResultsSound, OwnFailureNeverDurable
      <3> QED
        BY <3>2, <3>3
    <2> QED
      BY <2>1 DEF OwnFailureNeverDurable
  <1>15. StageSound(w)' /\ PlanSound(w)'
    <2>1. service'[w] = service[w] /\ Stored(Holds(w))'
      BY <1>1, <1>2, <1>4, <1>5, <1>7 DEF Stored, Holds
    <2> QED
      BY <1>1, <1>6, <1>8, <2>1 DEF StageSound, PlanSound, AfterRunner
  <1>16. ResultsSound'
    BY <1>11, <1>12, <1>13, <1>14 DEF ResultsSound
  <1> QED
    BY <1>9, <1>10, <1>15, <1>16, IngestionMove

\* The answers of storing: a call that raised, a receipt that was found, a snapshot that was saved.
LEMMA AnswerKept ==
  ASSUME IngestionInv, ServicesInv', NEW w \in Worker,
         IngestFails(w) \/ ReceiptFound(w) \/ PersistSnapshot(w)
  PROVE  IngestionInv'
  <1>1. /\ service[w].pc = "validating" /\ service[w].pc \in AfterRunner /\ UNCHANGED allVars
        /\ UNCHANGED <<profile, bound>> /\ ServicesInv /\ IngestionTypeOK
    BY DEF IngestFails, ReceiptFound, PersistSnapshot, AtStage, AfterRunner, IngestionInv
  <1>2. NoNewEnds /\ NoNewChild /\ UNCHANGED service
    BY <1>1, NothingHappens
  <1>3. JobOf(w) \in Job /\ Holds(w) # NoAttempt
    BY <1>1, JobOfWork DEF Working
  <1>4. \E s \in {"lost", "stored"} : Validates(w, s)
    <2>1. CASE IngestFails(w)
      <3>1. Validates(w, "lost")
        BY <1>1, <1>2, <2>1 DEF IngestFails, Validates, Stage, IngestionTypeOK
      <3> QED
        BY <3>1
    <2>2. CASE ReceiptFound(w)
      <3>1. bound[JobOf(w)] = Holds(w)
        BY <2>2 DEF ReceiptFound
      <3>2. profile[JobOf(w)] = "ENGINE"
        BY <1>3, <3>1 DEF IngestionInv, ResultsSound, BoundSound
      <3>3. Validates(w, "stored")
        BY <1>1, <1>2, <2>2, <3>1, <3>2 DEF ReceiptFound, Validates, Stage, IngestionTypeOK
      <3> QED
        BY <3>3
    <2>3. CASE PersistSnapshot(w)
      <3>1. Validates(w, "stored")
        BY <1>1, <1>2, <1>3, <2>3 DEF PersistSnapshot, Validates, Stage, IngestionTypeOK
      <3> QED
        BY <3>1
    <2> QED
      BY <2>1, <2>2, <2>3
  <1> QED
    BY <1>2, <1>4, StageStep

\* A validation that failed: nothing of this attempt was stored for the engine.
LEMMA FailureKept ==
  ASSUME IngestionInv, ServicesInv', NEW w \in Worker, PersistFails(w) \/ ValidatorRejects(w)
  PROVE  IngestionInv'
  <1>1. /\ ValidationFailed(w) /\ service[w].pc = "validating" /\ ServicesInv /\ ServiceStep(w)
        /\ Advance(w, Carried(w)) /\ UNCHANGED <<profile, bound>> /\ UNCHANGED child
        /\ StageSound(w) /\ service[w].pc \in Working
    BY DEF PersistFails, ValidatorRejects, ValidationFailed, Keep, IngestionInv, ServiceStep,
           Working, AfterRunner
  <1>2. NoNewEnds /\ NoNewChild /\ \A v \in Worker \ {w} : service'[v] = service[v]
    BY <1>1, ServiceEnds, ServiceChildren DEF NoNewChild
  <1>3. PICK x : Decide(w, x) /\ x[3] = "FAILED"
    BY <1>1 DEF ValidationFailed, RunningPlan
  <1>4. /\ service'[w].pc = "finalizing" /\ service'[w].held = service[w].held
        /\ service'[w].plan[3] = "FAILED"
    BY <1>1, <1>3, RowAfter
  <1>5. Carried(w) = "none"
    BY <1>4 DEF Carried, InRunner, AfterRunner
  <1>6. JobOf(w) \in Job /\ Holds(w) # NoAttempt
    BY <1>1, JobOfWork
  <1>7. snapshot \subseteq snapshot' /\ snapshot' \subseteq Job
    BY <1>6 DEF PersistFails, ValidatorRejects, Keep, IngestionInv, IngestionTypeOK
  <1>8. ResultsKept(w) /\ IngestionTypeOK' /\ stage'[w] = "none"
    BY <1>1, <1>2, <1>5, <1>7, SameResults DEF Stage
  <1>9. bound[JobOf(w)] # Holds(w)
    <2>1. CASE PersistFails(w)
      <3>1. profile[JobOf(w)] # "ENGINE"
        BY <2>1 DEF PersistFails
      <3> QED
        BY <1>6, <3>1 DEF IngestionInv, ResultsSound, BoundSound
    <2>2. CASE ValidatorRejects(w)
      BY <1>1, <2>2 DEF ValidatorRejects, StageSound
    <2> QED
      BY <2>1, <2>2
  <1>10. StageSound(w)' /\ PlanSound(w)'
    BY <1>1, <1>4, <1>8, <1>9 DEF StageSound, PlanSound, JobOf, Holds
  <1> QED
    BY <1>1, <1>2, <1>7, <1>8, <1>10, ResultsStay, IngestionMove

\* The clock, the operators and children that exit.
LEMMA OutsideKept ==
  ASSUME IngestionInv, ServicesInv', UNCHANGED <<profile, ingestionVars>>, UNCHANGED service,
         NoNewEnds, NoNewChild
  PROVE  IngestionInv'
  <1>1. UNCHANGED <<profile, bound, snapshot, stage>>
    BY DEF ingestionVars
  <1>2. ResultsSound'
    BY <1>1, ResultsStay
  <1>3. \A w \in Worker : StageSound(w)' /\ PlanSound(w)'
    BY <1>1 DEF IngestionInv, StageSound, PlanSound, Stored, JobOf, Holds
  <1>4. IngestionTypeOK'
    BY <1>1 DEF IngestionInv, IngestionTypeOK
  <1> QED
    BY <1>2, <1>3, <1>4 DEF IngestionInv

-----------------------------------------------------------------------------
(* The theorems about stored results.                                       *)

\* Before anything ran there is no result.
LEMMA IngestionStarts ==
  ASSUME IngestionInit
  PROVE  IngestionInv
  <1>1. /\ WorkerInit /\ ServicesInv /\ profile \in [Job -> Profile]
        /\ bound = [j \in Job |-> NoAttempt] /\ snapshot = {} /\ stage = [w \in Worker |-> "none"]
    BY ServicesInit DEF IngestionInit
  <1>2. IngestionTypeOK
    BY <1>1 DEF IngestionTypeOK, Stage
  <1>3. /\ \A j \in Job : jobs[j].state = Absent
        /\ \A w \in Worker : service[w].pc = "down"
    BY <1>1 DEF WorkerInit, Init, NoJobRow, ServiceAt
  <1>4. ResultsSound
    <2>1. \A a \in Attempt : a[1] \in Job /\ a # NoAttempt
      BY AttemptParts, JobPlaneAssumption DEF NoAttempt, Attempt
    <2>2. (\A j \in Job : BoundSound(j)) /\ NoRerunAfterResult /\ OwnFailureNeverDurable
      BY <1>1, <2>1 DEF BoundSound, NoRerunAfterResult, OwnFailureNeverDurable
    <2>3. DurableBeforeSuccess
      BY <1>3 DEF DurableBeforeSuccess, Absent
    <2> QED
      BY <2>2, <2>3 DEF ResultsSound
  <1>5. \A w \in Worker : StageSound(w) /\ PlanSound(w)
    BY <1>1, <1>3 DEF StageSound, PlanSound, Working, BeforeSpawn, InRunner, AfterRunner
  <1> QED
    BY <1>1, <1>2, <1>4, <1>5 DEF IngestionInv

\* Every step preserves the invariant.
LEMMA IngestionStep ==
  ASSUME IngestionInv, [IngestionNext]_systemVars
  PROVE  IngestionInv'
  <1>1. ServicesInv /\ SafetyInv /\ ServicesInv'
    BY IngestionIsWorker, ServicesStep DEF IngestionInv, ServicesInv
  <1>2. ASSUME NEW w \in Worker, Unchanged(w) PROVE IngestionInv'
    BY <1>1, <1>2, KeptStep, ClaimKept, FinalizeKept DEF Unchanged
  <1>3. ASSUME NEW w \in Worker, Storing(w) PROVE IngestionInv'
    <2>1. CASE PriorReceipt(w)
      <3>1. BlockClaimed(w) /\ Keep(w)
        BY <2>1 DEF PriorReceipt, BlockClaimed
      <3> QED
        BY <1>1, <3>1, KeptStep
    <2>2. CASE IngestRefused(w) \/ NoReceipt(w)
      <3>1. ValidationBlocked(w) /\ Keep(w)
        BY <2>2 DEF IngestRefused, NoReceipt, AtStage, Reconciliation, ValidationBlocked
      <3> QED
        BY <1>1, <3>1, KeptStep
    <2>3. CASE StoredOrNotBlocked(w)
      BY <1>1, <2>3, KeptStep DEF StoredOrNotBlocked
    <2> QED
      BY <1>1, <1>3, <2>1, <2>2, <2>3, NoPriorKept, SpawnKept, ProgressKept, IngestKept, AnswerKept,
         FailureKept DEF Storing
  <1>4. CASE (Tick \/ Operator) /\ UNCHANGED workerVars /\ UNCHANGED <<profile, ingestionVars>>
    <2>1. NoNewEnds /\ NoNewChild /\ UNCHANGED service
      BY <1>1, <1>4, OutsideEnds DEF NoNewChild, workerVars
    <2> QED
      BY <1>1, <1>4, <2>1, OutsideKept
  <1>5. ASSUME NEW a \in Attempt, ChildExit(a), UNCHANGED <<profile, ingestionVars>>
        PROVE  IngestionInv'
    <2>1. NoNewChild
      BY <1>1, <1>5 DEF ChildExit, NoNewChild, ServicesInv, WorkerTypeOK
    <2>2. NoNewEnds /\ UNCHANGED service
      BY <1>1, <1>5, OutsideEnds DEF ChildExit
    <2> QED
      BY <1>1, <1>5, <2>1, <2>2, OutsideKept
  <1>6. CASE UNCHANGED systemVars
    <2>1. UNCHANGED allVars /\ UNCHANGED <<profile, ingestionVars>>
      BY <1>6 DEF systemVars
    <2> QED
      BY <1>1, <2>1, NothingHappens, OutsideKept
  <1> QED
    BY <1>2, <1>3, <1>4, <1>5, <1>6 DEF IngestionNext

\* Whatever answers are lost and wherever workers crash, pause or are superseded between storing a
\* result and finalizing the job, what the services know about results is true.
THEOREM IngestionSafety == IngestionSpec => []IngestionInv
  <1>1. IngestionInit => IngestionInv
    BY IngestionStarts
  <1>2. IngestionInv /\ [IngestionNext]_systemVars => IngestionInv'
    BY IngestionStep
  <1> QED
    BY <1>1, <1>2, PTL DEF IngestionSpec

\* The variables of the ingestion have their types.
THEOREM IngestionTypeCorrect == IngestionSpec => []IngestionTypeOK
  <1>1. IngestionInv => IngestionTypeOK
    BY DEF IngestionInv
  <1> QED
    BY <1>1, IngestionSafety, PTL

\* Once the result of an attempt is durable, no later attempt of the job executes the engine.
THEOREM ResultNeverRerun == IngestionSpec => []NoRerunAfterResult
  <1>1. IngestionInv => NoRerunAfterResult
    BY DEF IngestionInv, ResultsSound
  <1> QED
    BY <1>1, IngestionSafety, PTL

\* A job that succeeded has its result stored, the engine's by the very attempt that succeeded.
THEOREM SuccessIsDurable == IngestionSpec => []DurableBeforeSuccess
  <1>1. IngestionInv => DurableBeforeSuccess
    BY DEF IngestionInv, ResultsSound
  <1> QED
    BY <1>1, IngestionSafety, PTL

\* No worker closes its own attempt as failed or timed out once its engine result is durable.
THEOREM FailureIsNotDurable == IngestionSpec => []OwnFailureNeverDurable
  <1>1. IngestionInv => OwnFailureNeverDurable
    BY DEF IngestionInv, ResultsSound
  <1> QED
    BY <1>1, IngestionSafety, PTL

\* What is proved of the database functions holds of the services that call them, with stored
\* results and all: the history passes the audit, an ended attempt is never rewritten, jobs and
\* attempts agree on who owns what, and an accepted cancellation is honoured.
THEOREM ServicesKeepThePlane ==
  IngestionSpec =>
    /\ [](EventChainClean /\ OwnershipConsistent /\ NothingCarriedOver /\ AcceptedCancelHonoured)
    /\ EndedAttemptsFrozen
    /\ ImplementsLifecycle
  <1>1. ImplementsWorker => Spec
    BY WorkerImplementsPlane DEF ImplementsWorker
  <1> QED
    BY <1>1, IngestionRefinesWorker, ChainClean, Ownership, CleanRetry, CancelHonoured, Frozen,
       Refinement, PTL
=============================================================================
