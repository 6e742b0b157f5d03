------------------------------ MODULE JobWorker ------------------------------
(***************************************************************************)
(* The worker services that drive the job plane: recovery at start, then   *)
(* the claim loop, in which a claimed job is checked, executed by a child  *)
(* process, validated and finalized (services/job_worker).                 *)
(*                                                                         *)
(* Every step of a worker makes at most one call to the database, so API   *)
(* calls, the clock, other workers and crashes fall between any two calls. *)
(* Production runs one worker; the fences of the database are meant to     *)
(* hold for several on one host, and this module has a set of them.  The   *)
(* payload profiles that run no ordinary child (P3 sessions and fixtures)  *)
(* and the ingestion of engine events are left out.                        *)
(***************************************************************************)
EXTENDS JobPlane

VARIABLES
  service,  \* the program state of each worker service
  child     \* the session leader that each attempt's worker spawned

workerVars == <<service, child>>
allVars == <<vars, workerVars>>

NoAttempt == <<0, 0>>
NoReason == "NONE"
NoPlan == << >>

\* The reason codes of the worker, one for every refusal before the child exists.
WorkerReason ==
  {"BLOCKED_BEFORE_SPAWN", "CANCELLED", "PROCESS_TIMEOUT", "SAFETY_DRIFT",
   "OUTPUT_DRAIN_TRUNCATED", "PROCESS_GROUP_CLEANUP_UNPROVEN",
   "RESULT_RECONCILIATION_REQUIRED", "RESULT_VALIDATION_FAILED", "RESULT_VALIDATED"}

ASSUME WorkerAssumption == WorkerReason \subseteq FinalReason

\* One call of finalize_execution or finalize_retry that the worker has
\* decided on: expected state, expected outcome, final state, retry, reason.
Plan ==
  JobState \X {"CLAIMED", "RUNNING"} \X TerminalStates \X BOOLEAN \X WorkerReason

\* down: not running        recovering: recover_expired_leases     idle: run_once
\* claimed: before pre_spawn_control            prepared: inside runner.run, no child
\* looping, started, refused: the runner's loop and two points in its heartbeat
\* drained, validating, validated: around the result validator
\* finalizing: about to call finalize
Pc == {"down", "recovering", "idle", "claimed", "prepared", "looping", "started",
       "refused", "drained", "validating", "validated", "finalizing"}

ServiceRow ==
  [ pc      : Pc,
    held    : Attempt \cup {NoAttempt},    \* the claim that run_once works on
    running : BOOLEAN,                     \* the flag started of run_once
    reason  : {NoReason, "CANCELLED", "SAFETY_DRIFT", "STALE_LEASE", "TIMEOUT"},
    plan    : Plan \cup {NoPlan},
    todo    : SUBSET Candidate,
    seen    : (Candidate \X Observation) \cup {<< >>} ]

ServiceAt(pc) ==
  [ pc |-> pc, held |-> NoAttempt, running |-> FALSE, reason |-> NoReason,
    plan |-> NoPlan, todo |-> {}, seen |-> << >> ]

\* A leader that has exited stays a zombie until its worker reaps it.
ChildState == {"none", "alive", "zombie", "gone"}

WorkerInit ==
  /\ Init
  /\ service = [w \in Worker |-> ServiceAt("down")]
  /\ child = [a \in Attempt |-> "none"]

Holds(w) == service[w].held
Goto(w, pc) == service' = [service EXCEPT ![w].pc = pc]
Become(w, pc) == service' = [service EXCEPT ![w] = ServiceAt(pc)]
Decide(w, plan) == service' = [service EXCEPT ![w].pc = "finalizing", ![w].plan = plan]

\* The times a statement of the worker about its claim may carry: its own
\* statements follow each other.
CallTimes(w) == StatementTimes(attempts[Holds(w)].heartbeatAt)

-----------------------------------------------------------------------------
(* Service start and recovery.                                              *)

StartService(w) ==
  /\ service[w].pc = "down"
  /\ RecoveryScan
  /\ service' = [service EXCEPT ![w] = [ServiceAt("recovering") EXCEPT !.todo = ExpiredCandidates]]
  /\ UNCHANGED child

\* Mutant of Observed: an identity that cannot be read counts as absent.
ObservedErrorsAsAbsent(c) ==
  {IF c.child THEN "ABSENT" ELSE "UNVERIFIABLE"}

\* What ProcProcessInspector and the comparison with the stored identity may
\* report.  A process that replaced its command line, a zombie (its command
\* line is empty) and a stranger with a reused pid are all mismatches.
Observed(c) ==
  {"UNVERIFIABLE"} \cup
  (IF c.child
   THEN CASE child[c.attempt] = "alive"  -> {"STILL_RUNNING", "IDENTITY_MISMATCH"}
          [] child[c.attempt] = "zombie" -> {"IDENTITY_MISMATCH"}
          [] OTHER                       -> {"ABSENT", "IDENTITY_MISMATCH"}
   ELSE {})

Inspect(w) ==
  /\ service[w].pc = "recovering"
  /\ service[w].seen = << >>
  /\ \E c \in service[w].todo : \E o \in Observed(c) :
       service' = [service EXCEPT ![w].seen = <<c, o>>, ![w].todo = @ \ {c}]
  /\ UNCHANGED <<vars, child>>

\* worker_recover_expired decides, or answers LEASE_RECOVERY_STALE.
Recover(w) ==
  /\ service[w].pc = "recovering"
  /\ service[w].seen # << >>
  /\ \E ts \in StatementTimes(0) :
       LET c == service[w].seen[1]
           o == service[w].seen[2]
       IN  \/ RecoverBlock(c, o, ts)
           \/ RecoverInterrupted(c, o, ts)
           \/ ~ RecoveryFence(c, ts) /\ UNCHANGED vars
  /\ service' = [service EXCEPT ![w].seen = << >>]
  /\ UNCHANGED child

EnterLoop(w) ==
  /\ service[w].pc = "recovering"
  /\ service[w].seen = << >>
  /\ service[w].todo = {}
  /\ Become(w, "idle")
  /\ UNCHANGED <<vars, child>>

-----------------------------------------------------------------------------
(* run_once up to the child.                                                *)

Claim(w) ==
  /\ service[w].pc = "idle"
  /\ \E j \in Job, busy \in BusySets :
       /\ WorkerClaim(w, j, busy)
       /\ service' = [service EXCEPT ![w].pc = "claimed",
                                     ![w].held = <<j, jobs[j].attemptCount + 1>>]
  /\ UNCHANGED child

PollEmpty(w) ==
  /\ service[w].pc = "idle"
  /\ \E busy \in BusySets : \A j \in Job \ busy : ~ Claimable(j)
  /\ UNCHANGED allVars

BlockedPlan == <<"CLAIMED", "CLAIMED", "BLOCKED", FALSE, "BLOCKED_BEFORE_SPAWN">>

\* Mutant of CancelPlan: the finalization repeats the target of the request.
CancelPlanRequested(was) == <<"CANCEL_REQUESTED", was, "CANCEL_REQUESTED", FALSE, "CANCELLED">>

CancelPlan(was) == <<"CANCEL_REQUESTED", was, "CANCELLED", FALSE, "CANCELLED">>

\* The safety preflight, or an authority or ingestor that is missing, blocks
\* the claim; so does any refusal of the runner before Popen.
BlockClaimed(w) ==
  /\ service[w].pc \in {"claimed", "prepared"}
  /\ Decide(w, BlockedPlan)
  /\ UNCHANGED <<vars, child>>

\* worker_control_snapshot_lease and what it answers.
ControlReply(a, phase, ts) ==
  CASE ~ ControlFence(a, phase, ts)             -> "STALE"
    [] jobs[a[1]].state = "CANCEL_REQUESTED"    -> "CANCEL"
    [] OTHER                                    -> "CONTINUE"

ControlCall(a, phase, ts) ==
  \/ WorkerControl(a, phase, ts)
  \/ ~ ControlFence(a, phase, ts) /\ UNCHANGED vars

PreSpawnControl(w) ==
  /\ service[w].pc = "claimed"
  /\ \E ts \in CallTimes(w) :
       /\ ControlCall(Holds(w), "CLAIMED", ts)
       /\ LET reply == ControlReply(Holds(w), "CLAIMED", ts)
          IN  \/ reply = "STALE"    /\ Become(w, "idle")
              \/ reply = "CANCEL"   /\ Decide(w, CancelPlan("CLAIMED"))
              \/ reply = "CONTINUE" /\ Goto(w, "prepared")
  /\ UNCHANGED child

-----------------------------------------------------------------------------
(* The runner: Popen, then a loop that calls the heartbeat callback in every *)
(* iteration and ends when the leader is reaped or cannot be accounted for. *)

Spawn(w) ==
  /\ service[w].pc = "prepared"
  /\ Goto(w, "looping")
  /\ child' = [child EXCEPT ![Holds(w)] = "alive"]
  /\ UNCHANGED vars

\* The first reason to terminate is the one that counts.
Because(w, reason) == IF service[w].reason = NoReason THEN reason ELSE service[w].reason

Looping(w, reason) ==
  service' = [service EXCEPT ![w].pc = "looping", ![w].reason = Because(w, reason)]

HeartbeatDrift(w) ==
  /\ service[w].pc = "looping"
  /\ Looping(w, "SAFETY_DRIFT")
  /\ UNCHANGED <<vars, child>>

HeartbeatStart(w) ==
  /\ service[w].pc = "looping"
  /\ ~ service[w].running
  /\ \E ts \in CallTimes(w) :
       \/ /\ WorkerStart(Holds(w), ts)
          /\ service' = [service EXCEPT ![w].pc = "started", ![w].running = TRUE]
       \/ /\ ~ StartFence(Holds(w), ts)
          /\ UNCHANGED vars
          /\ Goto(w, "refused")
  /\ UNCHANGED child

\* Mutant of HeartbeatRefused: only a cancellation ends the loop.
HeartbeatRefusedCancelOnly(w) ==
  /\ service[w].pc = "refused"
  /\ \E ts \in CallTimes(w) :
       /\ ControlCall(Holds(w), "CLAIMED", ts)
       /\ Looping(w, IF ControlReply(Holds(w), "CLAIMED", ts) = "CANCEL"
                     THEN "CANCELLED" ELSE NoReason)
  /\ UNCHANGED child

\* start_attempt was refused: is it a cancellation or a lost lease?
HeartbeatRefused(w) ==
  /\ service[w].pc = "refused"
  /\ \E ts \in CallTimes(w) :
       /\ ControlCall(Holds(w), "CLAIMED", ts)
       /\ Looping(w, IF ControlReply(Holds(w), "CLAIMED", ts) = "CANCEL"
                     THEN "CANCELLED" ELSE "STALE_LEASE")
  /\ UNCHANGED child

HeartbeatControl(w) ==
  /\ service[w].pc = "started" \/ (service[w].pc = "looping" /\ service[w].running)
  /\ \E ts \in CallTimes(w) :
       /\ ControlCall(Holds(w), "RUNNING", ts)
       /\ LET reply == ControlReply(Holds(w), "RUNNING", ts)
          IN  \/ reply = "STALE"    /\ Looping(w, "STALE_LEASE")
              \/ reply = "CANCEL"   /\ Looping(w, "CANCELLED")
              \/ reply = "CONTINUE" /\ Goto(w, "looping")
  /\ UNCHANGED child

Timeout(w) ==
  /\ service[w].pc = "looping"
  /\ service[w].running
  /\ service[w].reason = NoReason
  /\ Looping(w, "TIMEOUT")
  /\ UNCHANGED <<vars, child>>

ChildExit(a) ==
  /\ child[a] = "alive"
  /\ child' = [child EXCEPT ![a] = "zombie"]
  /\ UNCHANGED <<vars, service>>

\* _session_cleanup_step: TERM, then KILL, once there is a reason.
KillChild(w) ==
  /\ service[w].pc = "looping"
  /\ service[w].reason # NoReason
  /\ child[Holds(w)] = "alive"
  /\ child' = [child EXCEPT ![Holds(w)] = "zombie"]
  /\ UNCHANGED <<vars, service>>

\* _finalize_termination
TerminationPlan(reason, running) ==
  CASE reason = "CANCELLED" -> CancelPlan(IF running THEN "RUNNING" ELSE "CLAIMED")
    [] reason = "TIMEOUT"   -> <<"RUNNING", "RUNNING", "TIMED_OUT", FALSE, "PROCESS_TIMEOUT">>
    [] OTHER                -> IF running
                               THEN <<"RUNNING", "RUNNING", "BLOCKED", FALSE, reason>>
                               ELSE <<"CLAIMED", "CLAIMED", "BLOCKED", FALSE, reason>>

\* The session is empty, the leader is reaped and the pipes are drained, or
\* they are still open after a grace period.
Reap(w) ==
  /\ service[w].pc = "looping"
  /\ service[w].running \/ service[w].reason # NoReason
  /\ child[Holds(w)] = "zombie"
  /\ child' = [child EXCEPT ![Holds(w)] = "gone"]
  /\ \/ service[w].reason = NoReason /\ Goto(w, "drained")
     \/ service[w].reason = NoReason /\ Decide(w, TerminationPlan("OUTPUT_DRAIN_TRUNCATED", TRUE))
     \/ service[w].reason = "STALE_LEASE" /\ Become(w, "idle")
     \/ /\ service[w].reason \notin {NoReason, "STALE_LEASE"}
        /\ Decide(w, TerminationPlan(service[w].reason, service[w].running))
  /\ UNCHANGED vars

\* Mutant of CleanupUnproven: an earlier reason hides that the child may be alive.
CleanupUnprovenKeepsReason(w) ==
  /\ service[w].pc = "looping"
  /\ service[w].reason # NoReason
  /\ child' \in {child, [child EXCEPT ![Holds(w)] = "gone"]}
  /\ Decide(w, TerminationPlan(service[w].reason, service[w].running))
  /\ UNCHANGED vars

\* The end of the session cannot be proven, whatever the reason was before.
CleanupUnproven(w) ==
  /\ service[w].pc = "looping"
  /\ service[w].running \/ service[w].reason # NoReason
  /\ child' \in {child, [child EXCEPT ![Holds(w)] = "gone"]}
  /\ Decide(w, TerminationPlan("PROCESS_GROUP_CLEANUP_UNPROVEN", service[w].running))
  /\ UNCHANGED vars

-----------------------------------------------------------------------------
(* Validation and finalization.                                             *)

\* _validation_progress: made before the validator, during it, and after it.
ValidationProgress(w) ==
  /\ service[w].pc \in {"drained", "validating"}
  /\ \E ts \in CallTimes(w) :
       /\ ControlCall(Holds(w), "RUNNING", ts)
       /\ LET reply == ControlReply(Holds(w), "RUNNING", ts)
          IN  \/ reply = "STALE"    /\ Become(w, "idle")
              \/ reply = "CANCEL"   /\ Decide(w, CancelPlan("RUNNING"))
              \/ reply = "CONTINUE" /\ service[w].pc = "drained" /\ Goto(w, "validating")
              \/ reply = "CONTINUE" /\ service[w].pc = "validating"
                                    /\ \E pc \in {"validating", "validated"} : Goto(w, pc)
  /\ UNCHANGED child

RunningPlan(final, retry, reason) == <<"RUNNING", "RUNNING", final, retry, reason>>

\* Safety drift, or a result that was perhaps persisted already.
ValidationBlocked(w) ==
  /\ service[w].pc \in {"drained", "validating"}
  /\ \E reason \in {"SAFETY_DRIFT", "RESULT_RECONCILIATION_REQUIRED"} :
       Decide(w, RunningPlan("BLOCKED", FALSE, reason))
  /\ UNCHANGED <<vars, child>>

ValidationFailed(w) ==
  /\ service[w].pc = "validating"
  /\ IF Holds(w)[2] < MaxAttempts
     THEN Decide(w, RunningPlan("FAILED", TRUE, "RESULT_VALIDATION_FAILED"))
     ELSE Decide(w, RunningPlan("FAILED", FALSE, "RESULT_VALIDATION_FAILED"))
  /\ UNCHANGED <<vars, child>>

ValidationPassed(w) ==
  /\ service[w].pc = "validated"
  /\ Decide(w, RunningPlan("SUCCEEDED", FALSE, "RESULT_VALIDATED"))
  /\ UNCHANGED <<vars, child>>

\* A refused finalization is reported UNHEALTHY; the loop goes on either way.
Finalize(w) ==
  /\ service[w].pc = "finalizing"
  /\ \E ts \in CallTimes(w) :
       LET p == service[w].plan
       IN  \/ WorkerFinalize(Holds(w), p[1], p[2], p[3], p[4], p[5], ts)
           \/ ~ FinalizeFence(Holds(w), p[1], p[2], ts) /\ UNCHANGED vars
  /\ Become(w, "idle")
  /\ UNCHANGED child

\* An exception that escapes run_once, a failed recovery, a lost connection or
\* a kill: the service ends and systemd kills the rest of its control group.
Crash(w) ==
  /\ service[w].pc # "down"
  /\ Become(w, "down")
  /\ child' = [a \in Attempt |->
                 IF attempts[a].worker = w /\ child[a] # "none" THEN "gone" ELSE child[a]]
  /\ UNCHANGED vars

-----------------------------------------------------------------------------
\* The steps a running service takes by itself.
ServiceStep(w) ==
  \/ StartService(w) \/ Inspect(w) \/ Recover(w) \/ EnterLoop(w)
  \/ Claim(w) \/ PollEmpty(w) \/ BlockClaimed(w) \/ PreSpawnControl(w) \/ Spawn(w)
  \/ HeartbeatDrift(w) \/ HeartbeatStart(w) \/ HeartbeatRefused(w) \/ HeartbeatControl(w)
  \/ Timeout(w) \/ KillChild(w) \/ Reap(w) \/ CleanupUnproven(w)
  \/ ValidationProgress(w) \/ ValidationBlocked(w) \/ ValidationFailed(w)
  \/ ValidationPassed(w) \/ Finalize(w)

Operator ==
  \/ \E j \in Job, key \in OperatorKey, actor \in Actor, priority \in Priority :
       ApiEnqueue(j, key, actor, priority)
  \/ \E j \in Job : ApiCancel(j)

WorkerNext ==
  \/ (Tick \/ Operator) /\ UNCHANGED workerVars
  \/ \E a \in Attempt : ChildExit(a)
  \/ \E w \in Worker : ServiceStep(w) \/ Crash(w)

WorkerSpec == WorkerInit /\ [][WorkerNext]_allVars

\* A service that is up keeps executing its program, and systemd restarts one
\* that failed.  In the loop of the runner every iteration passes the cleanup
\* step and the exit test, whatever its heartbeat did; the timeout and the end
\* of the validator come after finitely many iterations.
ServiceFairness(w) ==
  /\ WF_allVars(StartService(w) \/ Inspect(w) \/ Recover(w) \/ EnterLoop(w) \/ Claim(w))
  /\ WF_allVars(BlockClaimed(w) \/ PreSpawnControl(w) \/ Spawn(w))
  /\ WF_allVars(HeartbeatDrift(w) \/ HeartbeatStart(w))
  /\ WF_allVars(HeartbeatRefused(w))
  /\ WF_allVars(HeartbeatControl(w))
  /\ WF_allVars(Timeout(w))
  /\ SF_allVars(KillChild(w))
  /\ SF_allVars(Reap(w) \/ CleanupUnproven(w))
  /\ WF_allVars(ValidationProgress(w))
  /\ WF_allVars(ValidationBlocked(w) \/ ValidationFailed(w) \/ ValidationPassed(w))
  /\ WF_allVars(Finalize(w))

FairWorkerSpec ==
  /\ WorkerSpec
  /\ WF_allVars(Tick /\ UNCHANGED workerVars)
  /\ \A w \in Worker : ServiceFairness(w)

-----------------------------------------------------------------------------
(* Properties.                                                              *)

\* The variables of the services and the children have their types.
WorkerTypeOK ==
  /\ service \in [Worker -> ServiceRow]
  /\ child \in [Attempt -> ChildState]

\* Never two research children of one job: a child that is alive belongs to the
\* latest attempt of a job that is owned, or that was blocked because of it.
\* A job that is queued again, finished or cancelled has no child left, even
\* when workers pause past their leases or crash between any two calls.
LiveChildAccountedFor ==
  \A a \in Attempt :
    child[a] = "alive" =>
      /\ a[2] = jobs[a[1]].attemptCount
      /\ jobs[a[1]].state \in ActiveStates \cup {"BLOCKED"}

-----------------------------------------------------------------------------
(* Why LiveChildAccountedFor holds: what a service remembers, what the      *)
(* tables say and which processes exist stay in step.                       *)

InRunner == {"looping", "started", "refused"}
AfterRunner == {"drained", "validating", "validated"}
BeforeSpawn == {"claimed", "prepared"}
Working == BeforeSpawn \cup InRunner \cup AfterRunner \cup {"finalizing"}

\* A service at work holds an attempt that was issued to it.
HeldSound(w) ==
  IF service[w].pc \in Working
  THEN /\ Holds(w) \in Attempt
       /\ attempts[Holds(w)].worker = w
       /\ attempts[Holds(w)].outcome # NoOutcome
  ELSE Holds(w) = NoAttempt

\* Before Popen the job cannot have been given to anyone else: recovery blocks
\* an attempt that has no recorded child.
SpawnSound(w) ==
  service[w].pc \in BeforeSpawn =>
    /\ child[Holds(w)] = "none"
    /\ Holds(w)[2] = jobs[Holds(w)[1]].attemptCount
    /\ jobs[Holds(w)[1]].state \in ActiveStates \cup {"BLOCKED"}

\* A worker that gives its child up decides for BLOCKED.
RunnerSound(w) ==
  /\ service[w].pc \in InRunner => child[Holds(w)] # "none"
  /\ service[w].pc \in AfterRunner => child[Holds(w)] = "gone"
  /\ service[w].pc = "finalizing" =>
       /\ service[w].plan \in Plan
       /\ child[Holds(w)] = "alive" =>
            service[w].plan[3] = "BLOCKED" /\ ~ service[w].plan[4]

\* Recovery says ABSENT only of a process that was spawned and is gone.
RecoverySound(w) ==
  /\ service[w].todo \subseteq candidates
  /\ \A c \in service[w].todo : c.child => child[c.attempt] # "none"
  /\ service[w].seen # << >> =>
       /\ service[w].seen[1] \in candidates
       /\ service[w].seen[2] \in Observation
       /\ service[w].seen[2] = "ABSENT" => child[service[w].seen[1].attempt] = "gone"

\* Only an issued attempt has a child, and a recorded child was spawned.
ChildSound(a) ==
  /\ attempts[a].child => child[a] # "none"
  /\ child[a] # "none" => attempts[a].outcome # NoOutcome

\* The inductive invariant behind LiveChildAccountedFor, for any interleaving of
\* services, recoveries, crashes and operators.
WorkerInv ==
  /\ \A w \in Worker :
       HeldSound(w) /\ SpawnSound(w) /\ RunnerSound(w) /\ RecoverySound(w)
  /\ \A a \in Attempt : ChildSound(a)
  /\ LiveChildAccountedFor

-----------------------------------------------------------------------------
\* A worker never works on a claim forever: whatever becomes of the job, the
\* child, the lease or the result, run_once returns or the service ends.
ClaimEnds == \A w \in Worker : Holds(w) # NoAttempt ~> Holds(w) = NoAttempt

\* The services crash only so often: from some point on they stay up.
StaysUp == <>[](\A w \in Worker : service[w].pc # "down")

Owns(w, j) == jobs[j].state \in ActiveStates /\ jobs[j].leaseOwner = w

\* main.py: "Recover crash leftovers once, then enter the single-worker claim
\* loop."  A job that a crashed service owned is eventually resolved, if its
\* lease ends before the clock does and the services are restarted and stay up.
CrashLeftoversRecovered ==
  StaysUp =>
    \A w \in Worker, j \in Job :
      (service[w].pc = "down" /\ Owns(w, j) /\ jobs[j].leaseExpires =< MaxTime)
        ~> ~ Owns(w, j)
=============================================================================
