----------------------------- MODULE JobLifecycle -----------------------------
(***************************************************************************)
(* What the durable job plane promises about each job, with no leases, no  *)
(* clock, no workers and no event log: a job moves only along the edges of *)
(* the transition policy, it is executed at most MaxAttempts times, and it *)
(* returns to the queue only from a failed or timed out execution while    *)
(* the budget lasts.                                                       *)
(***************************************************************************)
EXTENDS Integers, JobPolicy

CONSTANTS Job, MaxAttempts

VARIABLES state, attemptCount

lifecycleVars == <<state, attemptCount>>

LInit ==
  /\ state = [j \in Job |-> Absent]
  /\ attemptCount = [j \in Job |-> 0]

Create(j) ==
  /\ state[j] = Absent
  /\ state' = [state EXCEPT ![j] = "QUEUED"]
  /\ UNCHANGED attemptCount

\* A worker takes the job: the only step that spends an attempt.
Take(j) ==
  /\ ValidTransition(state[j], "CLAIMED", FALSE)
  /\ attemptCount[j] < MaxAttempts
  /\ state' = [state EXCEPT ![j] = "CLAIMED"]
  /\ attemptCount' = [attemptCount EXCEPT ![j] = @ + 1]

Advance(j, target) ==
  /\ target # "CLAIMED"
  /\ ValidTransition(state[j], target, FALSE)
  /\ state' = [state EXCEPT ![j] = target]
  /\ UNCHANGED attemptCount

\* Two edges in one transaction: the execution ends and the job is queued again.
EndAndRequeue(j, ended) ==
  /\ ValidTransition(state[j], ended, FALSE)
  /\ ValidTransition(ended, "QUEUED", attemptCount[j] < MaxAttempts)
  /\ state' = [state EXCEPT ![j] = "QUEUED"]
  /\ UNCHANGED attemptCount

LNext ==
  \E j \in Job :
    \/ Create(j)
    \/ Take(j)
    \/ \E target \in JobState : Advance(j, target)
    \/ \E ended \in TerminalStates : EndAndRequeue(j, ended)

LSpec == LInit /\ [][LNext]_lifecycleVars
=============================================================================
