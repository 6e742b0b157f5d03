------------------------------ MODULE JobPolicy ------------------------------
(***************************************************************************)
(* The job state vocabulary and the transition policy that the API, the    *)
(* store, the worker and the recovery share: packages/job_contracts.       *)
(***************************************************************************)

\* A row that has not been inserted yet.
Absent == "ABSENT"

JobState ==
  {"QUEUED", "CLAIMED", "RUNNING", "SUCCEEDED", "FAILED", "BLOCKED",
   "TIMED_OUT", "CANCEL_REQUESTED", "CANCELLED"}

OrdinaryTransitions ==
  { <<"QUEUED", "CLAIMED">>,
    <<"QUEUED", "CANCELLED">>,
    <<"CLAIMED", "RUNNING">>,
    <<"CLAIMED", "CANCEL_REQUESTED">>,
    <<"CLAIMED", "BLOCKED">>,
    <<"RUNNING", "SUCCEEDED">>,
    <<"RUNNING", "FAILED">>,
    <<"RUNNING", "TIMED_OUT">>,
    <<"RUNNING", "CANCEL_REQUESTED">>,
    <<"RUNNING", "BLOCKED">>,
    <<"CANCEL_REQUESTED", "CANCELLED">>,
    <<"CANCEL_REQUESTED", "BLOCKED">> }

RetryTransitions == { <<"FAILED", "QUEUED">>, <<"TIMED_OUT", "QUEUED">> }

TerminalStates == {"SUCCEEDED", "FAILED", "BLOCKED", "TIMED_OUT", "CANCELLED"}

\* The states in which a job is owned by a worker under a lease.
ActiveStates == {"CLAIMED", "RUNNING", "CANCEL_REQUESTED"}

AttemptOutcome ==
  {"CLAIMED", "RUNNING", "SUCCEEDED", "FAILED", "BLOCKED", "TIMED_OUT",
   "CANCELLED", "INTERRUPTED"}

\* The job state and attempt outcome pairs an owned job may show:
\* _ACTIVE_ATTEMPT_OUTCOMES of the worker repository.
ActiveAttemptOutcomes ==
  { <<"CLAIMED", "CLAIMED">>,
    <<"RUNNING", "RUNNING">>,
    <<"CANCEL_REQUESTED", "CLAIMED">>,
    <<"CANCEL_REQUESTED", "RUNNING">> }

\* validate_transition: an ordinary edge, or a retry edge that the fixed retry
\* policy has approved.
ValidTransition(current, target, retryAllowed) ==
  \/ <<current, target>> \in OrdinaryTransitions
  \/ retryAllowed /\ <<current, target>> \in RetryTransitions
=============================================================================
