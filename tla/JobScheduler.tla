----------------------------- MODULE JobScheduler -----------------------------
(***************************************************************************)
(* The snapshot scheduler: a systemd timer starts one process every        *)
(* minute, which enqueues the snapshot of the current half-hour slot and   *)
(* records what came of it in scheduler_heartbeats (services/job_scheduler *)
(* with schedule_snapshot of services/job_store).                          *)
(*                                                                         *)
(* Processes of several minutes, or two started in the same minute, may    *)
(* overlap.  A database call may fail before its transaction commits, or   *)
(* after: the caller sees the same exception.                              *)
(***************************************************************************)
EXTENDS Integers, FiniteSets

CONSTANTS
  TickProcess,  \* the processes started, whatever starts them
  Actor,        \* the actor identities schedulers are configured with
  SlotMinutes,  \* a slot starts every 30 minutes
  MaxMinute     \* bound on the clock

NoActor == "NO_ACTOR"

ASSUME SchedulerAssumption ==
  /\ SlotMinutes \in Nat \ {0} /\ MaxMinute \in Nat
  /\ NoActor \notin Actor

NoSlot == -1
Slot == {m \in 0 .. MaxMinute : m % SlotMinutes = 0}

VARIABLES
  minute,      \* the wall clock
  ticks,       \* the processes: what each has read of the clock and where it is
  slotJobs,    \* jobs with key schedule:snapshot:<slot>, by slot
  heartbeats   \* the table scheduler_heartbeats

schedulerVars == <<minute, ticks, slotJobs, heartbeats>>

TickRow ==
  [ pc : {"off", "skip", "enqueue", "failed", "done", "exit1"},
    slot : Slot \cup {NoSlot}, actor : Actor \cup {NoActor} ]

SlotJob == [ actor : Actor \cup {NoActor}, by : TickProcess \cup {"NOBODY"} ]
NoSlotJob == [actor |-> NoActor, by |-> "NOBODY"]

Outcome == {"ENQUEUED", "DEDUPLICATED", "SKIPPED_NOT_SLOT", "FAILED"}
Heartbeat == [tick : TickProcess, slot : Slot \cup {NoSlot}, outcome : Outcome]

SchedulerInit ==
  /\ minute = 0
  /\ ticks = [t \in TickProcess |-> [pc |-> "off", slot |-> NoSlot, actor |-> NoActor]]
  /\ slotJobs = [s \in Slot |-> NoSlotJob]
  /\ heartbeats = {}

NextMinute ==
  /\ minute < MaxMinute
  /\ minute' = minute + 1
  /\ UNCHANGED <<ticks, slotJobs, heartbeats>>

\* Mutant of SlotForTick: the minute is taken for a slot whatever it is.
SlotForTickUnrounded(m) == m

\* slot_for_tick: the tick's own minute, or nothing.
SlotForTick(m) == IF m % SlotMinutes = 0 THEN m ELSE NoSlot

\* The process reads the clock once, when it starts.
StartTick(t, actor) ==
  /\ ticks[t].pc = "off"
  /\ ticks' = [ticks EXCEPT ![t] =
                 [pc |-> IF SlotForTick(minute) = NoSlot THEN "skip" ELSE "enqueue",
                  slot |-> SlotForTick(minute), actor |-> actor]]
  /\ UNCHANGED <<minute, slotJobs, heartbeats>>

HeartbeatOf(t, outcome) == [tick |-> t, slot |-> ticks[t].slot, outcome |-> outcome]
Exit(t, pc) == ticks' = [ticks EXCEPT ![t].pc = pc]

\* record_scheduler_heartbeat, in a transaction of its own.
RecordOutcome(t) ==
  /\ ticks[t].pc \in {"skip", "failed"}
  /\ heartbeats' = heartbeats \cup
       {HeartbeatOf(t, IF ticks[t].pc = "skip" THEN "SKIPPED_NOT_SLOT" ELSE "FAILED")}
  /\ Exit(t, IF ticks[t].pc = "skip" THEN "done" ELSE "exit1")
  /\ UNCHANGED <<minute, slotJobs>>

\* Mutant of ScheduleCommit: a deduplicated request counts as enqueued.
ScheduleCommitAlwaysEnqueued(t) ==
  /\ \/ /\ slotJobs[ticks[t].slot] = NoSlotJob
        /\ slotJobs' = [slotJobs EXCEPT ![ticks[t].slot] = [actor |-> ticks[t].actor, by |-> t]]
     \/ /\ slotJobs[ticks[t].slot].actor = ticks[t].actor
        /\ UNCHANGED slotJobs
  /\ heartbeats' = heartbeats \cup {HeartbeatOf(t, "ENQUEUED")}

\* The transaction of schedule_snapshot: the job of the slot and the heartbeat
\* that tells its outcome.  Another actor's job is an identity conflict.
ScheduleCommit(t) ==
  \/ /\ slotJobs[ticks[t].slot] = NoSlotJob
     /\ slotJobs' = [slotJobs EXCEPT ![ticks[t].slot] = [actor |-> ticks[t].actor, by |-> t]]
     /\ heartbeats' = heartbeats \cup {HeartbeatOf(t, "ENQUEUED")}
  \/ /\ slotJobs[ticks[t].slot].actor = ticks[t].actor
     /\ heartbeats' = heartbeats \cup {HeartbeatOf(t, "DEDUPLICATED")}
     /\ UNCHANGED slotJobs

\* The call returns, or the transaction commits and its answer is lost.
Schedule(t) ==
  /\ ticks[t].pc = "enqueue"
  /\ ScheduleCommit(t)
  /\ \E pc \in {"done", "failed"} : Exit(t, pc)
  /\ UNCHANGED minute

\* The call raises and nothing was committed.
ScheduleRaises(t) ==
  /\ ticks[t].pc = "enqueue"
  /\ Exit(t, "failed")
  /\ UNCHANGED <<minute, slotJobs, heartbeats>>

\* The outcome cannot be recorded, or the process is killed: exit status 1.
Die(t) ==
  /\ ticks[t].pc \in {"skip", "enqueue", "failed"}
  /\ Exit(t, "exit1")
  /\ UNCHANGED <<minute, slotJobs, heartbeats>>

SchedulerNext ==
  \/ NextMinute
  \/ \E t \in TickProcess :
       \/ \E actor \in Actor : StartTick(t, actor)
       \/ RecordOutcome(t) \/ Schedule(t) \/ ScheduleRaises(t) \/ Die(t)

SchedulerSpec == SchedulerInit /\ [][SchedulerNext]_schedulerVars

-----------------------------------------------------------------------------
(* Properties.                                                              *)

\* The clock, the processes, the jobs and the heartbeats have their types.
SchedulerTypeOK ==
  /\ minute \in 0 .. MaxMinute
  /\ ticks \in [TickProcess -> TickRow]
  /\ slotJobs \in [Slot -> SlotJob]
  /\ heartbeats \in SUBSET Heartbeat

Told(s, outcome) == {h \in heartbeats : h.slot = s /\ h.outcome = outcome}

\* The heartbeat table explains the queue: a slot has a job exactly when one
\* heartbeat says ENQUEUED, it is the one of the process that created the job,
\* and a process is told DEDUPLICATED only about a job of its own actor that
\* exists.  A lost answer, a killed process or an overlap does not break it.
HeartbeatsExplainJobs ==
  \A s \in Slot :
    /\ {h.tick : h \in Told(s, "ENQUEUED")} =
         (IF slotJobs[s] = NoSlotJob THEN {} ELSE {slotJobs[s].by})
    /\ \A h \in Told(s, "DEDUPLICATED") :
         slotJobs[s].actor = ticks[h.tick].actor /\ slotJobs[s].by # h.tick
=============================================================================
