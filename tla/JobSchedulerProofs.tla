-------------------------- MODULE JobSchedulerProofs --------------------------
(***************************************************************************)
(* Proofs about the snapshot scheduler, for any number of tick processes,  *)
(* actors and slots.                                                       *)
(***************************************************************************)
EXTENDS JobScheduler, TLAPS

\* slot_for_tick gives a slot or nothing.
LEMMA SlotType ==
  ASSUME NEW m \in 0 .. MaxMinute
  PROVE  SlotForTick(m) \in Slot \cup {NoSlot}
  BY SchedulerAssumption DEF SlotForTick, Slot

\* A minute is no missing slot.
LEMMA NoSlotIsNone == NoSlot \notin Slot
  BY SchedulerAssumption DEF NoSlot, Slot

\* A process that has read the clock knows its actor, and is about to enqueue
\* only with a slot.
TickSound(t) ==
  /\ ticks[t].pc # "off" => ticks[t].actor \in Actor
  /\ ticks[t].pc = "enqueue" => ticks[t].slot \in Slot
  /\ ticks[t].pc = "skip" => ticks[t].slot = NoSlot

\* The heartbeats of a committed call are from processes that are past it.
HeartbeatSound(h) ==
  h.outcome \in {"ENQUEUED", "DEDUPLICATED"} => ticks[h.tick].pc \in {"failed", "done", "exit1"}

\* A job of a slot was created by a process of its actor that is past the call.
SlotJobSound(s) ==
  slotJobs[s] # NoSlotJob =>
    /\ slotJobs[s].by \in TickProcess
    /\ ticks[slotJobs[s].by].pc \in {"failed", "done", "exit1"}
    /\ slotJobs[s].actor \in Actor

\* The inductive invariant behind HeartbeatsExplainJobs.
SchedulerInv ==
  /\ SchedulerTypeOK
  /\ \A t \in TickProcess : TickSound(t)
  /\ \A h \in heartbeats : HeartbeatSound(h)
  /\ \A s \in Slot : SlotJobSound(s)
  /\ HeartbeatsExplainJobs

\* Nothing has run and nothing is queued at the start.
LEMMA SchedulerInitInv ==
  ASSUME SchedulerInit PROVE SchedulerInv
  <1>1. SchedulerTypeOK
    BY SchedulerAssumption DEF SchedulerInit, SchedulerTypeOK, TickRow, SlotJob, NoSlotJob
  <1>2. HeartbeatsExplainJobs
    BY DEF SchedulerInit, HeartbeatsExplainJobs, Told
  <1> QED
    BY <1>1, <1>2 DEF SchedulerInit, SchedulerInv, TickSound, HeartbeatSound, SlotJobSound

\* A step that changes neither a job nor a heartbeat nor an actor, and lets no
\* process go back, keeps the invariant if it keeps the types and its own row sound.
LEMMA QuietStep ==
  ASSUME SchedulerInv, SchedulerTypeOK', UNCHANGED <<slotJobs, heartbeats>>,
         NEW t \in TickProcess,
         \A u \in TickProcess \ {t} : ticks'[u] = ticks[u],
         ticks[t].pc \in {"failed", "done", "exit1"} =>
           ticks'[t].pc \in {"failed", "done", "exit1"} /\ ticks'[t].actor = ticks[t].actor,
         TickSound(t)'
  PROVE  SchedulerInv'
  <1>1. \A u \in TickProcess : TickSound(u)'
    BY DEF SchedulerInv, TickSound
  <1>2. \A h \in heartbeats' : HeartbeatSound(h)'
    BY DEF SchedulerInv, SchedulerTypeOK, Heartbeat, HeartbeatSound
  <1>3. \A s \in Slot : SlotJobSound(s)'
    BY DEF SchedulerInv, SlotJobSound
  <1>4. HeartbeatsExplainJobs'
    <2> SUFFICES ASSUME NEW s \in Slot, NEW h \in Told(s, "DEDUPLICATED")
                 PROVE  ticks'[h.tick].actor = ticks[h.tick].actor
      BY DEF SchedulerInv, HeartbeatsExplainJobs, Told
    <2>1. h \in heartbeats /\ h \in Heartbeat /\ h.outcome = "DEDUPLICATED"
      BY DEF Told, SchedulerInv, SchedulerTypeOK
    <2> QED
      BY <2>1 DEF SchedulerInv, HeartbeatSound, Heartbeat
  <1> QED
    BY <1>1, <1>2, <1>3, <1>4 DEF SchedulerInv

\* The clock alone changes nothing the invariant is about.
LEMMA InvNextMinute ==
  ASSUME SchedulerInv, NextMinute PROVE SchedulerInv'
  <1>1. SchedulerTypeOK'
    BY SchedulerAssumption DEF SchedulerInv, NextMinute, SchedulerTypeOK
  <1> QED
    BY <1>1 DEF SchedulerInv, NextMinute, TickSound, HeartbeatSound, SlotJobSound,
                HeartbeatsExplainJobs, Told

\* A process that starts has explained nothing yet.
LEMMA InvStartTick ==
  ASSUME SchedulerInv, NEW t \in TickProcess, NEW actor \in Actor, StartTick(t, actor)
  PROVE  SchedulerInv'
  <1>1. SlotForTick(minute) \in Slot \cup {NoSlot}
    BY SlotType DEF SchedulerInv, SchedulerTypeOK
  <1>2. SchedulerTypeOK'
    BY <1>1 DEF SchedulerInv, SchedulerTypeOK, StartTick, TickRow
  <1>3. TickSound(t)'
    BY <1>1, NoSlotIsNone DEF SchedulerInv, SchedulerTypeOK, StartTick, TickSound
  <1> QED
    BY <1>2, <1>3, QuietStep DEF SchedulerInv, SchedulerTypeOK, StartTick

\* A call that raises, or a process that dies, leaves the tables alone.
LEMMA InvExitQuietly ==
  ASSUME SchedulerInv, NEW t \in TickProcess, ScheduleRaises(t) \/ Die(t)
  PROVE  SchedulerInv'
  <1>1. SchedulerTypeOK'
    BY DEF SchedulerInv, SchedulerTypeOK, ScheduleRaises, Die, Exit, TickRow
  <1>2. ticks \in [TickProcess -> TickRow] /\ ticks[t] \in TickRow
    BY DEF SchedulerInv, SchedulerTypeOK
  <1>3. /\ ticks'[t].pc \in {"failed", "exit1"} /\ ticks'[t].actor = ticks[t].actor
        /\ \A u \in TickProcess \ {t} : ticks'[u] = ticks[u]
        /\ ticks[t].pc # "off"
    <2>1. CASE ScheduleRaises(t)
      BY <1>2, <2>1 DEF ScheduleRaises, Exit, TickRow
    <2>2. CASE Die(t)
      BY <1>2, <2>2 DEF Die, Exit, TickRow
    <2> QED
      BY <2>1, <2>2
  <1>4. TickSound(t)'
    BY <1>3 DEF SchedulerInv, TickSound
  <1> QED
    BY <1>1, <1>3, <1>4, QuietStep DEF ScheduleRaises, Die

\* A heartbeat about a failure or a minute that is no slot explains no job.
LEMMA InvRecordOutcome ==
  ASSUME SchedulerInv, NEW t \in TickProcess, RecordOutcome(t)
  PROVE  SchedulerInv'
  <1> DEFINE h == HeartbeatOf(t, IF ticks[t].pc = "skip" THEN "SKIPPED_NOT_SLOT" ELSE "FAILED")
  <1>1. heartbeats' = heartbeats \cup {h}
    BY DEF RecordOutcome
  <1>2. h \in Heartbeat /\ h.outcome \in {"SKIPPED_NOT_SLOT", "FAILED"}
    BY DEF SchedulerInv, SchedulerTypeOK, HeartbeatOf, Heartbeat, Outcome, TickRow
  <1> HIDE DEF h
  <1>3. /\ ticks'[t].pc \in {"done", "exit1"} /\ ticks'[t].actor = ticks[t].actor
        /\ ticks'[t].slot = ticks[t].slot
        /\ \A u \in TickProcess \ {t} : ticks'[u] = ticks[u]
        /\ ticks[t].pc \in {"skip", "failed"} /\ UNCHANGED slotJobs
    BY DEF SchedulerInv, SchedulerTypeOK, RecordOutcome, Exit
  <1>4. SchedulerTypeOK'
    BY <1>1, <1>2 DEF SchedulerInv, SchedulerTypeOK, RecordOutcome, Exit, TickRow
  <1>5. \A u \in TickProcess : TickSound(u)'
    BY <1>3 DEF SchedulerInv, TickSound
  <1>6. \A g \in heartbeats' : HeartbeatSound(g)'
    BY <1>1, <1>2, <1>3 DEF SchedulerInv, SchedulerTypeOK, Heartbeat, HeartbeatSound
  <1>7. \A s \in Slot : SlotJobSound(s)'
    BY <1>3 DEF SchedulerInv, SlotJobSound
  <1>8. \A u \in TickProcess : ticks'[u].actor = ticks[u].actor
    BY <1>3
  <1>9. \A s \in Slot : /\ Told(s, "ENQUEUED")' = Told(s, "ENQUEUED")
                        /\ Told(s, "DEDUPLICATED")' = Told(s, "DEDUPLICATED")
    BY <1>1, <1>2 DEF Told
  <1>10. \A g \in heartbeats : g.tick \in TickProcess
    BY DEF SchedulerInv, SchedulerTypeOK, Heartbeat
  <1>11. ASSUME NEW s \in Slot
         PROVE  /\ {g.tick : g \in Told(s, "ENQUEUED")'} =
                     (IF slotJobs'[s] = NoSlotJob THEN {} ELSE {slotJobs'[s].by})
                /\ \A g \in Told(s, "DEDUPLICATED")' :
                     slotJobs'[s].actor = ticks'[g.tick].actor /\ slotJobs'[s].by # g.tick
    <2>1. /\ {g.tick : g \in Told(s, "ENQUEUED")} =
               (IF slotJobs[s] = NoSlotJob THEN {} ELSE {slotJobs[s].by})
          /\ \A g \in Told(s, "DEDUPLICATED") :
               slotJobs[s].actor = ticks[g.tick].actor /\ slotJobs[s].by # g.tick
      BY DEF SchedulerInv, HeartbeatsExplainJobs
    <2>2. \A g \in Told(s, "DEDUPLICATED") : ticks'[g.tick].actor = ticks[g.tick].actor
      BY <1>8, <1>10 DEF Told
    <2>3. slotJobs' = slotJobs
      BY <1>3
    <2> QED
      BY <1>9, <2>1, <2>2, <2>3
  <1>12. HeartbeatsExplainJobs'
    BY <1>11 DEF HeartbeatsExplainJobs
  <1> QED
    BY <1>4, <1>5, <1>6, <1>7, <1>12 DEF SchedulerInv

\* The transaction of schedule_snapshot: the job and the heartbeat that explains it
\* are there together, or the heartbeat names a job that another process created.
LEMMA InvSchedule ==
  ASSUME SchedulerInv, NEW t \in TickProcess, Schedule(t)
  PROVE  SchedulerInv'
  <1> DEFINE s == ticks[t].slot
             enqueued == HeartbeatOf(t, "ENQUEUED")
             deduplicated == HeartbeatOf(t, "DEDUPLICATED")
  <1>1. ticks[t].pc = "enqueue" /\ s \in Slot /\ ticks[t].actor \in Actor
    BY DEF Schedule, SchedulerInv, TickSound
  <1>2. /\ ticks'[t].pc \in {"done", "failed"} /\ ticks'[t].actor = ticks[t].actor
        /\ ticks'[t].slot = ticks[t].slot
        /\ \A u \in TickProcess \ {t} : ticks'[u] = ticks[u]
        /\ minute' = minute
    BY DEF SchedulerInv, SchedulerTypeOK, Schedule, Exit
  <1>3. ticks' \in [TickProcess -> TickRow]
    BY DEF SchedulerInv, SchedulerTypeOK, Schedule, Exit, TickRow
  <1>4. /\ enqueued \in Heartbeat /\ deduplicated \in Heartbeat
        /\ enqueued.tick = t /\ enqueued.slot = s /\ enqueued.outcome = "ENQUEUED"
        /\ deduplicated.tick = t /\ deduplicated.slot = s
        /\ deduplicated.outcome = "DEDUPLICATED"
    BY <1>1 DEF HeartbeatOf, Heartbeat, Outcome
  <1>5. \A u \in TickProcess : TickSound(u)' /\ ticks'[u].actor = ticks[u].actor
    BY <1>1, <1>2 DEF SchedulerInv, TickSound
  <1>6. \A h \in heartbeats : h.tick \in TickProcess /\ HeartbeatSound(h)'
    BY <1>2 DEF SchedulerInv, SchedulerTypeOK, Heartbeat, HeartbeatSound
  <1>7. \A h \in heartbeats : h.tick = t => h.outcome \notin {"ENQUEUED", "DEDUPLICATED"}
    BY <1>1 DEF SchedulerInv, HeartbeatSound
  <1>8. NoActor \notin Actor
    BY SchedulerAssumption
  <1> HIDE DEF s, enqueued, deduplicated
  <1>9. CASE /\ slotJobs[s] = NoSlotJob
             /\ slotJobs' = [slotJobs EXCEPT ![s] = [actor |-> ticks[t].actor, by |-> t]]
             /\ heartbeats' = heartbeats \cup {enqueued}
    <2>1. SchedulerTypeOK'
      BY <1>1, <1>2, <1>3, <1>4, <1>9 DEF SchedulerInv, SchedulerTypeOK, SlotJob
    <2>2. \A h \in heartbeats' : HeartbeatSound(h)'
      BY <1>2, <1>4, <1>6, <1>9 DEF HeartbeatSound
    <2>3. /\ slotJobs'[s] # NoSlotJob /\ slotJobs'[s].by = t
          /\ slotJobs'[s].actor = ticks[t].actor
          /\ \A r \in Slot \ {s} : slotJobs'[r] = slotJobs[r]
      BY <1>1, <1>8, <1>9 DEF SchedulerInv, SchedulerTypeOK, NoSlotJob
    <2>4. \A r \in Slot : SlotJobSound(r)'
      BY <1>1, <1>2, <2>3 DEF SchedulerInv, SlotJobSound
    <2>5. HeartbeatsExplainJobs'
      <3> SUFFICES ASSUME NEW r \in Slot
                   PROVE  /\ {h.tick : h \in Told(r, "ENQUEUED")'} =
                               (IF slotJobs'[r] = NoSlotJob THEN {} ELSE {slotJobs'[r].by})
                          /\ \A h \in Told(r, "DEDUPLICATED")' :
                               /\ slotJobs'[r].actor = ticks'[h.tick].actor
                               /\ slotJobs'[r].by # h.tick
        BY DEF HeartbeatsExplainJobs
      <3>1. Told(r, "DEDUPLICATED")' = Told(r, "DEDUPLICATED")
        BY <1>4, <1>9 DEF Told
      <3>2. CASE r # s
        <4>1. Told(r, "ENQUEUED")' = Told(r, "ENQUEUED")
          BY <1>4, <1>9, <3>2 DEF Told
        <4>2. slotJobs'[r] = slotJobs[r]
          BY <2>3, <3>2
        <4>3. \A h \in Told(r, "DEDUPLICATED") : ticks'[h.tick].actor = ticks[h.tick].actor
          BY <1>5, <1>6 DEF Told
        <4> QED
          BY <3>1, <4>1, <4>2, <4>3 DEF SchedulerInv, HeartbeatsExplainJobs
      <3>3. CASE r = s
        <4>1. \A h \in Told(r, "ENQUEUED") : FALSE
          <5>1. {h.tick : h \in Told(r, "ENQUEUED")} = {}
            BY <1>9, <3>3 DEF SchedulerInv, HeartbeatsExplainJobs
          <5> QED
            BY <5>1
        <4>2. \A h : h \in Told(r, "ENQUEUED")' <=> h = enqueued
          BY <1>4, <1>9, <3>3, <4>1 DEF Told
        <4>3. ASSUME NEW h \in Told(r, "DEDUPLICATED") PROVE FALSE
          <5>1. slotJobs[r].actor = ticks[h.tick].actor /\ slotJobs[r].actor = NoActor
            BY <1>9, <3>3 DEF SchedulerInv, HeartbeatsExplainJobs, NoSlotJob
          <5>2. ticks[h.tick].actor \in Actor
            BY DEF SchedulerInv, SchedulerTypeOK, Heartbeat, HeartbeatSound, TickSound, Told
          <5> QED
            BY <5>1, <5>2, <1>8
        <4>4. {h.tick : h \in Told(r, "ENQUEUED")'} = {t}
          BY <1>4, <4>2
        <4> QED
          BY <2>3, <3>1, <3>3, <4>3, <4>4
      <3> QED
        BY <3>2, <3>3
    <2> QED
      BY <1>5, <2>1, <2>2, <2>4, <2>5 DEF SchedulerInv
  <1>10. CASE /\ slotJobs[s].actor = ticks[t].actor
              /\ heartbeats' = heartbeats \cup {deduplicated}
              /\ UNCHANGED slotJobs
    <2>1. SchedulerTypeOK'
      BY <1>2, <1>3, <1>4, <1>10 DEF SchedulerInv, SchedulerTypeOK
    <2>2. \A h \in heartbeats' : HeartbeatSound(h)'
      BY <1>2, <1>4, <1>6, <1>10 DEF HeartbeatSound
    <2>3. \A r \in Slot : SlotJobSound(r)'
      BY <1>2, <1>10 DEF SchedulerInv, SlotJobSound
    <2>4. slotJobs[s] # NoSlotJob
      BY <1>1, <1>8, <1>10 DEF NoSlotJob
    <2>5. slotJobs[s].by # t
      BY <1>1, <2>4 DEF SchedulerInv, SlotJobSound
    <2>6. HeartbeatsExplainJobs'
      <3> SUFFICES ASSUME NEW r \in Slot
                   PROVE  /\ Told(r, "ENQUEUED")' = Told(r, "ENQUEUED")
                          /\ \A h \in Told(r, "DEDUPLICATED")' :
                               /\ slotJobs[r].actor = ticks'[h.tick].actor
                               /\ slotJobs[r].by # h.tick
        BY <1>10 DEF SchedulerInv, HeartbeatsExplainJobs
      <3>1. Told(r, "ENQUEUED")' = Told(r, "ENQUEUED")
        BY <1>4, <1>10 DEF Told
      <3>2. ASSUME NEW h \in Told(r, "DEDUPLICATED")'
            PROVE  slotJobs[r].actor = ticks'[h.tick].actor /\ slotJobs[r].by # h.tick
        <4>1. CASE h = deduplicated
          BY <1>2, <1>4, <1>10, <2>5, <4>1 DEF Told
        <4>2. CASE h # deduplicated
          <5>1. h \in Told(r, "DEDUPLICATED") /\ ticks'[h.tick].actor = ticks[h.tick].actor
            BY <1>5, <1>6, <1>10, <3>2, <4>2 DEF Told
          <5> QED
            BY <5>1 DEF SchedulerInv, HeartbeatsExplainJobs
        <4> QED
          BY <4>1, <4>2
      <3> QED
        BY <3>1, <3>2
    <2> QED
      BY <1>5, <2>1, <2>2, <2>3, <2>6 DEF SchedulerInv
  <1> QED
    BY <1>9, <1>10 DEF Schedule, ScheduleCommit, s, enqueued, deduplicated

\* Every behaviour of the scheduler satisfies the inductive invariant.
THEOREM SchedulerSafety == SchedulerSpec => []SchedulerInv
  <1>1. SchedulerInv /\ [SchedulerNext]_schedulerVars => SchedulerInv'
    <2> SUFFICES ASSUME SchedulerInv, [SchedulerNext]_schedulerVars PROVE SchedulerInv'
      OBVIOUS
    <2>1. CASE UNCHANGED schedulerVars
      BY <2>1 DEF schedulerVars, SchedulerInv, SchedulerTypeOK, TickSound, HeartbeatSound,
                  SlotJobSound, HeartbeatsExplainJobs, Told
    <2>2. CASE SchedulerNext
      BY <2>2, InvNextMinute, InvStartTick, InvRecordOutcome, InvSchedule, InvExitQuietly
         DEF SchedulerNext
    <2> QED
      BY <2>1, <2>2
  <1> QED
    BY <1>1, SchedulerInitInv, PTL DEF SchedulerSpec

\* The processes, the jobs of the slots and the heartbeats keep their types.
THEOREM SchedulerTypeCorrect == SchedulerSpec => []SchedulerTypeOK
  <1>1. SchedulerInv => SchedulerTypeOK
    BY DEF SchedulerInv
  <1> QED
    BY <1>1, SchedulerSafety, PTL

\* The heartbeat table explains the queue, whatever processes overlap, die or lose the
\* answers of schedule_snapshot.
THEOREM HeartbeatsExplain == SchedulerSpec => []HeartbeatsExplainJobs
  <1>1. SchedulerInv => HeartbeatsExplainJobs
    BY DEF SchedulerInv
  <1> QED
    BY <1>1, SchedulerSafety, PTL
=============================================================================
