------------------------- MODULE JobEventChainProofs --------------------------
(***************************************************************************)
(* The histories that the functions of 0006 write are accepted by the      *)
(* audit of 0007, for every set of jobs and workers and every bound.       *)
(***************************************************************************)
EXTENDS JobPlaneProofs

-----------------------------------------------------------------------------
(* Facts about the audit alone, for any history.                            *)

\* The entries of an extended history.
LEMMA Extended ==
  ASSUME NEW log \in Seq(Event), NEW e \in Event
  PROVE  /\ Append(log, e) \in Seq(Event)
         /\ Len(log) \in Nat
         /\ Len(Append(log, e)) = Len(log) + 1
         /\ Append(log, e)[Len(log) + 1] = e
         /\ \A i \in 1 .. Len(log) : Append(log, e)[i] = log[i]
  OBVIOUS

\* EVENT_AFTER_TERMINAL already excludes two terminal events in one epoch.
LEMMA EpochsFromLinks ==
  ASSUME NEW log \in Seq(Event), NEW known,
         \A i \in 2 .. Len(log) : LinkSound(log, i, known)
  PROVE  EpochsSound(log, known)
  <1> SUFFICES ASSUME NEW i \in 1 .. Len(log), NEW k \in 1 .. Len(log), i < k,
                      log[i].to \in TerminalStates
               PROVE  \E m \in (i + 1) .. k : IsValidRetry(log, m, known)
    BY DEF EpochsSound
  <1>1. i + 1 \in 2 .. Len(log) /\ i + 1 \in (i + 1) .. k /\ (i + 1) - 1 = i
    OBVIOUS
  <1>2. LinkSound(log, i + 1, known)
    BY <1>1
  <1>3. IsValidRetry(log, i + 1, known)
    BY <1>1, <1>2 DEF LinkSound
  <1> QED
    BY <1>1, <1>3

\* An attempt row that is added cannot make an audited history unsound.
LEMMA MoreAttempts ==
  ASSUME NEW log \in Seq(Event), NEW known, NEW more, known \subseteq more, NEW state,
         ChainSound(log, known, state)
  PROVE  ChainSound(log, more, state)
  <1>1. \A i \in 1 .. Len(log) : ~ ForgedAttempt(log[i], more)
    BY DEF ChainSound, ForgedAttempt
  <1>2. ASSUME NEW i \in 2 .. Len(log)
        PROVE  LinkSound(log, i, more)
    <2>1. LinkSound(log, i, known)
      BY DEF ChainSound
    <2>2. IsValidRetry(log, i, known) => IsValidRetry(log, i, more)
      BY DEF IsValidRetry, ForgedAttempt
    <2> QED
      BY <2>1, <2>2 DEF LinkSound
  <1>3. EpochsSound(log, more)
    BY <1>2, EpochsFromLinks
  <1> QED
    BY <1>1, <1>2, <1>3 DEF ChainSound

\* A sound history stays sound when the next entry is linked to its last one.
LEMMA AppendLinked ==
  ASSUME NEW log \in Seq(Event), NEW known, NEW state, ChainSound(log, known, state),
         NEW e \in Event, ~ ForgedAttempt(e, known),
         LinkSound(Append(log, e), Len(log) + 1, known)
  PROVE  ChainSound(Append(log, e), known, e.to)
  <1> DEFINE longer == Append(log, e)
  <1>1. /\ longer \in Seq(Event) /\ Len(log) \in Nat /\ Len(log) > 0
        /\ Len(longer) = Len(log) + 1
        /\ longer[Len(log) + 1] = e
        /\ \A i \in 1 .. Len(log) : longer[i] = log[i]
    BY Extended DEF ChainSound
  <1> HIDE DEF longer
  <1>2. longer # << >> /\ BootstrapSound(longer[1])
    BY <1>1 DEF ChainSound
  <1>3. ASSUME NEW i \in 2 .. Len(longer)
        PROVE  LinkSound(longer, i, known)
    <2>1. CASE i = Len(log) + 1
      BY <2>1 DEF longer
    <2>2. CASE i # Len(log) + 1
      <3>1. i \in 1 .. Len(log) /\ i \in 2 .. Len(log) /\ i - 1 \in 1 .. Len(log)
        BY <1>1, <2>2
      <3>2. longer[i] = log[i] /\ longer[i - 1] = log[i - 1]
        BY <1>1, <3>1
      <3>3. LinkSound(log, i, known)
        BY <3>1 DEF ChainSound
      <3> QED
        BY <3>2, <3>3 DEF LinkSound, IsValidRetry
    <2> QED
      BY <2>1, <2>2
  <1>4. EpochsSound(longer, known)
    BY <1>1, <1>3, EpochsFromLinks
  <1>5. ASSUME NEW i \in 1 .. Len(longer)
        PROVE  ~ ForgedAttempt(longer[i], known)
    <2>1. i \in 1 .. Len(log) \/ i = Len(log) + 1
      BY <1>1
    <2> QED
      BY <1>1, <2>1 DEF ChainSound
  <1>6. longer[Len(longer)].to = e.to
    BY <1>1
  <1>7. ChainSound(longer, known, e.to)
    BY <1>2, <1>3, <1>4, <1>5, <1>6 DEF ChainSound
  <1> QED
    BY <1>7 DEF longer

\* An ordinary edge out of the current state is always accepted.
LEMMA AppendOrdinary ==
  ASSUME NEW log \in Seq(Event), NEW known, NEW state, ChainSound(log, known, state),
         NEW e \in Event, ~ ForgedAttempt(e, known), e.from = state,
         <<e.from, e.to>> \in OrdinaryTransitions
  PROVE  ChainSound(Append(log, e), known, e.to)
  <1> DEFINE longer == Append(log, e)
             last == Len(log) + 1
  <1>1. /\ longer[last] = e /\ longer[last - 1] = log[Len(log)]
        /\ log[Len(log)].to = state
    BY Extended DEF ChainSound
  <1> HIDE DEF longer, last
  <1>2. e.from \notin TerminalStates /\ <<e.from, e.to>> \notin RetryTransitions
    BY DEF OrdinaryTransitions, TerminalStates, RetryTransitions
  <1>3. ValidTransition(e.from, e.to, TRUE)
    BY DEF ValidTransition
  <1>4. LinkSound(longer, last, known)
    BY <1>1, <1>2, <1>3 DEF LinkSound, IsRetry
  <1> QED
    BY <1>4, AppendLinked DEF longer, last

\* So is an authorised retry of the attempt that the last entry closed.
LEMMA AppendRetry ==
  ASSUME NEW log \in Seq(Event), NEW known, NEW state, ChainSound(log, known, state),
         NEW e \in Event, ~ ForgedAttempt(e, known), e.from = state,
         <<e.from, e.to>> \in RetryTransitions,
         <<e.reason, e.actor>> \in RetryAuthority,
         e.attempt = log[Len(log)].attempt, e.attempt # 0, e.attempt < MaxAttempts
  PROVE  ChainSound(Append(log, e), known, e.to)
  <1> DEFINE longer == Append(log, e)
             last == Len(log) + 1
  <1>1. /\ longer[last] = e /\ longer[last - 1] = log[Len(log)]
        /\ log[Len(log)].to = state /\ last > 1
    BY Extended DEF ChainSound
  <1> HIDE DEF longer, last
  <1>2. ValidTransition(e.from, e.to, TRUE)
    BY DEF ValidTransition
  <1>3. IsValidRetry(longer, last, known)
    BY <1>1 DEF IsValidRetry, IsRetry
  <1>4. LinkSound(longer, last, known)
    BY <1>1, <1>2, <1>3 DEF LinkSound
  <1> QED
    BY <1>4, AppendLinked DEF longer, last

\* The bootstrap entry alone is a sound history of a queued job.
LEMMA BootstrapAlone ==
  ASSUME NEW e \in Event, NEW known, BootstrapSound(e)
  PROVE  ChainSound(Append(<< >>, e), known, "QUEUED")
  <1> DEFINE log == Append(<< >>, e)
  <1>1. log \in Seq(Event) /\ Len(log) = 1 /\ log[1] = e /\ log # << >>
    OBVIOUS
  <1> HIDE DEF log
  <1>2. \A i \in 2 .. Len(log) : LinkSound(log, i, known)
    BY <1>1
  <1>3. EpochsSound(log, known)
    BY <1>1, <1>2, EpochsFromLinks
  <1>4. \A i \in 1 .. Len(log) : ~ ForgedAttempt(log[i], known)
    BY <1>1 DEF BootstrapSound, ForgedAttempt
  <1>5. ChainSound(log, known, "QUEUED")
    BY <1>1, <1>2, <1>3, <1>4 DEF ChainSound, BootstrapSound
  <1> QED
    BY <1>5 DEF log

-----------------------------------------------------------------------------
(* The history of one job under the steps of the job plane.                 *)

\* attempt_count counts the attempt rows.
LEMMA KnownIsCount ==
  ASSUME NEW row \in JobRow, NEW atts, NEW j \in Job,
         \A n \in 1 .. MaxAttempts : Owned(row, atts[<<j, n>>], n)
  PROVE  {n \in 1 .. MaxAttempts : atts[<<j, n>>].outcome # NoOutcome} = 1 .. row.attemptCount
  <1>1. row.attemptCount \in 0 .. MaxAttempts
    BY DEF JobRow
  <1>2. \A n \in 1 .. MaxAttempts : atts[<<j, n>>].outcome # NoOutcome <=> n =< row.attemptCount
    BY DEF Owned
  <1> QED
    BY <1>1, <1>2, JobPlaneAssumption

\* The attempts that the audit knows before and after a step.
LEMMA KnownAttempts ==
  ASSUME SafetyInv, SafetyInv', NEW j \in Job
  PROVE  /\ Known(j) = 1 .. jobs[j].attemptCount
         /\ Known(j)' = 1 .. jobs'[j].attemptCount
         /\ jobs[j].attemptCount \in 0 .. MaxAttempts
         /\ jobs'[j].attemptCount \in 0 .. MaxAttempts
  <1>1. jobs[j] \in JobRow /\ jobs'[j] \in JobRow
    BY DEF SafetyInv, TypeOK
  <1>2. ASSUME NEW n \in 1 .. MaxAttempts
        PROVE  Owned(jobs[j], attempts[<<j, n>>], n) /\ Owned(jobs'[j], attempts'[<<j, n>>], n)
    <2>1. <<j, n>> \in Attempt
      BY DEF Attempt
    <2> QED
      BY <2>1 DEF SafetyInv, OwnershipConsistent
  <1>3. Known(j) = 1 .. jobs[j].attemptCount
    BY <1>1, <1>2, KnownIsCount DEF Known
  <1>4. Known(j)' = 1 .. jobs'[j].attemptCount
    BY <1>1, <1>2, KnownIsCount DEF Known
  <1> QED
    BY <1>1, <1>3, <1>4 DEF JobRow

\* A step that extends the history of one job and no other.
LEMMA ChainStep ==
  ASSUME SafetyInv, SafetyInv', EventChainClean, NEW j \in Job,
         \A k \in Job \ {j} : jobs'[k] = jobs[k] /\ events'[k] = events[k],
         jobs'[j].state # Absent,
         ChainSound(events'[j], Known(j)', jobs'[j].state)
  PROVE  EventChainClean'
  <1> SUFFICES ASSUME NEW k \in Job \ {j}
               PROVE  /\ jobs'[k].state # Absent => ChainSound(events'[k], Known(k)', jobs'[k].state)
                      /\ jobs'[k].state = Absent => events'[k] = << >>
    BY DEF EventChainClean
  <1>1. Known(k)' = Known(k)
    BY KnownAttempts
  <1> QED
    BY <1>1 DEF EventChainClean

\* Before a step: the history of a job that exists, and what it may grow by.
LEMMA ChainBefore ==
  ASSUME SafetyInv, SafetyInv', EventChainClean, NEW j \in Job, jobs[j].state # Absent,
         jobs[j].attemptCount =< jobs'[j].attemptCount
  PROVE  events[j] \in Seq(Event) /\ ChainSound(events[j], Known(j)', jobs[j].state)
  <1>1. events[j] \in Seq(Event)
    BY DEF SafetyInv, TypeOK
  <1>2. Known(j) \subseteq Known(j)'
    BY KnownAttempts
  <1>3. ChainSound(events[j], Known(j), jobs[j].state)
    BY DEF EventChainClean
  <1> QED
    BY <1>1, <1>2, <1>3, MoreAttempts

\* One ordinary edge of a job, with its entry.
LEMMA ChainOrdinary ==
  ASSUME SafetyInv, SafetyInv', EventChainClean, NEW j \in Job,
         \A k \in Job \ {j} : jobs'[k] = jobs[k] /\ events'[k] = events[k],
         jobs[j].attemptCount =< jobs'[j].attemptCount,
         NEW e \in Event, events'[j] = Append(events[j], e),
         e.from = jobs[j].state, e.to = jobs'[j].state,
         <<e.from, e.to>> \in OrdinaryTransitions,
         e.attempt \in {0, jobs'[j].attemptCount}
  PROVE  EventChainClean'
  <1>1. jobs[j].state # Absent /\ jobs'[j].state # Absent
    BY DEF OrdinaryTransitions, Absent
  <1>2. ~ ForgedAttempt(e, Known(j)')
    BY KnownAttempts DEF ForgedAttempt
  <1>3. events[j] \in Seq(Event) /\ ChainSound(events[j], Known(j)', jobs[j].state)
    BY <1>1, ChainBefore
  <1>4. ChainSound(events'[j], Known(j)', jobs'[j].state)
    BY <1>2, <1>3, AppendOrdinary
  <1> QED
    BY <1>1, <1>4, ChainStep

\* The end of an attempt and its retry, with their two entries.
LEMMA ChainRetry ==
  ASSUME SafetyInv, SafetyInv', EventChainClean, NEW j \in Job,
         \A k \in Job \ {j} : jobs'[k] = jobs[k] /\ events'[k] = events[k],
         jobs[j].attemptCount = jobs'[j].attemptCount,
         NEW e \in Event, NEW r \in Event, events'[j] = Append(Append(events[j], e), r),
         e.from = jobs[j].state, r.from = e.to, r.to = jobs'[j].state,
         <<e.from, e.to>> \in OrdinaryTransitions,
         <<r.from, r.to>> \in RetryTransitions,
         <<r.reason, r.actor>> \in RetryAuthority,
         e.attempt = jobs[j].attemptCount, r.attempt = e.attempt,
         r.attempt # 0, r.attempt < MaxAttempts
  PROVE  EventChainClean'
  <1> DEFINE log == Append(events[j], e)
  <1>1. jobs[j].state # Absent /\ jobs'[j].state # Absent
    BY DEF OrdinaryTransitions, RetryTransitions, Absent
  <1>2. ~ ForgedAttempt(e, Known(j)') /\ ~ ForgedAttempt(r, Known(j)')
    BY KnownAttempts DEF ForgedAttempt
  <1>3. events[j] \in Seq(Event) /\ ChainSound(events[j], Known(j)', jobs[j].state)
    BY <1>1, ChainBefore, KnownAttempts
  <1>4. ChainSound(log, Known(j)', e.to)
    BY <1>2, <1>3, AppendOrdinary
  <1>5. log \in Seq(Event) /\ log[Len(log)] = e
    BY <1>3, Extended
  <1> HIDE DEF log
  <1>6. ChainSound(Append(log, r), Known(j)', r.to)
    BY <1>2, <1>4, <1>5, AppendRetry
  <1>7. ChainSound(events'[j], Known(j)', jobs'[j].state)
    BY <1>6 DEF log
  <1> QED
    BY <1>1, <1>7, ChainStep

\* The enqueue functions write the bootstrap entry of a job with no history.
LEMMA ChainInsert ==
  ASSUME SafetyInv, SafetyInv', EventChainClean, NEW j \in Job, NEW key, NEW actor,
         NEW priority, NEW actorType \in {"OPERATOR", "SCHEDULER"},
         InsertJob(j, key, actor, priority, actorType)
  PROVE  EventChainClean'
  <1> DEFINE e == LogEntry(Absent, "QUEUED", 0, actorType, "ENQUEUED")
  <1>1. jobs \in [Job -> JobRow] /\ events \in [Job -> Seq(Event)]
    BY DEF SafetyInv, TypeOK
  <1>2. e \in Event /\ BootstrapSound(e)
    BY EventType, ConstantTypes DEF JobState, Reason, BootstrapSound, LogEntry
  <1>3. events[j] = << >> /\ events'[j] = Append(events[j], e)
    BY <1>1 DEF InsertJob, EventChainClean
  <1>4. jobs'[j].state = "QUEUED"
    BY <1>1 DEF InsertJob, NoJobRow
  <1>5. \A k \in Job \ {j} : jobs'[k] = jobs[k] /\ events'[k] = events[k]
    BY <1>1 DEF InsertJob
  <1> HIDE DEF e
  <1>6. ChainSound(events'[j], Known(j)', jobs'[j].state)
    BY <1>2, <1>3, <1>4, BootstrapAlone
  <1>7. jobs'[j].state # Absent
    BY <1>4 DEF Absent
  <1> QED
    BY <1>5, <1>6, <1>7, ChainStep

\* A cancellation names no attempt.
LEMMA ChainCancel ==
  ASSUME SafetyInv, SafetyInv', EventChainClean, NEW j \in Job, ApiCancel(j)
  PROVE  EventChainClean'
  <1> DEFINE to == CancelTarget(jobs[j].state)
             e == LogEntry(jobs[j].state, to, 0, "OPERATOR", "CANCEL_REQUESTED")
  <1>1. jobs \in [Job -> JobRow] /\ events \in [Job -> Seq(Event)] /\ jobs[j] \in JobRow
    BY DEF SafetyInv, TypeOK
  <1>2. <<jobs[j].state, to>> \in OrdinaryTransitions /\ jobs[j].state \in JobState /\ to \in JobState
    BY DEF ApiCancel, CancelTarget, OrdinaryTransitions, JobState
  <1>3. jobs'[j].state = to /\ jobs'[j].attemptCount = jobs[j].attemptCount
    BY <1>1 DEF ApiCancel, JobRow
  <1>4. /\ events'[j] = Append(events[j], e)
        /\ \A k \in Job \ {j} : jobs'[k] = jobs[k] /\ events'[k] = events[k]
    BY <1>1 DEF ApiCancel
  <1>5. e \in Event /\ e.from = jobs[j].state /\ e.to = to /\ e.attempt = 0
    BY <1>2, EventType, ConstantTypes DEF Reason, LogEntry
  <1>6. jobs[j].attemptCount =< jobs'[j].attemptCount
    BY <1>3, KnownAttempts
  <1> HIDE DEF e, to
  <1> QED
    BY <1>2, <1>3, <1>4, <1>5, <1>6, ChainOrdinary

\* A claim names the attempt it opens.
LEMMA ChainClaim ==
  ASSUME SafetyInv, SafetyInv', EventChainClean, NEW w \in Worker, NEW j \in Job,
         NEW busy \in BusySets, WorkerClaim(w, j, busy)
  PROVE  EventChainClean'
  <1> DEFINE n == jobs[j].attemptCount + 1
             e == LogEntry("QUEUED", "CLAIMED", n, "WORKER", "CLAIMED")
  <1>1. jobs \in [Job -> JobRow] /\ events \in [Job -> Seq(Event)] /\ jobs[j] \in JobRow
    BY DEF SafetyInv, TypeOK
  <1>2. jobs'[j].state = "CLAIMED" /\ jobs'[j].attemptCount = n /\ jobs[j].state = "QUEUED"
    BY <1>1 DEF WorkerClaim, ClaimChoice, Claimable, JobRow
  <1>3. n \in 0 .. MaxAttempts /\ jobs[j].attemptCount =< jobs'[j].attemptCount
    BY <1>2, KnownAttempts
  <1>4. /\ events'[j] = Append(events[j], e)
        /\ \A k \in Job \ {j} : jobs'[k] = jobs[k] /\ events'[k] = events[k]
    BY <1>1 DEF WorkerClaim
  <1>5. e \in Event /\ e.from = "QUEUED" /\ e.to = "CLAIMED" /\ e.attempt = n
    BY <1>3, EventType DEF JobState, Reason, LogEntry
  <1>6. <<"QUEUED", "CLAIMED">> \in OrdinaryTransitions
    BY DEF OrdinaryTransitions
  <1> HIDE DEF e, n
  <1> QED
    BY <1>2, <1>3, <1>4, <1>5, <1>6, ChainOrdinary

\* A start names the attempt that holds the lease.
LEMMA ChainStart ==
  ASSUME SafetyInv, SafetyInv', EventChainClean, NEW a \in Attempt, NEW ts, WorkerStart(a, ts)
  PROVE  EventChainClean'
  <1> DEFINE j == a[1]
             e == LogEntry("CLAIMED", "RUNNING", a[2], "WORKER", "STARTED")
  <1>1. /\ jobs \in [Job -> JobRow] /\ events \in [Job -> Seq(Event)]
        /\ j \in Job /\ jobs[j] \in JobRow
    BY HandleFacts DEF SafetyInv, TypeOK
  <1>2. /\ jobs[j].state = "CLAIMED" /\ jobs'[j].state = "RUNNING"
        /\ jobs'[j].attemptCount = jobs[j].attemptCount /\ jobs[j].attemptCount = a[2]
    BY <1>1 DEF WorkerStart, StartFence, HoldsLease, JobRow
  <1>3. a[2] \in 0 .. MaxAttempts /\ jobs[j].attemptCount =< jobs'[j].attemptCount
    BY <1>1, <1>2, KnownAttempts
  <1>4. /\ events'[j] = Append(events[j], e)
        /\ \A k \in Job \ {j} : jobs'[k] = jobs[k] /\ events'[k] = events[k]
    BY <1>1 DEF WorkerStart
  <1>5. e \in Event /\ e.from = "CLAIMED" /\ e.to = "RUNNING" /\ e.attempt = a[2]
    BY <1>3, EventType DEF JobState, Reason, LogEntry
  <1>6. <<"CLAIMED", "RUNNING">> \in OrdinaryTransitions
    BY DEF OrdinaryTransitions
  <1> HIDE DEF e, j
  <1> QED
    BY <1>1, <1>2, <1>3, <1>4, <1>5, <1>6, ChainOrdinary

\* A renewal writes no entry.
LEMMA ChainControl ==
  ASSUME SafetyInv, SafetyInv', EventChainClean, NEW a \in Attempt, NEW ts, NEW phase,
         WorkerControl(a, phase, ts)
  PROVE  EventChainClean'
  <1>1. jobs \in [Job -> JobRow] /\ a[1] \in Job
    BY HandleFacts DEF SafetyInv, TypeOK
  <1>2. \A k \in Job : /\ jobs'[k].state = jobs[k].state
                       /\ jobs'[k].attemptCount = jobs[k].attemptCount
                       /\ events'[k] = events[k]
    BY <1>1 DEF WorkerControl, JobRow
  <1>3. \A k \in Job : Known(k)' = Known(k)
    BY <1>2, KnownAttempts
  <1> QED
    BY <1>2, <1>3 DEF EventChainClean

\* The end of an attempt, by its worker or by a recovery, with the entry that
\* closes it and, on a retry, the entry that authorises the retry.
LEMMA ChainClose ==
  ASSUME SafetyInv, SafetyInv', EventChainClean, NEW a \in Attempt, NEW ts, NEW final,
         NEW hasResult, NEW retry \in BOOLEAN, NEW e \in Event, NEW r \in Event,
         jobs[a[1]].attemptCount = a[2],
         <<jobs[a[1]].state, final>> \in OrdinaryTransitions,
         e.from = jobs[a[1]].state, e.to = final, e.attempt = a[2],
         retry => /\ a[2] < MaxAttempts
                  /\ final \in {"FAILED", "TIMED_OUT"}
                  /\ r.from = final /\ r.to = "QUEUED" /\ r.attempt = a[2]
                  /\ <<r.reason, r.actor>> \in RetryAuthority,
         jobs' = [jobs EXCEPT ![a[1]] =
                    IF retry THEN Requeued(Closed(jobs[a[1]], final, hasResult), ts)
                             ELSE Closed(jobs[a[1]], final, hasResult)],
         events' = [events EXCEPT ![a[1]] =
                      IF retry THEN Append(Append(events[a[1]], e), r)
                               ELSE Append(events[a[1]], e)]
  PROVE  EventChainClean'
  <1> DEFINE j == a[1]
             closed == Closed(jobs[j], final, hasResult)
  <1>1. /\ jobs \in [Job -> JobRow] /\ events \in [Job -> Seq(Event)]
        /\ j \in Job /\ jobs[j] \in JobRow
    BY HandleFacts DEF SafetyInv, TypeOK
  <1>2. /\ closed.state = final
        /\ closed.attemptCount = jobs[j].attemptCount
        /\ Requeued(closed, ts).state = "QUEUED"
        /\ Requeued(closed, ts).attemptCount = jobs[j].attemptCount
    BY <1>1 DEF Closed, Requeued, JobRow
  <1>3. /\ jobs'[j] = IF retry THEN Requeued(closed, ts) ELSE closed
        /\ \A k \in Job \ {j} : jobs'[k] = jobs[k]
    BY <1>1
  <1>4. /\ events'[j] = IF retry THEN Append(Append(events[j], e), r) ELSE Append(events[j], e)
        /\ \A k \in Job \ {j} : events'[k] = events[k]
    BY <1>1
  <1>5. /\ a[2] # 0 /\ e.from = jobs[j].state /\ jobs[j].attemptCount = a[2]
        /\ <<jobs[j].state, final>> \in OrdinaryTransitions
    BY HandleFacts
  <1>6. jobs'[j].attemptCount = jobs[j].attemptCount /\ jobs[j].attemptCount =< jobs'[j].attemptCount
    BY <1>1, <1>2, <1>3, KnownAttempts
  <1>9. \A k \in Job \ {j} : jobs'[k] = jobs[k] /\ events'[k] = events[k]
    BY <1>3, <1>4
  <1> HIDE DEF closed, j
  <1>7. CASE retry
    <2>1. /\ events'[j] = Append(Append(events[j], e), r)
          /\ jobs[j].attemptCount = jobs'[j].attemptCount
          /\ r.from = e.to /\ r.to = jobs'[j].state
          /\ <<e.from, e.to>> \in OrdinaryTransitions
          /\ <<r.from, r.to>> \in RetryTransitions
          /\ <<r.reason, r.actor>> \in RetryAuthority
          /\ e.attempt = jobs[j].attemptCount /\ r.attempt = e.attempt
          /\ r.attempt # 0 /\ r.attempt < MaxAttempts
      BY <1>2, <1>3, <1>4, <1>5, <1>6, <1>7 DEF RetryTransitions
    <2> QED
      BY <1>9, <1>1, <1>5, <2>1, ChainRetry, Zenon
  <1>8. CASE ~ retry
    <2>1. /\ events'[j] = Append(events[j], e) /\ e.to = jobs'[j].state
          /\ <<e.from, e.to>> \in OrdinaryTransitions
          /\ e.attempt \in {0, jobs'[j].attemptCount}
      BY <1>2, <1>3, <1>4, <1>5, <1>6, <1>8
    <2> QED
      BY <1>9, <1>1, <1>5, <1>6, <2>1, ChainOrdinary, Zenon
  <1> QED
    BY <1>7, <1>8

\* worker_finalize closes with the worker's reason and retries as the worker.
LEMMA ChainFinalize ==
  ASSUME SafetyInv, SafetyInv', EventChainClean, NEW a \in Attempt, NEW ts,
         NEW f \in FinalizeInput, NEW retry \in BOOLEAN, NEW reason \in FinalReason,
         WorkerFinalize(a, f[1], f[2], f[3], retry, reason, ts)
  PROVE  EventChainClean'
  <1> DEFINE e == LogEntry(f[1], f[3], a[2], "WORKER", reason)
             r == LogEntry(f[3], "QUEUED", a[2], "WORKER", "PROCESS_RETRY_SCHEDULED")
  <1>1. /\ jobs[a[1]].state = f[1] /\ jobs[a[1]].attemptCount = a[2]
        /\ <<jobs[a[1]].state, f[3]>> \in OrdinaryTransitions
    BY FinalizeInputTypes DEF WorkerFinalize, FinalizeFence, HoldsLease
  <1>2. a[2] \in 0 .. MaxAttempts
    BY AttemptParts
  <1>3. e \in Event /\ r \in Event
    <2>1. /\ f[1] \in JobState \cup {Absent} /\ f[3] \in JobState
          /\ f[3] \in JobState \cup {Absent}
      BY FinalizeInputTypes
    <2>2. "QUEUED" \in JobState
      BY DEF JobState
    <2>3. reason \in Reason /\ "PROCESS_RETRY_SCHEDULED" \in Reason
      BY DEF Reason
    <2>4. "WORKER" \in {"OPERATOR", "SCHEDULER", "WORKER", "RECOVERY"}
      OBVIOUS
    <2>5. e \in Event
      BY <1>2, <2>1, <2>3, <2>4, EventType, Zenon
    <2>6. r \in Event
      BY <1>2, <2>1, <2>2, <2>3, <2>4, EventType, Zenon
    <2> QED
      BY <2>5, <2>6
  <1>4. e.from = jobs[a[1]].state /\ e.to = f[3] /\ e.attempt = a[2]
    BY <1>1 DEF LogEntry
  <1>5. retry => /\ a[2] < MaxAttempts
                 /\ f[3] \in {"FAILED", "TIMED_OUT"}
                 /\ r.from = f[3] /\ r.to = "QUEUED" /\ r.attempt = a[2]
                 /\ <<r.reason, r.actor>> \in RetryAuthority
    BY <1>1 DEF WorkerFinalize, LogEntry, RetryAuthority
  <1>6. jobs' = [jobs EXCEPT ![a[1]] =
                   IF retry THEN Requeued(Closed(jobs[a[1]], f[3], TRUE), ts)
                            ELSE Closed(jobs[a[1]], f[3], TRUE)]
    BY DEF WorkerFinalize
  <1>7. events' = [events EXCEPT ![a[1]] =
                     IF retry THEN Append(Append(events[a[1]], e), r)
                              ELSE Append(events[a[1]], e)]
    BY DEF WorkerFinalize
  <1> HIDE DEF e, r
  <1> QED
    BY <1>1, <1>3, <1>4, <1>5, <1>6, <1>7, ChainClose, Zenon

\* A recovery that blocks writes one entry and no retry.
LEMMA ChainRecoverBlock ==
  ASSUME SafetyInv, SafetyInv', EventChainClean, NEW c \in candidates, NEW observation,
         NEW ts, RecoverBlock(c, observation, ts)
  PROVE  EventChainClean'
  <1> DEFINE a == c.attempt
             e == LogEntry(c.state, "BLOCKED", a[2], "RECOVERY", RecoveryReason(c, observation))
  <1>1. /\ a \in Attempt /\ c.state \in ActiveStates /\ c.state \in JobState
        /\ jobs[a[1]].state = c.state /\ jobs[a[1]].attemptCount = a[2]
    BY CandidateParts DEF RecoverBlock, RecoveryFence, SafetyInv
  <1>2. <<jobs[a[1]].state, "BLOCKED">> \in OrdinaryTransitions
    BY <1>1 DEF ActiveStates, OrdinaryTransitions
  <1>3. RecoveryReason(c, observation) \in Reason /\ a[2] \in 0 .. MaxAttempts
    BY <1>1, AttemptParts DEF RecoveryReason, Reason
  <1>4. e \in Event
    BY <1>1, <1>3, EventType DEF JobState
  <1>5. e.from = jobs[a[1]].state /\ e.to = "BLOCKED" /\ e.attempt = a[2]
    BY <1>1 DEF LogEntry
  <1>6. jobs' = [jobs EXCEPT ![a[1]] =
                   IF FALSE THEN Requeued(Closed(jobs[a[1]], "BLOCKED", jobs[a[1]].result), ts)
                            ELSE Closed(jobs[a[1]], "BLOCKED", jobs[a[1]].result)]
    BY DEF RecoverBlock
  <1>7. events' = [events EXCEPT ![a[1]] =
                     IF FALSE THEN Append(Append(events[a[1]], e), e)
                              ELSE Append(events[a[1]], e)]
    BY DEF RecoverBlock
  <1>8. FALSE \in BOOLEAN
    OBVIOUS
  <1> HIDE DEF a, e
  <1> QED
    BY <1>1, <1>2, <1>4, <1>5, <1>6, <1>7, <1>8, ChainClose, Zenon

\* A recovery that finds the attempt interrupted retries as the recovery.
LEMMA ChainRecoverInterrupted ==
  ASSUME SafetyInv, SafetyInv', EventChainClean, NEW c \in candidates, NEW observation,
         NEW ts, RecoverInterrupted(c, observation, ts)
  PROVE  EventChainClean'
  <1> DEFINE a == c.attempt
             retry == jobs[a[1]].attemptCount < MaxAttempts
             e == LogEntry(c.state, "FAILED", a[2], "RECOVERY",
                           IF retry THEN "LEASE_EXPIRED_CHILD_ABSENT"
                                    ELSE "LEASE_EXPIRED_ATTEMPTS_EXHAUSTED")
             r == LogEntry("FAILED", "QUEUED", a[2], "RECOVERY",
                           "LEASE_EXPIRED_RETRY_SCHEDULED")
  <1>1. /\ a \in Attempt /\ c.state \in JobState /\ jobs[a[1]].state = c.state
        /\ jobs[a[1]].attemptCount = a[2] /\ c.state = "RUNNING"
    BY CandidateParts DEF RecoverInterrupted, RecoveryFence, ProvenInterrupted, SafetyInv
  <1>2. <<jobs[a[1]].state, "FAILED">> \in OrdinaryTransitions
    BY <1>1 DEF OrdinaryTransitions
  <1>3. a[2] \in 0 .. MaxAttempts
    BY <1>1, AttemptParts
  <1>4. e \in Event /\ r \in Event
    BY <1>1, <1>3, EventType DEF JobState, Reason
  <1>5. e.from = jobs[a[1]].state /\ e.to = "FAILED" /\ e.attempt = a[2]
    BY <1>1 DEF LogEntry
  <1>6. retry => /\ a[2] < MaxAttempts
                 /\ "FAILED" \in {"FAILED", "TIMED_OUT"}
                 /\ r.from = "FAILED" /\ r.to = "QUEUED" /\ r.attempt = a[2]
                 /\ <<r.reason, r.actor>> \in RetryAuthority
    BY <1>1 DEF LogEntry, RetryAuthority
  <1>7. jobs' = [jobs EXCEPT ![a[1]] =
                   IF retry THEN Requeued(Closed(jobs[a[1]], "FAILED", jobs[a[1]].result), ts)
                            ELSE Closed(jobs[a[1]], "FAILED", jobs[a[1]].result)]
    BY DEF RecoverInterrupted
  <1>8. events' = [events EXCEPT ![a[1]] =
                     IF retry THEN Append(Append(events[a[1]], e), r)
                              ELSE Append(events[a[1]], e)]
    BY DEF RecoverInterrupted
  <1>9. retry \in BOOLEAN
    OBVIOUS
  <1> HIDE DEF a, e, r, retry
  <1> QED
    BY <1>1, <1>2, <1>4, <1>5, <1>6, <1>7, <1>8, <1>9, ChainClose, Zenon

\* Every step leaves histories that the audit accepts.
LEMMA ChainNext ==
  ASSUME SafetyInv, SafetyInv', EventChainClean, Next
  PROVE  EventChainClean'
  <1>1. CASE Tick \/ RecoveryScan
    BY <1>1 DEF Tick, RecoveryScan, EventChainClean, Known
  <1>2. CASE \E j \in Job, actor \in Actor :
               \/ \E key \in OperatorKey, priority \in Priority :
                    ApiEnqueue(j, key, actor, priority)
               \/ \E key \in ScheduleKey : ScheduleEnqueue(j, key, actor)
    BY <1>2, ChainInsert DEF ApiEnqueue, ScheduleEnqueue
  <1>3. CASE \E j \in Job : ApiCancel(j)
    BY <1>3, ChainCancel
  <1>4. CASE \E w \in Worker, j \in Job, busy \in BusySets : WorkerClaim(w, j, busy)
    BY <1>4, ChainClaim
  <1>5. CASE \E a \in Issued : \E ts \in StatementTimes(attempts[a].heartbeatAt) :
               \/ WorkerStart(a, ts)
               \/ \E phase \in {"CLAIMED", "RUNNING"} : WorkerControl(a, phase, ts)
               \/ \E f \in FinalizeInput, retry \in BOOLEAN, reason \in FinalReason :
                    WorkerFinalize(a, f[1], f[2], f[3], retry, reason, ts)
    BY <1>5, ChainStart, ChainControl, ChainFinalize DEF Issued
  <1>6. CASE \E c \in candidates, observation \in Observation, ts \in StatementTimes(0) :
               \/ RecoverBlock(c, observation, ts)
               \/ RecoverInterrupted(c, observation, ts)
    BY <1>6, ChainRecoverBlock, ChainRecoverInterrupted
  <1> QED
    BY <1>1, <1>2, <1>3, <1>4, <1>5, <1>6 DEF Next

\* For every instance and every interleaving of API, scheduler, workers and
\* recoveries: EVENT_CHAIN_VIOLATIONS_SQL of 0007 finds nothing to report.
THEOREM ChainClean == Spec => []EventChainClean
  <1>1. Init => EventChainClean
    BY DEF Init, EventChainClean, NoJobRow
  <1>2. SafetyInv /\ SafetyInv' /\ EventChainClean /\ [Next]_vars => EventChainClean'
    <2>1. CASE UNCHANGED vars
      BY <2>1 DEF vars, EventChainClean, Known
    <2> QED
      BY <2>1, ChainNext
  <1> QED
    BY <1>1, <1>2, Safety, PTL DEF Spec
=============================================================================
