--------------------------- MODULE ExecutionSandbox ---------------------------
(***************************************************************************)
(* The execution sandbox: a client that plays a scenario of order commands *)
(* (client.py), the comparison of its snapshot with the event ledger       *)
(* (reconciliation.py), and the classification of a durable checkpoint     *)
(* after a crash (recovery.py).                                            *)
(*                                                                         *)
(* A command changes the venue's state at once and queues its reports,     *)
(* each for its own time; a drain appends the due reports to the ledger    *)
(* one by one, and moves the observed states and the queue only when it    *)
(* has appended them all.  A ledger that refuses or fails, or a crash,     *)
(* leaves the reports appended so far.                                     *)
(***************************************************************************)
EXTENDS OrderStates, FiniteSets

CONSTANTS
  Order,
  Command,
  Report,
  Scenario,  \* the scenarios a client may be given
  MaxTime    \* bound on the logical clock

\* A scenario has for each command its kind, order and reports, and for each
\* report its event, the report it duplicates, and its time.  A duplicate has the
\* event of its original.
NoReport == 0

SandboxScenario(s) ==
  /\ DOMAIN s.plan = ToSet(s.script) /\ ToSet(s.script) \subseteq Command
  /\ DOMAIN s.event \subseteq Report
  /\ DOMAIN s.original = DOMAIN s.event
  /\ s.deliverAt \in [DOMAIN s.event -> 0 .. MaxTime]
  /\ \A c \in DOMAIN s.plan :
       /\ s.plan[c].order \in Order
       /\ s.plan[c].reports \in Seq(DOMAIN s.event)
       /\ s.plan[c].reports = << >> <=> s.plan[c].kind \in {"DISCONNECT", "RECONNECT"}
       /\ \A i \in DOMAIN s.plan[c].reports :
            s.event[s.plan[c].reports[i]].order = s.plan[c].order
  /\ \A c, d \in DOMAIN s.plan : \A i \in DOMAIN s.plan[c].reports, j \in DOMAIN s.plan[d].reports :
       s.plan[c].reports[i] = s.plan[d].reports[j] => c = d /\ i = j
  /\ \A r \in DOMAIN s.event :
       /\ s.event[r].sequence \in Nat
       /\ s.original[r] # NoReport => s.event[r] = s.event[s.original[r]]
  /\ \A r, q \in DOMAIN s.event :
       s.original[r] = NoReport /\ s.original[q] = NoReport /\ s.event[r] = s.event[q] => r = q

ASSUME SandboxAssumption ==
  /\ MaxTime \in Nat
  /\ Report \subseteq Nat \ {NoReport}
  /\ \A s \in Scenario : SandboxScenario(s)

VARIABLES
  scenario,    \* _scenario, fixed when the client is made
  running,     \* the process of the client is alive
  clock,       \* current_time
  connected,   \* connection_state
  orders,      \* the orders: intent, venue_state and observed_state
  queue,       \* _queued_reports; the insertion ordinal is the position
  retained,    \* _retained_reports, of which known_reports is made
  executed,    \* _executed_command_ids
  consumed,    \* external: the submit commands whose permits the ledger has as consumed
  ledger,      \* external: the order and fill events in the ledger
  checkpoint   \* the recovery checkpoint that was recorded last

clientVars == <<clock, connected, orders, queue, retained, executed>>
sandboxVars == <<scenario, running, clientVars, consumed, ledger, checkpoint>>

NoOrder == [intent |-> "NONE", venue |-> NewOrderState, observed |-> NewOrderState]
Placed(os) == {o \in Order : os[o].intent # "NONE"}

Event(r) == scenario.event[r]
IsOrderEvent(e) == e.kind = "ORDER"

Snapshot ==
  [clock |-> clock, connected |-> connected, orders |-> orders, queue |-> queue,
   retained |-> retained]

InitialCheckpoint ==
  [snapshot |-> [clock |-> 0, connected |-> TRUE, orders |-> [o \in Order |-> NoOrder],
                 queue |-> << >>, retained |-> << >>],
   custodies |-> {}]

SandboxInit ==
  /\ scenario \in Scenario
  /\ running = TRUE
  /\ clock = 0
  /\ connected = TRUE
  /\ orders = [o \in Order |-> NoOrder]
  /\ queue = << >>
  /\ retained = << >>
  /\ executed = {}
  /\ consumed = {}
  /\ ledger = {}
  /\ checkpoint = InitialCheckpoint

-----------------------------------------------------------------------------
(* Delivery order.                                                          *)

\* The reports of q that are in the set rs, in their order.
Keep(q, rs) ==
  LET kept[n \in 0 .. Len(q)] ==
        IF n = 0 THEN << >> ELSE IF q[n] \in rs THEN Append(kept[n - 1], q[n]) ELSE kept[n - 1]
  IN  kept[Len(q)]

\* The reports of q that are to be delivered before t, sorted by (deliver_at,
\* insertion ordinal).
DueBefore(q, deliverAt, t) ==
  LET upTo[u \in 0 .. t] ==
        IF u = 0 THEN << >> ELSE upTo[u - 1] \o Keep(q, {r \in DOMAIN deliverAt : deliverAt[r] = u - 1})
  IN  upTo[t]

DeliveryOrder(q) == DueBefore(q, scenario.deliverAt, MaxTime + 1)

OrderReports(o) == {r \in DOMAIN scenario.event : Event(r).order = o /\ IsOrderEvent(Event(r))}

EventsFor(o, q) ==
  LET mine == Keep(q, OrderReports(o)) IN [i \in DOMAIN mine |-> Event(mine[i])]

\* Mutant of DeliveryReduces: the reports are replayed as they were queued.
QueuedReduces(states, q) ==
  \A o \in Order : ReduceAll(states[o], EventsFor(o, q)) # Irreducible

\* _validate_observed_delivery_order: everything queued can be observed, in the
\* order in which it will be delivered, from the states observed so far.
DeliveryReduces(states, q) ==
  \A o \in Order : ReduceAll(states[o], EventsFor(o, DeliveryOrder(q))) # Irreducible

\* _validate_scenario_report_inventory.  The n-th fill of an order brings its
\* cumulative quantity to n, so the fills of an order must be delivered in order.
AllReports ==
  FlattenSeq([i \in 1 .. Len(scenario.script) |-> scenario.plan[scenario.script[i]].reports])

InventoryValid ==
  \A o \in Order :
    LET scheduled == SelectSeq(DeliveryOrder(AllReports),
                               LAMBDA r : Event(r).order = o /\ ~ IsOrderEvent(Event(r)))
        fills == FoldLeft(LAMBDA seen, r : IF Event(r) \in ToSet(seen) THEN seen
                                                                      ELSE Append(seen, Event(r)),
                          << >>, scheduled)
    IN  \A i \in DOMAIN fills : fills[i].sequence = i

\* _planned_reports: a duplicate is of a report that was made before it.
OriginalsKnown(reports) ==
  \A i \in DOMAIN reports :
    scenario.original[reports[i]] # NoReport =>
      scenario.original[reports[i]] \in ToSet(retained \o SubSeq(reports, 1, i - 1))

-----------------------------------------------------------------------------
(* Commands.                                                                *)

\* One report of _apply_venue_reports_and_enqueue.  A modification takes effect
\* when the venue accepts the order again after the update was pending.
ApplyReport(acc, r, modifying) ==
  LET venue == ReduceOrder(acc.order.venue, Event(r))
      moved == [acc.order EXCEPT !.venue = venue]
      updating == modifying /\ venue.status = "PENDING_UPDATE"
      replaced == /\ ~ updating /\ acc.ready
                  /\ Event(r).target = "ACCEPTED" /\ venue.status = "ACCEPTED"
  IN  IF IsOrderEvent(Event(r))
        THEN [order |-> IF replaced THEN [moved EXCEPT !.intent = "REPLACED"] ELSE moved,
              ready |-> updating \/ (acc.ready /\ ~ replaced)]
        ELSE acc

ApplyVenueReports(order, reports, modifying) ==
  LET after[n \in 0 .. Len(reports)] ==
        IF n = 0 THEN [order |-> order, ready |-> FALSE]
                 ELSE ApplyReport(after[n - 1], reports[n], modifying)
  IN  after[Len(reports)].order

Observed == [o \in Order |-> orders[o].observed]

\* _require_plan and the clock
Planned(c, kind, at) ==
  /\ running
  /\ c \in DOMAIN scenario.plan
  /\ scenario.plan[c].kind = kind
  /\ c \notin executed
  /\ at \in clock .. MaxTime

\* What is checked before a command has any effect.
PlanValid(c, next) ==
  /\ connected
  /\ InventoryValid
  /\ OriginalsKnown(scenario.plan[c].reports)
  /\ next.venue # Irreducible
  /\ DeliveryReduces(Observed, queue \o scenario.plan[c].reports)

\* The venue acts on the command and its reports are queued.
Execute(c, at, next) ==
  /\ orders' = [orders EXCEPT ![scenario.plan[c].order] = next]
  /\ queue' = queue \o scenario.plan[c].reports
  /\ retained' = retained \o scenario.plan[c].reports
  /\ executed' = executed \cup {c}
  /\ clock' = at

SubmittedOrder(c) ==
  ApplyVenueReports([NoOrder EXCEPT !.intent = "SUBMITTED"], scenario.plan[c].reports, FALSE)

SubmitValid(c, at) ==
  /\ Planned(c, "SUBMIT", at)
  /\ scenario.plan[c].order \notin Placed(orders)
  /\ PlanValid(c, SubmittedOrder(c))
  /\ c \notin consumed

\* The permit is consumed, which the ledger may refuse with no effect, and then
\* the order exists, whether or not the scenario lets the response through.
Submit(c, at) ==
  /\ SubmitValid(c, at)
  /\ consumed' = consumed \cup {c}
  /\ Execute(c, at, SubmittedOrder(c))
  /\ UNCHANGED <<scenario, running, connected, ledger, checkpoint>>

\* The permit was consumed and the venue did not act: the process ended in between, or the
\* consumption was stored and its caller saw an error, and the client goes on.
SubmitInterrupted(c, at) ==
  /\ SubmitValid(c, at)
  /\ consumed' = consumed \cup {c}
  /\ running' \in BOOLEAN
  /\ UNCHANGED <<scenario, clientVars, ledger, checkpoint>>

Open(o) == o \in Placed(orders) /\ orders[o].venue.status \notin TerminalOrderStatuses

Modify(c, at) ==
  /\ Planned(c, "MODIFY", at)
  /\ Open(scenario.plan[c].order)
  /\ LET next == ApplyVenueReports(orders[scenario.plan[c].order], scenario.plan[c].reports, TRUE)
     IN  PlanValid(c, next) /\ Execute(c, at, next)
  /\ UNCHANGED <<scenario, running, connected, consumed, ledger, checkpoint>>

Cancel(c, at) ==
  /\ Planned(c, "CANCEL", at)
  /\ Open(scenario.plan[c].order)
  /\ LET next == ApplyVenueReports(orders[scenario.plan[c].order], scenario.plan[c].reports, FALSE)
     IN  PlanValid(c, next) /\ Execute(c, at, next)
  /\ UNCHANGED <<scenario, running, connected, consumed, ledger, checkpoint>>

\* disconnect and reconnect
ConnectionTransition(c, at) ==
  /\ Planned(c, IF connected THEN "DISCONNECT" ELSE "RECONNECT", at)
  /\ connected' = ~ connected
  /\ executed' = executed \cup {c}
  /\ clock' = at
  /\ UNCHANGED <<scenario, running, orders, queue, retained, consumed, ledger, checkpoint>>

AdvanceTime(to) ==
  /\ running
  /\ to \in clock + 1 .. MaxTime
  /\ clock' = to
  /\ UNCHANGED <<scenario, running, connected, orders, queue, retained, executed, consumed, ledger,
                 checkpoint>>

-----------------------------------------------------------------------------
(* Delivery.                                                                *)

\* external: append of the event ledger accepts an event it has, and the next
\* event of a stream.
Appendable(e, l) ==
  e \in l \/ e.position = Cardinality({f \in l : f.stream = e.stream}) + 1

Due == DueBefore(queue, scenario.deliverAt, clock + 1)

EventSet(rs) == {Event(r) : r \in ToSet(rs)}

\* The loop of drain_reports gets as far as appending the n-th due report.
DeliveredUpTo(n) ==
  /\ \A i \in 1 .. n : Appendable(Event(Due[i]), ledger \cup EventSet(SubSeq(Due, 1, i - 1)))
  /\ \A o \in Order : ReduceAll(Observed[o], EventsFor(o, SubSeq(Due, 1, n - 1))) # Irreducible

ObservedAfterDrain == [o \in Order |-> ReduceAll(Observed[o], EventsFor(o, Due))]

DrainReports ==
  /\ running /\ connected /\ Due # << >>
  /\ DeliveredUpTo(Len(Due))
  /\ \A o \in Order : ObservedAfterDrain[o] # Irreducible
  /\ ledger' = ledger \cup EventSet(Due)
  /\ orders' = [o \in Order |-> [orders[o] EXCEPT !.observed = ObservedAfterDrain[o]]]
  /\ queue' = Keep(queue, {r \in DOMAIN scenario.event : scenario.deliverAt[r] > clock})
  /\ UNCHANGED <<scenario, running, clock, connected, retained, executed, consumed, checkpoint>>

\* The n-th append is made, and the next one, or the reading back, fails.
DrainFails(n) ==
  /\ running /\ connected
  /\ n \in 1 .. Len(Due)
  /\ DeliveredUpTo(n)
  /\ ledger' = ledger \cup EventSet(SubSeq(Due, 1, n))
  /\ UNCHANGED <<scenario, running, clientVars, consumed, checkpoint>>

-----------------------------------------------------------------------------
(* Reconciliation of a snapshot with the events that were read from the     *)
(* ledger.                                                                  *)

BySequence(es) ==
  [i \in 1 .. Cardinality(es) |->
     CHOOSE e \in es : Cardinality({f \in es : f.sequence < e.sequence}) = i - 1]

\* Mutant of DeliveredEvents: an event counts as undelivered while any report of
\* it is queued.
EventsNotQueued(snap) == EventSet(snap.retained) \ EventSet(snap.queue)

DeliveredEvents(snap) == {Event(r) : r \in ToSet(snap.retained) \ ToSet(snap.queue)}

\* UNKNOWN_ORDER_REPORT, UNEXPECTED_OBSERVED_REPORT
Unattributed(snap, seen) ==
  {e \in seen : e.order \notin Placed(snap.orders) \/ e \notin DeliveredEvents(snap)}

Usable(snap, seen) == seen \ Unattributed(snap, seen)

ReplayedState(snap, seen, o) ==
  ReduceAll(NewOrderState,
            BySequence({e \in Usable(snap, seen) : e.order = o /\ IsOrderEvent(e)}))

ExpectedVenueState(snap, seen, o) ==
  ReduceAll(ReplayedState(snap, seen, o), EventsFor(o, DeliveryOrder(snap.queue)))

Fills(o, es) == {e \in es : e.order = o /\ ~ IsOrderEvent(e)}

OrderMismatch(snap, seen, o) ==
  \/ ReplayedState(snap, seen, o) # snap.orders[o].observed
  \/ ExpectedVenueState(snap, seen, o) # snap.orders[o].venue
  \/ Fills(o, seen) # Fills(o, DeliveredEvents(snap))

ReconcileExecutionState(snap, seen) ==
  [ clock |-> snap.clock,
    placed |-> Placed(snap.orders),
    observed |-> [o \in Order |-> ReplayedState(snap, seen, o)],
    venue |-> [o \in Order |-> ExpectedVenueState(snap, seen, o)],
    delivered |-> [o \in Order |->
                     Keep(snap.retained,
                          {r \in ToSet(snap.retained) \ ToSet(snap.queue) :
                             Event(r).order = o /\ Event(r) \in Usable(snap, seen)})],
    pending |-> DeliveryOrder(snap.queue),
    status |-> IF \/ Unattributed(snap, seen) # {}
                  \/ \E o \in Placed(snap.orders) : OrderMismatch(snap, seen, o)
                 THEN "MISMATCH"
                 ELSE IF snap.queue = << >> THEN "RECONCILED" ELSE "DELIVERY_PENDING" ]

-----------------------------------------------------------------------------
(* Recovery.  The caller records a checkpoint of the client and, after a    *)
(* crash, has it classified with what it reads from the ledger.             *)

RecordCheckpoint ==
  /\ running
  /\ checkpoint' = [snapshot |-> Snapshot,
                    custodies |-> {c \in executed : scenario.plan[c].kind = "SUBMIT"}]
  /\ UNCHANGED <<scenario, running, clientVars, consumed, ledger>>

DeliveredReports(snap, o) ==
  Keep(snap.retained, {r \in ToSet(snap.retained) \ ToSet(snap.queue) : Event(r).order = o})

\* Some delivered reports, in their order: the evidence may be complete later.
PartOf(some, all) ==
  /\ Len(some) < Len(all)
  /\ some = Keep(all, ToSet(some))

\* RECONCILIATION_SNAPSHOT_CONFLICT, PENDING_REPORT_INVENTORY_CONFLICT
StateConflict(snap, rec) ==
  \/ rec.clock # snap.clock
  \/ rec.placed # Placed(snap.orders)
  \/ rec.pending # DeliveryOrder(snap.queue)
  \/ \E o \in Placed(snap.orders) :
       \/ rec.observed[o] # snap.orders[o].observed
       \/ rec.venue[o] # snap.orders[o].venue
       \/ /\ rec.delivered[o] # DeliveredReports(snap, o)
          /\ ~ PartOf(rec.delivered[o], DeliveredReports(snap, o))

\* Mutant of EvidenceMissing: the status of the reconciliation is not looked at.
EvidenceMissingIgnoringStatus(cp, rec, seenConsumed) ==
  \/ cp.custodies \ seenConsumed # {}
  \/ \E o \in Placed(cp.snapshot.orders) : rec.delivered[o] # DeliveredReports(cp.snapshot, o)

\* CONSUMED_EVENT_MISSING, RECONCILIATION_MISMATCH, RECONCILIATION_EVIDENCE_INCOMPLETE
EvidenceMissing(cp, rec, seenConsumed) ==
  \/ cp.custodies \ seenConsumed # {}
  \/ rec.status = "MISMATCH"
  \/ \E o \in Placed(cp.snapshot.orders) : rec.delivered[o] # DeliveredReports(cp.snapshot, o)

Settled(snap, rec) ==
  /\ rec.status = "RECONCILED"
  /\ Placed(snap.orders) # {}
  /\ \A o \in Placed(snap.orders) :
       {snap.orders[o].observed.status, snap.orders[o].venue.status} \subseteq TerminalOrderStatuses

PlanSandboxRecovery(cp, rec, seenConsumed) ==
  CASE StateConflict(cp.snapshot, rec) -> "STATE_CONFLICT"
    [] OTHER ->
         CASE EvidenceMissing(cp, rec, seenConsumed) -> "RECONCILIATION_REQUIRED"
           [] OTHER -> IF Settled(cp.snapshot, rec) THEN "ALREADY_SETTLED" ELSE "SAFE_TO_RESTORE"

-----------------------------------------------------------------------------
SandboxNext ==
  \/ \E c \in Command, at \in 0 .. MaxTime :
       \/ Submit(c, at)
       \/ SubmitInterrupted(c, at)
       \/ Modify(c, at)
       \/ Cancel(c, at)
       \/ ConnectionTransition(c, at)
  \/ \E to \in 0 .. MaxTime : AdvanceTime(to)
  \/ DrainReports
  \/ \E n \in 1 .. Cardinality(Report) : DrainFails(n)
  \/ RecordCheckpoint

SandboxSpec == SandboxInit /\ [][SandboxNext]_sandboxVars

-----------------------------------------------------------------------------
(* Properties.                                                              *)

\* What was validated before each command stays true whatever is delivered,
\* delayed, duplicated or interrupted since: the reducer accepts the queue to its
\* end, and it brings every observed state to where the venue is.  (Whether the
\* ledger accepts a drain is another matter: it may refuse one again and again.)
QueueLeadsToVenue ==
  \A o \in Order :
    ReduceAll(Observed[o], EventsFor(o, DeliveryOrder(queue))) = orders[o].venue

\* Delays, duplicates, disconnections and lost responses are never a mismatch:
\* the comparison with the whole ledger fails exactly when the ledger has events
\* of a drain that did not finish, and is settled exactly when nothing is queued.
ReconciliationTruthful ==
  ReconcileExecutionState(Snapshot, ledger).status =
    IF ledger # {Event(r) : r \in ToSet(retained) \ ToSet(queue)} THEN "MISMATCH"
    ELSE IF queue = << >> THEN "RECONCILED" ELSE "DELIVERY_PENDING"

\* A checkpoint is called restorable or settled, on a reconciliation of itself or
\* of the client as it was last, only while the ledger has no report beyond it:
\* then no observation is lost by going back to it, and of a settled checkpoint
\* the venue has not moved either.
RestoreIsExact ==
  \A rec \in {ReconcileExecutionState(snap, ledger) : snap \in {Snapshot, checkpoint.snapshot}} :
    LET disposition == PlanSandboxRecovery(checkpoint, rec, consumed)
        past == checkpoint.snapshot
    IN  disposition \in {"SAFE_TO_RESTORE", "ALREADY_SETTLED"} =>
          /\ ledger = {Event(r) : r \in ToSet(past.retained) \ ToSet(past.queue)}
          /\ \A o \in Placed(past.orders) :
               /\ orders[o].observed = past.orders[o].observed
               /\ disposition = "ALREADY_SETTLED" => orders[o].venue = past.orders[o].venue
=============================================================================
