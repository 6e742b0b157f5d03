------------------------------ MODULE OrderStates ------------------------------
(***************************************************************************)
(* The order lifecycle of packages/domain/orders.py: the transition table  *)
(* over (status, cancellation pending) and the reducer that applies one    *)
(* observed order event.  Sequence numbers order observations, not causes: *)
(* a fill may be observed before the acknowledgement.                      *)
(***************************************************************************)
EXTENDS Integers, Sequences, SequencesExt

NoResolution == "NONE"

TerminalOrderStatuses == {"FILLED", "CANCELED", "EXPIRED", "REJECTED", "DENIED"}

OrderStatus ==
  TerminalOrderStatuses \cup
  {"INITIALIZED", "SUBMITTED", "ACCEPTED", "PENDING_UPDATE", "PENDING_CANCEL", "TRIGGERED",
   "PARTIALLY_FILLED"}

\* The targets that may be observed while no cancellation is pending.
OpenTargets(status) ==
  LET filling == {"PARTIALLY_FILLED", "FILLED", "CANCELED", "EXPIRED", "PENDING_CANCEL"}
  IN  CASE status = "INITIALIZED"      -> {"SUBMITTED", "DENIED"}
        [] status = "SUBMITTED"        -> filling \cup {"ACCEPTED", "REJECTED"}
        [] status = "ACCEPTED"         -> filling \cup {"PENDING_UPDATE", "TRIGGERED"}
        [] status = "PENDING_UPDATE"   -> filling \cup {"ACCEPTED", "TRIGGERED"}
        [] status = "TRIGGERED"        -> filling \cup {"PENDING_UPDATE"}
        [] status = "PARTIALLY_FILLED" -> filling \cup {"PENDING_UPDATE"}
        [] OTHER                       -> {}

\* The targets that may be observed while one is, and the status that says that
\* the venue refused to cancel.
CancelTargets(status) ==
  CASE status = "PENDING_CANCEL" -> {"TRIGGERED", "PARTIALLY_FILLED", "FILLED", "CANCELED", "EXPIRED"}
    [] status \in {"TRIGGERED", "PARTIALLY_FILLED"}
                                 -> {"PARTIALLY_FILLED", "FILLED", "CANCELED", "EXPIRED"}
    [] OTHER                     -> {}

Refusal(status) == IF status = "PENDING_CANCEL" THEN "ACCEPTED" ELSE status

\* _next_state_key finds the observation in the table.
Allowed(state, e) ==
  IF state.cancelPending
    THEN \/ e.resolution = NoResolution /\ e.target \in CancelTargets(state.status)
         \/ e.resolution = "REJECTED" /\ e.target = Refusal(state.status)
    ELSE e.resolution = NoResolution /\ e.target \in OpenTargets(state.status)

\* Cancellation lineage survives the partial fills and triggers that overtake it.
StillPending(state, e) ==
  \/ e.target = "PENDING_CANCEL"
  \/ /\ state.cancelPending
     /\ e.resolution = NoResolution
     /\ e.target \notin TerminalOrderStatuses

NewOrderState == [status |-> "INITIALIZED", cancelPending |-> FALSE, applied |-> << >>]

\* OrderReductionError
Irreducible == [status |-> "IRREDUCIBLE", cancelPending |-> FALSE, applied |-> << >>]

LastSequence(state) ==
  IF state.applied = << >> THEN 0 ELSE Last(state.applied).sequence

\* An event that was applied before changes nothing; any other must come later in
\* the sequence and be in the table.
ReduceOrder(state, e) ==
  IF state = Irreducible \/ e \in ToSet(state.applied) THEN state
  ELSE IF e.sequence > LastSequence(state) /\ Allowed(state, e)
    THEN [status |-> e.target, cancelPending |-> StillPending(state, e),
          applied |-> Append(state.applied, e)]
    ELSE Irreducible

ReduceAll(state, es) ==
  LET after[n \in 0 .. Len(es)] == IF n = 0 THEN state ELSE ReduceOrder(after[n - 1], es[n])
  IN  after[Len(es)]
=============================================================================
