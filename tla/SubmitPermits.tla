----------------------------- MODULE SubmitPermits -----------------------------
(***************************************************************************)
(* What the global halt and the submit permits promise, without the ledger *)
(* that carries them: trading is active or halted, a permit is prepared    *)
(* while it is active, every rotation retires the permits that are still   *)
(* open, and a permit is consumed once and its authority handed out at     *)
(* most once.                                                              *)
(***************************************************************************)
EXTENDS Naturals

CONSTANTS Permit
VARIABLES
  status,    \* the halt state
  permits,   \* what became of each permit
  handedOut  \* the permits whose authority a caller received

permitVars == <<status, permits, handedOut>>

PermitsInit ==
  /\ status = "UNINITIALIZED"
  /\ permits = [p \in Permit |-> "NEW"]
  /\ handedOut = {}

Initialize ==
  /\ status = "UNINITIALIZED"
  /\ status' \in {"ACTIVE", "HALTED"}
  /\ UNCHANGED <<permits, handedOut>>

\* A halt or a recovery.
Rotate ==
  /\ status # "UNINITIALIZED"
  /\ status' = IF status = "ACTIVE" THEN "HALTED" ELSE "ACTIVE"
  /\ permits' = [p \in Permit |-> IF permits[p] = "PREPARED" THEN "RETIRED" ELSE permits[p]]
  /\ UNCHANGED handedOut

Prepare(p) ==
  /\ status = "ACTIVE" /\ permits[p] = "NEW"
  /\ permits' = [permits EXCEPT ![p] = "PREPARED"]
  /\ UNCHANGED <<status, handedOut>>

Consume(p) ==
  /\ status = "ACTIVE" /\ permits[p] = "PREPARED"
  /\ permits' = [permits EXCEPT ![p] = "CONSUMED"]
  /\ UNCHANGED <<status, handedOut>>

HandOut(p) ==
  /\ permits[p] = "CONSUMED" /\ p \notin handedOut
  /\ handedOut' = handedOut \cup {p}
  /\ UNCHANGED <<status, permits>>

PermitsNext ==
  \/ Initialize \/ Rotate
  \/ \E p \in Permit : Prepare(p) \/ Consume(p) \/ HandOut(p)

PermitsSpec == PermitsInit /\ [][PermitsNext]_permitVars
=============================================================================
