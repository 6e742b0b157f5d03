-------------------------- MODULE MCEngineEventLedger --------------------------
(***************************************************************************)
(* Instances of EngineEventLedger for TLC: two runs whose batches overlap. *)
(***************************************************************************)
EXTENDS EngineEventLedger, TLC

\* b1 then b2 is run r1, b3 is both at once and completes it, b5 comes after them; b4 is a run that
\* uses message ids of r1, in another order.
MCContent ==
  [b1 |-> [run |-> "r1", first |-> 2, messages |-> <<1>>],
   b2 |-> [run |-> "r1", first |-> 3, messages |-> <<2>>],
   b3 |-> [run |-> "r1", first |-> 2, messages |-> <<1, 2>>],
   b4 |-> [run |-> "r2", first |-> 2, messages |-> <<2, 1>>],
   b5 |-> [run |-> "r1", first |-> 4, messages |-> <<3>>]]

SessionSymmetry == Permutations(Session)
=============================================================================
