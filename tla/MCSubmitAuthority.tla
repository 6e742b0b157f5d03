--------------------------- MODULE MCSubmitAuthority ---------------------------
(***************************************************************************)
(* Instances of SubmitAuthority for TLC.                                   *)
(***************************************************************************)
EXTENDS SubmitAuthority, TLC

\* No definition orders or names callers, permits or event ids.
AuthoritySymmetry == Permutations(Caller) \cup Permutations(Permit) \cup Permutations(EventId)
=============================================================================
