------------------------------ MODULE MCJobPlane ------------------------------
(***************************************************************************)
(* Instances of JobPlane for TLC.                                          *)
(***************************************************************************)
EXTENDS JobPlane, FiniteSets

\* No concurrent transaction holds a row, or one of them holds any one row.
MCBusySets == {S \in SUBSET Job : Cardinality(S) =< 1}
=============================================================================
