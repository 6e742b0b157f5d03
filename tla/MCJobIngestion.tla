---------------------------- MODULE MCJobIngestion ----------------------------
(***************************************************************************)
(* Instances of JobIngestion for TLC.                                      *)
(***************************************************************************)
EXTENDS JobIngestion, FiniteSets, TLC

\* No concurrent transaction holds a row.
MCIdleRows == {{}}

\* The services run the same program.
ServiceSymmetry == Permutations(Worker)
=============================================================================
