------------------------------ MODULE MCAlerts ------------------------------
(* A small instance of Alerts for TLC. *)
EXTENDS Alerts

CONSTANTS a1, a2

\* the last run is the other automation's
LastOfB == [r \in Runs |-> IF r = Max(Runs) THEN a2 ELSE a1]
=============================================================================
