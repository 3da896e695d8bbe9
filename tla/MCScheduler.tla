---------------------------- MODULE MCScheduler ----------------------------
(* Small instances of Scheduler for TLC. *)
EXTENDS Scheduler

CONSTANTS p1, p2, a, b, u, w

OneProject == [r \in Rows |-> p1]
OneEach == [r \in Rows |-> IF r = 1 THEN p1 ELSE p2]
FirstAt == [r \in Rows |-> r]
EveryTwo == [r \in Rows |-> 2]
FirstChecked == [r \in Rows |-> IF r = 1 THEN u ELSE NoUrl]
BothChecked == [r \in Rows |-> u]
=============================================================================
