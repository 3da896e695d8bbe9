-------------------------- MODULE MCExternalTasks --------------------------
(* Small instances of ExternalTasks for TLC. *)
EXTENDS ExternalTasks, TLC

CONSTANTS t1, t2, p, q, k1, k2, u

OneProject == [t \in Tasks |-> p]
SameUser == [k \in Keys |-> u]

\* tasks of one project and keys of one user are interchangeable
Symmetric == {f @@ g : f \in Permutations({t1, t2}), g \in Permutations({k1, k2})}
=============================================================================
