----------------------------- MODULE MCSendEnd -----------------------------
(* Small instances of SendEnd for TLC. *)
EXTENDS SendEnd, TLC

CONSTANTS m1, m2, v1, v2, e1

AllPhases == m1 :> "main" @@ m2 :> "main" @@ v1 :> "attention"
               @@ v2 :> "attention" @@ e1 :> "memory"
\* a chat, and runs of each attention mode, with each phase and both
AllKinds == {{}, {"run", "decider"}, {"run", "off", "memory"}, {"run", "memory"},
             {"run", "attention", "memory"}}

\* for liveness: one call of each phase
FewPhases == m1 :> "main" @@ v1 :> "attention" @@ e1 :> "memory"
FewKinds == {{}, {"run", "attention", "memory"}}
=============================================================================
