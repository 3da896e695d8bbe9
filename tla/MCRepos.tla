------------------------------- MODULE MCRepos -------------------------------
(* Two rows of one URL, one public and one signed, as a start finds them. *)
EXTENDS Repos, TLC

CONSTANTS r1, r2, k, m1, m2, rule, c1, c2

MCSize  == m1 :> 1 @@ m2 :> 2
Wait(key) == [st |-> "pending", error |-> None, commit |-> None, key |-> key,
              ignore |-> rule, of |-> None]
MCBegun == r1 :> Wait(NoKey)
             @@ r2 :> [Wait(k) EXCEPT !.st = "ready", !.commit = m2, !.of = k]

Symmetric == Permutations(Calls)
=============================================================================
