---------------------------- MODULE MCAdmission ----------------------------
(* A small instance of Admission for TLC. *)
EXTENDS Admission, TLC

CONSTANTS s1, s2, u1, a1, r1, r2, p1, c1, c2, c3, c4, c5

Cap(user, project, process, channel, atOnce, perSend) ==
    [user |-> user, project |-> project, running |-> process,
     channel |-> channel, atOnce |-> atOnce, perSend |-> perSend]

\* a send with three calls beside a send with two, in a run the scheduler
\* starts and in one that a user may start too: two scheduled sends and an
\* extra stream meet the scheduled share, two sends and two extra streams the
\* process cap
ChildParents == c1 :> s1 @@ c2 :> s1 @@ c3 :> s1 @@ c4 :> s2 @@ c5 :> s2
ChildProjects == r1 :> p1 @@ r2 :> p1
ChildStarters == r1 :> {Schedule} @@ r2 :> {u1, Schedule}
ChildCaps == {Cap(2, 4, 4, 2, 3, 3), Cap(1, 4, 5, 2, 1, 2)}
=============================================================================
