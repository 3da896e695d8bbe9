------------------------------ MODULE TaskLife ------------------------------
(***************************************************************************)
(* What the external tasks area promises of a task, with no word of        *)
(* claims, entries or retries: a task is worked on by at most one access   *)
(* key, which took it while it waited for one, no more often than the      *)
(* bound since it was last opened, and which was not taken from it.        *)
(***************************************************************************)
EXTENDS Naturals

CONSTANTS
    Tasks,
    Keys,
    NoOne,         \* no key
    MAX_CLAIMS     \* takings since the task was opened

\* of each task its state, the key that holds it, how often it was taken
\* since it was opened, and the keys nobody took it from
VARIABLE life

Held == {"in_progress", "awaiting_input"}
Closed == {"done", "canceled"}
Live == {"todo"} \cup Held \cup Closed

Lives ==
    [state : Live \cup {"unmade", "deleted"}, holder : Keys \cup {NoOne},
     taken : 0..MAX_CLAIMS, reach : SUBSET Keys]

LifeInit ==
    life \in [Tasks -> {l \in Lives :
        l.state = "unmade" /\ l.holder = NoOne /\ l.taken = 0}]

\* a task l is let go in the state s
Free(l, s) == l.state = s /\ l.holder = NoOne

Opened(l, m) ==
    l.state \in Closed \cup {"unmade"} /\ Free(m, "todo") /\ m.taken = 0

Taken(l, m) ==
    /\ l.state = "todo" /\ m.state = "in_progress"
    /\ m.holder \in l.reach /\ m.taken = l.taken + 1

\* reports, questions and answers
WorkedOn(l, m) ==
    l.state \in Held /\ m.state \in Held /\ m.holder = l.holder /\ m.taken = l.taken

GivenBack(l, m) == l.state \in Held /\ Free(m, "todo") /\ m.taken = l.taken

Finished(l, m) == l.state \in Held /\ Free(m, "done") /\ m.taken = l.taken

Canceled(l, m) ==
    l.state \in Held \cup {"todo"} /\ Free(m, "canceled") /\ m.taken = l.taken

Removed(l, m) == l.state \in Live /\ Free(m, "deleted") /\ m.taken = 0

Same(l, m) == <<m.state, m.holder, m.taken>> = <<l.state, l.holder, l.taken>>

\* one step of a task; a key it is taken from does not hold it on
LifeStep(l, m) ==
    /\ \/ Same(l, m) \/ Opened(l, m) \/ Taken(l, m) \/ WorkedOn(l, m)
       \/ GivenBack(l, m) \/ Finished(l, m) \/ Canceled(l, m) \/ Removed(l, m)
    /\ m.reach \subseteq l.reach
    /\ m.holder \in m.reach \cup {NoOne}

LifeNext ==
    \E l \in {life}, m \in {life'} :
        /\ m \in [Tasks -> Lives]
        /\ \A t \in Tasks : LifeStep(l[t], m[t])

Life == LifeInit /\ [][LifeNext]_life
=============================================================================
