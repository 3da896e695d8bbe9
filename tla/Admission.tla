----------------------------- MODULE Admission -----------------------------
(***************************************************************************)
(* The places of the process: src/server/runner/registry.ts (who may start *)
(* a send now) and src/server/runner/child-slots.ts (where a send's        *)
(* subagents run).                                                         *)
(*                                                                         *)
(* Every call of the two files runs to its end with no await, so each is   *)
(* one action here.  What interleaves are the sends, their delegate calls, *)
(* the aborts, and an administrator moving the caps under all of them.     *)
(***************************************************************************)
EXTENDS Integers, Sequences, FiniteSets

CONSTANTS
    Sends,      \* ids a send may have; one is free again once its send left
    Users,      \* who may start a send
    Schedule,   \* startedBy = null: a run the scheduler started
    Sessions,   \* chats, runs and channels
    Channels,   \* the sessions that are channels
    Agents,
    ChatAgent,  \* the agent of a session that is not a channel
    Projects,
    ProjectOf,  \* [Sessions -> Projects]
    StartersOf, \* who may start a send in a session: Schedule in its runs
    Calls,      \* delegate calls
    ParentOf,   \* [Calls -> Sends], the send whose round made the call
    CapSets     \* the caps an administrator may set

Starters == Users \cup {Schedule}

\* the least values the limits take, and the order the route keeps
CapRecords ==
    {c \in [user : Nat \ {0}, project : Nat \ (0..3), running : Nat \ (0..3),
            channel : Nat \ {0}, atOnce : Nat \ {0}, perSend : Nat \ {0}] :
        c.user <= c.project /\ c.project <= c.running}

ASSUME AdmissionAssumption ==
    /\ IsFiniteSet(Sends)
    /\ IsFiniteSet(Calls)
    /\ Schedule \notin Users
    /\ Channels \subseteq Sessions
    /\ ChatAgent \in Agents
    /\ ProjectOf \in [Sessions -> Projects]
    /\ StartersOf \in [Sessions -> SUBSET Starters]
    /\ ParentOf \in [Calls -> Sends]
    /\ CapSets \subseteq CapRecords
    /\ CapSets # {}

VARIABLES
    sends,            \* the registry's map: id -> the active send
    extras,           \* extra streams taken, all sends
    scheduledExtras,  \* those of them that scheduled sends took
    closed,           \* the drain has begun
    caps,             \* the limits as they read now
    started,          \* per send: delegate calls that asked for a place
    running,          \* per send: children running now
    inPlace,          \* per send: a child runs in the parent's place
    waiting,          \* per send: calls waiting for a place, in order
    stage             \* per call: where its coroutine is

registryVars == <<sends, extras, scheduledExtras, closed, caps>>
childVars    == <<started, running, inPlace, waiting, stage>>
vars         == <<registryVars, childVars>>

SendRecords == [starter : Starters, session : Sessions, agent : Agents,
                atOnce : Nat \ {0}, perSend : Nat \ {0},
                aborted : BOOLEAN, terminal : BOOLEAN]

\* "new": not called yet; "waiting": in the parent's list; "inPlace" and
\* "extra": the slot it holds; "ended": the call has its result
Stages == {"new", "waiting", "inPlace", "extra", "ended"}

\* a sequence that lists members of S, none of them twice
Lists(S) == {q \in Seq(S) : \A i, j \in DOMAIN q : q[i] = q[j] => i = j}

TypeOK ==
    /\ DOMAIN sends \subseteq Sends
    /\ sends \in [DOMAIN sends -> SendRecords]
    /\ extras \in Nat
    /\ scheduledExtras \in Nat
    /\ closed \in BOOLEAN
    /\ caps \in CapRecords
    /\ started \in [Sends -> Nat]
    /\ running \in [Sends -> Nat]
    /\ inPlace \in [Sends -> BOOLEAN]
    /\ waiting \in [Sends -> Seq(Calls)]
    /\ stage \in [Calls -> Stages]

----------------------------------------------------------------------------
(* The registry *)

Held == DOMAIN sends

StartedBy(u)  == {s \in Held : sends[s].starter = u}
InProject(p)  == {s \in Held : ProjectOf[sends[s].session] = p}
InSession(x)  == {s \in Held : sends[s].session = x}

\* the places scheduled runs may hold under a cap
ScheduledShare(cap) == (cap * 3) \div 4

\* as one lock for the whole channel would be looked up, and an agent's own
LockedByAgent(x, a) ==
    closed \/ \E s \in InSession(x) : sends[s].agent = a /\ x \in Channels

\* the lock's refusals: in a channel only the agent's own send holds it
Locked(x, a) ==
    \/ closed
    \/ \E s \in InSession(x) : x \in Channels => sends[s].agent = a

\* the refusal that admit() throws, in the order it weighs them
Refusal(x, a, who) ==
    LET project == Cardinality(InProject(ProjectOf[x]))
        here    == InProject(ProjectOf[x]) \cap StartedBy(Schedule)
        total   == Cardinality(Held) + extras
        runs    == Cardinality(StartedBy(Schedule)) + scheduledExtras
    IN  IF Locked(x, a) THEN "locked"
        ELSE IF x \in Channels /\ Cardinality(InSession(x)) >= caps.channel
             THEN "channel"
        ELSE IF who # Schedule /\ Cardinality(StartedBy(who)) >= caps.user
             THEN "user"
        ELSE IF \/ project >= caps.project
                \/ /\ who = Schedule
                   /\ Cardinality(here) >= ScheduledShare(caps.project)
             THEN "project"
        ELSE IF \/ total >= caps.running
                \/ who = Schedule /\ runs >= ScheduledShare(caps.running)
             THEN "process"
        ELSE "none"

\* room that leaves the extra streams already taken out of the count
ExtraRoomOfSends(s) ==
    LET process == caps.running - Cardinality(Held)
        share   == ScheduledShare(caps.running)
                     - Cardinality(StartedBy(Schedule))
    IN  IF sends[s].starter = Schedule /\ share < process
        THEN share ELSE process

\* room for extra streams: of the process, and of the share for a
\* scheduled parent; below 1 there is none
ExtraRoom(s) ==
    LET process == caps.running - (Cardinality(Held) + extras)
        share   == ScheduledShare(caps.running)
                     - (Cardinality(StartedBy(Schedule)) + scheduledExtras)
    IN  IF sends[s].starter = Schedule /\ share < process
        THEN share ELSE process

\* the registry's counters moved by n extra streams of s; freeExtra()
\* never takes a counter below zero
Floored(n) == IF n < 0 THEN 0 ELSE n

\* a parent's share moved whoever the parent is, with nothing to floor it
MoveExtrasAny(s, n) ==
    /\ extras' = extras + n
    /\ scheduledExtras' = IF n > 0 /\ sends[s].starter # Schedule
                          THEN scheduledExtras ELSE scheduledExtras + n

\* a freed extra stream that leaves the scheduled count where it was
MoveExtrasKept(s, n) ==
    /\ extras' = Floored(extras + n)
    /\ scheduledExtras' = IF sends[s].starter = Schedule /\ n > 0
                          THEN scheduledExtras + n ELSE scheduledExtras

MoveExtras(s, n) ==
    /\ extras' = Floored(extras + n)
    /\ scheduledExtras' = IF sends[s].starter = Schedule
                          THEN Floored(scheduledExtras + n)
                          ELSE scheduledExtras

----------------------------------------------------------------------------
(* The life of a send, as far as its place is concerned *)

CallsOf(s) == {c \in Calls : ParentOf[c] = s}

Init ==
    /\ sends = [s \in {} |-> TRUE]
    /\ extras = 0
    /\ scheduledExtras = 0
    /\ closed = FALSE
    /\ caps \in CapSets
    /\ started = [s \in Sends |-> 0]
    /\ running = [s \in Sends |-> 0]
    /\ inPlace = [s \in Sends |-> FALSE]
    /\ waiting = [s \in Sends |-> <<>>]
    /\ stage = [c \in Calls |-> "new"]

\* admit() and set() in one turn, on a policy that reads the limits now
Start(s, x, a, who) ==
    /\ s \notin Held
    /\ Refusal(x, a, who) = "none"
    /\ sends' = [t \in Held \cup {s} |->
                   IF t = s
                   THEN [starter |-> who, session |-> x, agent |-> a,
                         atOnce |-> caps.atOnce, perSend |-> caps.perSend,
                         aborted |-> FALSE, terminal |-> FALSE]
                   ELSE sends[t]]
    /\ UNCHANGED <<extras, scheduledExtras, closed, caps, childVars>>

\* the first cause aborts the send's signal: every call still waiting
\* leaves the list in that turn, the children that run end on their own
Abort(s) ==
    /\ s \in Held
    /\ ~sends[s].aborted
    /\ sends' = [sends EXCEPT ![s].aborted = TRUE]
    /\ waiting' = [waiting EXCEPT ![s] = <<>>]
    /\ stage' = [c \in Calls |->
                   IF \E i \in DOMAIN waiting[s] : waiting[s][i] = c
                   THEN "ended" ELSE stage[c]]
    /\ UNCHANGED <<extras, scheduledExtras, closed, caps,
                   started, running, inPlace>>

\* run() ends the send once its tool loop let go: every call has its
\* result.  A finalize that commits makes the send terminal
Finalize(s) ==
    /\ s \in Held
    /\ sends[s].aborted
    /\ ~sends[s].terminal
    /\ \A c \in CallsOf(s) : stage[c] \in {"new", "ended"}
    /\ sends' = [sends EXCEPT ![s].terminal = TRUE]
    /\ UNCHANGED <<extras, scheduledExtras, closed, caps, childVars>>

\* free(): the place and its chat's lock let go.  A send whose finalize
\* never committed keeps both, and never comes here
Free(s) ==
    /\ s \in Held
    /\ sends[s].terminal
    /\ sends' = [t \in Held \ {s} |-> sends[t]]
    /\ started' = [started EXCEPT ![s] = 0]
    /\ stage' = [c \in Calls |-> IF ParentOf[c] = s THEN "new" ELSE stage[c]]
    /\ UNCHANGED <<extras, scheduledExtras, closed, caps,
                   running, inPlace, waiting>>

Close ==
    /\ ~closed
    /\ closed' = TRUE
    /\ UNCHANGED <<sends, extras, scheduledExtras, caps, childVars>>

\* the limits route: what is going keeps its places
SetCaps(c) ==
    /\ c # caps
    /\ caps' = c
    /\ UNCHANGED <<sends, extras, scheduledExtras, closed, childVars>>

----------------------------------------------------------------------------
(* Delegate calls *)

Asks(c) ==
    /\ stage[c] = "new"
    /\ ParentOf[c] \in Held
    /\ ~sends[ParentOf[c]].terminal

\* a call past childrenPerSend, or after the abort, is answered at once
Refused(c) ==
    LET s == ParentOf[c] IN
    /\ Asks(c)
    /\ started[s] >= sends[s].perSend \/ sends[s].aborted
    /\ started' = [started EXCEPT ![s] =
                     IF @ >= sends[s].perSend THEN @ ELSE @ + 1]
    /\ stage' = [stage EXCEPT ![c] = "ended"]
    /\ UNCHANGED <<registryVars, running, inPlace, waiting>>

\* place(): the parent's own place first, then an extra stream
HasPlace(s) ==
    /\ running[s] < sends[s].atOnce
    /\ ~inPlace[s] \/ ExtraRoom(s) >= 1

Takes(c) ==
    /\ Asks(c)
    /\ ~sends[ParentOf[c]].aborted
    /\ started[ParentOf[c]] < sends[ParentOf[c]].perSend
    /\ started' = [started EXCEPT ![ParentOf[c]] = @ + 1]

\* a place now whenever there is one
MayPlaceAny(s) == HasPlace(s)

\* takeSlot(): a place now only when nobody waits
MayPlace(s) == waiting[s] = <<>> /\ HasPlace(s)

TakeNow(c) ==
    LET s == ParentOf[c] IN
    /\ Takes(c)
    /\ MayPlace(s)
    /\ running' = [running EXCEPT ![s] = @ + 1]
    /\ inPlace' = [inPlace EXCEPT ![s] = TRUE]
    /\ IF inPlace[s]
       THEN /\ MoveExtras(s, 1)
            /\ stage' = [stage EXCEPT ![c] = "extra"]
       ELSE /\ stage' = [stage EXCEPT ![c] = "inPlace"]
            /\ UNCHANGED <<extras, scheduledExtras>>
    /\ UNCHANGED <<sends, closed, caps, waiting>>

Wait(c) ==
    LET s == ParentOf[c] IN
    /\ Takes(c)
    /\ ~MayPlace(s)
    /\ waiting' = [waiting EXCEPT ![s] = Append(@, c)]
    /\ stage' = [stage EXCEPT ![c] = "waiting"]
    /\ UNCHANGED <<registryVars, running, inPlace>>

\* the waiters freeSlot() places once a slot is back, in their order: as
\* many as childrenAtOnce, the parent's place and the extra room allow.
\* left: the children still running, own: the parent's place is free,
\* room: the extra streams to be had
Least(S) == CHOOSE n \in S : \A m \in S : n <= m

\* waiters placed only when an extra stream is to be had
PlacedExtra(s, left, own, room) ==
    Least({Len(waiting[s]), sends[s].atOnce - left, Floored(room)})

Placed(s, left, own, room) ==
    Least({Len(waiting[s]), sends[s].atOnce - left,
           (IF own THEN 1 ELSE 0) + Floored(room)})

\* freeSlot(): the ended child's slot let go, then its waiters placed.
\* The wake of the queue that follows is ChatQueue's
ChildEnds(c) ==
    LET s     == ParentOf[c]
        extra == stage[c] = "extra"
        own   == ~extra \/ ~inPlace[s]
        room  == ExtraRoom(s) + (IF extra THEN 1 ELSE 0)
        n     == Placed(s, running[s] - 1, own, room)
        first == own /\ n > 0
        taken == n - (IF first THEN 1 ELSE 0)
    IN
    /\ stage[c] \in {"inPlace", "extra"}
    /\ MoveExtras(s, taken - (IF extra THEN 1 ELSE 0))
    /\ running' = [running EXCEPT ![s] = @ - 1 + n]
    /\ inPlace' = [inPlace EXCEPT ![s] = ~own \/ first]
    /\ waiting' = [waiting EXCEPT ![s] = SubSeq(@, n + 1, Len(@))]
    /\ stage' = [d \in Calls |->
                   IF d = c THEN "ended"
                   ELSE IF first /\ d = waiting[s][1] THEN "inPlace"
                   ELSE IF \E i \in 1..n : waiting[s][i] = d THEN "extra"
                   ELSE stage[d]]
    /\ UNCHANGED <<sends, closed, caps, started>>

StartSome ==
    \E s \in Sends, x \in Sessions :
        \E who \in StartersOf[x] :
            \E a \in IF x \in Channels THEN Agents ELSE {ChatAgent} :
                Start(s, x, a, who)

Next ==
    \/ StartSome
    \/ \E s \in Sends : Abort(s) \/ Finalize(s) \/ Free(s)
    \/ \E c \in Calls : Refused(c) \/ TakeNow(c) \/ Wait(c) \/ ChildEnds(c)
    \/ \E c \in CapSets : SetCaps(c)
    \/ Close

Spec == Init /\ [][Next]_vars

\* a child is bounded by its parent's abort and by its own round and token
\* budget, so a child that runs ends: WF_vars(ChildEnds(c)), said of the
\* stage that is its guard and that only it leaves
Fairness == \A c \in Calls : []<>(stage[c] \notin {"inPlace", "extra"})

FairSpec == Spec /\ Fairness

----------------------------------------------------------------------------
(* Properties *)

\* the calls that hold a slot of s, and those that hold an extra stream
Streaming(s) == {c \in CallsOf(s) : stage[c] \in {"inPlace", "extra"}}
ExtraCalls == {c \in Calls : stage[c] = "extra"}
ScheduledCalls ==
    {c \in ExtraCalls : sends[ParentOf[c]].starter = Schedule}

\* The registry's two counters say exactly which extra streams are held,
\* through every abort, every queue of waiters and every moved cap: none
\* leaks (the process would starve) and none is given back twice.
ExtrasTrue ==
    /\ extras = Cardinality(ExtraCalls)
    /\ scheduledExtras = Cardinality(ScheduledCalls)

\* A send's own counts say which of its children run: one at most in the
\* parent's place, and the list holds the waiting calls, each once.  A call
\* keeps its parent registered until the parent's place is let go.
ChildrenTrue ==
    \A s \in Sends :
        /\ running[s] = Cardinality(Streaming(s))
        /\ inPlace[s] <=> \E c \in CallsOf(s) : stage[c] = "inPlace"
        /\ \A c, d \in CallsOf(s) :
              stage[c] = "inPlace" /\ stage[d] = "inPlace" => c = d
        /\ waiting[s] \in Lists(Calls)
        /\ {waiting[s][i] : i \in DOMAIN waiting[s]} =
              {c \in CallsOf(s) : stage[c] = "waiting"}
        /\ s \notin Held => \A c \in CallsOf(s) : stage[c] = "new"

\* No waiter is stranded: only a sibling's end places it, so while one
\* waits a sibling runs, and the parent was not aborted.
NoneStranded ==
    \A s \in Sends : waiting[s] # <<>> =>
        /\ running[s] > 0
        /\ s \in Held
        /\ ~sends[s].aborted

\* One send at a time in a chat, one per agent in a channel.
OneSendPerLock ==
    \A s, t \in Held :
        /\ s # t
        /\ sends[s].session = sends[t].session
        => /\ sends[s].session \in Channels
           /\ sends[s].agent # sends[t].agent

\* the places a send holds: its own, and one for each extra stream
Places(S) ==
    Cardinality(S) + Cardinality({c \in ExtraCalls : ParentOf[c] \in S})

\* the count f(S) did not grow, or is within its cap after the step
Within(before, after, cap) == after > before => after <= cap

\* what a step that takes places keeps to: the caps as they read after it
PlacesWithin ==
    /\ Within(Places(Held), Places(Held)', caps'.running)
    /\ Within(Places(StartedBy(Schedule)), Places(StartedBy(Schedule))',
              ScheduledShare(caps'.running))
    /\ \A p \in Projects :
          Within(Cardinality(InProject(p)), Cardinality(InProject(p))',
                 caps'.project)
    /\ \A u \in Users :
          Within(Cardinality(StartedBy(u)), Cardinality(StartedBy(u))',
                 caps'.user)

\* A step takes places only within the caps as they read then: of the
\* process, of the share kept from scheduled runs, of each project and of
\* each user.  A lowered cap ends nothing, and admits nothing above it.
TakesWithinCaps == [][PlacesWithin]_vars

\* a call that gets a place leaves no earlier waiter of its send waiting
PlacedInTurn ==
    \A c \in Calls :
        stage[c] \in {"new", "waiting"} /\ stage'[c] \in {"inPlace", "extra"}
        => \A i \in DOMAIN waiting[ParentOf[c]] :
              stage'[waiting[ParentOf[c]][i]] = "waiting" =>
                  \E j \in 1..(i - 1) : waiting[ParentOf[c]][j] = c

\* First come, first served: no call gets a place in a step that leaves an
\* earlier waiter of the same send waiting.
InOrder == [][PlacedInTurn]_vars

\* A call that waits leaves the list: placed, or ended by the abort.
WaitEnds ==
    \A c \in Calls : stage[c] = "waiting" ~> stage[c] # "waiting"
=============================================================================
