----------------------------- MODULE ChatQueue -----------------------------
(***************************************************************************)
(* Messages to a busy chat and their dispatcher:                           *)
(* src/server/runner/queue.ts, runner/enqueue.ts, sessions/queued.ts.      *)
(*                                                                         *)
(* A pass of the dispatcher has no await, so everything one event makes it *)
(* do is one action: the event, and the world after it.  The world is what *)
(* a pass reads and writes; a pass is a walk over the rows that wait.  A   *)
(* chat holds one send at most (Admission's OneSendPerLock), so a session  *)
(* names its send here.                                                    *)
(***************************************************************************)
EXTENDS Integers, Sequences, FiniteSets

CONSTANTS
    Messages,       \* each is posted once
    Users, Schedule,
    Chats,          \* sessions with a queue
    Runs,           \* sessions without one: runs of automations
    Projects, ProjectOf,
    ChatOf,         \* [Messages -> Chats]
    Author,         \* [Messages -> Users]
    Summons,        \* the messages whose first word names another agent
    TurnedDown,     \* sets of messages no turn may hold: refused before the
                    \* start takes its place
    RolledBack,     \* the same, refused inside the start's transaction
    Flaky,          \* the same, and a trial of the start passes
    CapSets,        \* the send caps an administrator may set
    MinuteSets,     \* the waits (queuedMinutes) he may set
    QueuedPerUser, QueuedPerChat,
    MaxExtras,      \* bound: extra streams held at once
    Changes         \* bound: what is changed around the queue, of Kinds

Sessions == Chats \cup Runs

Kinds == {"limits", "archive", "retire", "access", "login"}

ASSUME QueueAssumption ==
    /\ IsFiniteSet(Messages)
    /\ Schedule \notin Users
    /\ Chats \cap Runs = {}
    /\ IsFiniteSet(Chats \cup Runs)
    /\ ChatOf \in [Messages -> Chats]
    /\ Author \in [Messages -> Users]
    /\ Summons \subseteq Messages
    /\ TurnedDown \cup RolledBack \cup Flaky \subseteq (SUBSET Messages) \ {{}}
    /\ MinuteSets \subseteq Nat \ {0}
    /\ \E n \in MinuteSets : \A k \in MinuteSets : k <= n
    /\ \A c \in CapSets : {c.user, c.project, c.running} \subseteq Nat \ {0}
    /\ MaxExtras \in Nat
    /\ Changes \subseteq Kinds

VARIABLES
    world,   \* what a pass reads and writes, see Worlds
    lost,    \* per user: what the user lost since the message was queued
    age,     \* per queued message: the time it waits
    timer,   \* time left on the expiry timer, or Off
    armed    \* the minutes the timer was set for, or Off

vars == <<world, lost, age, timer, armed>>

Off == -1

\* the longest wait: past it an age says nothing more
MaxAge == CHOOSE n \in MinuteSets : \A k \in MinuteSets : k <= n

NotSent == {"archived", "agent-deleted", "expired", "failed"}
Fates == {"new", "queued", "started", "gone"} \cup NotSent

\* sends: session -> who started its send; line: every queued row, oldest
\* first; fate: what became of each message; closed: the drain has begun
Worlds ==
    [sends : UNION {[S -> Users \cup {Schedule}] : S \in SUBSET Sessions},
     line : Seq(Messages), fate : [Messages -> Fates], extras : 0..MaxExtras,
     caps : CapSets, minutes : MinuteSets, archived : SUBSET Chats,
     retired : BOOLEAN, closed : BOOLEAN]

Members(q) == {q[i] : i \in DOMAIN q}

TypeOK ==
    /\ world \in Worlds
    /\ Members(world.line) = {m \in Messages : world.fate[m] = "queued"}
    /\ Len(world.line) = Cardinality({m \in Messages : world.fate[m] = "queued"})
    /\ lost \in [Users -> {"none", "access", "login"}]
    /\ age \in [Messages -> 0..MaxAge]
    /\ timer \in {Off} \cup 0..MaxAge
    /\ armed \in {Off} \cup MinuteSets

----------------------------------------------------------------------------
(* Reading a world *)

\* the registry, as Admission models it, over the sends of w
Places(w) == INSTANCE Admission WITH
    Sends <- Sessions, Channels <- {}, Agents <- {Schedule},
    ChatAgent <- Schedule, StartersOf <- [x \in Sessions |-> Users],
    Calls <- {}, ParentOf <- [c \in {} |-> Schedule],
    sends <- [x \in DOMAIN w.sends |->
                [starter |-> w.sends[x], session |-> x, agent |-> Schedule]],
    extras <- w.extras, scheduledExtras <- 0, caps <- w.caps, closed <- w.closed,
    started <- 0, running <- 0, inPlace <- 0, waiting <- 0, stage <- 0

Held(w) == DOMAIN w.sends
Busy(w, u) == Cardinality({x \in Held(w) : w.sends[x] = u})
RefusalOf(w, x, who) == Places(w)!Refusal(x, Schedule, who)

\* what step makes of base, a member of q after the other: step[m][p]
Through(step, q, base) ==
    LET at[i \in 0..Len(q)] == IF i = 0 THEN base ELSE step[q[i]][at[i - 1]]
    IN  at[Len(q)]

\* the members of q that are in S, in their order
Only(q, S) ==
    Through([m \in Messages |-> [p \in Seq(Messages) |->
               IF m \in S THEN Append(p, m) ELSE p]], q, <<>>)

RowsOf(q, x) == Only(q, {m \in Messages : ChatOf[m] = x})
Rows(w, x)   == RowsOf(w.line, x)

\* a turn that holds a set of one of these families
Within(S, family) == \E B \in family : B \subseteq S

\* why a row cannot start, whatever its chat holds; sort()'s order.  A chat
\* archived with its agent says "archived" here too
Reason(w, m) ==
    IF lost[Author[m]] = "access" THEN "gone"
    ELSE IF ChatOf[m] \in w.archived THEN "archived"
    ELSE IF w.retired /\ m \in Summons THEN "agent-deleted"
    ELSE IF age[m] >= w.minutes THEN "expired"
    ELSE IF lost[Author[m]] = "login" THEN "failed"
    ELSE "none"

\* a turn that takes the rows past a summon too
BatchWhole(q) == q

\* the rows one turn opens with: those before the first summon, or the
\* summon alone
Batch(q) ==
    LET at == {i \in DOMAIN q : q[i] \in Summons} IN
    IF at = {} THEN q
    ELSE IF 1 \in at THEN SubSeq(q, 1, 1)
    ELSE SubSeq(q, 1, (CHOOSE i \in at : \A j \in at : i <= j) - 1)

\* the authors of q with room under their own cap, as positions of q
Starters(w, q) == {i \in DOMAIN q : Busy(w, Author[q[i]]) < w.caps.user}
StarterOf(w, q) ==
    Author[q[CHOOSE i \in Starters(w, q) : \A j \in Starters(w, q) : i <= j]]

----------------------------------------------------------------------------
(* One chat's start.  Each operator maps a world to a world *)

\* rows that left the queue, with what became of each: DOMAIN became
Leave(w, became) ==
    [w EXCEPT !.line = Only(@, Messages \ DOMAIN became),
              !.fate = [m \in Messages |-> IF m \in DOMAIN became THEN became[m]
                                           ELSE @[m]]]

All(S, fate) == [m \in S |-> fate]

Sort(w, x) ==
    Leave(w, [m \in {n \in Members(Rows(w, x)) : Reason(w, n) # "none"} |->
                Reason(w, m)])

\* notSend(): only the rows still queued turn
Fail(w, S) == Leave(w, All(S \cap Members(w.line), "failed"))

\* a start that leaves its rows in the queue
TakeKept(w, x, who, S) ==
    [w EXCEPT !.sends = [y \in Held(w) \cup {x} |-> IF y = x THEN who ELSE @[y]],
              !.fate = [m \in Messages |-> IF m \in S THEN "started" ELSE @[m]]]

Take(w, x, who, S) ==
    [Leave(w, All(S, "started")) EXCEPT
        !.sends = [y \in Held(w) \cup {x} |-> IF y = x THEN who ELSE @[y]]]

\* launch(): what it comes to, given what admit() says.  "freed" is a
\* refusal that had taken the place, so the start lets it go
VerdictOf(w, S, refusal) ==
    IF refusal = "no starter" THEN "waits"
    ELSE IF Within(S, TurnedDown) THEN "refused"
    ELSE IF refusal = "process" THEN "process"
    ELSE IF refusal # "none" \/ ~(S \subseteq Members(w.line)) THEN "waits"
    ELSE IF Within(S, RolledBack \cup Flaky) THEN "freed"
    ELSE "started"

Verdict(w, x, q) ==
    VerdictOf(w, Members(q), IF Starters(w, q) = {} THEN "no starter"
                             ELSE RefusalOf(w, x, StarterOf(w, q)))

Failed(verdict) == verdict \in {"refused", "freed"}

\* one launch(); woken: what the place it lets go makes of the world
Launch(w, x, q, verdict, woken) ==
    [end |-> verdict,
     w   |-> CASE verdict = "started" -> Take(w, x, StarterOf(w, q), Members(q))
               [] verdict = "freed"   -> woken[w]
               [] OTHER               -> w]

\* a trial of the start takes no place, and its rows must still be queued
Passes(w, q) ==
    /\ Members(q) \subseteq Members(w.line)
    /\ ~Within(Members(q), TurnedDown \cup RolledBack)

\* every row of the turn when the turn is refused, none tried on its own
PassingNone(w, q) == <<>>

\* the rows that pass, each tried after those that do
Passing(w, q) ==
    Through([m \in Messages |-> [p \in Seq(Messages) |->
               IF Passes(w, Append(p, m)) THEN Append(p, m) ELSE p]], q, <<>>)

\* startChat()'s two launches: of the whole turn, and of the rows that
\* pass when the first failed.  What fails then too is not sent either
FailLast(s, q) ==
    IF Failed(s.end) THEN [w |-> Fail(s.w, Members(q)), end |-> "none"] ELSE s

Relaunch(w, x, q, woken) ==
    IF q = <<>> THEN [w |-> w, end |-> "none"]
    ELSE FailLast(Launch(w, x, q, Verdict(w, x, q), woken), q)

FailCulprits(w, x, q, passing, woken) ==
    Relaunch(Fail(w, Members(q) \ Members(passing)), x, passing, woken)

FirstLaunch(s, x, q, woken) ==
    IF Failed(s.end) THEN FailCulprits(s.w, x, q, Passing(s.w, q), woken) ELSE s

StartTurn(w, x, q, woken) ==
    IF q = <<>> THEN [w |-> w, end |-> "none"]
    ELSE FirstLaunch(Launch(w, x, q, Verdict(w, x, q), woken), x, q, woken)

StartSorted(w, x, woken) == StartTurn(w, x, Batch(Rows(w, x)), woken)

StartChat(w, x, woken) == StartSorted(Sort(w, x), x, woken)

\* pass(): every free chat that waits, oldest row first; a full process
\* ends it.  A wake during a pass only asks for one more, and startChat()
\* drops what its own failures asked for
Tours == [w : Worlds, seen : SUBSET Chats, full : BOOLEAN]

Visited(p, x, s) ==
    [w |-> s.w, seen |-> p.seen \cup {x}, full |-> s.end = "process"]

Visit(p, x) ==
    IF p.full \/ x \in p.seen \cup Held(p.w) THEN p
    ELSE Visited(p, x, StartChat(p.w, x, [v \in Worlds |-> v]))

Pass(w) ==
    Through([m \in Messages |-> [p \in Tours |-> Visit(p, ChatOf[m])]],
            w.line, [w |-> w, seen |-> {}, full |-> FALSE]).w

\* wake(), outside a pass
Wake(w) == IF w.closed THEN w ELSE Pass(w)

\* startChat() from outside a pass: the place a failed start lets go
\* runs a whole pass before the start's own culprits are sought
StartAlone(w, x) == StartChat(w, x, [v \in Worlds |-> Wake(v)]).w

\* what m does to an expiry that came to p
ExpireFree(p, m) ==
    IF age[m] < p.w.minutes \/ ChatOf[m] \in Held(p.w) THEN p
    ELSE [p EXCEPT !.w = StartAlone(p.w, ChatOf[m])]

ExpireAt(p, m) ==
    IF age[m] < p.w.minutes \/ ChatOf[m] \in p.seen THEN p
    ELSE [p EXCEPT !.w = IF ChatOf[m] \in Held(p.w) THEN Sort(p.w, ChatOf[m])
                         ELSE StartAlone(p.w, ChatOf[m]),
                   !.seen = @ \cup {ChatOf[m]}]

\* expire(): every chat with a row past its time, the running ones too
Expire(w) ==
    Through([m \in Messages |-> [p \in Tours |-> ExpireAt(p, m)]],
            w.line, [w |-> w, seen |-> {}, full |-> FALSE]).w

----------------------------------------------------------------------------
(* The timer *)

\* arm(): set to the oldest row's expiry
Arm(w, ages) ==
    IF w.line = <<>> THEN timer' = Off /\ armed' = Off
    ELSE /\ timer' = LET left == w.minutes - ages[Head(w.line)] IN
                     IF left < 0 THEN 0 ELSE left
         /\ armed' = w.minutes

\* the step to w, whose rows that left the queue age no more
Become(w) ==
    /\ world' = w
    /\ age' = [m \in Messages |-> IF w.fate[m] = "queued" THEN age[m] ELSE 0]

----------------------------------------------------------------------------
(* Actions *)

Init ==
    /\ world \in {[sends |-> [x \in {} |-> Schedule], line |-> <<>>,
                   fate |-> [m \in Messages |-> "new"], extras |-> 0,
                   caps |-> c, minutes |-> n, archived |-> {},
                   retired |-> FALSE, closed |-> FALSE] : c \in CapSets, n \in MinuteSets}
    /\ lost = [u \in Users |-> "none"]
    /\ age = [m \in Messages |-> 0]
    /\ timer = Off
    /\ armed = Off

MayPost(m) ==
    /\ world.fate[m] = "new"
    /\ lost[Author[m]] = "none"
    /\ ChatOf[m] \notin world.archived
    /\ ~(world.retired /\ m \in Summons)

\* enqueue(): a free chat's own queue goes first
Before(m) ==
    IF world.closed \/ ChatOf[m] \in Held(world) THEN world
    ELSE StartAlone(world, ChatOf[m])

\* the chat is free: the message is sent, or refused and forgotten
SentFrom(w, m, refusal) ==
    IF Within({m}, TurnedDown) \/ refusal # "none" THEN w
    ELSE IF Within({m}, RolledBack \cup Flaky) THEN Wake(w)
    ELSE Take(w, ChatOf[m], Author[m], {m})

PostFree(m, w) ==
    /\ ~world.closed /\ ChatOf[m] \notin Held(w)
    /\ Become(SentFrom(w, m, RefusalOf(w, ChatOf[m], Author[m])))
    /\ UNCHANGED <<lost, timer, armed>>

\* the rows queuedPerUser bounds: queued and not sent
Kept(w, u) ==
    {m \in Messages : Author[m] = u /\ w.fate[m] \in {"queued"} \cup NotSent}

\* a row that never sets the timer when a pass let go of it
ArmNever(w, ages) == UNCHANGED <<timer, armed>>

\* the timer runs from the first row that finds it off
ArmOff(w, ages) ==
    IF ~w.closed /\ armed = Off THEN Arm(w, ages) ELSE UNCHANGED <<timer, armed>>

\* the chat is held, or the dispatcher closed: the message is queued
PostHeld(m, w) ==
    /\ world.closed \/ ChatOf[m] \in Held(w)
    /\ IF \/ Cardinality(Kept(w, Author[m])) >= QueuedPerUser
          \/ Len(Rows(w, ChatOf[m])) >= QueuedPerChat
       THEN Become(w) /\ UNCHANGED <<timer, armed>>
       ELSE /\ Become([w EXCEPT !.line = Append(@, m), !.fate[m] = "queued"])
            /\ ArmOff(world', age')
    /\ UNCHANGED lost

Post(m) == MayPost(m) /\ (PostFree(m, Before(m)) \/ PostHeld(m, Before(m)))

\* the author removes a waiting row, or discards one that was not sent
RemoveRow(m) ==
    /\ world.fate[m] \in {"queued"} \cup NotSent
    /\ Become(Leave(world, All({m}, "gone")))
    /\ UNCHANGED <<lost, timer, armed>>

\* sends that never queue: a regenerate, a new run
StartOther(x, who) ==
    /\ ~world.closed
    /\ x \notin world.archived
    /\ RefusalOf(world, x, who) = "none"
    /\ Become(Take(world, x, who, {}))
    /\ UNCHANGED <<lost, timer, armed>>

\* the event's world w, a pass over it, and the tail of wake()
Woken(w) ==
    /\ Become(Wake(w))
    /\ IF ~w.closed /\ armed # Off /\ armed # w.minutes THEN Arm(world', age')
       ELSE UNCHANGED <<timer, armed>>
    /\ UNCHANGED <<lost>>

Without(x) == [world EXCEPT !.sends = [y \in Held(world) \ {x} |-> @[y]]]

\* a freed place nobody is told of
EndSilent(x) ==
    /\ x \in Held(world)
    /\ Held(world) = {x} => world.extras = 0
    /\ Become(Without(x))
    /\ UNCHANGED <<lost, timer, armed>>

\* a send whose end committed lets its place go and wakes the queue; its
\* children ended before it
End(x) ==
    /\ x \in Held(world)
    /\ Held(world) = {x} => world.extras = 0
    /\ Woken(Without(x))

TakeExtra ==
    /\ Held(world) # {}
    /\ Cardinality(Held(world)) + world.extras < world.caps.running
    /\ world.extras < MaxExtras
    /\ Become([world EXCEPT !.extras = @ + 1])
    /\ UNCHANGED <<lost, timer, armed>>

\* a child's end that tells only its own parent
FreeExtraSilent ==
    /\ world.extras > 0
    /\ Become([world EXCEPT !.extras = @ - 1])
    /\ UNCHANGED <<lost, timer, armed>>

FreeExtra ==
    /\ world.extras > 0
    /\ Woken([world EXCEPT !.extras = @ - 1])

\* the limits route, when a send cap or the wait moved
SetLimits(c, n) ==
    /\ "limits" \in Changes
    /\ <<c, n>> # <<world.caps, world.minutes>>
    /\ Woken([world EXCEPT !.caps = c, !.minutes = n])

\* a free chat archived, or its agent deleted, which archives every chat
Archive(S) ==
    /\ "archive" \in Changes
    /\ S \notin SUBSET world.archived
    /\ S \cap Held(world) = {} \/ S = Chats
    /\ Woken([world EXCEPT !.archived = @ \cup S])

\* the summoned agent deleted
Retire ==
    /\ "retire" \in Changes
    /\ ~world.retired
    /\ Woken([world EXCEPT !.retired = TRUE])

\* the many other callers of wake()
WakeAgain == Woken(world)

\* a user taken out of the project, whose rows go with the membership
\* (drops), or one who lost sight of it or his login another way
Lose(u, what, drops) ==
    /\ lost[u] = "none"
    /\ lost' = [lost EXCEPT ![u] = what]
    /\ drops => what = "access"
    /\ Become(IF drops THEN Leave(world, All(Kept(world, u), "gone"))
              ELSE world)
    /\ UNCHANGED <<timer, armed>>

Tick ==
    /\ \/ timer > 0
       \/ \E m \in Messages : world.fate[m] = "queued" /\ age[m] < MaxAge
    /\ age' = [m \in Messages |->
                 IF world.fate[m] = "queued" /\ age[m] < MaxAge
                 THEN age[m] + 1 ELSE age[m]]
    /\ timer' = IF timer > 0 THEN timer - 1 ELSE timer
    /\ UNCHANGED <<world, lost, armed>>

\* ring(): expire, and set the timer anew
Ring ==
    /\ timer = 0
    /\ Become(Expire(world))
    /\ Arm(world', age')
    /\ UNCHANGED <<lost>>

Close ==
    /\ ~world.closed
    /\ world' = [world EXCEPT !.closed = TRUE]
    /\ timer' = Off
    /\ armed' = Off
    /\ UNCHANGED <<lost, age>>

\* the process ended, by its shutdown or a crash, and starts: no send is
\* left, the rows are, and start() expires, wakes and arms
Restart ==
    /\ Become(Pass(Expire([world EXCEPT !.sends = [x \in {} |-> Schedule],
                                        !.extras = 0, !.closed = FALSE])))
    /\ Arm(world', age')
    /\ UNCHANGED lost

Next ==
    \/ \E m \in Messages : Post(m) \/ RemoveRow(m)
    \/ \E x \in Chats, who \in Users : StartOther(x, who)
    \/ \E x \in Runs : StartOther(x, Schedule)
    \/ \E x \in Sessions : End(x)
    \/ TakeExtra \/ FreeExtra
    \/ \E c \in CapSets, n \in MinuteSets : SetLimits(c, n)
    \/ \E S \in {{x} : x \in Chats} \cup {Chats} : Archive(S)
    \/ Retire \/ WakeAgain
    \/ \E u \in Users, what \in Changes \cap {"access", "login"}, drops \in BOOLEAN :
          Lose(u, what, drops)
    \/ Tick \/ Ring \/ Close \/ Restart

Spec == Init /\ [][Next]_vars

\* time passes and a timer that is due rings
Fairness == WF_vars(Tick) /\ WF_vars(Ring)

FairSpec == Spec /\ Fairness

----------------------------------------------------------------------------
(* Properties *)

\* a free chat whose rows could all start, and whose next turn has room
Startable(x) ==
    /\ ~world.closed
    /\ x \notin Held(world)
    /\ Rows(world, x) # <<>>
    /\ \A m \in Members(Rows(world, x)) : Reason(world, m) = "none"
    /\ Verdict(world, x, Batch(Rows(world, x))) \notin {"waits", "process"}

\* No lost wake: while nothing runs, no message that could start waits.
\* Nothing else would wake the dispatcher before the message expires.
NothingWaitsIdle == Held(world) = {} => ~\E x \in Chats : Startable(x)

\* a place that a step let go, or that the caps gave, is used in that step
FreedPlaces ==
    \/ Held(world) \ Held(world)' # {}
    \/ world'.extras < world.extras
    \/ world'.caps # world.caps
    => ~\E x \in Chats : Startable(x)'

\* A place let go is used in the same turn: when a send or a child ends, or
\* the caps move, no chat that could start is left waiting, so the
\* scheduler, woken next, never takes a place a message waits for.
FreedPlaceTaken == [][FreedPlaces]_vars

\* the rows of x that a step started
Turn(x) == {m \in Messages : /\ ChatOf[m] = x
                             /\ world.fate[m] = "queued"
                             /\ world'.fate[m] = "started"}

\* a turn that holds a summon is that summon, and no turn leaves an earlier
\* row of its chat queued
TurnsOrdered ==
    \A x \in Chats :
        /\ Turn(x) \cap Summons # {} => Cardinality(Turn(x)) = 1
        /\ \A i, j \in DOMAIN world.line :
              /\ i < j
              /\ ChatOf[world.line[i]] = x
              /\ world.line[j] \in Turn(x)
              => world'.fate[world.line[i]] # "queued"

\* A chat's rows start in the order they were queued, and a summon alone:
\* whatever fails, expires or is held back, a turn leaves no earlier row of
\* its chat queued.
TurnInOrder == [][TurnsOrdered]_vars

\* the rows of m's chat that wait still, or started
Nearby(m) ==
    {n \in Messages : /\ ChatOf[n] = ChatOf[m]
                      /\ world.fate[n] = "queued"
                      /\ world'.fate[n] \in {"queued", "started"}}

\* each row that turned failed in a step had a cause of its own
FailuresCaused ==
    \A m \in Messages :
        world.fate[m] # "failed" /\ world'.fate[m] = "failed" =>
            \/ lost[Author[m]] = "login"
            \/ Within(Nearby(m) \cup {m}, TurnedDown \cup RolledBack)
            \/ \E B \in Flaky :
                  /\ m \in B \/ B \cap Nearby(m) = {}
                  /\ \A n \in B : ChatOf[n] = ChatOf[m]
                  /\ \A n \in B : world.fate[n] = "queued"

\* A message turns "failed" for a cause of its own: its author may not log
\* in, or the rows of its chat that started or still wait could not have
\* had it in their turn, or a start its trial had passed failed.
FailsForCause == [][FailuresCaused]_vars

\* While a row waits the timer is set, and no later than the oldest row's
\* expiry, whichever rows came, left or were edited, and however the wait
\* was moved.
ExpiryArmed ==
    ~world.closed /\ world.line # <<>> =>
        /\ timer # Off
        /\ timer = 0 \/ timer + age[Head(world.line)] <= world.minutes

\* A queued message is not kept waiting for ever: it starts, or its author
\* is told it was not sent, unless the process is draining.
QueuedSettles ==
    \A m \in Messages :
        world.fate[m] = "queued" ~>
            (world.fate[m] # "queued" \/ world.closed)
=============================================================================
