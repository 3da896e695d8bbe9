----------------------------- MODULE Scheduler -----------------------------
(***************************************************************************)
(* The automations' scheduler: src/server/automations/scheduler.ts with    *)
(* waits.ts, refire.ts, check.ts, run-now.ts and upkeep.ts.                *)
(*                                                                         *)
(* What runs between two awaits is one step.  A pass reads its rows and    *)
(* makes its first fire in one turn (loop = "firing", when nothing else    *)
(* can step), and lets go of the turn after each fire (loop = "yield"):    *)
(* the rest of its list holds the rows as they were read.  A fire itself   *)
(* awaits nothing.  The unit of time is PASS_MS.                           *)
(***************************************************************************)
EXTENDS Integers, Sequences, FiniteSets, FiniteSetsExt

CONSTANTS
    Rows,           \* automations, numbers in the order of their ids
    Projects, ProjectOf,
    Users,          \* whoever owns or edits a row
    Urls, NoUrl,    \* check URLs; NoUrl: a row without a check
    FirstUrl,       \* [Rows -> Urls \cup {NoUrl}]
    FirstOwner,
    Once,           \* the rows that fire once
    Rerun,          \* the rows with rerunOnRestart
    First, Every,   \* [Rows -> Nat], when a row's schedule begins, and its gap
    ProjectCap, ProcessCap,  \* the places there are: a cap and its scheduled
                             \* share are one bound here
    MaxTime,        \* bound: the clock
    Budget,         \* bound: the changes made around the scheduler, of Kinds
    Changes

\* what may change around the scheduler, and cost one of Budget
Kinds == {"url", "field", "schedule", "suspend", "owner", "page", "place",
          "run now", "fault", "halt"}

ASSUME SchedulerAssumption ==
    /\ Rows \subseteq Nat /\ IsFiniteSet(Rows)
    /\ IsFiniteSet(Projects) /\ "process" \notin Projects
    /\ ProjectOf \in [Rows -> Projects]
    /\ NoUrl \notin Urls
    /\ FirstUrl \in [Rows -> Urls \cup {NoUrl}]
    /\ FirstOwner \in Users
    /\ Once \cup Rerun \subseteq Rows
    /\ First \in [Rows -> Nat \ {0}] /\ Every \in [Rows -> Nat \ {0}]
    /\ ProjectCap \in Nat \ {0} /\ ProcessCap \in Nat \ {0}
    /\ MaxTime \in Nat /\ Budget \in Nat
    /\ Changes \subseteq Kinds

VARIABLES
    clock,
    row,      \* the table: row[r], see Records
    out,      \* the users who no longer see the project
    page,     \* what the check URLs answer now: a version
    others,   \* per project: places other sends hold
    phase,    \* "up", "draining", or "down" between two processes
    flying,   \* checks.flying: the GET that is out, or None
    ready,    \* checks.ready: the answer held for the next fire, or None
    asked,    \* the GET of a Run now, or None
    seen,     \* checks.seen: the answer of the run going, or None
    cut,      \* the runs a restart cut, listed at start
    full,     \* the caps marked full: "process", or a project
    loop,     \* "begin", "firing", "yield", "asleep", "late" or "off"
    list,     \* the rows the pass has left, as it read them
    passAt,   \* when the pass began
    moved,    \* the wake generation moved since the loop read it
    spent,    \* how much of Budget is gone
    settled,  \* history: per row, the latest occurrence that was settled
    told      \* history: per row, the answers a run ended with, uncut

tableVars == <<row, settled>>
worldVars == <<clock, out, page, others, phase, spent>>
checkVars == <<flying, ready, asked, seen, told>>
loopVars  == <<full, loop, list, passAt, moved>>
vars      == <<tableVars, worldVars, checkVars, cut, loopVars>>

None == <<>>
Off  == -1

Times  == 0..(MaxTime + Max({First[r] : r \in Rows} \cup {Every[r] : r \in Rows}))
Answer == [url : Urls, version : 0..Budget]

\* next: next_at, Off while suspended; rev: edit_revision; last: how the
\* last run stands; once: whether the row is spent and, if so, whether its
\* once run is still its last; saved: the validators; deferred: the due
\* time of a last event that is a deferral
Records ==
    [next : {Off} \cup Times, url : Urls \cup {NoUrl}, rev : 0..Budget,
     owner : Users, last : {"none", "running", "done", "cut"},
     once : {"armed", "last", "earlier"}, saved : {None} \cup Answer,
     deferred : {Off} \cup Times]

\* an answer held for a fire: of which row as it was, and what it said
Held == [result : {"new", "quiet", "failed"}, url : Urls, rev : 0..Budget,
         due : Times, version : 0..Budget]

TypeOK ==
    /\ clock \in 0..MaxTime
    /\ row \in [Rows -> Records]
    /\ out \subseteq Users
    /\ page \in 0..Budget
    /\ others \in [Projects -> 0..ProcessCap]
    /\ phase \in {"up", "draining", "down"}
    /\ flying \in [Rows -> {None} \cup [url : Urls, rev : 0..Budget,
                                       due : Times, saved : {None} \cup Answer]]
    /\ ready \in [Rows -> {None} \cup Held]
    /\ asked \in [Rows -> {None} \cup [url : Urls, rev : 0..Budget]]
    /\ seen \in [Rows -> {None} \cup [answer : Answer, rev : 0..Budget]]
    /\ cut \subseteq Rows
    /\ full \subseteq Projects \cup {"process"}
    /\ loop \in {"begin", "firing", "yield", "asleep", "late", "off"}
    /\ \A i \in DOMAIN list : list[i].id \in Rows /\ list[i].was \in Records
    /\ passAt \in 0..MaxTime
    /\ moved \in BOOLEAN
    /\ settled \in [Rows -> {Off} \cup Times]

----------------------------------------------------------------------------
(* Reading the table *)

\* the occurrences of a schedule, as far as Times goes
Occurrences(r) == {t \in Times : t >= First[r] /\ (t - First[r]) % Every[r] = 0}

NextFire(r, t) == Min({n \in Occurrences(r) : n > t})

\* newestPast(): the newest occurrence at or before t
NewestPast(r, t) == Max({n \in Occurrences(r) : n <= t})

Due(r)     == row[r].next # Off /\ row[r].next <= clock
Running(r) == row[r].last = "running"

\* the row may still have its cut run again.  A process that lists runs
\* lists the last one, and cuts none while it fires
StillCut(r, rec) ==
    /\ r \in cut
    /\ rec.last = "cut"
    /\ rec.next = Off => rec.once = "last"

\* dueOf(): when the fire of a row, as it was read, is due; Off: not now
ListedAt == 0
DueOf(r, rec, source) ==
    IF source = "restart" THEN IF StillCut(r, rec) THEN ListedAt ELSE Off
    ELSE IF rec.next # Off /\ rec.next <= clock THEN rec.next ELSE Off

Fresh(r, rec, source, held) ==
    /\ rec.rev = held.rev
    /\ rec.url = held.url
    /\ DueOf(r, rec, source) = held.due

\* the places runs hold, with those of other sends
Used(p)  == others[p] + Cardinality({r \in Rows : ProjectOf[r] = p /\ Running(r)})
OthersAll == UNION {{p} \X (1..others[p]) : p \in Projects}
UsedAll == Cardinality(OthersAll) + Cardinality({r \in Rows : Running(r)})
RoomFor(p) == Used(p) < ProjectCap /\ UsedAll < ProcessCap

\* what RunCapacity names: the project is weighed first
CapOf(p) == IF Used(p) >= ProjectCap THEN p ELSE "process"

MarkedFull(p) == "process" \in full \/ p \in full

----------------------------------------------------------------------------
(* The wake, the clock and the sleep *)

Quiet == loop # "firing"

\* wake(): a generation the sleep compares, and the caps' marks go
Wake ==
    /\ full' = {}
    /\ loop' = IF loop \in {"asleep", "late"} THEN "begin" ELSE loop
    /\ moved' = (loop = "yield")
    /\ UNCHANGED <<list, passAt>>

Spend(kind) ==
    /\ Quiet
    /\ kind \in Changes
    /\ spent < Budget
    /\ spent' = spent + 1

\* a minute passes, and a sleep that is over ends before another does; at
\* MaxTime the clock stands, and sleeps still end
Tick ==
    /\ Quiet
    /\ loop # "late"
    /\ clock < MaxTime \/ loop = "asleep"
    /\ clock' = IF clock < MaxTime THEN clock + 1 ELSE clock
    /\ loop' = IF loop = "asleep" THEN "late" ELSE loop
    /\ UNCHANGED <<tableVars, out, page, others, phase, spent, checkVars, cut,
                   full, list, passAt, moved>>

\* the sleep ends unwoken: expire() clears the marks a whole PASS_MS old
Rings ==
    /\ loop = "late"
    /\ loop' = "begin"
    /\ full' \in {full, {}}
    /\ UNCHANGED <<tableVars, worldVars, checkVars, cut, list, passAt, moved>>

----------------------------------------------------------------------------
(* A pass *)

\* deferDue(): a due row's deferral, once per due time
Deferred(r, rec, t) ==
    IF rec.next # Off /\ rec.next <= t THEN [rec EXCEPT !.deferred = rec.next]
    ELSE rec

\* a pass while draining defers every due row and fires none
PassDrains ==
    /\ phase = "draining"
    /\ loop = "begin"
    /\ row' = [r \in Rows |-> Deferred(r, row[r], clock)]
    /\ loop' = "asleep"
    /\ moved' = FALSE
    /\ UNCHANGED <<worldVars, settled, checkVars, cut, full, list, passAt>>

\* replaceMissed(): next_at moves to the newest occurrence past
Missed(r) == Due(r) /\ NextFire(r, row[r].next) <= clock

Replaced(r) ==
    IF Missed(r) THEN [row[r] EXCEPT !.next = NewestPast(r, clock),
                                     !.deferred = Off]
    ELSE row[r]

\* the rows S as the pass reads them
Read(S) == {[id |-> r, was |-> Replaced(r)] : r \in S}

IsDue(a) == a.was.next # Off /\ a.was.next <= clock

\* the due ones, oldest first; withCut(): then the listed ones that are not
Earlier(a, b) ==
    \/ IsDue(a) /\ ~IsDue(b)
    \/ IsDue(a) /\ IsDue(b) /\ a.was.next < b.was.next
    \/ /\ IsDue(a) /\ IsDue(b) => a.was.next = b.was.next
       /\ IsDue(b) => IsDue(a)
       /\ a.id < b.id

\* the rows S in that order
InOrder(S) ==
    {fires \in [1..Cardinality(S) -> Read(S)] :
        \A i, j \in 1..Cardinality(S) : i < j => Earlier(fires[i], fires[j])}

\* without the listed ones
FiresDue(S) == InOrder({r \in S : Due(r)})

Fires(S) == InOrder(S)

PassBegins ==
    LET rows == {r \in Rows : Due(r)} \cup cut IN
    /\ phase = "up"
    /\ loop = "begin"
    /\ row' = [r \in Rows |-> Replaced(r)]
    /\ settled' = [r \in Rows |-> IF Missed(r) THEN row[r].next ELSE settled[r]]
    /\ ready' = [r \in Rows |-> IF r \in rows THEN ready[r] ELSE None]
    /\ list' \in Fires(rows)
    /\ loop' = IF rows = {} THEN "asleep" ELSE "firing"
    /\ passAt' = IF rows = {} THEN 0 ELSE clock
    /\ moved' = FALSE
    /\ UNCHANGED <<worldVars, flying, asked, seen, told, cut, full>>

\* the end of the pass, and wait(): while a cap is marked full or a GET is
\* out, a row due by the pass is no reason to make another
PassEnds ==
    LET after == full # {} \/ phase = "draining" \/ \E r \in Rows : flying[r] # None
        again == moved \/ \E r \in Rows :
                    Due(r) /\ (after => row[r].next > passAt)
    IN
    /\ loop \in {"firing", "yield"}
    /\ list = <<>>
    /\ loop' = IF again THEN "begin" ELSE "asleep"
    /\ moved' = FALSE
    /\ passAt' = 0
    /\ UNCHANGED <<tableVars, worldVars, checkVars, cut, full, list>>

----------------------------------------------------------------------------
(* One fire *)

Source(r) == IF r \in cut THEN "restart" ELSE "schedule"

\* no GET goes out in the name of an owner who cannot run the task
Unasked(l) == l.was.url # NoUrl /\ l.was.owner \in out

\* the fire goes by the answer it holds, or asks
Checked(l) ==
    /\ l.was.url # NoUrl
    /\ ~Unasked(l)
    /\ ~Running(l.id)

\* the pass turns to its next row
Firing(l) ==
    /\ loop \in {"firing", "yield"}
    /\ list # <<>>
    /\ l = Head(list)
    /\ list' = Tail(list)
    /\ UNCHANGED <<clock, out, page, others, phase, asked, told, passAt, moved>>

\* a cap marked full passes the row over, and its answer goes
PassesOver(l) ==
    /\ Firing(l)
    /\ MarkedFull(ProjectOf[l.id])
    /\ ready' = [ready EXCEPT ![l.id] = None]
    /\ loop' = "firing"
    /\ UNCHANGED <<tableVars, spent, flying, seen, cut, full>>

FiresNow(l) ==
    /\ Firing(l)
    /\ ~MarkedFull(ProjectOf[l.id])
    /\ loop' = "yield"

Defers(l) ==
    /\ FiresNow(l)
    /\ phase = "draining"
    /\ row' = [row EXCEPT ![l.id] = Deferred(l.id, row[l.id], clock)]
    /\ UNCHANGED <<settled, spent, flying, ready, seen, cut, full>>

\* a GET is out already, or goes out now
Asks(l) ==
    LET r == l.id IN
    /\ FiresNow(l)
    /\ phase = "up"
    /\ Checked(l)
    /\ \/ flying[r] # None
       \/ ready[r] = None /\ DueOf(r, l.was, Source(r)) # Off
    /\ flying' = IF flying[r] # None THEN flying
                 ELSE [flying EXCEPT ![r] =
                         [url |-> l.was.url, rev |-> l.was.rev,
                          due |-> DueOf(r, l.was, Source(r)),
                          saved |-> row[r].saved]]
    /\ UNCHANGED <<tableVars, spent, ready, seen, cut, full>>

\* settle(): a quiet or failed answer moves the fire it was asked for, and
\* a stale one does nothing but go
Settles(l) ==
    LET r == l.id
        fresh == Fresh(r, row[r], Source(r), ready[r])
    IN
    /\ FiresNow(l)
    /\ phase = "up"
    /\ Checked(l)
    /\ flying[r] = None
    /\ ready[r] # None
    /\ ready[r].result # "new"
    /\ ready' = [ready EXCEPT ![r] = None]
    /\ IF fresh
       THEN /\ row' = [row EXCEPT
                  ![r].next = IF Due(r) THEN NextFire(r, clock) ELSE @,
                  ![r].deferred = IF ready[r].result = "failed" THEN Off ELSE @]
            /\ settled' = [settled EXCEPT ![r] = IF Due(r) THEN row[r].next ELSE @]
            /\ cut' = cut \ {r}
       ELSE UNCHANGED <<tableVars, cut>>
    /\ UNCHANGED <<spent, flying, seen, full>>

\* the answer the attempt goes by
Taken(l) == IF Checked(l) THEN ready[l.id] ELSE None

\* a checked row starts only with its answer, and only while the answer is
\* of the row as it is; without one it goes on only to be skipped
Answered(l) ==
    LET r == l.id IN
    row[r].url # NoUrl /\ ~Unasked(l) =>
        IF Taken(l) = None THEN Running(r)
        ELSE ~Running(r) /\ Fresh(r, row[r], Source(r), Taken(l))

\* attempt(): what its transaction comes to
Verdict(l) ==
    LET r == l.id IN
    IF \/ Source(r) = "schedule" /\ ~Due(r)
       \/ Source(r) = "restart" /\ ~StillCut(r, row[r])
       \/ ~Answered(l)
    THEN "nothing"
    ELSE IF row[r].owner \in out THEN "skip"
    ELSE IF Unasked(l) /\ row[r].url # NoUrl THEN "nothing"
    ELSE IF Running(r) THEN "skip"
    ELSE IF ~RoomFor(ProjectOf[r]) THEN "wait"
    ELSE "run"

\* a rerun leaves the waiting fire to itself
TakesDueOnly(r, source) == source = "schedule"

\* a run of whatever source takes the fire that waits
TakesDue(r, source) == source = "schedule" \/ Due(r)

\* the row once a run of it started
StartedRow(r, source) ==
    [row[r] EXCEPT
        !.next = IF ~TakesDue(r, source) THEN @
                 ELSE IF r \in Once THEN Off ELSE NextFire(r, clock),
        !.once = IF r \in Once /\ TakesDue(r, source) THEN "last"
                 ELSE IF @ = "last" /\ ~(source = "restart" /\ row[r].next = Off)
                      THEN "earlier"
                 ELSE @,
        !.last = "running",
        !.deferred = Off]

SkippedRow(r, source) ==
    [row[r] EXCEPT !.next = IF TakesDue(r, source) THEN NextFire(r, clock) ELSE @,
                   !.deferred = Off]

\* the run of r whose answer is held started
Starts(r, source, held) ==
    /\ row' = [row EXCEPT ![r] = StartedRow(r, source)]
    /\ settled' = [settled EXCEPT ![r] = IF Due(r) THEN row[r].next ELSE @]
    /\ seen' = [seen EXCEPT ![r] =
                  IF held = None THEN None
                  ELSE [answer |-> [url |-> held.url, version |-> held.version],
                        rev |-> held.rev]]

\* listed no more once it has been tried
UnlistAlways(l) == cut' = cut \ {l.id}

\* a dropped answer leaves a rerun listed
Unlist(l) ==
    cut' = IF Taken(l) # None /\ Verdict(l) # "run" THEN cut ELSE cut \ {l.id}

\* the fire comes to an attempt, and takes its answer
Attempts(l) ==
    /\ FiresNow(l)
    /\ phase = "up"
    /\ Checked(l) =>
         /\ flying[l.id] = None
         /\ IF ready[l.id] = None THEN DueOf(l.id, l.was, Source(l.id)) = Off
            ELSE ready[l.id].result = "new"
    /\ ready' = IF Checked(l) \/ Unasked(l) THEN [ready EXCEPT ![l.id] = None]
                ELSE ready
    /\ UNCHANGED flying

FireRuns(l) ==
    /\ Attempts(l)
    /\ Verdict(l) = "run"
    /\ Starts(l.id, Source(l.id), Taken(l))
    /\ Unlist(l)
    /\ UNCHANGED <<spent, full>>

FireSkips(l) ==
    /\ Attempts(l)
    /\ Verdict(l) = "skip"
    /\ row' = [row EXCEPT ![l.id] = SkippedRow(l.id, Source(l.id))]
    /\ settled' = [settled EXCEPT ![l.id] = IF Due(l.id) THEN row[l.id].next ELSE @]
    /\ Unlist(l)
    /\ UNCHANGED <<spent, seen, full>>

\* RunCapacity: nothing is written, the cap is marked.  No wake comes
\* between the fire's read of the generation and the mark
FireWaits(l) ==
    /\ Attempts(l)
    /\ Verdict(l) = "wait"
    /\ full' = full \cup {CapOf(ProjectOf[l.id])}
    /\ UNCHANGED <<tableVars, spent, seen, cut>>

FireLeaves(l) ==
    /\ Attempts(l)
    /\ Verdict(l) = "nothing"
    /\ Unlist(l)
    /\ UNCHANGED <<tableVars, spent, seen, full>>

\* startRun() or the write fails: a rerun is dropped, a due fire recorded
FireFails(l) ==
    LET r == l.id IN
    /\ Attempts(l)
    /\ Verdict(l) = "run"
    /\ "fault" \in Changes /\ spent < Budget
    /\ spent' = spent + 1
    /\ IF r \in cut THEN UNCHANGED tableVars
       ELSE /\ row' = [row EXCEPT ![r].next = NextFire(r, clock), ![r].deferred = Off]
            /\ settled' = [settled EXCEPT ![r] = row[r].next]
    /\ cut' = cut \ {r}
    /\ UNCHANGED <<seen, full>>

Fire == \E l \in {Head(list)} :
    \/ PassesOver(l) \/ Defers(l) \/ Asks(l) \/ Settles(l)
    \/ FireRuns(l) \/ FireSkips(l) \/ FireWaits(l) \/ FireLeaves(l) \/ FireFails(l)

LoopStep ==
    \/ PassDrains \/ PassBegins \/ PassEnds \/ Rings
    \/ list # <<>> /\ Fire

----------------------------------------------------------------------------
(* Answers, runs and places *)

\* what a URL says against the validators of the ask
Results(saved) ==
    {"failed", IF saved # None /\ saved.version = page THEN "quiet" ELSE "new"}

\* a GET that is out ends: its answer is kept, and the loop woken
Answers(r) ==
    /\ Quiet
    /\ flying[r] # None
    /\ \E result \in Results(flying[r].saved) :
          ready' = [ready EXCEPT ![r] =
              [result |-> result, url |-> flying[r].url, rev |-> flying[r].rev,
               due |-> flying[r].due, version |-> page]]
    /\ flying' = [flying EXCEPT ![r] = None]
    /\ Wake
    /\ UNCHANGED <<tableVars, worldVars, asked, seen, told, cut>>

\* validators saved whatever the row became since the answer
SavedAny(r, held) == held.answer

\* saveValidators(): only while the row is unedited
Saved(r, held) == IF held.rev = row[r].rev THEN held.answer ELSE row[r].saved

\* a run's end commits, its place is let go after: until then others hold
\* it.  "interrupted": done, but a shutdown reached its work after the
\* answer; "cut": the shutdown ended it
RunEnds(r, how) ==
    LET keeps == seen[r] # None /\ how = "done" IN
    /\ Quiet
    /\ phase # "down"
    /\ Running(r)
    /\ how = "done" \/ phase = "draining"
    /\ row' = [row EXCEPT ![r].last = IF how = "cut" THEN "cut" ELSE "done",
                          ![r].saved = IF keeps THEN Saved(r, seen[r]) ELSE @]
    /\ told' = [told EXCEPT ![r] = IF keeps THEN @ \cup {seen[r].answer} ELSE @]
    /\ seen' = [seen EXCEPT ![r] = None]
    /\ others' = [others EXCEPT ![ProjectOf[r]] = @ + 1]
    /\ UNCHANGED <<clock, out, page, phase, spent, settled, flying, ready, asked,
                   cut, loopVars>>

\* a place let go that wakes nobody
PlaceLeaves(p) ==
    /\ Quiet
    /\ others[p] > 0
    /\ others' = [others EXCEPT ![p] = @ - 1]
    /\ UNCHANGED <<tableVars, clock, out, page, phase, spent, checkVars, cut, loopVars>>

\* a place let go twice
FreeAgain(p) ==
    /\ Quiet
    /\ others' = [others EXCEPT ![p] = @ - 1]
    /\ Wake
    /\ UNCHANGED <<tableVars, clock, out, page, phase, spent, checkVars, cut>>

\* a freed place wakes the scheduler
FreePlace(p) ==
    /\ Quiet
    /\ others[p] > 0
    /\ others' = [others EXCEPT ![p] = @ - 1]
    /\ Wake
    /\ UNCHANGED <<tableVars, clock, out, page, phase, spent, checkVars, cut>>

TakePlace(p) ==
    /\ Spend("place")
    /\ phase = "up"
    /\ RoomFor(p)
    /\ others' = [others EXCEPT ![p] = @ + 1]
    /\ UNCHANGED <<tableVars, clock, out, page, phase, checkVars, cut, loopVars>>

----------------------------------------------------------------------------
(* Run now *)

\* the start that ends a Run now: a 409 and a 429 write nothing
Manual(r, held) ==
    IF ~Running(r) /\ RoomFor(ProjectOf[r]) THEN Starts(r, "manual", held)
    ELSE UNCHANGED <<tableVars, seen>>

RunNow(r) ==
    /\ Spend("run now")
    /\ phase = "up"
    /\ row[r].url = NoUrl
    /\ Manual(r, None)
    /\ UNCHANGED <<clock, out, page, others, phase, flying, ready, asked, told,
                   cut, loopVars>>

\* askNow(): the GET of a checked row's Run now goes out
AskNow(r) ==
    /\ Spend("run now")
    /\ phase = "up"
    /\ row[r].url # NoUrl
    /\ ~Running(r)
    /\ asked[r] = None
    /\ asked' = [asked EXCEPT ![r] = [url |-> row[r].url, rev |-> row[r].rev]]
    /\ UNCHANGED <<tableVars, clock, out, page, others, phase, flying, ready,
                   seen, told, cut, loopVars>>

\* its answer starts a run of the row it asked for, whatever it said;
\* changedSince() refuses an edited one
AnswersNow(r) ==
    /\ Quiet
    /\ asked[r] # None
    /\ \E result \in {"failed", "new"} :
          IF asked[r].url = row[r].url /\ asked[r].rev = row[r].rev
          THEN Manual(r, IF result = "failed" THEN None
                         ELSE [url |-> asked[r].url, rev |-> asked[r].rev,
                               version |-> page])
          ELSE UNCHANGED <<tableVars, seen>>
    /\ asked' = [asked EXCEPT ![r] = None]
    /\ UNCHANGED <<worldVars, flying, ready, told, cut, loopVars>>

----------------------------------------------------------------------------
(* The table's other writers *)

\* a save: its editor owns the row from now on, a new URL starts afresh
Save(r, u, url, next) ==
    /\ phase = "up"
    /\ u \notin out
    /\ row' = [row EXCEPT ![r].rev = @ + 1, ![r].owner = u, ![r].url = url,
                          ![r].saved = IF url # row[r].url THEN None ELSE @,
                          ![r].next = next]
    /\ Wake
    /\ UNCHANGED <<clock, out, page, others, phase, settled, checkVars, cut>>

EditUrl(r, u, url) ==
    /\ Spend("url")
    /\ url # row[r].url
    /\ Save(r, u, url, row[r].next)

EditField(r, u) == Spend("field") /\ Save(r, u, row[r].url, row[r].next)

\* a new schedule ends a wait
EditSchedule(r, u) ==
    /\ Spend("schedule")
    /\ row[r].next # Off
    /\ Save(r, u, row[r].url, NextFire(r, clock))

Suspend(r) ==
    /\ Spend("suspend")
    /\ phase = "up"
    /\ row' = [row EXCEPT
          ![r].next = IF row[r].next # Off THEN Off ELSE NextFire(r, clock),
          ![r].once = IF row[r].next = Off THEN "armed" ELSE @]
    /\ Wake
    /\ UNCHANGED <<clock, out, page, others, phase, settled, checkVars, cut>>

\* the owner is disabled or taken out of the project: no wake
LoseOwner(u) ==
    /\ Spend("owner")
    /\ u \notin out
    /\ out' = out \cup {u}
    /\ UNCHANGED <<tableVars, clock, page, others, phase, checkVars, cut, loopVars>>

PageMoves ==
    /\ Spend("page")
    /\ page' = page + 1
    /\ UNCHANGED <<tableVars, clock, out, others, phase, checkVars, cut, loopVars>>

----------------------------------------------------------------------------
(* The process *)

\* drain(), at the first signal
Drain ==
    /\ Quiet
    /\ "halt" \in Changes /\ spent < Budget
    /\ phase = "up"
    /\ phase' = "draining"
    /\ flying' = [r \in Rows |-> None]
    /\ ready' = [r \in Rows |-> None]
    /\ asked' = [r \in Rows |-> None]
    /\ Wake
    /\ UNCHANGED <<tableVars, clock, out, page, others, spent, seen, told, cut>>

\* the process ends, by its shutdown or a crash: what it held in memory is
\* gone, and its runs are cut, by the shutdown or the next start's repair
Halt ==
    /\ Spend("halt")
    /\ phase # "down"
    /\ phase' = "down"
    /\ row' = [r \in Rows |-> IF Running(r) THEN [row[r] EXCEPT !.last = "cut"]
                              ELSE row[r]]
    /\ flying' = [r \in Rows |-> None]
    /\ ready' = [r \in Rows |-> None]
    /\ asked' = [r \in Rows |-> None]
    /\ seen' = [r \in Rows |-> None]
    /\ others' = [p \in Projects |-> 0]
    /\ cut' = {}
    /\ full' = {}
    /\ loop' = "off"
    /\ list' = <<>>
    /\ passAt' = 0
    /\ moved' = FALSE
    /\ UNCHANGED <<clock, out, page, settled, told>>

\* start(): the cut runs are listed, and the first pass begins
Boot ==
    /\ phase = "down"
    /\ phase' = "up"
    /\ cut' = {r \in Rerun : row[r].last = "cut"}
    /\ loop' = "begin"
    /\ UNCHANGED <<tableVars, clock, out, page, others, spent, checkVars,
                   full, list, passAt, moved>>

Init ==
    /\ clock = 0
    /\ row = [r \in Rows |->
                [next |-> First[r], url |-> FirstUrl[r], rev |-> 0,
                 owner |-> FirstOwner, last |-> "none", once |-> "armed",
                 saved |-> None, deferred |-> Off]]
    /\ out = {}
    /\ page = 0
    /\ others = [p \in Projects |-> 0]
    /\ phase = "up"
    /\ flying = [r \in Rows |-> None]
    /\ ready = [r \in Rows |-> None]
    /\ asked = [r \in Rows |-> None]
    /\ seen = [r \in Rows |-> None]
    /\ cut = {}
    /\ full = {}
    /\ loop = "begin"
    /\ list = <<>>
    /\ passAt = 0
    /\ moved = FALSE
    /\ spent = 0
    /\ settled = [r \in Rows |-> Off]
    /\ told = [r \in Rows |-> {}]

Next ==
    \/ LoopStep
    \/ Tick
    \/ \E r \in Rows :
          \/ Answers(r) \/ RunNow(r) \/ AskNow(r) \/ AnswersNow(r) \/ Suspend(r)
          \/ \E how \in {"done", "interrupted", "cut"} : RunEnds(r, how)
          \/ \E u \in Users : \/ EditField(r, u) \/ EditSchedule(r, u)
                              \/ \E url \in Urls \cup {NoUrl} : EditUrl(r, u, url)
    \/ \E p \in Projects : TakePlace(p) \/ FreePlace(p)
    \/ \E u \in Users : LoseOwner(u)
    \/ PageMoves \/ Drain \/ Halt \/ Boot

Spec == Init /\ [][Next]_vars

\* Where the loop may wait but not stop: only its own steps, a wake and the
\* end of the process leave a point of a pass, so this is their fairness.
LoopGoesOn ==
    \A at \in {"begin", "firing", "yield", "asleep", "late"}, n \in 0..Cardinality(Rows) :
        []<>~(loop = at /\ Len(list) = n)

\* The loop goes on and its sleep ends; a GET ends within its timeout and a
\* run within its deadline, and an ended run lets its place go.
Fairness ==
    /\ LoopGoesOn
    /\ []<>(phase # "down")
    /\ \A r \in Rows : []<>(flying[r] = None) /\ []<>~Running(r)
    /\ \A p \in Projects : []<>(others[p] = 0)

FairSpec == Spec /\ Fairness

----------------------------------------------------------------------------
(* Properties *)

\* An occurrence is settled once: whatever took it (its own fire, a rerun,
\* a Run now, a skip, a quiet answer), next_at stays past it through every
\* edit, suspend and restart, so no run of it starts again.
SettledOnce == \A r \in Rows : row[r].next # Off => row[r].next > settled[r]

\* The validators a check sends are of the row's own URL, and of an answer
\* that a run had and ended with, uncut: no answer is held for known that
\* no run finished with.
SavedTold ==
    \A r \in Rows : row[r].saved # None =>
        row[r].saved.url = row[r].url /\ row[r].saved \in told[r]

RerunDone(r) ==
    \/ phase' = "down"
    \/ ~StillCut(r, row[r])
    \/ Running(r)'
    \/ row[r].owner \in out
    \/ ready[r] # None /\ Fresh(r, row[r], "restart", ready[r])
    \/ spent' > spent

\* A listed rerun that could still run leaves the list only with its run,
\* with a skip for an owner who cannot have one, with the answer it asked
\* for, of the row as it is, or with a failed start: a stale answer, an
\* edit or a full cap leaves it listed, to try again (the comment at
\* scheduler.ts:326, docs/automations.md on the restart rerun).
RerunKept == [][\A r \in cut \ cut' : RerunDone(r)]_vars

\* The same of a row whose check URL and owner are those its pass read, and
\* that was not suspended when it did.
RerunLeaves ==
    [][\A r \in cut \ cut' :
          \/ RerunDone(r)
          \/ LET was == Head(list).was
             IN  /\ list # <<>> /\ Head(list).id = r
                 /\ \/ was.url # row[r].url \/ was.owner # row[r].owner
                    \/ ~StillCut(r, was)
      ]_vars

\* The loop sleeps over a due row only while a wake is owed to it: a GET is
\* out, or a cap it marked is still full.  The generation, the marks and the
\* GETs are read and moved by the loop, by fires and by freed places in any
\* order, and none of these wakes is lost.
SleepsOwed ==
    loop = "asleep" /\ phase = "up" /\ (\E r \in Rows : Due(r)) =>
        \/ \E r \in Rows : flying[r] # None
        \/ "process" \in full /\ UsedAll >= ProcessCap
        \/ \E p \in full \cap Projects : Used(p) >= ProjectCap

Waiting(r) == phase = "up" /\ (Due(r) \/ StillCut(r, row[r]))

\* A due row and a listed rerun are dealt with in the end, no matter how
\* fires, answers, edits and full caps interleave.
WorkSettles ==
    \A r \in Rows : Waiting(r) ~> ~Waiting(r)

\* A run starts with the answer of the row it is a run of: no edit since
\* the ask moved its revision or its URL.
StartedOnItsAnswer ==
    [][ \A r \in Rows :
          seen'[r] # None /\ seen'[r] # seen[r] =>
              seen'[r].rev = row'[r].rev /\ seen'[r].answer.url = row'[r].url
      ]_vars
=============================================================================
