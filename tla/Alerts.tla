------------------------------- MODULE Alerts -------------------------------
(***************************************************************************)
(* An automation's open alert: automations/alerts.ts, sessions/alerts.ts   *)
(* and the check's part in automations/check-rows.ts, with the marks its   *)
(* runs end with (runner/marks.ts) and the decider asked afterwards        *)
(* (runner/attention.ts), all under src/server.                            *)
(*                                                                         *)
(* No table holds an alert's runs: they are the marked ones that ended at  *)
(* attention_since or later, and the check holds the alert while its mark  *)
(* is no older.  Each transaction is a step.                               *)
(***************************************************************************)
EXTENDS Integers, Sequences, FiniteSets, FiniteSetsExt

CONSTANTS
    Runs,           \* numbers, in the order they start
    Automations,
    AutomationOf,   \* [Runs -> Automations]
    Checked,        \* the automations with a check URL
    ASKS_AT_ONCE,   \* asks of the decider out at once
    MAX_QUEUED,     \* asks waiting
    MaxTime         \* bound: the clock

ASSUME AlertsAssumption ==
    /\ Runs \subseteq Nat /\ IsFiniteSet(Runs)
    /\ AutomationOf \in [Runs -> Automations]
    /\ Checked \subseteq Automations
    /\ ASKS_AT_ONCE \in Nat \ {0} /\ MAX_QUEUED \in Nat \ {0}
    /\ MaxTime \in Nat

VARIABLES
    now,
    run,     \* the sessions of the runs
    alert,   \* per automation: attention_since and check_alert_at
    phase,   \* of the process: "up", "closing", or "down" between two
    queue,   \* the asks that wait
    asking   \* the asks that are out

vars == <<now, run, alert, phase, queue, asking>>

None  == -1
Times == 0..MaxTime

\* at: last_activity_at, its end; passed: a stop, a shutdown or a restart
\* ended it
RunRows == [st : {"new", "running", "ended", "gone"}, at : Times,
            mark : BOOLEAN, passed : BOOLEAN]

Blank(st) == [st |-> st, at |-> 0, mark |-> FALSE, passed |-> FALSE]

AlertRows == [since : Times \cup {None}, check : Times \cup {None}]

Asks == asking \cup {queue[i] : i \in 1..Len(queue)}

\* within their bounds, each run asked about at most once, and only after an
\* end of its own that left it unmarked
AsksOK ==
    /\ queue \in Seq(Runs) /\ Len(queue) <= MAX_QUEUED
    /\ asking \subseteq Runs /\ Cardinality(asking) <= ASKS_AT_ONCE
    /\ \A i, j \in 1..Len(queue) :
          queue[i] \notin asking /\ (queue[i] = queue[j] => i = j)
    /\ \A r \in Asks :
          run[r].st \in {"ended", "gone"} /\ ~run[r].mark /\ ~run[r].passed

\* an automation has one run at a time, and a mark was not cut
RunsOK ==
    /\ \A r, s \in Runs :
          run[r].st = "running" /\ run[s].st = "running"
          /\ AutomationOf[r] = AutomationOf[s] => r = s
    /\ \A r \in Runs : run[r].mark => run[r].st = "ended" /\ ~run[r].passed

TypeOK ==
    /\ now \in Times
    /\ run \in [Runs -> RunRows] /\ RunsOK
    /\ alert \in [Automations -> AlertRows]
    /\ phase \in {"up", "closing", "down"}
    /\ AsksOK

----------------------------------------------------------------------------
(* Reading the tables.  al is an automation's row, rs the runs *)

IsOpen(al) == al.since # None

\* the marked runs of the open alert
AlertRuns(al, rs, a) ==
    {r \in Runs : /\ AutomationOf[r] = a
                  /\ rs[r].st = "ended" /\ rs[r].mark
                  /\ rs[r].at >= al.since}

\* the check opened the alert or joined it
CheckHolds(al) == IsOpen(al) /\ al.check >= al.since

\* a run that ended at the same time never counts
EndedLater(rs, r, tie) ==
    \E s \in Runs \ {r} :
        /\ AutomationOf[s] = AutomationOf[r]
        /\ rs[s].st = "ended" /\ ~rs[s].passed
        /\ rs[s].at > rs[r].at

\* another run of the automation, which had its say, ended after r; with
\* tie, at the same time too
EndedAfter(rs, r, tie) ==
    \E s \in Runs \ {r} :
        /\ AutomationOf[s] = AutomationOf[r]
        /\ rs[s].st = "ended" /\ ~rs[s].passed
        /\ rs[s].at > rs[r].at \/ (tie /\ rs[s].at = rs[r].at)

----------------------------------------------------------------------------
(* What moves an alert *)

\* a clean run closes the alert, but for a check that held it after its end
ClosedByRun(al, at) ==
    LET stays == IF CheckHolds(al) /\ al.check > at THEN al.check ELSE None
    IN  IF IsOpen(al) THEN [since |-> stays, check |-> stays] ELSE al

\* a marked run opens the alert at its end, or joins it
OpenedByRun(al, at) == IF IsOpen(al) THEN al ELSE [al EXCEPT !.since = at]

\* the word of the run r, at its end or later: "open", "close" or "none"
Word(al, rs, r, word) ==
    IF rs[r].st # "ended" \/ EndedAfter(rs, r, word = "close") THEN al
    ELSE CASE word = "open"  -> OpenedByRun(al, rs[r].at)
           [] word = "close" -> ClosedByRun(al, rs[r].at)
           [] word = "none"  -> al

\* a check that fails once it was silent for long
FailedCheck(al, at) ==
    IF IsOpen(al) THEN [al EXCEPT !.check = at]
    ELSE IF al.check = None THEN [since |-> at, check |-> at] ELSE al

\* a check that answers, or is given another URL
AnsweredCheck(al, rs, a) ==
    [since |-> IF CheckHolds(al) /\ AlertRuns(al, rs, a) = {} THEN None
               ELSE al.since,
     check |-> None]

\* a dismissed check's mark keeps the alert of deleted runs open
EmptiedUnmarked(al, rs, a) ==
    IF al.check = None /\ AlertRuns(al, rs, a) = {} THEN [al EXCEPT !.since = None]
    ELSE al

\* once a run was deleted
Emptied(al, rs, a) ==
    IF ~CheckHolds(al) /\ AlertRuns(al, rs, a) = {} THEN [al EXCEPT !.since = None]
    ELSE al

----------------------------------------------------------------------------
(* The end of a run *)

\* an end: its cause; the automation's attention mode at its start; what
\* the agent said in the attention step; whether a budget cut it short;
\* whether a Stop or a shutdown came after its answer
Ends == [cause : {"finish", "failure", "deadline", "stop", "shutdown"},
         mode : {"off", "agent", "decider"},
         said : BOOLEAN, limit : BOOLEAN, interrupted : BOOLEAN]

RunMark(e) ==
    /\ e.mode # "off"
    /\ \/ e.said
       \/ e.cause \in {"failure", "deadline"}
       \/ e.cause = "finish" /\ e.limit

DecidesLater(e) ==
    e.cause = "finish" /\ ~e.interrupted /\ e.mode = "decider" /\ ~RunMark(e)

AlertChange(e) ==
    IF e.cause \in {"stop", "shutdown"} THEN "none"
    ELSE IF RunMark(e) THEN "open"
    ELSE IF e.cause = "finish" /\ ~e.interrupted /\ ~DecidesLater(e) THEN "close"
    ELSE "none"

\* the ends there are: the agent is asked after a finish the runner did not
\* mark, and what the process cuts is a shutdown's or interrupted
Ending(e) ==
    /\ e.said => e.cause = "finish" /\ ~e.limit
    /\ e.limit => e.cause = "finish"
    /\ e.interrupted => e.cause # "shutdown"
    /\ phase = "closing" => e.cause = "shutdown" \/ e.interrupted
    /\ phase = "up" => e.cause # "shutdown"

\* next() before the ask that ended is counted out
StartAsksEarly(waiting, out) ==
    LET n == Min({ASKS_AT_ONCE - Cardinality(asking), Len(waiting)})
    IN  /\ asking' = out \cup {waiting[i] : i \in 1..n}
        /\ queue' = SubSeq(waiting, n + 1, Len(waiting))

\* next(): the asks that start, of those that wait
StartAsks(waiting, out) ==
    LET n == Min({ASKS_AT_ONCE - Cardinality(out), Len(waiting)})
    IN  /\ asking' = out \cup {waiting[i] : i \in 1..n}
        /\ queue' = SubSeq(waiting, n + 1, Len(waiting))

\* one ask more than the queue holds
DropsPastLimit == Len(queue) > MAX_QUEUED

\* a full queue drops its oldest ask, whose run ends as a clean one does
DropsOldest == Len(queue) >= MAX_QUEUED

Dropped(al, rs) ==
    [al EXCEPT ![AutomationOf[Head(queue)]] = Word(@, rs, Head(queue), "close")]

Ask(r, al, rs) ==
    /\ alert' = IF DropsOldest THEN Dropped(al, rs) ELSE al
    /\ StartAsks(Append(IF DropsOldest THEN Tail(queue) ELSE queue, r), asking)

Start(r) ==
    /\ phase = "up" /\ run[r].st = "new"
    /\ \A s \in Runs : AutomationOf[s] = AutomationOf[r] =>
          run[s].st # "running" /\ (run[s].st = "new" => r <= s)
    /\ run' = [run EXCEPT ![r].st = "running"]
    /\ UNCHANGED <<now, alert, phase, queue, asking>>

\* finalizeSend() and, after it, attention.ask()
End(r, e) ==
    /\ phase # "down" /\ run[r].st = "running" /\ Ending(e)
    /\ run' = [run EXCEPT ![r] = [st |-> "ended", at |-> now, mark |-> RunMark(e),
                                  passed |-> e.cause \in {"stop", "shutdown"}]]
    /\ LET a == AutomationOf[r]
           al == [alert EXCEPT ![a] = Word(@, run', r, AlertChange(e))]
       IN  IF DecidesLater(e) THEN Ask(r, al, run')
           ELSE alert' = al /\ UNCHANGED <<queue, asking>>
    /\ UNCHANGED <<now, phase>>

----------------------------------------------------------------------------
(* The decider *)

\* how an ask ends: its chance is over the mark or under it, nobody
\* decided, or nothing is written: the write failed, or the process closes
Outcomes == {"mark", "clean", "undecided", "lost"}

WordOf(outcome) == CASE outcome = "mark" -> "open"
                     [] outcome \in {"clean", "undecided"} -> "close"
                     [] outcome = "lost" -> "none"

AskEnds(r, outcome) ==
    /\ phase # "down" /\ r \in asking
    /\ phase = "closing" => outcome # "undecided"
    /\ run' = [run EXCEPT ![r].mark = @ \/ (outcome = "mark" /\ run[r].st = "ended")]
    /\ alert' = [alert EXCEPT ![AutomationOf[r]] = Word(@, run', r, WordOf(outcome))]
    /\ StartAsks(queue, asking \ {r})
    /\ UNCHANGED <<now, phase>>

----------------------------------------------------------------------------
(* The check, the users and the process *)

CheckFails(a) ==
    /\ phase = "up" /\ a \in Checked
    /\ alert' = [alert EXCEPT ![a] = FailedCheck(@, now)]
    /\ UNCHANGED <<now, run, phase, queue, asking>>

CheckAnswers(a) ==
    /\ phase = "up" /\ alert[a].check # None
    /\ alert' = [alert EXCEPT ![a] = AnsweredCheck(@, run, a)]
    /\ UNCHANGED <<now, run, phase, queue, asking>>

\* the check's mark stays, so that it does not open the alert again
Dismiss(a) ==
    /\ phase # "down"
    /\ alert' = [alert EXCEPT ![a].since = None]
    /\ UNCHANGED <<now, run, phase, queue, asking>>

Delete(r) ==
    /\ phase # "down" /\ run[r].st = "ended"
    /\ run' = [run EXCEPT ![r] = Blank("gone")]
    /\ LET a == AutomationOf[r]
       IN  alert' = IF run[r].mark THEN [alert EXCEPT ![a] = Emptied(@, run', a)]
                    ELSE alert
    /\ UNCHANGED <<now, phase, queue, asking>>

\* the shutdown of the runner: nothing is asked from here
Close ==
    /\ phase = "up"
    /\ phase' = "closing"
    /\ queue' = <<>>
    /\ UNCHANGED <<now, run, alert, asking>>

\* the process goes, at the end of its shutdown or at any time
Gone ==
    /\ phase # "down"
    /\ phase' = "down"
    /\ queue' = <<>> /\ asking' = {}
    /\ UNCHANGED <<now, run, alert>>

\* the repair at start ends the runs that were going
Boot ==
    /\ phase = "down"
    /\ phase' = "up"
    /\ run' = [r \in Runs |->
          IF run[r].st = "running"
          THEN [st |-> "ended", at |-> now, mark |-> FALSE, passed |-> TRUE]
          ELSE run[r]]
    /\ UNCHANGED <<now, alert, queue, asking>>

Tick ==
    /\ now < MaxTime
    /\ now' = now + 1
    /\ UNCHANGED <<run, alert, phase, queue, asking>>

Init ==
    /\ now = 0
    /\ run = [r \in Runs |-> Blank("new")]
    /\ alert = [a \in Automations |-> [since |-> None, check |-> None]]
    /\ phase = "up"
    /\ queue = <<>> /\ asking = {}

Next ==
    \/ \E r \in Runs : Start(r) \/ Delete(r)
    \/ \E r \in Runs, e \in Ends : End(r, e)
    \/ \E r \in Runs, outcome \in Outcomes : AskEnds(r, outcome)
    \/ \E a \in Automations : CheckFails(a) \/ CheckAnswers(a) \/ Dismiss(a)
    \/ Close \/ Gone \/ Boot \/ Tick

Spec == Init /\ [][Next]_vars

\* an ask ends: the decider answers, or its request times out
FairSpec ==
    Spec /\ \A r \in Runs : WF_vars(\E outcome \in Outcomes : AskEnds(r, outcome))

----------------------------------------------------------------------------
(* Properties *)

\* the check among an alert's calls, which is no run
Check == -1

\* what an alert calls a person for: its marked runs, and the check
Calls(al, rs, a) ==
    IF ~IsOpen(al) THEN {}
    ELSE AlertRuns(al, rs, a) \cup (IF CheckHolds(al) THEN {Check} ELSE {})

\* An open alert always has something to look at: a marked run of its own
\* or the check, whatever was deleted, answered or decided late.
OpenHasCause ==
    \A a \in Automations : IsOpen(alert[a]) => Calls(alert[a], run, a) # {}

\* the run r says in this step that nobody is needed
SaysClean(r) ==
    /\ run'[r].st = "ended" /\ ~run'[r].mark /\ ~run'[r].passed
    /\ run[r].st = "running" \/ r \in Asks \ Asks'

\* a call may go from the alert of a in this step
MayGo(a, c) ==
    \/ /\ UNCHANGED <<run, queue, asking>>
       /\ alert'[a] = [alert[a] EXCEPT !.since = None]
    \/ c = Check /\ alert'[a].check = None /\ run' = run
    \/ c # Check /\ run'[c].st = "gone"
    \/ \E r \in Runs : /\ AutomationOf[r] = a /\ SaysClean(r)
                       /\ IF c = Check THEN alert[a].check <= run'[r].at
                          ELSE run[c].at < run'[r].at

\* the calls that go from an alert in this step
Stands ==
    \A a \in Automations :
        \A c \in Calls(alert[a], run, a) \ Calls(alert'[a], run', a) : MayGo(a, c)

\* where the marks of this step are heard
Heard ==
    \A r \in Runs : run'[r].mark /\ ~run[r].mark =>
        LET a == AutomationOf[r]
        IN  \/ r \in Calls(alert'[a], run', a)
            \/ EndedAfter(run', r, FALSE)
            \/ CheckHolds(alert[a]) /\ alert[a].since > run'[r].at

\* A call stands until a user dismisses the alert or deletes the run, the
\* check answers, or a later run says nobody is needed: no
\* late answer of a decider and no check takes away what a newer run, or
\* any run, called for.  And a mark is heard: unless a newer run had its
\* say, the marked run is in the open alert, but where the check opened that
\* one after the run's end.
CallsStand == [][Stands /\ Heard]_vars

\* Every ask of the decider comes to an end, at the queue's limit and
\* through a shutdown too.
AsksSettle == \A r \in Runs : r \in Asks ~> r \notin Asks
=============================================================================
