---------------------------- MODULE AlertsProofs ----------------------------
(***************************************************************************)
(* Proofs about Alerts, for every number of runs and automations and any   *)
(* size of the decider's queue.                                            *)
(***************************************************************************)
EXTENDS Alerts, FiniteSetTheorems, SequenceTheorems, TLAPS

USE AlertsAssumption

\* an open alert has a marked run of its own, or the check holds it
HasCause(al, rs, a) ==
    IsOpen(al) => AlertRuns(al, rs, a) # {} \/ CheckHolds(al)

\* an alert al of the automation a that may be, with the runs rs: nothing of
\* it is of the future, so that a check that fails now holds what it joins
Sound(al, rs, a) ==
    /\ al \in AlertRows
    /\ al.since <= now /\ al.check <= now
    /\ HasCause(al, rs, a)

RunsInv == run \in [Runs -> RunRows] /\ \A r \in Runs : run[r].at <= now

AlertInv ==
    /\ now \in Times
    /\ RunsInv
    /\ alert \in [Automations -> AlertRows]
    /\ \A a \in Automations : Sound(alert[a], run, a)

\* an ended run stays as it is, but for a mark it may get
Keeps(rs, new) ==
    \A r \in Runs : rs[r].st = "ended" =>
        new[r].st = "ended" /\ new[r].at = rs[r].at /\ (rs[r].mark => new[r].mark)

----------------------------------------------------------------------------
(* What the parts of a step do *)

LEMMA StaysSound ==
    ASSUME NEW al, NEW rs, NEW new, NEW a, Sound(al, rs, a), Keeps(rs, new)
    PROVE  Sound(al, new, a)
  BY DEF Sound, Keeps, HasCause, AlertRuns

\* a close leaves the alert, ends it, or leaves it to the check that holds it
LEMMA Closed ==
    ASSUME NEW al, NEW at
    PROVE  \/ ClosedByRun(al, at) = al
           \/ ClosedByRun(al, at) = [since |-> None, check |-> None]
           \/ /\ CheckHolds(al)
              /\ ClosedByRun(al, at) = [since |-> al.check, check |-> al.check]
  BY Zenon DEF ClosedByRun

LEMMA ClosedSound ==
    ASSUME NEW al, NEW rs, NEW a, NEW at, now \in Times, Sound(al, rs, a)
    PROVE  Sound(ClosedByRun(al, at), rs, a)
<1> DEFINE bl == ClosedByRun(al, at)
<1>1. CASE bl = al
  BY <1>1
<1>2. CASE bl = [since |-> None, check |-> None]
  BY <1>2 DEF Sound, HasCause, IsOpen, AlertRows, Times, None
<1>3. CASE CheckHolds(al) /\ bl = [since |-> al.check, check |-> al.check]
  BY <1>3 DEF Sound, HasCause, CheckHolds, IsOpen, AlertRows, Times, None
<1> QED BY <1>1, <1>2, <1>3, Closed

\* an opening run is a marked one that ended by now
LEMMA OpenedSound ==
    ASSUME NEW al, NEW rs \in [Runs -> RunRows], NEW r \in Runs, now \in Times,
           rs[r].st = "ended", rs[r].mark, rs[r].at <= now,
           Sound(al, rs, AutomationOf[r])
    PROVE  Sound(OpenedByRun(al, rs[r].at), rs, AutomationOf[r])
<1>1. CASE IsOpen(al)
  BY <1>1 DEF OpenedByRun
<1>2. CASE ~IsOpen(al)
  <2> DEFINE bl == [al EXCEPT !.since = rs[r].at]
  <2>1. rs[r].at \in Times /\ al \in AlertRows
    BY DEF RunRows, Sound
  <2>2. bl = [since |-> rs[r].at, check |-> al.check] /\ bl \in AlertRows
    BY <2>1 DEF AlertRows
  <2>3. r \in AlertRuns(bl, rs, AutomationOf[r])
    BY <2>1, <2>2 DEF AlertRuns, Times
  <2>4. Sound(bl, rs, AutomationOf[r])
    BY <2>2, <2>3 DEF Sound, HasCause
  <2> QED BY <1>2, <2>4, Zenon DEF OpenedByRun
<1> QED BY <1>1, <1>2

\* a run says "open" with its mark on
LEMMA WordSound ==
    ASSUME NEW al, NEW rs \in [Runs -> RunRows], NEW r \in Runs, now \in Times,
           NEW word \in {"open", "close", "none"},
           rs[r].at <= now, rs[r].st = "ended" /\ word = "open" => rs[r].mark,
           Sound(al, rs, AutomationOf[r])
    PROVE  Sound(Word(al, rs, r, word), rs, AutomationOf[r])
<1>1. CASE rs[r].st # "ended" \/ EndedAfter(rs, r, word = "close")
  BY <1>1, Zenon DEF Word
<1>2. CASE rs[r].st = "ended" /\ ~EndedAfter(rs, r, word = "close")
  <2>1. CASE word = "open"
    <3>1. Word(al, rs, r, word) = OpenedByRun(al, rs[r].at)
      BY <1>2, <2>1 DEF Word
    <3> QED BY <1>2, <2>1, <3>1, OpenedSound
  <2>2. CASE word = "close"
    <3>1. Word(al, rs, r, word) = ClosedByRun(al, rs[r].at)
      BY <1>2, <2>2 DEF Word
    <3> QED BY <3>1, ClosedSound
  <2>3. CASE word = "none"
    <3>1. Word(al, rs, r, word) = al
      BY <1>2, <2>3 DEF Word
    <3> QED BY <3>1
  <2> QED BY <2>1, <2>2, <2>3
<1> QED BY <1>1, <1>2

\* the word "close" of whatever was asked leaves a sound alert
LEMMA CloseSound ==
    ASSUME NEW al, NEW rs, NEW a, NEW q, now \in Times, Sound(al, rs, a)
    PROVE  Sound(Word(al, rs, q, "close"), rs, a)
<1>1. Word(al, rs, q, "close") \in {al, ClosedByRun(al, rs[q].at)}
  BY DEF Word
<1> QED BY <1>1, ClosedSound

LEMMA CheckFailsSound ==
    ASSUME NEW al, NEW rs, NEW a, now \in Times, Sound(al, rs, a)
    PROVE  Sound(FailedCheck(al, now), rs, a)
<1>1. CASE IsOpen(al)
  <2>1. FailedCheck(al, now) = [since |-> al.since, check |-> now]
    BY <1>1 DEF FailedCheck, Sound, AlertRows
  <2> QED BY <1>1, <2>1 DEF Sound, HasCause, CheckHolds, IsOpen, AlertRows, Times, None
<1>2. CASE ~IsOpen(al) /\ al.check = None
  <2>1. FailedCheck(al, now) = [since |-> now, check |-> now]
    BY <1>2 DEF FailedCheck
  <2> QED BY <1>2, <2>1 DEF Sound, HasCause, CheckHolds, IsOpen, AlertRows, Times, None
<1>3. CASE ~IsOpen(al) /\ al.check # None
  BY <1>3 DEF FailedCheck
<1> QED BY <1>1, <1>2, <1>3

LEMMA CheckAnswersSound ==
    ASSUME NEW al, NEW rs, NEW a, now \in Times, Sound(al, rs, a)
    PROVE  Sound(AnsweredCheck(al, rs, a), rs, a)
<1> DEFINE bl == AnsweredCheck(al, rs, a)
<1>1. CASE CheckHolds(al) /\ AlertRuns(al, rs, a) = {}
  <2>1. bl = [since |-> None, check |-> None]
    BY <1>1 DEF AnsweredCheck
  <2> QED BY <2>1 DEF Sound, HasCause, IsOpen, AlertRows, Times, None
<1>2. CASE ~(CheckHolds(al) /\ AlertRuns(al, rs, a) = {})
  <2>1. bl = [since |-> al.since, check |-> None]
    BY <1>2 DEF AnsweredCheck
  <2>2. AlertRuns(bl, rs, a) = AlertRuns(al, rs, a) /\ (IsOpen(bl) <=> IsOpen(al))
    BY <2>1 DEF AlertRuns, IsOpen
  <2>3. HasCause(bl, rs, a)
    BY <1>2, <2>2 DEF Sound, HasCause
  <2> QED BY <2>1, <2>3 DEF Sound, AlertRows, Times, None
<1> QED BY <1>1, <1>2

----------------------------------------------------------------------------
(* The steps *)

LEMMA InitInv == Init => AlertInv
  BY DEF Init, AlertInv, RunsInv, RunRows, Blank, AlertRows, Sound, HasCause,
         IsOpen, Times, None

\* a step in which the runs only end or get marks, and each alert becomes a
\* sound one
LEMMA StepOf ==
    ASSUME AlertInv, now' = now, RunsInv',
           alert' \in [Automations -> AlertRows],
           \A a \in Automations : Sound(alert'[a], run', a)
    PROVE  AlertInv'
  BY DEF AlertInv, Sound

LEMMA StartInv ==
    ASSUME AlertInv, NEW r \in Runs, Start(r)
    PROVE  AlertInv'
<1> USE DEF AlertInv
<1>1. RunsInv'
  BY DEF Start, RunsInv, RunRows
<1>2. Keeps(run, run')
  BY DEF Start, RunsInv, RunRows, Keeps
<1>3. \A a \in Automations : Sound(alert[a], run', a)
  BY <1>2, StaysSound
<1> QED BY <1>1, <1>3, StepOf DEF Start

LEMMA EndInv ==
    ASSUME AlertInv, NEW r \in Runs, NEW e \in Ends, End(r, e)
    PROVE  AlertInv'
<1> DEFINE a == AutomationOf[r]
           word == AlertChange(e)
           al == [alert EXCEPT ![a] = Word(@, run', r, word)]
<1>1. /\ now \in Times /\ now' = now /\ a \in Automations
      /\ run \in [Runs -> RunRows] /\ alert \in [Automations -> AlertRows]
      /\ \A b \in Automations : Sound(alert[b], run, b)
  BY DEF AlertInv, RunsInv, End
<1>2. run' = [run EXCEPT ![r] = [st |-> "ended", at |-> now, mark |-> RunMark(e),
                                  passed |-> e.cause \in {"stop", "shutdown"}]]
  BY DEF End
<1>3. RunMark(e) \in BOOLEAN
  BY DEF RunMark, Ends
<1>4. RunsInv' /\ run' \in [Runs -> RunRows] /\ run'[r].at <= now
      /\ run'[r].mark = RunMark(e)
  BY <1>1, <1>2, <1>3 DEF AlertInv, RunsInv, RunRows, Times
<1>5. Keeps(run, run')
  BY <1>1, <1>2 DEF End, Keeps, RunRows
<1>6. \A b \in Automations : Sound(alert[b], run', b)
  BY <1>1, <1>5, StaysSound
<1>7. word \in {"open", "close", "none"} /\ (word = "open" => RunMark(e))
  BY DEF AlertChange
<1>8. Sound(Word(alert[a], run', r, word), run', a)
  <2> HIDE DEF word, a
  <2>1. Sound(alert[AutomationOf[r]], run', AutomationOf[r])
    BY <1>1, <1>6 DEF a
  <2> QED BY <1>1, <1>4, <1>7, <2>1, WordSound DEF a
<1>9. al \in [Automations -> AlertRows] /\ \A b \in Automations : Sound(al[b], run', b)
  <2> HIDE DEF word, a
  <2>1. Word(alert[a], run', r, word) \in AlertRows
    BY <1>8 DEF Sound
  <2> QED BY <1>1, <1>6, <1>8, <2>1
<1> HIDE DEF word, a, al
<1>10. CASE ~DecidesLater(e) \/ ~DropsOldest
  <2>1. alert' = al
    BY <1>10 DEF End, Ask, al, a, word
  <2> QED BY <1>1, <1>4, <1>9, <2>1, StepOf
<1>11. CASE DecidesLater(e) /\ DropsOldest
  <2> DEFINE q == Head(queue)
             c == AutomationOf[q]
  <2>1. alert' = [al EXCEPT ![c] = Word(@, run', q, "close")]
    BY <1>11 DEF End, Ask, Dropped, al, a, word
  <2> HIDE DEF q, c
  <2>2. \A b \in Automations : Sound(Word(al[b], run', q, "close"), run', b)
    BY <1>1, <1>9, CloseSound
  <2>3. \A b \in Automations :
           alert'[b] = IF b = c THEN Word(al[b], run', q, "close") ELSE al[b]
    BY <1>9, <2>1
  <2>4. \A b \in Automations : Sound(alert'[b], run', b)
    BY <1>9, <2>2, <2>3
  <2>5. alert' \in [Automations -> AlertRows]
    BY <1>9, <2>1, <2>3, <2>4 DEF Sound
  <2> QED BY <1>1, <1>4, <2>4, <2>5, StepOf
<1> QED BY <1>10, <1>11

LEMMA AskEndsInv ==
    ASSUME AlertInv, NEW r \in Runs, NEW outcome \in Outcomes, AskEnds(r, outcome)
    PROVE  AlertInv'
<1> DEFINE a == AutomationOf[r]
           word == WordOf(outcome)
<1>1. /\ now \in Times /\ now' = now /\ a \in Automations
      /\ run \in [Runs -> RunRows] /\ alert \in [Automations -> AlertRows]
      /\ \A b \in Automations : Sound(alert[b], run, b)
  BY DEF AlertInv, RunsInv, AskEnds
<1>2. run' = [run EXCEPT ![r].mark = @ \/ (outcome = "mark" /\ run[r].st = "ended")]
  BY DEF AskEnds
<1>3. /\ RunsInv' /\ run' \in [Runs -> RunRows] /\ run'[r].at <= now
      /\ run'[r].st = run[r].st
      /\ outcome = "mark" /\ run[r].st = "ended" => run'[r].mark
  <2> DEFINE marked == run[r].mark \/ (outcome = "mark" /\ run[r].st = "ended")
             bl == [st |-> run[r].st, at |-> run[r].at, mark |-> marked,
                    passed |-> run[r].passed]
  <2>1. run[r] \in RunRows /\ \A s \in Runs : run[s].at <= now
    BY <1>1 DEF AlertInv, RunsInv
  <2>2. marked \in BOOLEAN
    BY <2>1 DEF RunRows
  <2>3. [run[r] EXCEPT !.mark = marked] = bl
    BY <2>1 DEF RunRows
  <2>4. run' = [run EXCEPT ![r] = [run[r] EXCEPT !.mark = marked]]
    BY <1>2
  <2>5. run' = [run EXCEPT ![r] = bl]
    BY <2>3, <2>4, Zenon
  <2>6. bl.st = run[r].st /\ bl.at = run[r].at /\ bl.mark = marked
    OBVIOUS
  <2> HIDE DEF marked
  <2>7. bl \in RunRows
    BY <2>1, <2>2 DEF RunRows
  <2> HIDE DEF bl
  <2>8. run' \in [Runs -> RunRows] /\ run'[r] = bl
        /\ \A s \in Runs : s # r => run'[s] = run[s]
    BY <1>1, <2>5, <2>7
  <2>9. RunsInv'
    BY <1>1, <2>1, <2>6, <2>8 DEF RunsInv
  <2>10. outcome = "mark" /\ run[r].st = "ended" => run'[r].mark
    BY <2>6, <2>8, Zenon DEF marked
  <2> QED BY <2>1, <2>6, <2>8, <2>9, <2>10, Zenon
<1>4. Keeps(run, run')
  BY <1>1, <1>2 DEF Keeps, RunRows
<1>5. \A b \in Automations : Sound(alert[b], run', b)
  BY <1>1, <1>4, StaysSound
<1>6. word \in {"open", "close", "none"} /\ (word = "open" => outcome = "mark")
  BY DEF WordOf, Outcomes
<1>7. alert' = [alert EXCEPT ![a] = Word(@, run', r, word)]
  BY DEF AskEnds
<1>8. Sound(Word(alert[a], run', r, word), run', a)
  <2> HIDE DEF word, a
  <2>1. Sound(alert[AutomationOf[r]], run', AutomationOf[r])
    BY <1>1, <1>5 DEF a
  <2> QED BY <1>1, <1>3, <1>6, <2>1, WordSound DEF a
<1> HIDE DEF word, a
<1>9. alert' \in [Automations -> AlertRows] /\ \A b \in Automations : Sound(alert'[b], run', b)
  <2>1. Word(alert[a], run', r, word) \in AlertRows
    BY <1>8 DEF Sound
  <2> QED BY <1>1, <1>5, <1>7, <1>8, <2>1
<1> QED BY <1>1, <1>3, <1>9, StepOf

LEMMA CheckInv ==
    ASSUME AlertInv, NEW a \in Automations,
           CheckFails(a) \/ CheckAnswers(a) \/ Dismiss(a)
    PROVE  AlertInv'
<1>1. /\ now \in Times /\ now' = now /\ run' = run /\ RunsInv /\ RunsInv'
      /\ alert \in [Automations -> AlertRows]
      /\ \A b \in Automations : Sound(alert[b], run, b)
  BY DEF AlertInv, RunsInv, CheckFails, CheckAnswers, Dismiss
<1>2. PICK bl : alert' = [alert EXCEPT ![a] = bl] /\ Sound(bl, run, a)
  <2>1. CASE CheckFails(a)
    <3>1. Sound(FailedCheck(alert[a], now), run, a)
      BY <1>1, CheckFailsSound
    <3> QED BY <2>1, <3>1 DEF CheckFails
  <2>2. CASE CheckAnswers(a)
    <3>1. Sound(AnsweredCheck(alert[a], run, a), run, a)
      BY <1>1, CheckAnswersSound
    <3> QED BY <2>2, <3>1 DEF CheckAnswers
  <2>3. CASE Dismiss(a)
    <3> DEFINE closed == [since |-> None, check |-> alert[a].check]
    <3>1. [alert[a] EXCEPT !.since = None] = closed
      BY <1>1 DEF AlertRows
    <3>2. alert' = [alert EXCEPT ![a] = [alert[a] EXCEPT !.since = None]]
      BY <2>3 DEF Dismiss
    <3>3. alert' = [alert EXCEPT ![a] = closed]
      BY <3>1, <3>2, Zenon
    <3>4. Sound(closed, run, a)
      BY <1>1 DEF Sound, HasCause, IsOpen, AlertRows, Times, None
    <3> QED BY <3>3, <3>4
  <2> QED BY <2>1, <2>2, <2>3
<1>3. alert' \in [Automations -> AlertRows] /\ \A b \in Automations : Sound(alert'[b], run', b)
  BY <1>1, <1>2 DEF Sound
<1> QED BY <1>1, <1>3, StepOf

LEMMA DeleteInv ==
    ASSUME AlertInv, NEW r \in Runs, Delete(r)
    PROVE  AlertInv'
<1> DEFINE a == AutomationOf[r]
<1>1. /\ now \in Times /\ now' = now /\ a \in Automations
      /\ run \in [Runs -> RunRows] /\ alert \in [Automations -> AlertRows]
      /\ \A b \in Automations : Sound(alert[b], run, b)
  BY DEF AlertInv, RunsInv, Delete
<1>2. run' = [run EXCEPT ![r] = [st |-> "gone", at |-> 0, mark |-> FALSE,
                                  passed |-> FALSE]]
  BY DEF Delete, Blank
<1>3. RunsInv'
  BY <1>1, <1>2 DEF AlertInv, RunsInv, RunRows, Times
<1>4. \A b \in Automations : b # a \/ ~run[r].mark =>
         AlertRuns(alert[b], run', b) = AlertRuns(alert[b], run, b)
  BY <1>1, <1>2 DEF AlertRuns, RunRows
<1>5. \A b \in Automations : b # a \/ ~run[r].mark => Sound(alert[b], run', b)
  BY <1>1, <1>4 DEF Sound, HasCause
<1>6. CASE ~run[r].mark
  <2>1. alert' = alert
    BY <1>6 DEF Delete
  <2> QED BY <1>1, <1>3, <1>5, <1>6, <2>1, StepOf
<1>7. CASE run[r].mark
  <2> DEFINE bl == Emptied(alert[a], run', a)
  <2>1. alert' = [alert EXCEPT ![a] = bl]
    BY <1>7 DEF Delete
  <2>2. Sound(bl, run', a)
    <3>1. CASE ~CheckHolds(alert[a]) /\ AlertRuns(alert[a], run', a) = {}
      <4>1. bl = [since |-> None, check |-> alert[a].check]
        BY <1>1, <3>1 DEF Emptied, AlertRows
      <4> QED BY <1>1, <4>1 DEF Sound, HasCause, IsOpen, AlertRows, Times, None
    <3>2. CASE ~(~CheckHolds(alert[a]) /\ AlertRuns(alert[a], run', a) = {})
      <4>1. bl = alert[a]
        BY <3>2 DEF Emptied
      <4> QED BY <1>1, <3>2, <4>1 DEF Sound, HasCause
    <3> QED BY <3>1, <3>2
  <2> HIDE DEF bl, a
  <2>3. alert' \in [Automations -> AlertRows] /\ \A b \in Automations : Sound(alert'[b], run', b)
    BY <1>1, <1>5, <2>1, <2>2 DEF Sound
  <2> QED BY <1>1, <1>3, <2>3, StepOf
<1> QED BY <1>6, <1>7

LEMMA ProcessInv ==
    ASSUME AlertInv, Close \/ Gone \/ Boot \/ Tick
    PROVE  AlertInv'
<1>1. CASE Close \/ Gone
  BY <1>1, StepOf DEF Close, Gone, AlertInv, RunsInv
<1>2. CASE Boot
  <2> DEFINE cut == [st |-> "ended", at |-> now, mark |-> FALSE, passed |-> TRUE]
  <2>0. /\ now \in Times /\ now' = now
        /\ \A r \in Runs : run[r] \in RunRows /\ run[r].at <= now
    BY <1>2 DEF Boot, AlertInv, RunsInv
  <2>a. cut \in RunRows /\ cut.at <= now /\ cut.st = "ended"
    BY <2>0 DEF RunRows, Times
  <2>b. \A r \in Runs : run'[r] = IF run[r].st = "running" THEN cut ELSE run[r]
    BY <1>2 DEF Boot
  <2>c. run' = [r \in Runs |-> run'[r]]
    BY <1>2 DEF Boot
  <2> HIDE DEF cut
  <2>d. RunsInv'
    BY <2>0, <2>a, <2>b, <2>c DEF RunsInv
  <2>1. RunsInv' /\ Keeps(run, run')
    BY <2>b, <2>d DEF Keeps
  <2>2. \A a \in Automations : Sound(alert[a], run', a)
    BY <2>1, StaysSound DEF AlertInv
  <2> QED BY <1>2, <2>1, <2>2, StepOf DEF Boot, AlertInv
<1>3. CASE Tick
  BY <1>3 DEF Tick, AlertInv, RunsInv, RunRows, AlertRows, Sound, Times, None
<1> QED BY <1>1, <1>2, <1>3

LEMMA AlertStep == AlertInv /\ [Next]_vars => AlertInv'
<1> SUFFICES ASSUME AlertInv, [Next]_vars
             PROVE  AlertInv'
  OBVIOUS
<1>1. CASE UNCHANGED vars
  BY <1>1, StepOf DEF vars, AlertInv, RunsInv
<1>2. CASE Next
  BY <1>2, StartInv, EndInv, AskEndsInv, CheckInv, DeleteInv, ProcessInv DEF Next
<1> QED BY <1>1, <1>2

\* An open alert always has something to look at, for any number of runs,
\* automations and asks: whatever is deleted, answered by the check, dropped
\* from the decider's queue or decided late.
THEOREM AlertCaused == Spec => []OpenHasCause
<1>1. AlertInv => OpenHasCause
  BY DEF AlertInv, Sound, HasCause, OpenHasCause, Calls
<1> QED BY InitInv, AlertStep, <1>1, PTL DEF Spec

----------------------------------------------------------------------------
(* The decider's queue *)

Members(w, out) == out \cup {w[i] : i \in 1..Len(w)}

\* the asks that wait in w are distinct, and none is out
Once(w, out) ==
    \A i, j \in 1..Len(w) : w[i] \notin out /\ (w[i] = w[j] => i = j)

LEMMA MinOfTwo ==
    ASSUME NEW x \in Int, NEW y \in Int
    PROVE  Min({x, y}) \in {x, y} /\ Min({x, y}) <= x /\ Min({x, y}) <= y
<1>1. \E m \in {x, y} : \A n \in {x, y} : m <= n
  <2>1. CASE x <= y
    BY <2>1
  <2>2. CASE ~(x <= y)
    BY <2>2
  <2> QED BY <2>1, <2>2
<1> QED BY <1>1 DEF Min

\* a slice of a list without repeats has as many members as positions
LEMMA SliceCount ==
    ASSUME NEW w, NEW n \in Nat, \A i, j \in 1..n : w[i] = w[j] => i = j
    PROVE  LET S == {w[i] : i \in 1..n}
           IN  IsFiniteSet(S) /\ Cardinality(S) = n
<1> DEFINE S == {w[i] : i \in 1..n}
           f == [i \in 1..n |-> w[i]]
<1>1. f \in Bijection(1..n, S)
  BY DEF Bijection, Injection, Surjection, IsInjective
<1>2. ExistsBijection(1..n, S)
  BY <1>1 DEF ExistsBijection
<1>3. IsFiniteSet(1..n) /\ Cardinality(1..n) = n
  BY FS_Interval
<1> QED BY <1>2, <1>3, FS_Bijection

\* next() starts asks within the limit and asks about nobody anew
LEMMA StartAsksOK ==
    ASSUME NEW w \in Seq(Runs), NEW out \in SUBSET Runs,
           Cardinality(out) <= ASKS_AT_ONCE, Once(w, out), StartAsks(w, out)
    PROVE  /\ queue' \in Seq(Runs) /\ Len(queue') <= Len(w)
           /\ asking' \subseteq Runs /\ Cardinality(asking') <= ASKS_AT_ONCE
           /\ Once(queue', asking')
           /\ Members(queue', asking') \subseteq Members(w, out)
<1> DEFINE n == Min({ASKS_AT_ONCE - Cardinality(out), Len(w)})
           S == {w[i] : i \in 1..n}
<1>1. IsFiniteSet(out) /\ Cardinality(out) \in Nat
  BY FS_Subset, FS_CardinalityType
<1>2. n \in Nat /\ n <= Len(w) /\ Cardinality(out) + n <= ASKS_AT_ONCE
  <2>1. Len(w) \in Nat /\ ASKS_AT_ONCE - Cardinality(out) \in Nat
    BY <1>1
  <2> DEFINE room == ASKS_AT_ONCE - Cardinality(out)
             many == Len(w)
  <2>2. room \in Int /\ many \in Int
    BY <2>1
  <2> HIDE DEF room, many
  <2>3. Min({room, many}) \in {room, many} /\ Min({room, many}) <= room
        /\ Min({room, many}) <= many
    BY <2>2, MinOfTwo
  <2>4. n = Min({room, many})
    BY DEF room, many
  <2> HIDE DEF n
  <2>5. n \in Nat /\ n <= many /\ n <= room
    BY <2>1, <2>3, <2>4 DEF room, many
  <2> QED BY <1>1, <2>1, <2>5 DEF room, many
<1>3. asking' = out \cup S /\ queue' = SubSeq(w, n + 1, Len(w))
  BY DEF StartAsks
<1> HIDE DEF n
<1>4. \A i \in 1..Len(w) : w[i] \in Runs
  OBVIOUS
<1>5. /\ queue' \in Seq(Runs) /\ Len(queue') = Len(w) - n
      /\ \A i \in 1..Len(queue') : queue'[i] = w[n + i]
  <2>1. \A i \in n + 1..Len(w) : w[i] \in Runs
    BY <1>2, <1>4
  <2>2. n + 1 \in Int /\ Len(w) \in Int
    BY <1>2
  <2>3. /\ SubSeq(w, n + 1, Len(w)) \in Seq(Runs)
        /\ Len(SubSeq(w, n + 1, Len(w))) = IF n + 1 <= Len(w) THEN Len(w) - (n + 1) + 1 ELSE 0
        /\ \A i \in 1..Len(w) - (n + 1) + 1 :
              SubSeq(w, n + 1, Len(w))[i] = w[n + 1 + i - 1]
    BY <2>1, <2>2, SubSeqProperties
  <2> QED BY <1>2, <1>3, <2>3
<1>6. IsFiniteSet(S) /\ Cardinality(S) = n
  <2>1. \A i, j \in 1..n : w[i] = w[j] => i = j
    BY <1>2 DEF Once
  <2> QED BY <1>2, <2>1, SliceCount
<1>7. asking' \subseteq Runs
  BY <1>2, <1>3, <1>4
<1>8. Cardinality(asking') <= ASKS_AT_ONCE
  <2>1. out \cap S = {}
    BY <1>2 DEF Once
  <2>2. Cardinality(out \cup S) = Cardinality(out) + Cardinality(S) - Cardinality({})
    BY <1>1, <1>6, <2>1, FS_Union
  <2> HIDE DEF S
  <2> QED BY <1>1, <1>2, <1>3, <1>6, <2>2, FS_EmptySet
<1>9. Once(queue', asking')
  <2> SUFFICES ASSUME NEW i \in 1..Len(queue'), NEW j \in 1..Len(queue')
               PROVE  queue'[i] \notin asking' /\ (queue'[i] = queue'[j] => i = j)
    BY DEF Once
  <2>1. /\ n + i \in 1..Len(w) /\ n + j \in 1..Len(w)
        /\ queue'[i] = w[n + i] /\ queue'[j] = w[n + j]
    <3>1. queue'[i] = w[n + i] /\ queue'[j] = w[n + j]
      BY <1>5, Zenon
    <3> DEFINE many == Len(w)
               left == Len(queue')
    <3>2. many \in Nat /\ left = many - n /\ i \in 1..left /\ j \in 1..left
      BY <1>5
    <3> HIDE DEF many, left
    <3>3. n + i \in 1..many /\ n + j \in 1..many
      BY <1>2, <3>2
    <3> QED BY <3>1, <3>3 DEF many
  <2>2. w[n + i] \notin out /\ (w[n + i] = w[n + j] => n + i = n + j)
    BY <2>1 DEF Once
  <2>3. \A k \in 1..n : w[k] # w[n + i]
    <3> SUFFICES ASSUME NEW k \in 1..n, w[k] = w[n + i]
                 PROVE  FALSE
      OBVIOUS
    <3>1. k \in 1..Len(w) /\ k # n + i
      BY <1>2, <2>1
    <3> QED BY <2>1, <3>1 DEF Once
  <2>4. queue'[i] \notin asking'
    BY <1>3, <2>1, <2>2, <2>3
  <2>5. n + i = n + j => i = j
    BY <1>2, <1>5
  <2> QED BY <2>1, <2>2, <2>4, <2>5
<1>10. Members(queue', asking') \subseteq Members(w, out)
  <2>1. \A i \in 1..Len(queue') : n + i \in 1..Len(w) /\ queue'[i] = w[n + i]
    <3> SUFFICES ASSUME NEW i \in 1..Len(queue')
                 PROVE  n + i \in 1..Len(w) /\ queue'[i] = w[n + i]
      OBVIOUS
    <3> DEFINE many == Len(w)
               left == Len(queue')
    <3>1. many \in Nat /\ left = many - n /\ i \in 1..left
      BY <1>5
    <3>2. queue'[i] = w[n + i]
      BY <1>5, Zenon
    <3> HIDE DEF many, left
    <3>3. n + i \in 1..many
      BY <1>2, <3>1
    <3> QED BY <3>2, <3>3 DEF many
  <2>2. 1..n \subseteq 1..Len(w)
    BY <1>2
  <2>3. {queue'[i] : i \in 1..Len(queue')} \subseteq {w[i] : i \in 1..Len(w)}
    BY <2>1
  <2>4. S \subseteq {w[i] : i \in 1..Len(w)}
    BY <2>2
  <2> HIDE DEF S
  <2> QED BY <1>3, <2>3, <2>4, Zenon DEF Members
<1> QED BY <1>2, <1>5, <1>7, <1>8, <1>9, <1>10

----------------------------------------------------------------------------
(* Type correctness *)

\* what the asks become once the run r is asked about: the dropped one is
\* gone, and only r is new
LEMMA AskMoves ==
    ASSUME AlertInv, AsksOK, NEW r \in Runs, r \notin Asks, NEW al, NEW rs, Ask(r, al, rs)
    PROVE  /\ queue' \in Seq(Runs) /\ Len(queue') <= MAX_QUEUED
           /\ asking' \subseteq Runs /\ Cardinality(asking') <= ASKS_AT_ONCE
           /\ Once(queue', asking')
           /\ Asks' \subseteq Asks \cup {r}
           /\ DropsOldest => Head(queue) \in Asks /\ Head(queue) \notin Asks'
<1> DEFINE rest == IF DropsOldest THEN Tail(queue) ELSE queue
           w == Append(rest, r)
<1>1. /\ queue \in Seq(Runs) /\ asking \in SUBSET Runs /\ Once(queue, asking)
      /\ Len(queue) <= MAX_QUEUED /\ Cardinality(asking) <= ASKS_AT_ONCE
      /\ Asks = Members(queue, asking)
  BY DEF AsksOK, Once, Asks, Members
<1>2. DropsOldest => queue # <<>>
  BY <1>1 DEF DropsOldest
<1>3. PICK d \in {0, 1} :
         /\ rest \in Seq(Runs) /\ Len(rest) = Len(queue) - d
         /\ \A i \in 1..Len(rest) : rest[i] = queue[i + d]
         /\ d = IF DropsOldest THEN 1 ELSE 0
  <2>1. CASE DropsOldest
    <3>1. /\ Tail(queue) \in Seq(Runs) /\ Len(Tail(queue)) = Len(queue) - 1
          /\ \A i \in 1..Len(Tail(queue)) : Tail(queue)[i] = queue[i + 1]
      BY <1>1, <1>2, <2>1, HeadTailProperties
    <3> QED BY <2>1, <3>1
  <2>2. CASE ~DropsOldest
    BY <1>1, <2>2
  <2> QED BY <2>1, <2>2
<1>4. Len(rest) < MAX_QUEUED
  BY <1>1, <1>3 DEF DropsOldest
<1> HIDE DEF rest
<1>5. /\ w \in Seq(Runs) /\ Len(w) = Len(rest) + 1 /\ w[Len(w)] = r
      /\ \A i \in 1..Len(rest) : w[i] = rest[i]
  BY <1>3
<1> HIDE DEF w
<1>6. \A i \in 1..Len(w) :
         \/ i = Len(w) /\ w[i] = r
         \/ i \in 1..Len(rest) /\ i + d \in 1..Len(queue) /\ w[i] = queue[i + d]
  <2> SUFFICES ASSUME NEW i \in 1..Len(w), i # Len(w)
               PROVE  i \in 1..Len(rest) /\ i + d \in 1..Len(queue)
                      /\ w[i] = queue[i + d]
    BY <1>5
  <2> DEFINE m == Len(rest)
             k == Len(queue)
  <2>1. m \in Nat /\ k \in Nat /\ m = k - d
    BY <1>1, <1>3
  <2>2. i \in 1..m
    BY <1>3, <1>5
  <2>3. w[i] = queue[i + d]
    BY <1>3, <1>5, <2>2
  <2> HIDE DEF m, k
  <2>4. i + d \in 1..k
    BY <2>1, <2>2
  <2> QED BY <2>2, <2>3, <2>4 DEF m, k
<1>7. \A i \in 1..Len(queue) : queue[i] \in Asks
  BY DEF Asks
<1>8. r \notin asking
  BY DEF Asks
<1>9. Once(w, asking)
  <2> SUFFICES ASSUME NEW i \in 1..Len(w), NEW j \in 1..Len(w)
               PROVE  w[i] \notin asking /\ (w[i] = w[j] => i = j)
    BY DEF Once
  <2>1. CASE i = Len(w) /\ w[i] = r
    <3>1. j \in 1..Len(rest) => w[j] # r
      BY <1>6, <1>7, <1>3, <1>5
    <3> QED BY <1>6, <1>8, <2>1, <3>1
  <2>2. CASE i \in 1..Len(rest) /\ i + d \in 1..Len(queue) /\ w[i] = queue[i + d]
    <3>1. w[i] \notin asking /\ w[i] # r
      BY <1>1, <1>7, <2>2 DEF Once
    <3>2. CASE j = Len(w) /\ w[j] = r
      BY <3>1, <3>2
    <3>3. CASE j + d \in 1..Len(queue) /\ w[j] = queue[j + d]
      <4>1. queue[i + d] = queue[j + d] => i + d = j + d
        BY <1>1, <2>2, <3>3 DEF Once
      <4> QED BY <1>3, <2>2, <3>1, <3>3, <4>1
    <3> QED BY <1>6, <3>2, <3>3
  <2> QED BY <1>6, <2>1, <2>2
<1>10. StartAsks(w, asking)
  BY DEF Ask, w, rest
<1>11. /\ queue' \in Seq(Runs) /\ Len(queue') <= Len(w)
       /\ asking' \subseteq Runs /\ Cardinality(asking') <= ASKS_AT_ONCE
       /\ Once(queue', asking')
       /\ Members(queue', asking') \subseteq Members(w, asking)
  BY <1>1, <1>5, <1>9, <1>10, StartAsksOK
<1>12. Asks' = Members(queue', asking')
  BY DEF Asks, Members
<1>13. Members(w, asking) \subseteq Asks \cup {r}
  BY <1>6, <1>7 DEF Members, Asks
<1>14. DropsOldest => Head(queue) \in Asks /\ Head(queue) \notin Members(w, asking)
  <2> SUFFICES ASSUME DropsOldest
               PROVE  Head(queue) \in Asks /\ Head(queue) \notin Members(w, asking)
    OBVIOUS
  <2>1. Head(queue) = queue[1] /\ 1 \in 1..Len(queue)
    BY <1>1, <1>2
  <2>2. queue[1] \in Asks /\ queue[1] \notin asking /\ queue[1] # r
    BY <1>1, <1>7, <2>1 DEF Once
  <2>3. \A i \in 1..Len(rest) : i + d \in 1..Len(queue) => queue[i + d] # queue[1]
    <3> SUFFICES ASSUME NEW i \in 1..Len(rest), i + d \in 1..Len(queue),
                        queue[i + d] = queue[1]
                 PROVE  FALSE
      OBVIOUS
    <3>1. i + d = 1
      BY <1>1, <2>1 DEF Once
    <3> QED BY <1>3, <3>1
  <2> QED BY <1>6, <2>1, <2>2, <2>3 DEF Members
<1> QED BY <1>4, <1>5, <1>11, <1>12, <1>13, <1>14

\* the ask that ended is gone, and none is new
LEMMA AskEndsMoves ==
    ASSUME AlertInv, AsksOK, NEW r \in asking, StartAsks(queue, asking \ {r})
    PROVE  /\ queue' \in Seq(Runs) /\ Len(queue') <= MAX_QUEUED
           /\ asking' \subseteq Runs /\ Cardinality(asking') <= ASKS_AT_ONCE
           /\ Once(queue', asking')
           /\ Asks' \subseteq Asks \ {r}
<1> DEFINE out == asking \ {r}
<1>1. /\ queue \in Seq(Runs) /\ asking \in SUBSET Runs /\ Once(queue, asking)
      /\ Len(queue) <= MAX_QUEUED /\ Cardinality(asking) <= ASKS_AT_ONCE
  BY DEF AsksOK, Once
<1>2. out \in SUBSET Runs /\ Cardinality(out) <= ASKS_AT_ONCE
  <2>1. IsFiniteSet(asking)
    BY <1>1, FS_Subset
  <2>2. out \in SUBSET asking /\ Cardinality(out) <= Cardinality(asking)
    BY <2>1, FS_Subset
  <2>3. Cardinality(out) \in Nat /\ Cardinality(asking) \in Nat
    BY <2>1, <2>2, FS_Subset, FS_CardinalityType
  <2> QED BY <1>1, <2>2, <2>3
<1>3. Once(queue, out)
  BY <1>1 DEF Once
<1>4. /\ queue' \in Seq(Runs) /\ Len(queue') <= Len(queue)
      /\ asking' \subseteq Runs /\ Cardinality(asking') <= ASKS_AT_ONCE
      /\ Once(queue', asking')
      /\ Members(queue', asking') \subseteq Members(queue, out)
  BY <1>1, <1>2, <1>3, StartAsksOK
<1>5. Asks' = Members(queue', asking')
  BY DEF Asks, Members
<1>6. Members(queue, out) \subseteq Asks \ {r}
  <2>1. \A i \in 1..Len(queue) : queue[i] # r /\ queue[i] \in Asks
    BY <1>1 DEF Once, Asks
  <2>2. out \subseteq Asks \ {r}
    BY DEF Asks
  <2> HIDE DEF out
  <2> QED BY <2>1, <2>2 DEF Members
<1>7. Len(queue') <= MAX_QUEUED
  BY <1>1, <1>4
<1>8. Asks' \subseteq Asks \ {r}
  <2> HIDE DEF out
  <2> QED BY <1>4, <1>5, <1>6, Zenon
<1> QED BY <1>4, <1>7, <1>8, Zenon

\* a run that was asked about ended, and has no mark and was not cut
Askable(rs, r) == rs[r].st \in {"ended", "gone"} /\ ~rs[r].mark /\ ~rs[r].passed

TypeInv == AlertInv /\ RunsOK /\ phase \in {"up", "closing", "down"} /\ AsksOK

LEMMA AsksOf ==
    ASSUME queue' \in Seq(Runs), Len(queue') <= MAX_QUEUED,
           asking' \subseteq Runs, Cardinality(asking') <= ASKS_AT_ONCE,
           Once(queue', asking'), \A r \in Asks' : Askable(run', r)
    PROVE  AsksOK'
  BY DEF AsksOK, Once, Askable

\* a step without an ask
LEMMA AsksSame ==
    ASSUME AsksOK, UNCHANGED <<queue, asking>>,
           \A r \in Asks : Askable(run, r) => Askable(run', r)
    PROVE  AsksOK'
<1>1. Asks' = Asks
  BY DEF Asks
<1>2. \A r \in Asks : Askable(run', r)
  BY DEF AsksOK, Askable
<1>3. Once(queue', asking')
  BY DEF AsksOK, Once
<1> QED BY <1>1, <1>2, <1>3, AsksOf DEF AsksOK

LEMMA AsksAreRuns == ASSUME AsksOK PROVE \A r \in Asks : r \in Runs /\ Askable(run, r)
  BY DEF AsksOK, Asks, Askable

LEMMA StartType ==
    ASSUME TypeInv, NEW r \in Runs, Start(r)
    PROVE  RunsOK' /\ AsksOK'
<1>1. \A s \in Runs : run[s] \in RunRows
  BY DEF TypeInv, AlertInv, RunsInv
<1>2. \A s \in Runs : /\ run'[s].st = (IF s = r THEN "running" ELSE run[s].st)
                      /\ run'[s].mark = run[s].mark
                      /\ run'[s].passed = run[s].passed
  BY <1>1 DEF Start, TypeInv, AlertInv, RunsInv, RunRows
<1>3. RunsOK'
  BY <1>2 DEF TypeInv, RunsOK, Start
<1>4. \A s \in Asks : Askable(run, s) => Askable(run', s)
  BY <1>2, AsksAreRuns DEF TypeInv, Askable, Start
<1> QED BY <1>3, <1>4, AsksSame DEF TypeInv, Start

LEMMA EndType ==
    ASSUME TypeInv, NEW r \in Runs, NEW e \in Ends, End(r, e)
    PROVE  RunsOK' /\ AsksOK'
<1> DEFINE new == [st |-> "ended", at |-> now, mark |-> RunMark(e),
                   passed |-> e.cause \in {"stop", "shutdown"}]
<1>1. run \in [Runs -> RunRows] /\ \A s \in Runs : run'[s] = IF s = r THEN new ELSE run[s]
  BY DEF TypeInv, AlertInv, RunsInv, End
<1>2. RunMark(e) => e.cause \notin {"stop", "shutdown"}
  BY DEF RunMark, Ending, End
<1>3. RunsOK'
  <2>1. \A s \in Runs : run'[s].st = "running" => run[s].st = "running"
    BY <1>1
  <2>2. \A s \in Runs : run'[s].mark => run'[s].st = "ended" /\ ~run'[s].passed
    <3> SUFFICES ASSUME NEW s \in Runs, run'[s].mark
                 PROVE  run'[s].st = "ended" /\ ~run'[s].passed
      OBVIOUS
    <3>1. CASE s = r
      <4>1. run'[s] = new
        BY <1>1, <3>1
      <4>2. new.mark = RunMark(e) /\ new.st = "ended"
            /\ new.passed = (e.cause \in {"stop", "shutdown"})
        OBVIOUS
      <4> HIDE DEF new
      <4>3. new.mark
        BY <4>1, Zenon
      <4>4. RunMark(e)
        BY <4>2, <4>3, Zenon
      <4> QED BY <1>2, <4>1, <4>2, <4>4, Zenon
    <3>2. CASE s # r
      <4>1. run'[s] = run[s]
        BY <1>1, <3>2
      <4>2. run[s].mark
        BY <4>1, Zenon
      <4> QED BY <4>1, <4>2, Zenon DEF TypeInv, RunsOK
    <3> QED BY <3>1, <3>2
  <2> QED BY <2>1, <2>2 DEF TypeInv, RunsOK
<1>4. r \notin Asks
  BY AsksAreRuns DEF TypeInv, Askable, End
<1>5. \A s \in Asks : Askable(run', s)
  BY <1>1, <1>4, AsksAreRuns DEF TypeInv, Askable
<1>6. CASE ~DecidesLater(e)
  BY <1>3, <1>5, <1>6, AsksSame DEF TypeInv, End
<1>7. CASE DecidesLater(e)
  <2>1. Askable(run', r)
    <3>1. run'[r] = new
      BY <1>1
    <3>2. new.st = "ended" /\ new.mark = RunMark(e)
          /\ new.passed = (e.cause \in {"stop", "shutdown"})
      OBVIOUS
    <3> HIDE DEF new
    <3>3. ~RunMark(e) /\ e.cause \notin {"stop", "shutdown"}
      BY <1>7 DEF DecidesLater
    <3> QED BY <3>1, <3>2, <3>3, Zenon DEF Askable
  <2>2. PICK al : Ask(r, al, run')
    BY <1>7 DEF End
  <2>3. /\ queue' \in Seq(Runs) /\ Len(queue') <= MAX_QUEUED
        /\ asking' \subseteq Runs /\ Cardinality(asking') <= ASKS_AT_ONCE
        /\ Once(queue', asking') /\ Asks' \subseteq Asks \cup {r}
    BY <1>4, <2>2, AskMoves DEF TypeInv
  <2>4. AsksOK'
    BY <1>5, <2>1, <2>3, AsksOf
  <2> QED BY <1>3, <2>4
<1> QED BY <1>6, <1>7

LEMMA AskEndsType ==
    ASSUME TypeInv, NEW r \in Runs, NEW outcome \in Outcomes, AskEnds(r, outcome)
    PROVE  RunsOK' /\ AsksOK'
<1> DEFINE marks == run[r].mark \/ (outcome = "mark" /\ run[r].st = "ended")
<1>1. \A s \in Runs : /\ run'[s].st = run[s].st /\ run'[s].passed = run[s].passed
                      /\ run'[s].mark = IF s = r THEN marks ELSE run[s].mark
  BY DEF TypeInv, AlertInv, RunsInv, AskEnds, RunRows
<1>2. r \in asking /\ r \in Asks /\ StartAsks(queue, asking \ {r})
  BY DEF AskEnds, Asks
<1>3. ~run[r].passed
  BY <1>2, AsksAreRuns DEF TypeInv, Askable
<1>4. RunsOK'
  <2>1. \A s \in Runs : run'[s].mark => run'[s].st = "ended" /\ ~run'[s].passed
    BY <1>1, <1>3 DEF TypeInv, RunsOK
  <2>2. \A p, q \in Runs :
           run'[p].st = "running" /\ run'[q].st = "running"
           /\ AutomationOf[p] = AutomationOf[q] => p = q
    <3>1. \A s \in Runs : run'[s].st = run[s].st
      BY <1>1
    <3>2. RunsOK
      BY Zenon DEF TypeInv
    <3> SUFFICES ASSUME NEW p \in Runs, NEW q \in Runs,
                        run'[p].st = "running", run'[q].st = "running",
                        AutomationOf[p] = AutomationOf[q]
                 PROVE  p = q
      OBVIOUS
    <3>3. run[p].st = "running" /\ run[q].st = "running"
      BY <3>1
    <3> QED BY <3>2, <3>3, Zenon DEF RunsOK
  <2> QED BY <2>1, <2>2, Zenon DEF RunsOK
<1>5. /\ queue' \in Seq(Runs) /\ Len(queue') <= MAX_QUEUED
      /\ asking' \subseteq Runs /\ Cardinality(asking') <= ASKS_AT_ONCE
      /\ Once(queue', asking') /\ Asks' \subseteq Asks \ {r}
  BY <1>2, AskEndsMoves DEF TypeInv
<1>6. \A s \in Asks \ {r} : Askable(run', s)
  BY <1>1, AsksAreRuns DEF TypeInv, Askable
<1>7. AsksOK'
  BY <1>5, <1>6, AsksOf
<1> QED BY <1>4, <1>7

LEMMA DeleteType ==
    ASSUME TypeInv, NEW r \in Runs, Delete(r)
    PROVE  RunsOK' /\ AsksOK'
<1>1. \A s \in Runs : run'[s] = IF s = r THEN Blank("gone") ELSE run[s]
  BY DEF TypeInv, AlertInv, RunsInv, Delete
<1>2. RunsOK'
  BY <1>1 DEF TypeInv, RunsOK, Blank
<1>3. \A s \in Asks : Askable(run, s) => Askable(run', s)
  <2>1. Askable(run', r)
    BY <1>1 DEF Askable, Blank
  <2>2. \A s \in Runs : s # r => (Askable(run, s) => Askable(run', s))
    BY <1>1 DEF Askable
  <2> QED BY <2>1, <2>2, AsksAreRuns DEF TypeInv
<1> QED BY <1>2, <1>3, AsksSame DEF TypeInv, Delete

LEMMA ProcessType ==
    ASSUME TypeInv, Close \/ Gone \/ Boot \/ Tick
    PROVE  RunsOK' /\ AsksOK'
<1>1. CASE Close \/ Gone
  <2>1. run' = run /\ queue' = <<>> /\ asking' \in {asking, {}}
    BY <1>1 DEF Close, Gone
  <2>2. Asks' \subseteq Asks /\ Once(queue', asking')
    BY <2>1 DEF Asks, Once
  <2>3. asking' \subseteq Runs /\ Cardinality(asking') <= ASKS_AT_ONCE
    <3>1. CASE asking' = asking
      BY <3>1 DEF TypeInv, AsksOK
    <3>2. CASE asking' = {}
      BY <3>2, FS_EmptySet
    <3> QED BY <2>1, <3>1, <3>2
  <2>4. queue' \in Seq(Runs) /\ Len(queue') <= MAX_QUEUED
    BY <2>1
  <2>5. \A r \in Asks' : Askable(run', r)
    BY <2>1, <2>2, AsksAreRuns DEF TypeInv
  <2>6. AsksOK'
    BY <2>2, <2>3, <2>4, <2>5, AsksOf
  <2> QED BY <2>1, <2>6 DEF TypeInv, RunsOK
<1>2. CASE Boot
  <2>1. \A r \in Runs :
           IF run[r].st = "running"
           THEN run'[r].st = "ended" /\ ~run'[r].mark
           ELSE run'[r] = run[r]
    BY <1>2 DEF Boot
  <2>2. RunsOK'
    BY <2>1 DEF TypeInv, RunsOK
  <2>3. \A r \in Asks : Askable(run, r) => Askable(run', r)
    BY <2>1, AsksAreRuns DEF TypeInv, Askable
  <2> QED BY <1>2, <2>2, <2>3, AsksSame DEF TypeInv, Boot
<1>3. CASE Tick
  BY <1>3, AsksSame DEF Tick, TypeInv, RunsOK
<1> QED BY <1>1, <1>2, <1>3

LEMMA TypeStep == TypeInv /\ [Next]_vars => TypeInv'
<1> SUFFICES ASSUME TypeInv, [Next]_vars
             PROVE  TypeInv'
  OBVIOUS
<1>1. AlertInv'
  BY AlertStep DEF TypeInv
<1>2. phase' \in {"up", "closing", "down"}
  BY DEF TypeInv, vars, Next, Start, Delete, End, AskEnds, CheckFails, CheckAnswers,
         Dismiss, Close, Gone, Boot, Tick
<1>3. CASE UNCHANGED vars
  BY <1>1, <1>2, <1>3, AsksSame DEF vars, TypeInv, RunsOK
<1>4. CASE \E a \in Automations : CheckFails(a) \/ CheckAnswers(a) \/ Dismiss(a)
  <2>1. UNCHANGED <<run, queue, asking>>
    BY <1>4 DEF CheckFails, CheckAnswers, Dismiss
  <2> QED BY <1>1, <1>2, <2>1, AsksSame DEF TypeInv, RunsOK
<1>5. CASE Next /\ ~(\E a \in Automations : CheckFails(a) \/ CheckAnswers(a) \/ Dismiss(a))
  <2>1. RunsOK' /\ AsksOK'
    BY <1>5, StartType, EndType, AskEndsType, DeleteType, ProcessType DEF Next
  <2> QED BY <1>1, <1>2, <2>1 DEF TypeInv
<1> QED BY <1>3, <1>4, <1>5

LEMMA TypeInit == Init => TypeInv
<1> SUFFICES ASSUME Init PROVE TypeInv
  OBVIOUS
<1>1. /\ Asks = {} /\ queue \in Seq(Runs) /\ Len(queue) = 0
      /\ asking = {} /\ Cardinality(asking) = 0
  BY FS_EmptySet DEF Init, Asks
<1>2. AsksOK
  BY <1>1 DEF AsksOK
<1>3. RunsOK /\ phase \in {"up", "closing", "down"}
  BY DEF Init, RunsOK, Blank
<1> QED BY <1>2, <1>3, InitInv DEF TypeInv

\* The types hold for any number of runs, automations and asks, with what is
\* in them: an automation runs once at a time, a mark is an ended run's that
\* nobody cut, and the decider's queue stays within its limits and asks about
\* each run at most once.
THEOREM AlertsTyped == Spec => []TypeOK
<1>1. TypeInv => TypeOK
  BY DEF TypeInv, AlertInv, RunsInv, TypeOK
<1> QED BY TypeInit, TypeStep, <1>1, PTL DEF Spec

----------------------------------------------------------------------------
(* The calls of an alert *)

LEMMA CallsKept ==
    ASSUME NEW al, NEW rs, NEW new, NEW a, Keeps(rs, new)
    PROVE  Calls(al, rs, a) \subseteq Calls(al, new, a)
<1>1. AlertRuns(al, rs, a) \subseteq AlertRuns(al, new, a)
  BY DEF Keeps, AlertRuns
<1> QED BY <1>1, Zenon DEF Calls

\* what is called for by an open alert
LEMMA CallsAre ==
    ASSUME NEW al, NEW rs, NEW a
    PROVE  /\ \A c \in Calls(al, rs, a) :
                 IsOpen(al) /\ (c \in AlertRuns(al, rs, a) \/ (c = Check /\ CheckHolds(al)))
           /\ IsOpen(al) => AlertRuns(al, rs, a) \subseteq Calls(al, rs, a)
           /\ CheckHolds(al) => Check \in Calls(al, rs, a)
           /\ Check \notin AlertRuns(al, rs, a)
<1>1. Check \notin Runs
  BY DEF Check
<1>2. Check \notin AlertRuns(al, rs, a)
  BY <1>1 DEF AlertRuns
<1>3. \A c \in Calls(al, rs, a) :
         IsOpen(al) /\ (c \in AlertRuns(al, rs, a) \/ (c = Check /\ CheckHolds(al)))
  BY DEF Calls
<1>4. IsOpen(al) => AlertRuns(al, rs, a) \subseteq Calls(al, rs, a)
  BY DEF Calls
<1>5. CheckHolds(al) => Check \in Calls(al, rs, a)
  BY DEF Calls, CheckHolds
<1> QED BY <1>2, <1>3, <1>4, <1>5

\* only a word "close" takes a call away, and only an older one
LEMMA WordTakes ==
    ASSUME NEW al \in AlertRows, NEW rs \in [Runs -> RunRows], NEW r \in Runs,
           NEW word \in {"open", "close", "none"}, word = "close" => ~rs[r].mark,
           \A s \in Runs : rs[s].mark => ~rs[s].passed,
           NEW c \in Calls(al, rs, AutomationOf[r]),
           c \notin Calls(Word(al, rs, r, word), rs, AutomationOf[r])
    PROVE  /\ word = "close" /\ rs[r].st = "ended"
           /\ c = Check => al.check <= rs[r].at
           /\ c # Check => c \in Runs /\ c # r /\ rs[c].at < rs[r].at
<1> DEFINE a == AutomationOf[r]
           bl == Word(al, rs, r, word)
<1>1. IsOpen(al) /\ (c \in AlertRuns(al, rs, a) \/ (c = Check /\ CheckHolds(al)))
  BY CallsAre
<1>2. bl # al
  OBVIOUS
<1>3. rs[r].st = "ended" /\ ~EndedAfter(rs, r, word = "close")
  BY <1>2, Zenon DEF Word
<1>4. OpenedByRun(al, rs[r].at) = al
  BY <1>1, Zenon DEF OpenedByRun
<1>5. word = "close" /\ bl = ClosedByRun(al, rs[r].at)
  <2>1. CASE word = "open"
    <3>1. bl = OpenedByRun(al, rs[r].at)
      BY <1>3, <2>1 DEF Word
    <3> QED BY <1>2, <1>4, <3>1
  <2>2. CASE word = "close"
    BY <1>3, <2>2 DEF Word
  <2>3. CASE word = "none"
    <3>1. bl = al
      BY <1>3, <2>3 DEF Word
    <3> QED BY <1>2, <3>1
  <2> QED BY <2>1, <2>2, <2>3
<1>6. CASE c = Check
  <2>1. CheckHolds(al)
    BY <1>1, <1>6, CallsAre
  <2>2. CASE al.check > rs[r].at
    <3>1. bl = [since |-> al.check, check |-> al.check]
      BY <1>1, <1>5, <2>1, <2>2 DEF ClosedByRun
    <3>2. al.check # None
      BY <2>1 DEF CheckHolds, IsOpen, AlertRows, Times, None
    <3>3. CheckHolds(bl)
      BY <3>1, <3>2 DEF CheckHolds, IsOpen, AlertRows, Times, None
    <3> QED BY <1>6, <3>3, CallsAre
  <2>3. CASE ~(al.check > rs[r].at)
    <3>1. al.check \in Int /\ rs[r].at \in Int
      BY DEF AlertRows, RunRows, Times, None
    <3> QED BY <1>3, <1>5, <1>6, <2>3, <3>1
  <2> QED BY <2>2, <2>3
<1>7. CASE c # Check
  <2>1. c \in Runs /\ AutomationOf[c] = a /\ rs[c].st = "ended" /\ rs[c].mark
    BY <1>1, <1>7 DEF AlertRuns
  <2>2. c # r /\ ~rs[c].passed
    BY <1>5, <2>1
  <2>3. ~(rs[c].at > rs[r].at \/ rs[c].at = rs[r].at)
    BY <1>3, <1>5, <2>1, <2>2, Zenon DEF EndedAfter
  <2>4. rs[c].at \in Int /\ rs[r].at \in Int
    BY <2>1 DEF RunRows, Times
  <2> QED BY <1>3, <1>5, <1>7, <2>1, <2>2, <2>3, <2>4
<1> QED BY <1>6, <1>7

\* a mark that is said is in the alert, but where others ended later or the
\* check opened it later
LEMMA WordHeard ==
    ASSUME NEW al \in AlertRows, NEW rs \in [Runs -> RunRows], NEW r \in Runs,
           rs[r].st = "ended", rs[r].mark,
           HasCause(al, rs, AutomationOf[r]),
           \A s \in Runs : rs[s].mark => ~rs[s].passed
    PROVE  \/ r \in Calls(Word(al, rs, r, "open"), rs, AutomationOf[r])
           \/ EndedAfter(rs, r, FALSE)
           \/ CheckHolds(al) /\ al.since > rs[r].at
<1> DEFINE a == AutomationOf[r]
<1> SUFFICES ASSUME ~EndedAfter(rs, r, FALSE)
             PROVE  \/ r \in Calls(Word(al, rs, r, "open"), rs, a)
                    \/ CheckHolds(al) /\ al.since > rs[r].at
  OBVIOUS
<1>1. Word(al, rs, r, "open") = OpenedByRun(al, rs[r].at)
  <2>1. ~EndedAfter(rs, r, "open" = "close")
    BY Zenon
  <2> QED BY <2>1, Zenon DEF Word
<1>2. rs[r].at \in Times /\ al.since \in Times \cup {None} /\ al.check \in Times \cup {None}
  BY DEF RunRows, AlertRows
<1>3. CASE ~IsOpen(al)
  <2> DEFINE bl == [al EXCEPT !.since = rs[r].at]
  <2>1. OpenedByRun(al, rs[r].at) = bl
    BY <1>3, Zenon DEF OpenedByRun
  <2>2. bl.since = rs[r].at
    BY DEF AlertRows
  <2>3. IsOpen(bl) /\ r \in AlertRuns(bl, rs, a)
    BY <1>2, <2>2 DEF IsOpen, AlertRuns, Times, None
  <2> QED BY <1>1, <2>1, <2>3, CallsAre
<1>4. CASE IsOpen(al) /\ rs[r].at >= al.since
  <2>1. OpenedByRun(al, rs[r].at) = al
    BY <1>4, Zenon DEF OpenedByRun
  <2>2. r \in AlertRuns(al, rs, a)
    BY <1>4 DEF AlertRuns
  <2> QED BY <1>1, <1>4, <2>1, <2>2, CallsAre
<1>5. CASE IsOpen(al) /\ ~(rs[r].at >= al.since)
  <2>1. al.since > rs[r].at
    BY <1>2, <1>5 DEF Times, None
  <2>2. CASE CheckHolds(al)
    BY <2>1, <2>2
  <2>3. CASE ~CheckHolds(al)
    <3>1. PICK s \in AlertRuns(al, rs, a) : TRUE
      BY <1>5, <2>3 DEF HasCause
    <3>2. s \in Runs /\ AutomationOf[s] = a /\ rs[s].st = "ended" /\ rs[s].mark
          /\ rs[s].at >= al.since
      BY <3>1 DEF AlertRuns
    <3>3. rs[s].at \in Times
      BY <3>2 DEF RunRows
    <3>4. rs[s].at > rs[r].at /\ s # r
      BY <1>2, <2>1, <3>2, <3>3 DEF Times, None
    <3> QED BY <3>2, <3>4, Zenon DEF EndedAfter
  <2> QED BY <2>2, <2>3
<1> QED BY <1>3, <1>4, <1>5

----------------------------------------------------------------------------
(* Calls stand through every step *)

\* a step that moves no alert, and in which the runs only end or get marks
LEMMA NothingTaken ==
    ASSUME UNCHANGED alert, Keeps(run, run')
    PROVE  Stands
<1>1. \A a \in Automations : Calls(alert[a], run, a) \subseteq Calls(alert'[a], run', a)
  BY CallsKept
<1> QED BY <1>1, Zenon DEF Stands

LEMMA NoneMarked ==
    ASSUME \A r \in Runs : run'[r].mark => run[r].mark
    PROVE  Heard
  BY Zenon DEF Heard

\* the word of a run moves one alert: what it takes may go, if what says
\* "close" says that nobody is needed
LEMMA WordStands ==
    ASSUME AlertInv, RunsInv', RunsOK', Keeps(run, run'), NEW r \in Runs,
           NEW word \in {"open", "close", "none"},
           alert' = [alert EXCEPT ![AutomationOf[r]] = Word(@, run', r, word)],
           run[r].mark => word # "close",
           word = "close" /\ run'[r].st = "ended" => SaysClean(r)
    PROVE  Stands
<1> SUFFICES ASSUME NEW a \in Automations, NEW c \in Calls(alert[a], run, a),
                    c \notin Calls(alert'[a], run', a)
             PROVE  MayGo(a, c)
  BY DEF Stands
<1>1. c \in Calls(alert[a], run', a)
  BY CallsKept
<1>2. alert \in [Automations -> AlertRows] /\ run' \in [Runs -> RunRows]
  BY DEF AlertInv, RunsInv
<1>3. a = AutomationOf[r]
  BY <1>1, <1>2
<1>4. alert'[a] = Word(alert[a], run', r, word)
  BY <1>2, <1>3
<1>5. \A s \in Runs : run'[s].mark => ~run'[s].passed
  BY Zenon DEF RunsOK
<1>6. word = "close" => ~run'[r].mark
  <2> SUFFICES ASSUME word = "close", run'[r].mark
               PROVE  FALSE
    OBVIOUS
  <2>1. run'[r].st = "ended"
    BY Zenon DEF RunsOK
  <2>2. SaysClean(r)
    BY <2>1
  <2> QED BY <2>2, Zenon DEF SaysClean
<1>7. alert[a] \in AlertRows
  BY <1>2
<1>8. /\ word = "close" /\ run'[r].st = "ended"
      /\ c = Check => alert[a].check <= run'[r].at
      /\ c # Check => c \in Runs /\ c # r /\ run'[c].at < run'[r].at
  <2> DEFINE rs == run'
             al == alert[a]
  <2>1. rs \in [Runs -> RunRows] /\ al \in AlertRows
    BY <1>2, <1>7
  <2>2. c \in Calls(al, rs, AutomationOf[r])
        /\ c \notin Calls(Word(al, rs, r, word), rs, AutomationOf[r])
    BY <1>1, <1>3, <1>4, Zenon
  <2>3. (word = "close" => ~rs[r].mark) /\ \A s \in Runs : rs[s].mark => ~rs[s].passed
    BY <1>5, <1>6, Zenon
  <2> HIDE DEF rs, al
  <2>4. /\ word = "close" /\ rs[r].st = "ended"
        /\ c = Check => al.check <= rs[r].at
        /\ c # Check => c \in Runs /\ c # r /\ rs[c].at < rs[r].at
    BY <2>1, <2>2, <2>3, WordTakes
  <2> QED BY <2>4 DEF rs, al
<1>9. SaysClean(r)
  BY <1>8
<1>10. c # Check => run[c].at = run'[c].at
  <2> SUFFICES ASSUME c # Check
               PROVE  run[c].at = run'[c].at
    OBVIOUS
  <2>1. c \in AlertRuns(alert[a], run, a)
    BY CallsAre
  <2>2. c \in Runs /\ run[c].st = "ended"
    BY <2>1 DEF AlertRuns
  <2> QED BY <2>2 DEF Keeps
<1>11. IF c = Check THEN alert[a].check <= run'[r].at ELSE run[c].at < run'[r].at
  BY <1>8, <1>10
<1> QED BY <1>3, <1>9, <1>11, Zenon DEF MayGo

\* the end of a run that leaves no ask
LEMMA EndStands ==
    ASSUME TypeInv, AlertInv', RunsOK', NEW r \in Runs, NEW e \in Ends, End(r, e)
    PROVE  Stands /\ Heard
<1> DEFINE new == [st |-> "ended", at |-> now, mark |-> RunMark(e),
                   passed |-> e.cause \in {"stop", "shutdown"}]
           a == AutomationOf[r]
           word == AlertChange(e)
<1>1. /\ AlertInv /\ RunsOK /\ AsksOK /\ RunsInv' /\ now \in Times
      /\ run \in [Runs -> RunRows] /\ run' \in [Runs -> RunRows]
      /\ alert \in [Automations -> AlertRows] /\ a \in Automations
  BY DEF TypeInv, AlertInv, RunsInv
<1>2. run[r].st = "running" /\ Ending(e)
      /\ run' = [run EXCEPT ![r] = new]
  BY DEF End
<1>3. run'[r] = new /\ \A s \in Runs : s # r => run'[s] = run[s]
  BY <1>1, <1>2
<1>4. new.st = "ended" /\ new.at = now /\ new.mark = RunMark(e)
      /\ new.passed = (e.cause \in {"stop", "shutdown"})
  OBVIOUS
<1> HIDE DEF new
<1>5. Keeps(run, run')
  BY <1>2, <1>3 DEF Keeps
<1>6. ~run[r].mark
  BY <1>1, <1>2 DEF RunsOK
<1>7. run'[r].st = "ended" /\ run'[r].at = now
  BY <1>3, <1>4
<1>8. run'[r].mark <=> RunMark(e)
  BY <1>3, <1>4, Zenon
<1>9. word \in {"open", "close", "none"}
  BY DEF AlertChange
<1>10. word = "close" => SaysClean(r)
  <2> SUFFICES ASSUME word = "close"
               PROVE  SaysClean(r)
    OBVIOUS
  <2>1. ~RunMark(e) /\ e.cause \notin {"stop", "shutdown"}
    BY DEF AlertChange
  <2>2. ~run'[r].passed
    BY <1>3, <1>4, <2>1, Zenon
  <2> QED BY <1>2, <1>7, <1>8, <2>1, <2>2, Zenon DEF SaysClean
<1>11. RunMark(e) => word = "open"
  <2>1. RunMark(e) => e.cause \notin {"stop", "shutdown"}
    BY <1>2 DEF RunMark, Ending
  <2> QED BY <2>1, Zenon DEF AlertChange
<1>12. CASE ~DecidesLater(e)
  <2>1. alert' = [alert EXCEPT ![a] = Word(@, run', r, word)]
    BY <1>12 DEF End
  <2>2. Stands
    <3> HIDE DEF word
    <3> QED BY <1>1, <1>5, <1>6, <1>9, <1>10, <2>1, WordStands
  <2>3. Heard
    <3> SUFFICES ASSUME NEW s \in Runs, run'[s].mark, ~run[s].mark
                 PROVE  LET b == AutomationOf[s]
                        IN  \/ s \in Calls(alert'[b], run', b)
                            \/ EndedAfter(run', s, FALSE)
                            \/ CheckHolds(alert[b]) /\ alert[b].since > run'[s].at
      BY Zenon DEF Heard
    <3>1. s = r
      BY <1>3, Zenon
    <3>2. word = "open"
      BY <1>8, <1>11, <3>1, Zenon
    <3>3. alert'[a] = Word(alert[a], run', r, "open")
      BY <1>1, <2>1, <3>2
    <3>4. HasCause(alert[a], run', a)
      <4>1. Sound(alert[a], run', a)
        BY <1>1, <1>5, StaysSound DEF AlertInv
      <4> QED BY <4>1, Zenon DEF Sound
    <3>5. \A t \in Runs : run'[t].mark => ~run'[t].passed
      BY Zenon DEF RunsOK
    <3> DEFINE rs == run'
               al == alert[a]
    <3>6. rs \in [Runs -> RunRows] /\ al \in AlertRows /\ rs[r].st = "ended"
      BY <1>1, <1>7
    <3>7. rs[r].mark /\ HasCause(al, rs, AutomationOf[r])
          /\ \A t \in Runs : rs[t].mark => ~rs[t].passed
      BY <3>1, <3>4, <3>5, Zenon
    <3> HIDE DEF rs, al, a
    <3>8. \/ r \in Calls(Word(al, rs, r, "open"), rs, AutomationOf[r])
          \/ EndedAfter(rs, r, FALSE)
          \/ CheckHolds(al) /\ al.since > rs[r].at
      BY <3>6, <3>7, WordHeard
    <3> QED BY <3>1, <3>3, <3>8, Zenon DEF rs, al, a
  <2> QED BY <2>2, <2>3
<1>13. CASE DecidesLater(e)
  <2>1. ~RunMark(e) /\ word = "none"
    BY <1>13 DEF DecidesLater, AlertChange
  <2>2. Heard
    <3>1. \A s \in Runs : run'[s].mark => run[s].mark
      BY <1>3, <1>8, <2>1, Zenon
    <3> QED BY <3>1, NoneMarked
  <2>3. Word(alert[a], run', r, word) = alert[a]
    BY <1>7, <2>1 DEF Word
  <2>4. [alert EXCEPT ![a] = Word(@, run', r, word)] = alert
    <3> HIDE DEF a, word
    <3> QED BY <1>1, <2>3
  <2>5. Ask(r, alert, run')
    BY <1>13, <2>4 DEF End
  <2>6. CASE ~DropsOldest
    <3>1. alert' = alert
      BY <2>5, <2>6 DEF Ask
    <3> QED BY <1>5, <2>2, <3>1, NothingTaken
  <2>7. CASE DropsOldest
    <3> DEFINE q == Head(queue)
    <3>1. alert' = [alert EXCEPT ![AutomationOf[q]] = Word(@, run', q, "close")]
      BY <2>5, <2>7 DEF Ask, Dropped
    <3>2. r \notin Asks
      BY <1>1, <1>2, AsksAreRuns DEF Askable
    <3>3. q \in Asks /\ q \notin Asks'
      BY <1>1, <2>5, <2>7, <3>2, AskMoves
    <3>4. q \in Runs /\ Askable(run, q) /\ q # r
      BY <1>1, <3>2, <3>3, AsksAreRuns
    <3> HIDE DEF q
    <3>5. run'[q] = run[q]
      BY <1>3, <3>4
    <3>6. run'[q].st = "ended" => SaysClean(q)
      BY <3>3, <3>4, <3>5, Zenon DEF SaysClean, Askable
    <3>7. ~run[q].mark
      BY <3>4, Zenon DEF Askable
    <3>8. Stands
      BY <1>1, <1>5, <3>1, <3>4, <3>6, <3>7, WordStands
    <3> QED BY <2>2, <3>8
  <2> QED BY <2>6, <2>7
<1> QED BY <1>12, <1>13

LEMMA AskEndsStands ==
    ASSUME TypeInv, AlertInv', RunsOK', NEW r \in Runs, NEW outcome \in Outcomes,
           AskEnds(r, outcome)
    PROVE  Stands /\ Heard
<1> DEFINE a == AutomationOf[r]
           word == WordOf(outcome)
           marks == run[r].mark \/ (outcome = "mark" /\ run[r].st = "ended")
<1>1. /\ AlertInv /\ RunsOK /\ AsksOK /\ RunsInv'
      /\ run \in [Runs -> RunRows] /\ run' \in [Runs -> RunRows]
      /\ alert \in [Automations -> AlertRows] /\ a \in Automations
  BY DEF TypeInv, AlertInv, RunsInv
<1>2. r \in asking /\ r \in Asks /\ StartAsks(queue, asking \ {r})
      /\ alert' = [alert EXCEPT ![a] = Word(@, run', r, word)]
  BY DEF AskEnds, Asks
<1>3. Askable(run, r) /\ r \notin Asks'
  BY <1>1, <1>2, AsksAreRuns, AskEndsMoves
<1>4. \A s \in Runs : /\ run'[s].st = run[s].st /\ run'[s].passed = run[s].passed
                      /\ run'[s].at = run[s].at
                      /\ run'[s].mark = IF s = r THEN marks ELSE run[s].mark
  BY <1>1 DEF AskEnds, RunRows
<1>5. Keeps(run, run')
  <2>1. \A s \in Runs : run[s].mark => run'[s].mark
    BY <1>4
  <2> QED BY <1>4, <2>1, Zenon DEF Keeps
<1>6. word \in {"open", "close", "none"} /\ (word = "close" => outcome # "mark")
      /\ (outcome = "mark" => word = "open")
  BY DEF WordOf, Outcomes
<1>7. ~run[r].mark /\ ~run[r].passed
  BY <1>3, Zenon DEF Askable
<1>8. run'[r].mark <=> (outcome = "mark" /\ run[r].st = "ended")
  BY <1>4, <1>7
<1>9. word = "close" /\ run'[r].st = "ended" => SaysClean(r)
  <2>1. ~run'[r].passed
    BY <1>4, <1>7
  <2> QED BY <1>2, <1>3, <1>6, <1>8, <2>1, Zenon DEF SaysClean
<1>10. Stands
  <2> HIDE DEF word
  <2> QED BY <1>1, <1>2, <1>5, <1>6, <1>7, <1>9, WordStands
<1>11. Heard
  <2> SUFFICES ASSUME NEW s \in Runs, run'[s].mark, ~run[s].mark
               PROVE  LET b == AutomationOf[s]
                      IN  \/ s \in Calls(alert'[b], run', b)
                          \/ EndedAfter(run', s, FALSE)
                          \/ CheckHolds(alert[b]) /\ alert[b].since > run'[s].at
    BY Zenon DEF Heard
  <2>1. s = r
    BY <1>4
  <2>2. word = "open" /\ run'[r].st = "ended"
    BY <1>4, <1>6, <1>8, <2>1
  <2>3. alert'[a] = Word(alert[a], run', r, "open")
    BY <1>1, <1>2, <2>2
  <2>4. HasCause(alert[a], run', a)
    <3>1. Sound(alert[a], run', a)
      BY <1>1, <1>5, StaysSound DEF AlertInv
    <3> QED BY <3>1, Zenon DEF Sound
  <2>5. \A t \in Runs : run'[t].mark => ~run'[t].passed
    BY Zenon DEF RunsOK
  <2> DEFINE rs == run'
             al == alert[a]
  <2>6. rs \in [Runs -> RunRows] /\ al \in AlertRows /\ rs[r].st = "ended"
    BY <1>1, <2>2
  <2>7. rs[r].mark /\ HasCause(al, rs, AutomationOf[r])
        /\ \A t \in Runs : rs[t].mark => ~rs[t].passed
    BY <2>1, <2>4, <2>5, Zenon
  <2> HIDE DEF rs, al, a
  <2>8. \/ r \in Calls(Word(al, rs, r, "open"), rs, AutomationOf[r])
        \/ EndedAfter(rs, r, FALSE)
        \/ CheckHolds(al) /\ al.since > rs[r].at
    BY <2>6, <2>7, WordHeard
  <2> QED BY <2>1, <2>3, <2>8, Zenon DEF rs, al, a
<1> QED BY <1>10, <1>11

LEMMA DeleteStands ==
    ASSUME TypeInv, NEW r \in Runs, Delete(r)
    PROVE  Stands /\ Heard
<1> DEFINE b == AutomationOf[r]
           bl == Emptied(alert[b], run', b)
<1>1. /\ run \in [Runs -> RunRows] /\ alert \in [Automations -> AlertRows]
      /\ b \in Automations
  BY DEF TypeInv, AlertInv, RunsInv
<1>2. run'[r] = Blank("gone") /\ \A s \in Runs : s # r => run'[s] = run[s]
  BY <1>1 DEF Delete
<1>3. Heard
  <2>1. ~run'[r].mark
    BY <1>2 DEF Blank
  <2>2. \A s \in Runs : run'[s].mark => run[s].mark
    BY <1>2, <2>1, Zenon
  <2> QED BY <2>2, NoneMarked
<1>4. Stands
  <2> SUFFICES ASSUME NEW a \in Automations, NEW c \in Calls(alert[a], run, a),
                      c \notin Calls(alert'[a], run', a)
               PROVE  c # Check /\ run'[c].st = "gone"
    BY Zenon DEF Stands, MayGo
  <2>1. /\ IsOpen(alert[a])
        /\ c \in AlertRuns(alert[a], run, a) \/ (c = Check /\ CheckHolds(alert[a]))
    BY CallsAre
  <2>2. c \in AlertRuns(alert[a], run, a) /\ c # r => c \in AlertRuns(alert[a], run', a)
    BY <1>2 DEF AlertRuns
  <2>3. CASE alert'[a] = alert[a]
    <3>1. c # Check
      BY <2>1, <2>3, CallsAre
    <3>2. c = r
      BY <2>1, <2>2, <2>3, <3>1, CallsAre
    <3> QED BY <1>2, <3>1, <3>2 DEF Blank
  <2>4. CASE alert'[a] # alert[a]
    <3>1. a = b /\ alert'[a] = bl
      <4>1. alert' = alert \/ alert' = [alert EXCEPT ![b] = bl]
        BY DEF Delete
      <4> HIDE DEF bl, b
      <4> QED BY <1>1, <2>4, <4>1
    <3>2. ~CheckHolds(alert[a]) /\ AlertRuns(alert[a], run', a) = {}
      BY <2>4, <3>1, Zenon DEF Emptied
    <3>3. c \in AlertRuns(alert[a], run, a) /\ c # Check
      BY <2>1, <3>2, CallsAre
    <3>4. c = r
      BY <2>2, <3>2, <3>3
    <3> QED BY <1>2, <3>3, <3>4 DEF Blank
  <2> QED BY <2>3, <2>4
<1> QED BY <1>3, <1>4

LEMMA CheckStands ==
    ASSUME TypeInv, NEW b \in Automations,
           CheckFails(b) \/ CheckAnswers(b) \/ Dismiss(b)
    PROVE  Stands /\ Heard
<1>1. /\ alert \in [Automations -> AlertRows] /\ run' = run
      /\ UNCHANGED <<run, queue, asking>> /\ now \in Times
      /\ \A a \in Automations : Sound(alert[a], run, a)
  BY DEF TypeInv, AlertInv, CheckFails, CheckAnswers, Dismiss
<1>2. Heard
  BY <1>1, NoneMarked
<1>3. \A a \in Automations : a # b => alert'[a] = alert[a]
  BY <1>1 DEF CheckFails, CheckAnswers, Dismiss
<1>4. Stands
  <2> SUFFICES ASSUME NEW a \in Automations, NEW c \in Calls(alert[a], run, a),
                      c \notin Calls(alert'[a], run, a)
               PROVE  MayGo(a, c)
    BY <1>1, Zenon DEF Stands
  <2>1. a = b
    BY <1>3, Zenon
  <2> DEFINE al == alert[a]
  <2>2. al \in AlertRows /\ al.since <= now
    BY <1>1 DEF Sound
  <2>3. IsOpen(al) /\ (c \in AlertRuns(al, run, a) \/ (c = Check /\ CheckHolds(al)))
    BY CallsAre
  <2>4. CASE CheckFails(b)
    <3> DEFINE bl == [since |-> al.since, check |-> now]
    <3>1. [al EXCEPT !.check = now] = bl
      BY <2>2 DEF AlertRows
    <3>2. alert'[a] = FailedCheck(al, now)
      BY <1>1, <2>1, <2>4 DEF CheckFails
    <3>3. alert'[a] = bl
      BY <2>3, <3>1, <3>2, Zenon DEF FailedCheck
    <3>4. IsOpen(bl) /\ CheckHolds(bl) /\ AlertRuns(bl, run, a) = AlertRuns(al, run, a)
      BY <1>1, <2>2, <2>3 DEF IsOpen, CheckHolds, AlertRuns, Times, AlertRows, None
    <3>5. c \in Calls(bl, run, a)
      BY <2>3, <3>4, CallsAre
    <3> QED BY <3>3, <3>5
  <2>5. CASE CheckAnswers(b)
    <3>1. alert'[a] = AnsweredCheck(al, run, a)
      BY <1>1, <2>1, <2>5 DEF CheckAnswers
    <3>2. alert'[a].check = None
      BY <3>1 DEF AnsweredCheck
    <3>3. CASE c = Check
      BY <1>1, <3>2, <3>3, Zenon DEF MayGo
    <3>4. CASE c # Check
      <4>1. c \in AlertRuns(al, run, a)
        BY <2>3, <3>4
      <4>2. alert'[a].since = al.since
        BY <3>1, <4>1 DEF AnsweredCheck
      <4>3. IsOpen(alert'[a]) /\ c \in AlertRuns(alert'[a], run, a)
        BY <2>3, <4>1, <4>2 DEF IsOpen, AlertRuns
      <4>4. c \in Calls(alert'[a], run, a)
        BY <4>3, CallsAre
      <4> QED BY <4>4
    <3> QED BY <3>3, <3>4
  <2>6. CASE Dismiss(b)
    <3>1. alert'[a] = [alert[a] EXCEPT !.since = None]
      BY <1>1, <2>1, <2>6 DEF Dismiss
    <3> QED BY <1>1, <3>1, Zenon DEF MayGo
  <2> QED BY <2>4, <2>5, <2>6
<1> QED BY <1>2, <1>4

\* the steps that move no alert
LEMMA OthersStand ==
    ASSUME TypeInv,
           (\E r \in Runs : Start(r)) \/ Close \/ Gone \/ Boot \/ Tick \/ UNCHANGED vars
    PROVE  Stands /\ Heard
<1>1. run \in [Runs -> RunRows] /\ UNCHANGED alert
  BY DEF TypeInv, AlertInv, RunsInv, Start, Close, Gone, Boot, Tick, vars
<1>2. Keeps(run, run') /\ \A r \in Runs : run'[r].mark => run[r].mark
  <2>1. CASE \E r \in Runs : Start(r)
    <3>1. PICK r \in Runs : Start(r)
      BY <2>1
    <3>2. \A s \in Runs : s # r => run'[s] = run[s]
      BY <1>1, <3>1 DEF Start
    <3>3. run'[r].mark = run[r].mark
      BY <1>1, <3>1 DEF Start, RunRows
    <3> QED BY <3>1, <3>2, <3>3 DEF Keeps, Start
  <2>2. CASE Boot
    BY <2>2 DEF Boot, Keeps
  <2>3. CASE Close \/ Gone \/ Tick \/ UNCHANGED vars
    <3>1. run' = run
      BY <2>3 DEF Close, Gone, Tick, vars
    <3> QED BY <3>1 DEF Keeps
  <2> QED BY <2>1, <2>2, <2>3
<1> QED BY <1>1, <1>2, NothingTaken, NoneMarked

\* What an alert calls a person for stands until a user, the check or a newer
\* run takes it away, and a mark is heard, for any number of runs and
\* automations: through late answers of the decider, asks that are dropped,
\* ends at one time, checks, deletes, shutdowns and crashes.
THEOREM AlertStands == Spec => CallsStand
<1>1. TypeInv /\ TypeInv' /\ [Next]_vars => [Stands /\ Heard]_vars
  <2> SUFFICES ASSUME TypeInv, TypeInv', [Next]_vars
               PROVE  Stands /\ Heard
    OBVIOUS
  <2>1. AlertInv' /\ RunsOK'
    BY DEF TypeInv
  <2>2. ASSUME NEW r \in Runs, NEW e \in Ends, End(r, e)
        PROVE  Stands /\ Heard
    BY <2>1, <2>2, EndStands
  <2>3. ASSUME NEW r \in Runs, NEW outcome \in Outcomes, AskEnds(r, outcome)
        PROVE  Stands /\ Heard
    BY <2>1, <2>3, AskEndsStands
  <2>4. ASSUME NEW r \in Runs, Delete(r)
        PROVE  Stands /\ Heard
    BY <2>4, DeleteStands
  <2>5. ASSUME NEW a \in Automations, CheckFails(a) \/ CheckAnswers(a) \/ Dismiss(a)
        PROVE  Stands /\ Heard
    BY <2>5, CheckStands
  <2> QED BY <2>2, <2>3, <2>4, <2>5, OthersStand DEF Next
<1> QED BY TypeInit, TypeStep, <1>1, PTL DEF Spec, CallsStand
=============================================================================
