# 1ctx in TLA+

1ctx is one server process: people and agents share projects, chats hold
replies that agents stream, automations run agents on a schedule, and coding
agents outside the process take tasks over MCP. Everything durable is in one
SQLite file; everything that runs (sends, their tools, places, timers) is in the
memory of that process. These modules model the part of it where the order of
things matters: who may run now, what becomes of a message to a busy chat, how a
send ends, when an automation fires, when its runs call for a person, who works
on a task outside the process, and which trees of a project's repositories a turn mounts.

The code is single-threaded and its transactions are synchronous. So the rule
for every module is: **what runs between two awaits is one action**. A pass of
the dispatcher, an admission with its reservation, a finalize with its rows are
one step each; what interleaves is what the awaits let in: streams, tools,
timers, stops, deadlines, requests, changed limits, a drain, a crash.

## Inventory

Paths are below `src/server/` unless they say otherwise.

| part | state | operations | talks to |
|---|---|---|---|
| registry (`runner/registry.ts`, `prepare.ts`) | the active sends by id, two counters of extra streams, closed | `locked`, `admit`, `set`, `free`, `takeExtra`, `freeExtra`, `close` | every start; `free` wakes the queue and the scheduler |
| subagent places (`runner/child-slots.ts`, `child.ts`) | per send: started, running, the parent's place, the waiting calls | `takeSlot`, `freeSlot`, the abort | the registry's extra streams |
| limits (`limits/`) | overrides of the caps | read at each admission, set, reset | wakes the queue and the scheduler |
| chat queue (`runner/queue.ts`, `enqueue.ts`, `summon.ts`, `sessions/queued*.ts`) | queued rows and what became of each; the pass's flags, one expiry timer | `enqueue`, `wake`/`pass`, `startChat`, `expire`, `changed`, `start`, `close`, remove, discard | admission, the start's transaction |
| send (`runner/index.ts`, `send.ts`, `tool-loop.ts`, `ending.ts`, `attention-step.ts`, `memory-phase.ts`, `marks.ts`) | the `ActiveSend`: cause, phase, controllers, open tools | rounds, calls, `terminate`, `finalize` and its tries | providers, tools, the writer, the alert |
| rows of a send (`runner/writer.ts`, `reply-rows.ts`, `sessions/repair.ts`) | the send row, replies, tool rows, their statuses | each write in its transaction; the repair at start | every reader |
| shutdown (`runner/shutdown.ts`, `compose.ts`) | closing | drain, then terminate what still runs, then wait bounded | all of the above |
| automations (`automations/`) | rows with a next time, events, cap waits and their generation, cut runs, answers of checks | the pass, a fire, Run now, the drain, the restart | the registry, through the same start |
| alerts and attention (`automations/alerts.ts`, `runner/attention.ts`) | an automation's open alert; a bounded queue of asks | a run's end, a dismissal, a decider's answer | the end of a run |
| external tasks (`external-tasks/`) | tasks, claims, entries | claim, reports, retries, a member's moves, sweeps | MCP server, the task page |
| channels (`runner/channel*.ts`, `sessions/pending.ts`) | pending turns, one lock per agent | post, start of a pending turn, clear | the registry |
| sessions store | sessions, messages, archive, forks, packs | row rules, one transaction each | all |
| bash, knowledge, memory | scratch trees, versioned files, notes | a command or an edit commits against the revisions it saw | tools |
| repositories (`repos/`) | rows with a state and an outcome, lookups of a minute, fetch jobs with two kinds of slots, failures remembered, a cache of trees with holds | prepare of a turn, lookup, fetch, publish, evict, edit, refresh, delete, sweep, drain, start | git hosts, the turns' bash, the admin page |
| email, MCP clients, search, images, dictation, deciders | an outbox, discovered tools, a scan queue | one loop or one call each | services outside |
| access, users, projects, agents, skills, credentials, usage, overview | rows | request handlers | all |
| client (`src/client`), socket | copies of rows by revision | events, reloads | the server's bus |

Hard behaviours, the list `PROJECT.json` keeps at its lines under "hazards": places counted by
hand in two files; caps moved under what runs; aborts of waiting calls; passes that start,
fail, and wake themselves; rows that leave the queue at the same time as the expiry timer
rings; every cause of an end racing every other; finalize failing between its tries; a crash
in any phase; ends and aborts in the same turn; wakes that come before the sleep they are for;
retries of lost answers; sweeps whose candidates moved; rows that are edited under the pass that
read them; answers, marks and closings that come later than what moved in between; trees that are
evicted, joined and waited for by turns that gave up.

## Modules

### Admission

The registry, the delegate calls and the caps. A send is a record of `sends` (starter,
session, agent, the two child limits it was given, aborted, terminal); a delegate call has a
`stage`. `Refusal` is `admit()`, in its order; `Start` is the admission and `set()` in one turn;
`Abort` is what a send's signal does to the calls that wait; `Finalize`/`Free` let the place go;
`Refused`, `TakeNow`, `Wait`, `ChildEnds` are `takeSlot()` and `freeSlot()` with the loop that
places waiters written as the number it places (`Placed`). `SetCaps` is an administrator moving
the limits at any moment, inside the order the route enforces. A send whose finalize never
committed stays in `sends` for ever, as in the code.

What must hold: the counters are exactly the extra streams held (`ExtrasTrue`); a send's own
counts are those of its calls (`ChildrenTrue`, which only the proof states); a waiting call always has a sibling whose end
will place it (`NoneStranded`), and is served in order (`InOrder`); one send per chat, one per
agent in a channel (`OneSendPerLock`); no step takes a place above a cap or out of the places
kept from scheduled runs (`TakesWithinCaps`, an action property, since a lowered cap ends
nothing); a waiting call stops waiting (`WaitEnds`).

### ChatQueue

A message posted to a busy chat waits as a row; the dispatcher starts the waiting chats when a
place is let go. One event and all the dispatcher does about it is one action over a `world`
record (sends, queued rows, fates, caps, archived chats...): `Sort`, `Launch`, `StartChat`, `Pass`,
`Expire` map a world to a world, as the functions of `queue.ts` of the same names do; their loops over the
rows are walks (`Through`), one step a row. Admission is not
written again: `Places(w)` instantiates `Admission` over the sends of `w` and `RefusalOf` is its `Refusal`.
Starts fail in the three ways the code tells apart: refused before the place is taken
(`TurnedDown`), inside the transaction (`RolledBack`), and after a trial that passed (`Flaky`); each is
a family of sets of messages no turn may hold, so a single culprit, a pair, or a late failure
are instances. The one timer, and the `armedMinutes` it was set for, are state.

What must hold: a place let go goes to a waiting message before the scheduler sees it
(`FreedPlaceTaken`); a chat starts in the order of its rows and a summon alone (`TurnInOrder`); a
message is marked failed only for a cause of its own (`FailsForCause`); nothing that could start
waits while nothing runs (`NothingWaitsIdle`); the timer is never late (`ExpiryArmed`) and every
row settles (`QueuedSettles`).

### SendEnd

One send from its first round to the end of `run()`, with its rows. The awaits are
a stream, the tools of a round, the pause between tries of finalize; `send.at` says which. Any
transaction may fail (`Thrown`), so each operator maps a record to the set of records it may
leave. The phases: the main loop with its summary, the attention step, the memory phase. The causes
(finish, stop, deadline, failure, shutdown) come at any await; the windows cut a phase; `Down` is
a crash or an exit at any moment, `Restart` the repair of the next start.

What must hold: an ended send leaves nothing streaming (`NothingStreams`); a tool that reported
its end has it in its row (`CompletionKept`); a stopped row names a cause that came up
(`CutNamed`); the first cause stands and ended rows change no more (`FirstCauseStands`); a run that
a Stop or a shutdown reached closes nobody's alert (`StopClosesNoAlert`); the `run()` of a send with a
cause comes to its end (`CutSendLetsGo`). That end (`at = "released"`) lets the trees go in every case. The place goes
with them only when the send's end was written (`Freed`): after the third failed try the place and the chat's lock stay
taken until the process goes, which `Admission` says of `sends` too, and the property keeps the two apart.

Abstracted: budgets, the loop check's count, the room of a context and finish reasons are a free choice of the round
(`LaunchCalls`, `RefuseCalls`, the `limited` of `MainCallsOver`); a round asked for the answer may still launch calls in the
model, which the code refuses, so the model has more behaviours there.

### ExternalTasks, TaskLife

Tasks that members hand to agents outside the server. `task`, `claim` and `rows` are the three
tables (`rows` in the order of their rowids), `quiet` the claims silent for the idle limit, `access` and
`sees` what a key may reach. Every operation is one transaction, so one action;
`WriteEntry` is `writeEntry()`, the move, the claim's end and the entry of it together. An agent
whose answer was lost keeps its `call` and may make it again at any moment (`Repeat`), after
moves of members, another claim, a reopen, a revocation. `Outcome` is `agentEntry()`'s chain of
answers in its order: missing, stale, replay, stale, refused, over the limit, written. `Sweep` runs the hourly
sweep, synchronous in the code, and `SweepCut` one that an error ended between its transactions.

What must hold: the two tables agree (`ClaimMirror`); a claim ends once and its last entry says
how (`EndsOnce`); a retry writes once and hears what the first call was told (`RetryAsFirst`).

`TaskLife` says what a task promises without claims, entries or retries: one key at a time
works on it, takes it while it waits for one, within the bound on takings since it was
opened, and only while nobody took it from that key. That a key which was revoked or lost the project
holds nothing is part of it. `LivesAsPromised` is the refinement: the holder is the
key of the task's claim, the takings are the claims since the last reopen, and a key reaches a
task until it is revoked or its user loses the project (expiry is left to the sweep).

### Scheduler

The loop that fires automations, with the checks it asks before a fire. A row of the table is `row[r]` (next time, URL, edit
revision, owner, how its last run stands, its validators, a deferral); `flying`, `ready`, `asked` and `seen` are the GETs
that are out and the answers held; `cut` the runs a restart listed; `full` the caps marked full with the wake
generation as `moved`; `loop` where the loop stands and `list` the rows its pass has left, **as they were
read**. The rows of a pass and its first fire are one turn (`loop = "firing"`, nothing else steps); between fires the loop
yields, and users, answers, runs' ends, a drain and a crash come in. `FireRuns`, `FireSkips`, `FireWaits`, `FireLeaves`,
`FireFails` and `Defers` are the branches of `fire()` and `attempt()`; `Rings` is the one place `wait()` decides to wake; `Boot` is the
repair with `cutRuns()`.

Abstracted: time in units of `PASS_MS`; a schedule as its first time and a gap; a suspended row is one without a next
time; "the listed run is still the last" is `last = "cut"`; the cap and the scheduled share are one bound;
`stop()` is part of `Halt`. Left out: deletes, a retired agent, edits of the flags, the retention sweep, alerts of a silent
check, the words of reasons, a failed write in `settle()`.

What must hold: an occurrence is settled once, whoever takes it (`SettledOnce`); the validators a check sends are of the row's URL
and of an answer a run ended with (`SavedTold`); the loop sleeps over a due row only while a wake is owed (`SleepsOwed`);
a listed rerun leaves the list only for a reason (`RerunLeaves`: of rows whose URL and owner are as the pass read them, the
others are the finding `scheduler_rerun`); everything due is dealt with (`WorkSettles`).

### Alerts

An automation's alert, which its marked runs and its silent check share. No table lists an alert's
runs: they are the marked ones that ended at `since` or later, and the check holds the alert while its mark is no
older (`AlertRuns`, `CheckHolds`). `Word` is `runEnded()`, said at a run's end or, by the decider, any time later;
`End` is the end of a run with the ask it may leave, `AskEnds` one answer of the decider with the asks that start after it,
`Ask` the bounded queue that drops its oldest. `CheckFails`, `CheckAnswers`, `Dismiss`, `Delete`, `Close`, `Gone` and
`Boot` are what else moves the rows.

Abstracted: the clock never steps back, and ends may share a time; a check may have been silent for `CHECK_SILENCE_MS` at
any failing GET; an edit of the URL does what an answer does; an ask that is skipped since nobody decides any more is
one that ends "undecided"; a write that fails, or an answer while the process closes, is "lost". Left out: the email, the reason and count
of an alert, its revision, the delete of an automation.

What must hold: an open alert has something to look at (`OpenHasCause`); what an alert calls for stands until a
dismissal, a delete, the check's answer or a newer run's word, and a mark is heard (`CallsStand`); every ask ends, at
the queue's limit too (`AsksSettle`).

### Repos

The trees a turn mounts. A call is one `ensure()` of one row with the mount its turn keeps: `call[c].pc` is where it awaits,
`copy` the row **as it was read**, `from` and `on` the lookup and the fetch it waits for, `got` what it just heard. `answers` are the
lookups of this minute; `job` the fetch jobs with their slots (`slotQ`), a public lookup's, which becomes the fetch of the commit it
names, and a tree's; `inFlight` who fetches which tree; `refused` the failures remembered under the caps; `index`, `disk` and `holds`
the cache. `Prepare`, `Looked`, `Answered` are `ensure()` between its awaits, `Attempt` one round of its loop, `ByCommit` the three answers of
`byCommit()` (join, wait once for another key's fetch, fetch on its own); `Ends` is the end of `run()`, which hands its slot on, settles the tree's promise and
remembers the failure; `Evicted` is `evict()`; `Writes`, `AskRefresh`, `Deletes` the routes with the `refresh()` they end in (`toStart`).
What an answer sets off is done before the next event: an event waits until no call has an answer in hand (`Quiet`), while two such calls
go on in any order.

Abstracted: the rows share one URL, kind and ref, so a lookup is shared by key and a tree is a commit under ignore rules; `failed`
stands for every other word of `REPO_ERRORS`; a 304 is an answer that names the commit the row had; the two kinds of slots are one queue with a stage
after it; a tree counts one against `repoCacheBytes`. `lost`, `left` and the `of` of a row are kept for the properties. Left out: a write of the table
that fails, a worker that publishes after the main thread gave it up, the wire formats, tar members and redirects. A public lookup whose archive
named no commit asks the API, which a drain does not cut; in the model `Close` ends every lookup that asks. Nothing is written
while the process closes, so no row can tell them apart.

What must hold: a tree is held once for each mount, and stands while it is mounted (`MountsStand`); a row that says pending or fetching is
owed an answer (`RowOwed`); a row and a turn hear what hosts told the row's own key (`OwnWord`); no slot is free while a job
waits, and nobody waits for nothing (`SlotsOK` and `WaitsOK` in `TypeOK`).

### AdmissionProofs, ChatQueueProofs, SendEndProofs, ExternalTasksProofs, SchedulerProofs, AlertsProofs, ReposProofs, ReposWordProofs

The theorems about `Admission`, `ChatQueue`, `SendEnd`, `ExternalTasks`, `Scheduler`, `Alerts` and `Repos`, below.

## Runs

| run | instance | shows |
|---|---|---|
| `admission` | 2 sends of two runs, 3 + 2 calls, two sets of caps, fair | counters, lists, order and end of the waiting calls, locks, caps, the scheduled share |
| `queue_places` | 2 messages in each of 2 chats, one a summon, two refused together, 2 extra streams, moving caps | freed places, order, culprits, nothing waits idle |
| `queue_expiry` | 2 messages of a chat, a run, two waits, every change around the queue, fair | the timer, every row settles |
| `queue_idle_summon` | 3 messages of one chat, the summon refused | **violated**, see Findings |
| `send_end` | 5 calls over the three phases, 5 kinds of send, 3 faults, fair | all of the end, that it comes, and what it lets go |
| `send_deaf_tool` | 3 calls, tools not fair | **violated**, see Findings |
| `external_tasks` | 2 tasks, 2 keys of a user, 2 claims, a lost answer | all safety of tasks, the refinement of `TaskLife` |
| `scheduler` | a checked once row and a plain one, two projects, one place, two changes, fair | occurrences, validators, reruns, sleeps, everything due is dealt with |
| `scheduler_answer` | the same, both rows checked | **violated**, see Findings |
| `scheduler_rerun` | as `scheduler` | **violated**, see Findings |
| `alerts` | 2 runs of a checked automation and 1 of another, one ask out and one waiting, fair | causes and calls of an alert, the asks |
| `repos` | a public and a signed row, two calls, one slot, room for one tree, a commit over one of two caps | mounts and holds, rows owed an answer, whose answer it is, slots |

Bounds, and why they are enough:

- `Sends`, `Calls`: three calls of one parent are the fewest for which one waits behind a waiter
  while a sibling ends; two sends with two extra streams fill a process of four, where the next extra
  stream is refused and the share kept from scheduled runs bites. The caps are at the floors the
  limits allow. Channels and sends of users beside them are in the theorems only.
- `MaxExtras` (ChatQueue): 2 extra streams, so one can be let go while one is held.
- `Messages`: three in one chat are a batch, a summon and a row behind it; the fourth is another
  chat's, which a pass visits in between. Each message is posted once.
- `MinuteSets`: ages stop at the longest wait, past which an age says nothing more. `Changes` names
  which kinds of change around the queue a run enables.
- `MaxFaults` = 3 transactions fail: as many as the tries of one finalize.
- `MaxRounds` = 7 rounds: each phase has a round after its calls, one more for an answer asked
  again. A round whose calls are refused counts too. The attention step and the memory phase may begin past the
  bound, so there are at most `MaxRounds + 2` replies.
- `MaxMoves` = 3: entries (claims apart) and losses of access of one behaviour. Three are a report, an
  answer and a report; an unclaim, a cancel and a reopen before the next claim; the fourth
  entry of an agent, one past the closing ones. The sweep's own entries always land. `MAX_CLAIMS` =
  1 lies below `CLOSING_ENTRIES` = 3 and that below `MAX_ENTRIES` = 4, the order of the code's 20, 240 and 250.
  `MAX_UNFINISHED` = 1 makes two tasks compete for the project's room; two tasks held at one time
  are outside this instance, and the operations touch each task by itself.
- `MaxLost` = 1 call waits for an answer; it may be repeated any number of times.
- `MaxTime` = 3 (Scheduler), in passes of the loop: rows fire at 1 and 3, and at 2, so that one is due while the other's
  next comes, and one occurrence is missed while its row waits. `Budget` = 2 changes of `Changes` around the
  loop: an edit and a fault, a halt and an edit of what was cut, two places taken. `ProjectCap` and
  `ProcessCap` are 1, so that the two rows compete.
- `MaxTime` = 2 (Alerts): times are compared only, three of them put a check before, at and after a run's end.
  `ASKS_AT_ONCE` = `MAX_QUEUED` = 1 (2 and 64 in the code) lets the third run's ask drop the second's.
  `MaxTime` = 3 was checked once for the safety properties, with the same result.
- `Calls` = 2 ensures at once (Repos): one joins, waits for, or evicts the tree of the other. `FETCHES` = 1 (2 in the code) makes them wait for a slot;
  `CacheTrees` = 1 makes the second tree evict the first unless it is held; `CapValues` = {1, 2} with commits of size 1 and 2 puts one commit over one
  of the caps. `Begun` is what a start finds: a row to fetch and one fetched before. `MaxMoves` = 2 counts what users, operators, the clock and restarts do,
  turns included: an edit under a turn, a refresh and a removed tree, a drain and a restart. Three rows and three calls,
  where two jobs fetch one tree at once for two keys, were checked once with one commit, with the same result.
- Symmetry is used for tasks of a project, keys of a user, calls of the same parent and for send ids, in runs without liveness.

`CHECK_DEADLOCK FALSE`: ExternalTasks has no move left once its bounds are spent and every task is
deleted. SendEnd stops once the process is repaired or the send is
over. `Repos` states where it may rest (`Rest`: moves spent, every call free), so its run checks that no call is left waiting.

## Fairness

- `Admission!Fairness`: a running child's call does not run for ever. It has its own rounds and token
  budget and hears its parent's abort (`runner/child.ts`). Nothing is assumed of users, caps or starts.
- `ChatQueue!Fairness`: time passes and a due timer rings. Sends need not end: a row that cannot
  start expires.
- `SendEnd!Fairness`: an aborted stream lets go (the request carries the signal), a phase's window
  elapses and a pause ends (timers). `FairTools`, a tool that runs returns, is kept apart: every
  built-in tool hears the abort, but the loop does not enforce it, which `send_deaf_tool` shows.
- `Scheduler!Fairness`: the loop leaves each of its states (its awaits are timers and yields), a process that went down
  starts again, a GET ends within its timeout, a run within its deadline, and other sends let their places go. Nothing is
  assumed of edits, Run now, faults and halts: `Budget` ends them.
- `Alerts!FairSpec`: an ask that is out ends, since the decider's request has a timeout (`DECIDE_TIMEOUT_MS`).

Admission's and Scheduler's fairness is written on states (`[]<>`) and not on actions: a call or a run
that recurs for ever in a phase is excluded, whichever action ends it.

## Findings

- `queue_idle_summon` (code): a batch is cut at a summon. When that batch fails for good, `startChat()` answers
  "none" and clears the request for another pass, and the rows behind the cut stay in a free chat
  with no wake to come, until something unrelated wakes the queue or they expire.
- `send_deaf_tool` (comment and code): `ending.ts:77` says a tool that ignores the abort never holds a
  run open; `tool-loop.ts` awaits every tool before the loop returns, and the end comes after.
- `scheduler_answer` (code): a pass fires the rows as it read them and lets requests in between. An edit that clears a row's
  check URL meanwhile leaves the held answer matching the row as read, and `attempt()` compares the answer only if
  the row still has a URL: the run starts with the removed page's answer.
- `scheduler_rerun` (code): a listed rerun without a check that is given one while the pass yields has no answer to start
  on, and `fire()` takes the missing answer for a rerun that is over: it is unlisted without a run.

One was met in ExternalTasks and is allowed by its model: `docs/external-tasks.md:158` says a key holds at most
`MAX_KEY_UNFINISHED` unfinished tasks it made; a member's reopen asks for room in the project only
(`actions.ts:177`), so tasks the key made and closed come back above the bound.

Five were met in Repos:

- `docs/repos.md` says of a row "`fetching` while one runs". A fetch that waited out its slots and one of a pinned tree write nothing at their
  end, so the row stays `fetching` with nothing running, until a turn, a refresh or a start. `RowOwed` excepts them by `left`.
- A public lookup's job runs under the caps of its start, and its failure is remembered under those of the moment its commit came: a
  cap moved in between is refused for an hour on the word of the other (`under` in `NoJob`).
- "A job waits at most `REPO_SLOT_WAIT_MS`": it takes two kinds of slots, each with a wait of its own.
- `ready()` writes the row after `hold()`: a write that fails leaves a hold nobody lets go. The model leaves such writes out.
- A turn's call that is older than a refresh may end after it and put the older commit on the row: the write asks for the fields
  that are fetched, which a refresh leaves as they were.

Four were met in Alerts and are carved out of `CallsStand` or allowed by it, each where the code and a sentence
of `docs/attention.md` or a comment differ:

- A decider's late mark for a run that ended before a silent check opened the alert does not join that alert
  (`openAlert` leaves an open one as it is, and the run's end lies before `attention_since`); the check's answer then closes it.
- `endedAfter()` counts a finish which a Stop interrupted, which elsewhere has no say on the alert.
- A late mark backdates `attention_since` to its run's end, so that the mark of a check a user dismissed after that end
  holds the new alert.
- A clean run's close clears the mark of a dismissed check; one that is still silent may open the alert anew.

## What is proved

`AdmissionProofs` proves, for every number of sends, calls, sessions, users and every set of caps
that satisfies `AdmissionAssumption`:

- `TypeCorrect`, `CountersExact`, `CountsExact`, `WaitersServed`: `Spec => []` of `TypeOK`, `ExtrasTrue`,
  `ChildrenTrue`, `NoneStranded`.
- `LockHolds`: `Spec => []OneSendPerLock`, with channels, which the run's instance leaves out.
- `CapsKept`: `Spec => TakesWithinCaps`. `ServedInOrder`: `Spec => InOrder`.

`Invariant` is the argument: `ExtrasTrue` alone is not inductive, because `freeExtra()` floors its counters at
zero and `freeSlot()` trusts the send's own `running` and `inPlace`. `IInv` adds to the types and the
counters what each send's counts say of the stages of its calls, that its list holds
exactly the waiting ones, that who is gone has no call left, and that a waiter has a running sibling and a live,
unaborted parent. With it a decrement never meets the floor, and the number of waiters `Placed` takes
is at least one whenever the last running child ends before waiters, so none is stranded.
Lemmas about cardinalities of the sets of calls (one call added, one removed, the first n of a
list) carry the counters through `ChildEnds`, the one step that moves several calls. `CapsKept` needs the
counters on both sides of a step: the room `takeExtra()` saw is room in the sets the cap is about, and what
`Placed` hands on was held before. `LockHolds` needs the types only.

`ChatQueueProofs` proves, for every number of chats, runs, messages and users, every length of the queue, every caps and waits,
and any families of turns that fail:

- `QueueTyped`, `QueueArmed`: `Spec => []` of `TypeOK` and `ExpiryArmed`. `QueueInOrder`, `QueueFailsForCause`: `Spec =>` of
  `TurnInOrder` and `FailsForCause`.
- `QueueWaitsOnRuns`: `Spec => []NothingWaitsIdle` if no turn dies (`NoTurnDies`: there is no summon, or no start fails after its
  trial passed and no single message is refused). It is the exact absence of the finding `queue_idle_summon`: a turn
  cut at a summon dies only when nothing is left of it.
- `FreedPlacesAreTaken`: `Spec => FreedPlaceTaken` under `NoTurnDies` and without turns refused before their place
  (`TurnedDown = {}`). A full process ends a pass before it visits a later chat, although a turn of that chat which would be refused at once
  needs no place: the property, which calls such a chat startable, is false of it, and what is lost is only a later refusal.

`QueueInv` is the invariant of the first four: `Fit` says that the queue holds each waiting message once, so that "earlier in
the queue" means something; `Aged` that ages fall along the queue, because messages are queued one after the other, which is why a timer
set for the oldest row is late for none; `Timed` that the timer and what it was set for agree with the oldest row. An event composes sorts, starts
that fail and are tried again, and whole passes inside failed starts, so the action properties are proved of a relation between two
worlds: `Dispatches(v, w)`. Its clauses are those that compose: rows only leave (`Thins`), what is around the queue stays (`Alike`), what
started stood before what waits still in its chat (`Ordered`), a chat starts once at most and with a batch (`Whole`, `Behind`,
`Together`), and who failed had a cause (`Caused`). `DispatchesOn` composes them, `SortDispatches` to `StartAloneDispatches` are one lemma for each
function of `queue.ts`, and `ThroughKeeps` carries the relation over the walks: a property indexed by the position,
by least-number induction on a set, since a step of a walk is a function and no operator parameter is needed.

`IdleInv` is the invariant of the other two: while nothing runs no extra stream is held and, unless the process drains, the queue is empty.
`StartEnds` says what one start leaves of its chat (it runs, has no row left, or cannot have a place: `Done`), `PassEnds` that a pass leaves each chat
so unless the process is full, where what a later visit takes frees no place for an earlier chat (`ChokedStill`).

`SendEndProofs` proves, for every number of calls, of failed transactions and of rounds and any set of sends:

- `SendTyped`, `NothingLeftStreaming`, `CompletionsKept`, `CutsNamed`, `StopKeepsAlerts`: `Spec => []` of `TypeOK`, `NothingStreams`,
  `CompletionKept`, `CutNamed`, `StopClosesNoAlert`. `FirstCauseHolds`: `Spec => FirstCauseStands`.

All follow from `SendInvariant`. A step of the model is a composition of operators on a world (the send, its rows, the faults, what came up),
each with a set of outcomes, so the invariant is one of worlds, and of those within a turn too. A `Live` world, whose end is not
written, has as open calls those whose row streams, and no reply that streams but the current round's (`RowsOK`); a phase that is over
with calls open was cut, or a failure came up in it (`CutsOK`), which is what makes `CutText` true; a call that let go has its row, unless the
round's results wait (`WaitingOK`), so that a next request never opens over an open call; a Stop or a shutdown is remembered in `interrupted`
or is the cause (`StopsOK`), so that `AlertChange` never closes after one. A `Closed` world has the properties themselves, a `Repaired` one
what `repairRows()` leaves of them. A lemma for each operator, from `AskedIs` to `TurnRest`, says that it leads from a live world to live
or closed ones and that what no step takes back is kept (`Keeps`: the cause, rows that ended). The proof found `TypeOK` wrong
for small `MaxRounds`, which TLC's instance does not reach: the bound on `round` was one a phase may begin past.

`ExternalTasksProofs` proves, for every number of tasks, keys, claims and entries, tasks held at one time included:

- `TasksTyped`, `ClaimsMirrored`: `Spec => []` of `TypeOK` and `ClaimMirror`, from `TaskInv`. Every write is a move of a set of tasks that the rules allow
  (`MoveOK`, `Moved`), a take, a note, a make or a delete; each keeps that the two tables agree.
- `ClaimsEndOnce`: `Spec => []EndsOnce`, from `RowsInv`: an entry names a claim of its own task, no entry ends a live
  claim, and after the one that ended it only what belongs to others comes.
- `RetriesHearTheFirst`: `Spec => []RetryAsFirst`, from `CallsInv`, which says of a lost call what its claim and the entries after its own
  row may have become, whatever else moved in between.
- `LivesKeepThePromise`: `Spec => LivesAsPromised`, the refinement of `TaskLife`, step by step. `LifeInv` adds that a task without a row has no
  entries (`EmptyOK`), that the claims since the last reopen are within the bound (`BoundOK`), and that who holds a task can reach it (`HolderOK`).
  Each step maps to one of `LifeNext` or to a stutter for each task.

`SchedulerProofs` proves, for every number of rows, projects, places and minutes and any changes around the loop:

- `SchedulerTyped`, `OccurrencesSettleOnce`, `ValidatorsWereTold`, `NoWakeIsLost`: `Spec => []` of `TypeOK`, `SettledOnce`, `SavedTold`, `SleepsOwed`.
- `RerunsLeaveForAReason`: `Spec => RerunLeaves`.

`SchedulerInv` is their invariant. `PlacesOK` bounds the places taken by the process's cap, which `TypeOK` needs for the places others
hold; `Past` says that what is settled is past and what is next is not; `HeldOK` that whatever is held of a row (a GET, an answer,
the row as a pass read it) has its URL or an earlier revision, so that an edit never makes an old answer current; `FullTrue` that a cap
marked full is full, with `SleepOK` the argument that no wake is lost; `CutDown` that a process that ended lists no rerun. `RowGoes` sums up what any step does to a row,
and each part of the invariant is carried over it. The proof found an earlier `RerunLeaves` false for a third change: it took the first row of the pass
for the one that left, and did not say that a row suspended when the pass read it may leave.

`AlertsProofs` proves, for every number of runs and automations and any limits of the decider's queue:

- `AlertCaused`: `Spec => []OpenHasCause`. The strengthening `AlertInv` adds that nothing of an alert is of the future:
  a failing check marks the alert at `now`, and only if `since` is no later does it hold what it joins. `Sound` is
  the invariant of one alert; each way an alert moves keeps it (`ClosedSound`, `OpenedSound`, `WordSound`,
  `CheckFailsSound`, `CheckAnswersSound`), and runs that only end or get marks keep it (`StaysSound`), so each step is a
  sum of those. A delete is the one step that takes a marked run away.
- `AlertsTyped`: `Spec => []TypeOK`, whose parts say more than types: an automation runs once at a time, a mark is on an
  ended run that was not cut, the asks are within their limits and each run is asked about at most once. `StartAsksOK` is
  what `next()` does to a list without repeats, `AskMoves` and `AskEndsMoves` the two ways it is called.
- `AlertStands`: `Spec => CallsStand`, from both. `WordTakes`: only a "close" takes a call away, and only an older one, because
  `endedAfter()` counts a run that ended at the same time against a close and not against an open. `WordHeard`: a late mark
  that cannot join the alert has, by `AlertCaused`, a newer marked run in it or a check that opened it later.
  `WordStands` lifts them to a step; `EndStands` and `AskEndsStands` show that what says "close" (the run that ended,
  the ask that was dropped, the ask that was answered) is a run that had no mark and was not cut, which is where the
  types are needed.

`ReposProofs` proves, for every number of calls, rows, keys, trees and slots and any size of the cache:

- `MountsHeld`: `Spec => []MountsStand`. `HoldsInv` adds only the fields of a call and the domain of `holds`: no types are needed, since an invariant
  that counts has to know which calls a step may move. `AlikeHolds` is for the steps that tell calls something and move none of them, `MovedHolds` for those where
  one call goes on that mounted nothing, `AttemptHolds` for the one that takes a hold. `EvictsStays` is the other half: what is evicted has no
  hold, so by the count nobody mounts it.
- `ReposTyped`: `Spec => []TypeOK`, whose last two parts are no types: `SlotsOK` and `WaitsOK`. `ReposInv` joins `OwnInv` of the next module with three
  more. `SlotInv`: the list of those who wait holds each of them once, or a slot handed to its head would leave a second entry of a job that no
  longer waits. `OutOK`: what a call waits for and what is in flight for a tree is a job that is out, and a job out for a tree has the call
  that began it waiting; so a call that waits for nothing may begin a job under its own name (`GoesFetchingOut`) and no job ends unheard (`EndsOut`).
  `JobOK`: only a public lookup that still asks has no commit, so what is published or remembered is a tree. `Counts` says that
  `holds` is a function of the trees, and `HoldsInv` that its values are sizes. `WithoutMembers` is what taking entries out of a list does to it.

`ReposWordProofs`, for every number of rows, keys and calls that share lookups, trees and fetches:

- `WordsOwn`: `Spec => []OwnWord`. The word of a key passes through a lookup shared by key, a fetch shared by tree and a memory of
  failures, so `OwnInv` has to say of each who it speaks for. A call waits for one thing at a time (`CallOK`); one that waits for a fetch at `tree`
  waits for a fetch of its own key, and the call that began a fetch waits for it with all that joined, so its record is not used
  again under them (`FetchesOK`); whoever asks for a lookup is still there, under the same key (`LooksOK`). `GoesOn` and `GoesFetching` are a call that heard
  its answer, `EndsOwn` the end of a fetch, `HeardCalls` and `HeardLooks` the end of a lookup; `FetchedOK` is the table.
- `RowsSettle`: `Spec => []RowOwed`, on top of `OwnInv`. `OwedInv` says which call owes a row: a pending row one that read it pending and
  still looks it up with no pin, since a pinned commit found in the cache writes nothing; a fetching row any that read it unsettled.
  It needs that no lookup ends "queued", which writes nothing either (`AnswerOK`). `OneMoves` is the argument for every step of a call: its row is
  as it was and still owed, or left, or settled, or owed by the call itself from now on (`Marked`).

Assumed: only `AdmissionAssumption` (finite sends and calls, the shape of the constant functions, caps
at least at the limits' floors), `QueueAssumption` (finite messages and sessions, the schedule not a user, turns of at least one
message, waits and caps of at least one, a longest wait), `SendEndAssumption` (finite calls, each of one phase, the kinds of sends the code makes, a first round),
`ExternalTasksAssumption` (the shape of the constant functions, limits that are numbers, the closing entries within all of them),
`SchedulerAssumption` (finite rows and projects, "process" not the name of one, schedules after the start, caps of at least one), `AlertsAssumption` (finite runs, positive limits), `ReposAssumption` (finite calls, distinct marks, sizes and limits that are numbers)
and `BegunAssumption` (the table at the first start: the start has set fetching rows back to pending, and a settled row tells its own key's word).
TLC evaluates each on the runs of its module.

Model-checked only: liveness, which is out of the prover's reach with ENABLED: `WaitEnds` of
Admission, `QueuedSettles` of ChatQueue, `CutSendLetsGo` of SendEnd, `WorkSettles` of Scheduler, `AsksSettle` of Alerts, and the
four violated runs.

## Not modelled

Wording, formatting, frames of the providers, what a tool computes, SQL, files and network:
data the properties do not tell apart. Parts that are rows edited in one
transaction (users, projects, agents, skills, credentials) hold by the transaction. The client
and the socket deliver committed rows and reload on doubt. A part with an interesting order
of its own that is not here yet is in the plan.

## Plan

1. *Done*: Admission; ChatQueue over it; SendEnd; ExternalTasks, a refinement of TaskLife; Scheduler; Alerts; Repos; proofs about all of them.
2. If there is room: the outbox of the email sender with its stale claims, the two lanes of `lib/search-queue.ts`, pending turns of
   channels, the merge of memory edits.
