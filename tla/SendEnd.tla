------------------------------ MODULE SendEnd ------------------------------
(***************************************************************************)
(* The life of one send from its first round to its end:                   *)
(* src/server/runner/index.ts (terminate, run), tool-loop.ts, ending.ts,   *)
(* attention-step.ts, memory-phase.ts, the rows writer.ts and              *)
(* reply-rows.ts leave, and the repair of a process that died.             *)
(*                                                                         *)
(* Everything between two awaits is one action.  The awaits are: a         *)
(* provider's stream, a tool's run, and the pause before a finalize is     *)
(* tried again.  Any transaction may fail, which the code meets with a     *)
(* cause, a failed phase or another try.  An operator maps a record w of   *)
(* the send, its durable rows and the faults so far to the set of the      *)
(* records it may leave.                                                   *)
(***************************************************************************)
EXTENDS Integers, Sequences, FiniteSets

CONSTANTS
    Calls,       \* the tool calls a send makes
    PhaseOf,     \* [Calls -> Phases], the phase whose round makes it
    Kinds,       \* the sends: a run or not, its phases after the answer
    MaxFaults,   \* bound: transactions that fail
    MaxRounds    \* bound: provider rounds of the send; the attention step
                 \* and the memory phase begin past it too

\* "main": phases provider and tools
Phases == {"main", "attention", "memory"}
Causes == {"finish", "stop", "deadline", "failure", "shutdown"}

FINALIZE_ATTEMPTS == 3
ATTENTION_ROUNDS == 2

ASSUME SendEndAssumption ==
    /\ IsFiniteSet(Calls)
    /\ PhaseOf \in [Calls -> Phases]
    /\ Kinds \subseteq {{}} \cup
          {{"run"} \cup S : S \in SUBSET {"attention", "memory", "off", "decider"}}
    /\ \A kind \in Kinds : "off" \in kind => kind \cap {"attention", "decider"} = {}
    /\ MaxFaults \in Nat
    /\ MaxRounds \in Nat \ {0}

VARIABLES
    send,     \* the ActiveSend, in the process
    db,       \* its durable rows
    faults,   \* transactions that failed so far
    asked,    \* per phase: the causes that came up while it was current
    proc      \* the process: up, closing, down, or up again

vars == <<send, db, faults, asked, proc>>

\* steps: its kind, the phases after the answer it may have, and its
\* automation's attention mode, "agent" where it names none; at: what run() awaits; round: the
\* current round's reply row, 0 for none; open: openTools; running: calls
\* whose tool has not let go; settled: how each ended, kept once its row
\* is written; deferred: results wait for their siblings; cut: the phase's
\* own controller is aborted; broken: a write of the round failed;
\* limited: a budget asked for the answer; stepped: the step's rounds
Sends(places) ==
    [steps : Kinds, at : places,
     phase : Phases, cause : Causes \cup {"none"}, round : 0..MaxRounds + 2,
     open : SUBSET Calls, running : SUBSET Calls,
     settled : [Calls -> {"none", "ok", "interrupted", "lost"}],
     summarizing : BOOLEAN, deferred : BOOLEAN, broken : BOOLEAN, limited : BOOLEAN,
     ending : BOOLEAN, cut : BOOLEAN, interrupted : BOOLEAN,
     cutBy : {"none", "stop", "shutdown", "deadline"}, said : BOOLEAN,
     stepped : 0..ATTENTION_ROUNDS, attempts : 0..FINALIZE_ATTEMPTS,
     terminal : Causes \cup {"none"}]

\* reply: each round's row; row: each call's; why: what a stopped row
\* names; end: the send's cause once its row ended; alert: what the end
\* did to the automation's alert
Durable ==
    [reply : Seq({"streaming", "ended"}),
     row : [Calls -> {"none", "streaming", "done", "stopped"}],
     why : [Calls -> Causes \cup {"none", "unrun", "restart"}],
     end : Causes \cup {"running", "restart"},
     alert : {"same", "open", "close"}]

\* where a send awaits or is done; "over" is within a turn only
Places == {"round", "calls", "pause", "released"}

TypeOK ==
    /\ send \in Sends(Places)
    /\ db \in Durable
    /\ Len(db.reply) \in 1..MaxRounds + 2
    /\ send.round <= Len(db.reply)
    /\ faults \in 0..MaxFaults
    /\ asked \in [Phases -> SUBSET Causes]
    /\ proc \in {"up", "closing", "down", "repaired"}

----------------------------------------------------------------------------
(* Worlds *)

World == [s |-> send, d |-> db, f |-> faults, a |-> asked]

Become(w) == send' = w.s /\ db' = w.d /\ faults' = w.f /\ asked' = w.a

CallsOf(p) == {c \in Calls : PhaseOf[c] = p}

Asked(w, cause) == [w EXCEPT !.a[w.s.phase] = @ \cup {cause}]

\* the records in which a transaction rolled back and threw
Thrown(w) == IF w.f < MaxFaults THEN {[w EXCEPT !.f = @ + 1]} ELSE {}

\* claim() with no regard for an earlier cause
ClaimLast(w, cause) == [Asked(w, cause) EXCEPT !.s.cause = cause]

\* claim(): the first caller wins
Claim(w, cause) ==
    IF w.s.cause # "none" THEN Asked(w, cause)
    ELSE [Asked(w, cause) EXCEPT !.s.cause = cause]

\* a phase that hears the Stop and not its own window
AbortedByStop(s) == IF s.phase = "main" THEN s.cause # "none" ELSE s.ending

\* the signal of the round or the tools that are out
Aborted(s) == IF s.phase = "main" THEN s.cause # "none" ELSE s.cut

\* the rows of DOMAIN why as a transaction leaves them
Rows(w, status, why) ==
    [w EXCEPT
        !.d.row = [c \in Calls |-> IF c \in DOMAIN why THEN status ELSE @[c]],
        !.d.why = [c \in Calls |-> IF c \in DOMAIN why THEN why[c] ELSE @[c]]]

\* one word for every call of S
Named(S, word) == [c \in S |-> word]

\* finishReply() of the current round, guarded by its status
EndReply(w) ==
    IF w.s.round = 0 THEN w ELSE [w EXCEPT !.d.reply[w.s.round] = "ended"]

\* a round whose reply row was never written
NextRoundUnwritten(w) ==
    [w EXCEPT !.s.round = Len(w.d.reply) + 1, !.s.at = "round"]

\* a streaming reply and its round
NextRound(w) ==
    [w EXCEPT !.d.reply = Append(@, "streaming"),
              !.s.round = Len(w.d.reply) + 1,
              !.s.at = "round"]

----------------------------------------------------------------------------
(* The end *)

\* a mark of the agent's or of the runner's own
RunMark(s) ==
    /\ "off" \notin s.steps
    /\ \/ s.said
       \/ s.cause \in {"failure", "deadline"}
       \/ s.cause = "finish" /\ s.limited

\* a run's end over its automation's open alert; a chat has none, and a
\* decider has its say later
AlertChange(s) ==
    IF "run" \notin s.steps \/ s.cause \notin {"finish", "failure", "deadline"}
    THEN "same"
    ELSE IF RunMark(s) THEN "open"
    ELSE IF s.cause # "finish" \/ s.interrupted \/ "decider" \in s.steps THEN "same"
    ELSE "close"

\* what the row of a call that reported no end names
CutText(s, c) ==
    IF PhaseOf[c] # "main" /\ s.cutBy # "none" THEN s.cutBy
    ELSE IF s.cause = "finish" THEN "failure" ELSE s.cause

\* every open row stopped, what its call reported forgotten
CutAll(w) == {Rows(w, "stopped", [c \in w.s.open |-> CutText(w.s, c)])}

\* the completions of S lost, each by a savepoint that failed
Lose(w, S) ==
    [w EXCEPT !.f = @ + Cardinality(S),
              !.s.settled = [c \in Calls |-> IF c \in S THEN "lost" ELSE @[c]],
              !.a = [p \in Phases |-> IF S \cap CallsOf(p) = {}
                                      THEN @[p] ELSE @[p] \cup {"failure"}]]

\* cutOpenTools(): a completion kept whole, unless its own savepoint
\* fails, and the others stopped
CutOpenTools(w) ==
    LET ends == {c \in w.s.open : w.s.settled[c] = "ok"}
        Cut(lost) ==
            Rows(Rows(Lose(w, lost), "done", Named(ends \ lost, "none")),
                 "stopped",
                 [c \in (w.s.open \ ends) \cup lost |-> CutText(w.s, c)])
    IN  {Cut(lost) : lost \in {L \in SUBSET ends : w.f + Cardinality(L) <= MaxFaults}}

\* openTools cleared
Emptied(w) == [w EXCEPT !.s.open = {}]

\* the tail of run(): the deadline disarmed, the trees released, letGo()
Release(w) == [w EXCEPT !.s.at = "released"]

\* free() there, which gives back the send's place and the chat's lock,
\* only when finalize() returned true
Freed(s) == s.at = "released" /\ s.terminal # "none"

\* the end as finalize()'s transaction writes it
Ended(w) ==
    Release([EndReply(w) EXCEPT !.d.end = w.s.cause,
                                !.d.alert = AlertChange(w.s),
                                !.s.terminal = w.s.cause,
                                !.s.open = {}])

\* a try that failed: a pause before the next; after the last run() is
\* over, and the place stays taken
Failed(w) ==
    [w EXCEPT !.s.attempts = @ + 1,
              !.s.at = IF w.s.attempts + 1 < FINALIZE_ATTEMPTS
                       THEN "pause" ELSE "released"]

\* the ends forgotten before the commit that needs them
ForgetThenFinalize(w) ==
    {Ended(v) : v \in CutOpenTools(w)}
      \cup {Emptied(Failed(v)) : v \in Thrown(w)}

\* finalize(): one try
Finalize(w) ==
    {Ended(v) : v \in CutOpenTools(w)}
      \cup {Failed(v) : v \in Thrown(w)}

HasMemoryPhase(s) ==
    "memory" \in s.steps /\ s.cause \in {"finish", "deadline", "failure"}

\* a memory phase that keeps what cut the step before it
StartMemoryCut(w) ==
    {NextRound([EndReply(w) EXCEPT !.s.phase = "memory", !.s.cut = FALSE])}
      \cup UNION {Finalize(Asked(v, "failure")) : v \in Thrown(w)}

\* memoryPhase() up to its first request: a new window, and what cut an
\* earlier step forgotten
StartMemory(w) ==
    {NextRound([EndReply(w) EXCEPT !.s.phase = "memory",
                                   !.s.cutBy = "none", !.s.cut = FALSE])}
      \cup UNION {Finalize(Asked(v, "failure")) : v \in Thrown(w)}

\* stopMainTools(), then the phase
EnterMemory(w) ==
    IF w.s.open = {} THEN StartMemory(w)
    ELSE (UNION {StartMemory(Emptied(v)) : v \in CutOpenTools(w)})
           \cup UNION {Finalize(Asked(v, "failure")) : v \in Thrown(w)}

AfterStep(w) ==
    IF HasMemoryPhase(w.s) /\ ~w.s.ending THEN EnterMemory(w) ELSE Finalize(w)

HasAttentionStep(s) ==
    /\ "attention" \in s.steps
    /\ s.cause = "finish"
    /\ ~RunMark(s)
    /\ ~s.ending

StartStep(w) ==
    {NextRound([EndReply(w) EXCEPT !.s.phase = "attention",
                                   !.s.cutBy = "none", !.s.cut = FALSE,
                                   !.s.stepped = 1])}
      \cup UNION {AfterStep(Asked(v, "failure")) : v \in Thrown(w)}

\* endSend(): from where the phase that is over leaves the send
EndSend(w) ==
    IF w.s.phase = "main" /\ HasAttentionStep(w.s) THEN StartStep(w)
    ELSE IF w.s.phase # "memory" THEN AfterStep(w)
    ELSE Finalize(w)

\* the turn in which a phase is over goes on to what follows it
Turn(W) == UNION {IF w.s.at = "over" THEN EndSend(w) ELSE {w} : w \in W}

----------------------------------------------------------------------------
(* A round of each phase *)

Over(w) == {[w EXCEPT !.s.at = "over"]}

\* attentionStep()'s end: a verdict from before an abort or an error is
\* dropped with the rest
StepOver(w, failed) ==
    Over([w EXCEPT !.s.said = @ /\ ~failed /\ ~w.s.cut])

\* the phase ends, done or failed: a main loop with the cause run() claims
Leave(w, failed) ==
    CASE w.s.phase = "main" ->
            Over(IF w.s.cause # "none" THEN w
                 ELSE Claim(w, IF failed THEN "failure" ELSE "finish"))
      [] w.s.phase = "attention" ->
            StepOver(IF failed /\ ~w.s.cut THEN Asked(w, "failure") ELSE w, failed)
      [] w.s.phase = "memory" ->
            Over(IF failed THEN Asked(w, "failure") ELSE w)

\* the phase failed by a transaction that threw
Threw(w) == UNION {Leave(v, TRUE) : v \in Thrown(w)}

\* startRound(): the next request of the same phase
Again(w) == {NextRound(w)} \cup Threw(w)

MayRound(w) == Len(w.d.reply) < MaxRounds

\* text and no calls: the answer, after which a chat may write its summary,
\* or an attention step's words, which are asked again once
AnswerRound(w) ==
    IF w.s.steps = {} /\ ~w.s.summarizing /\ MayRound(w)
    THEN Leave(w, FALSE)
         \cup {NextRound([EndReply(w) EXCEPT !.s.summarizing = TRUE])} \cup Threw(w)
    ELSE IF w.s.phase = "attention" /\ w.s.stepped < ATTENTION_ROUNDS /\ ~w.s.said
              /\ MayRound(w)
    THEN Again([EndReply(w) EXCEPT !.s.stepped = @ + 1]) \cup Threw(w)
    ELSE Leave(w, FALSE)

\* calls that run: the reply done, a streaming row for each, then the
\* tools start; the attention step's run one after the other
LaunchCalls(w, S, deferred) ==
    {[Rows(EndReply(w), "streaming", Named(S, "none")) EXCEPT
         !.s.round = 0, !.s.at = "calls", !.s.open = S,
         !.s.running = IF w.s.phase = "attention"
                       THEN {CHOOSE c \in S : TRUE} ELSE S,
         !.s.deferred = deferred /\ w.s.phase = "main",
         !.s.broken = FALSE]}
      \cup Threw(w)

\* calls recorded not run: past a budget, which asks for the answer, in a
\* loop or in an answer round, or with a finish reason that ends the phase
RefuseCalls(w, S, limited) ==
    LET v == [Rows(EndReply(w), "stopped", Named(S, "unrun"))
                 EXCEPT !.s.limited = @ \/ limited]
        goesOn == w.s.phase = "main" /\ MayRound(w)
    IN  Threw(w)
          \cup (IF goesOn THEN {NextRound(v)} ELSE {})
          \cup (IF goesOn /\ limited THEN {}
                ELSE Leave([v EXCEPT !.s.round = 0], FALSE))

RoundOutcomes(w) ==
    LET S == {c \in CallsOf(w.s.phase) : w.d.row[c] = "none"} IN
    IF Aborted(w.s) THEN Leave(w, FALSE)
    ELSE AnswerRound(w) \cup Leave(w, TRUE)
         \cup IF S = {} \/ ~MayRound(w) \/ w.s.summarizing THEN {}
              ELSE UNION {LaunchCalls(w, S, b) \cup
                          RefuseCalls(w, S, b /\ w.s.phase = "main") : b \in BOOLEAN}

\* the stored results of a round, those of S by now
Stored(w, S) ==
    [Rows(w, "done", Named(S, "none")) EXCEPT !.s.open = @ \ S]

\* the tools of a main round all let go: deferred results are stored in
\* their order until one fails, then the next round begins, which asks
\* for the answer when the context was too small for them
MainCallsOver(w) ==
    IF w.s.cause # "none" THEN Over(w)
    ELSE IF w.s.deferred
         THEN (UNION {Again([Stored(w, w.s.open) EXCEPT !.s.limited = @ \/ full]) :
                        full \in BOOLEAN}) \cup
              UNION {Threw(Stored(w, S)) : S \in (SUBSET w.s.open) \ {w.s.open}}
         ELSE Again(w)

\* a clean round is the phase's last, and so is an aborted one
MemoryCallsOver(w) ==
    IF w.s.broken THEN Leave(w, TRUE)
    ELSE Leave(w, FALSE)
         \cup IF Aborted(w.s) \/ ~MayRound(w) THEN {} ELSE Again(w)

\* the step's next call, or its next request, opened even when the abort
\* came during its calls
StepCallsOver(w) ==
    LET left == {c \in w.s.open : w.s.settled[c] = "none"} IN
    IF ~Aborted(w.s) /\ left # {}
    THEN {[w EXCEPT !.s.running = {CHOOSE c \in left : TRUE}]}
    ELSE IF w.s.stepped = ATTENTION_ROUNDS \/ w.s.said \/ ~MayRound(w)
         THEN Leave(w, FALSE)
    ELSE Leave(w, FALSE) \cup Threw(w)
           \cup UNION {IF Aborted(w.s) THEN Leave(v, FALSE) ELSE {v} :
                         v \in {NextRound([w EXCEPT !.s.stepped = @ + 1])}}

CallsOver(w) ==
    IF w.s.running # {} THEN {w}
    ELSE CASE w.s.phase = "main"      -> MainCallsOver(w)
           [] w.s.phase = "attention" -> StepCallsOver(w)
           [] w.s.phase = "memory"    -> MemoryCallsOver(w)

\* finishTool() of a call in the turn it ended, unless the abort came or
\* the round's results are deferred.  A write that fails fails a main
\* send at once, a memory phase when its round is over, the step now
Store(w, c) ==
    IF Aborted(w.s) \/ w.s.deferred THEN CallsOver(w)
    ELSE CallsOver(Stored(w, {c})) \cup
         UNION {CASE v.s.phase = "main"   -> CallsOver(Claim(v, "failure"))
                  [] v.s.phase = "memory" -> CallsOver([v EXCEPT !.s.broken = TRUE])
                  [] OTHER                -> Leave(v, TRUE) : v \in Thrown(w)}

----------------------------------------------------------------------------
(* Actions *)

Init ==
    /\ \E steps \in Kinds :
          send = [steps |-> steps, at |-> "round", phase |-> "main",
                  cause |-> "none", round |-> 1, open |-> {}, running |-> {},
                  settled |-> [c \in Calls |-> "none"], summarizing |-> FALSE,
                  deferred |-> FALSE, broken |-> FALSE, limited |-> FALSE, ending |-> FALSE,
                  cut |-> FALSE, interrupted |-> FALSE, cutBy |-> "none",
                  said |-> FALSE, stepped |-> 0, attempts |-> 0,
                  terminal |-> "none"]
    /\ db = [reply |-> <<"streaming">>, row |-> [c \in Calls |-> "none"],
             why |-> [c \in Calls |-> "none"], end |-> "running",
             alert |-> "same"]
    /\ faults = 0
    /\ asked = [p \in Phases |-> {}]
    /\ proc = "up"

Up == proc \in {"up", "closing"}

\* the round's stream ended: its answer, its calls, an error, or the abort
RoundEnds ==
    /\ Up /\ send.at = "round"
    /\ \E w \in Turn(RoundOutcomes(World)) : Become(w)
    /\ UNCHANGED proc

\* a tool let go.  One the abort reached may have thrown; a verdict may
\* come with a call of the step
ToolEnds(c) ==
    /\ Up /\ send.at = "calls" /\ c \in send.running
    /\ \E end \in {"ok"} \cup IF Aborted(send) THEN {"interrupted"} ELSE {},
          said \in IF send.phase = "attention" THEN BOOLEAN ELSE {FALSE} :
          \E w \in Turn(Store([World EXCEPT !.s.running = @ \ {c},
                                            !.s.settled[c] = end,
                                            !.s.said = @ \/ said], c)) : Become(w)
    /\ UNCHANGED proc

\* the pause before the next try of finalize
Retry ==
    /\ Up /\ send.at = "pause"
    /\ \E w \in Finalize(World) : Become(w)
    /\ UNCHANGED proc

\* the send's deadline, armed until run() is over
Deadline ==
    /\ Up /\ send.at # "released"
    /\ send.cause = "none"
    /\ Become(Claim(World, "deadline"))
    /\ UNCHANGED proc

\* the window of the attention step or of the memory phase
Window ==
    /\ Up /\ send.at \in {"round", "calls"}
    /\ send.phase # "main" /\ ~send.cut
    /\ Become([Asked(World, "deadline") EXCEPT
                  !.s.cut = TRUE,
                  !.s.cutBy = IF @ = "none" THEN "deadline" ELSE @])
    /\ UNCHANGED proc

\* a stop that only a phase under way remembers
TerminateInPhase(w, cause) ==
    LET late == w.s.phase # "main" /\ w.s.cause # "none" /\ w.s.terminal = "none"
    IN  Claim([w EXCEPT
            !.s.interrupted = @ \/ late,
            !.s.cutBy = IF late /\ @ = "none" THEN cause ELSE @,
            !.s.ending = TRUE,
            !.s.cut = @ \/ (w.s.phase # "main" /\ w.s.at \in {"round", "calls"})],
            cause)

\* terminate() with stop or shutdown: one that comes after another cause
\* cuts the phase that is open, and the send remembers it
Terminate(w, cause) ==
    LET late == w.s.cause # "none" /\ w.s.terminal = "none" IN
    Claim([w EXCEPT
        !.s.interrupted = @ \/ late,
        !.s.cutBy = IF late /\ w.s.phase # "main" /\ @ = "none" THEN cause ELSE @,
        !.s.ending = TRUE,
        !.s.cut = @ \/ (w.s.phase # "main" /\ w.s.at \in {"round", "calls"})],
        cause)

\* the reader's Stop, or the agent's deletion
Stop ==
    /\ Up /\ send.at # "released"
    /\ Become(Terminate(World, "stop"))
    /\ UNCHANGED proc

\* shutdownRunner() after the drain's wait: what still runs is terminated
Shutdown ==
    /\ proc = "up"
    /\ proc' = "closing"
    /\ IF send.at = "released" THEN UNCHANGED <<send, db, faults, asked>>
       ELSE Become(Terminate(World, "shutdown"))

\* the process is gone: a crash, or the end of a shutdown, which waits
\* for the send no longer than its bound
Down ==
    /\ Up
    /\ proc' = "down"
    /\ UNCHANGED <<send, db, faults, asked>>

\* a repair that leaves the replies as the crash did
RepairSends(d) ==
    [d EXCEPT !.end = IF @ = "running" THEN "restart" ELSE @,
              !.row = [c \in Calls |-> IF @[c] = "streaming" THEN "stopped" ELSE @[c]],
              !.why = [c \in Calls |-> IF d.row[c] = "streaming" THEN "restart" ELSE @[c]]]

\* repairRows(): what a streaming row held is no result
RepairRows(d) ==
    [d EXCEPT !.end = IF @ = "running" THEN "restart" ELSE @,
              !.reply = [i \in DOMAIN @ |-> "ended"],
              !.row = [c \in Calls |-> IF @[c] = "streaming" THEN "stopped" ELSE @[c]],
              !.why = [c \in Calls |-> IF d.row[c] = "streaming" THEN "restart" ELSE @[c]]]

Restart ==
    /\ proc = "down"
    /\ proc' = "repaired"
    /\ db' = RepairRows(db)
    /\ UNCHANGED <<send, faults, asked>>

Next ==
    \/ RoundEnds \/ Retry \/ Deadline \/ Window \/ Stop \/ Shutdown
    \/ Down \/ Restart
    \/ \E c \in Calls : ToolEnds(c)

Spec == Init /\ [][Next]_vars

\* an aborted stream lets go, a phase's window elapses, the pause ends
Fairness ==
    /\ WF_vars(RoundEnds /\ Aborted(send))
    /\ WF_vars(Window)
    /\ WF_vars(Retry)

\* and a tool that runs lets go: every built-in hears the abort
FairTools == \A c \in Calls : WF_vars(ToolEnds(c))

LoopSpec == Spec /\ Fairness
FairSpec == LoopSpec /\ FairTools

----------------------------------------------------------------------------
(* Properties *)

\* An ended send leaves nothing that streams: no reply and no tool row,
\* whichever await its end came at, whatever failed on the way, and after
\* a crash and its repair.
NothingStreams ==
    db.end # "running" =>
        /\ \A i \in DOMAIN db.reply : db.reply[i] = "ended"
        /\ \A c \in Calls : db.row[c] # "streaming"

\* A tool that reported its end has it in its row once the send ended,
\* though a Stop, a deadline or a shutdown came before it was written;
\* only a write that failed on its own loses it.
CompletionKept ==
    db.end \notin {"running", "restart"} =>
        \A c \in Calls : send.settled[c] = "ok" => db.row[c] = "done"

\* What a stopped row tells the model is true: it names a cause that came
\* up in the phase that made the call, or the send's own.
CutNamed ==
    \A c \in Calls : db.row[c] = "stopped" =>
        \/ db.why[c] \in {"unrun", "restart"}
        \/ db.why[c] \in asked[PhaseOf[c]]
        \/ db.why[c] = send.cause

\* The first cause stands: a send that ended names the first one, and its
\* rows once ended change no more, not even at the repair.
FirstCauseStands ==
    [][ /\ send.cause # "none" => send'.cause = send.cause
        /\ db.end # "running" => db' = db
        /\ db'.end # db.end => db'.end \in {send'.cause, "restart"}
        /\ \A c \in Calls : db.row[c] \in {"done", "stopped"} =>
              db'.row[c] = db.row[c] /\ db'.why[c] = db.why[c] ]_vars

\* A run that a Stop or a shutdown reached before its end was written
\* closes nobody's alert: somebody has yet to look.
StopClosesNoAlert ==
    db.alert = "close" =>
        \A p \in Phases : asked[p] \cap {"stop", "shutdown"} = {}

\* Once a cause is set run() comes to its end, which releases the trees,
\* and the send's place with them, unless every try to write its end
\* failed: then the place is kept until the process goes.
CutSendLetsGo ==
    send.cause # "none" ~>
        \/ Freed(send)
        \/ send.at = "released" /\ send.attempts = FINALIZE_ATTEMPTS
        \/ ~Up

\* ending.ts: a send with no phase finalizes at once, so a tool that
\* ignores the abort never holds it open.
NoToolHolds ==
    send.steps = {} /\ send.cause # "none" ~>
        (db.end # "running" \/ send.at = "released" \/ ~Up)
=============================================================================
