---------------------------- MODULE ExternalTasks ----------------------------
(***************************************************************************)
(* Work a project hands to agents outside the server:                      *)
(* src/server/external-tasks (actions.ts, writes.ts, rules.ts, sweeps.ts,  *)
(* store.ts, entries.ts), called by members on the page, by access keys    *)
(* over mcp-server/tasks.ts, by the access area and by the hourly sweep.   *)
(*                                                                         *)
(* Every operation is one transaction, so one action; what interleaves is  *)
(* the calls, and an agent that heard no answer makes its call again.      *)
(* Time is the set of the claims nobody wrote to for the idle limit; which *)
(* closed tasks are past retention is free.  The clock never steps back.   *)
(***************************************************************************)
EXTENDS Integers, Sequences, FiniteSets

CONSTANTS
    Tasks, Projects, ProjectOf,    \* [Tasks -> Projects]
    Users, Keys, UserOf,           \* [Keys -> Users]
    Claims,                        \* ids for claims, the bound on them
    Titles, Texts,                 \* what tasks and entries say
    NoOne,                         \* no key, claim, title or call
    MAX_ENTRIES, CLOSING_ENTRIES, MAX_CLAIMS,
    MAX_UNFINISHED, MAX_KEY_UNFINISHED,
    MaxMoves,                      \* bound: entries but claims, and losses
    MaxLost                        \* bound: calls that wait for an answer

ASSUME ExternalTasksAssumption ==
    /\ ProjectOf \in [Tasks -> Projects]
    /\ UserOf \in [Keys -> Users]
    /\ NoOne \notin Keys \cup Claims \cup Titles
    /\ \A n \in {MAX_ENTRIES, CLOSING_ENTRIES, MAX_CLAIMS, MAX_UNFINISHED,
                 MAX_KEY_UNFINISHED, MaxMoves, MaxLost} : n \in Nat
    /\ CLOSING_ENTRIES <= MAX_ENTRIES

VARIABLES
    task,      \* external_tasks: state, its claim, the key that made it
    claim,     \* external_task_claims: row is the entry last_task came with
    rows,      \* external_task_entries of each task, in rowid order
    quiet,     \* claims whose active_at is past the idle limit
    access,    \* each key: good, expired or revoked
    sees,      \* the users' memberships
    call       \* each key's call that heard no answer, and its entry

vars == <<task, claim, rows, quiet, access, sees, call>>

Held == {"in_progress", "awaiting_input"}
Closed == {"done", "canceled"}
Unfinished == {"todo"} \cup Held
Reports == {"progress", "question", "result"}
EntryKinds == Reports \cup
    {"claim", "unclaim", "answer", "cancel", "reopen", "edit"}
ClaimEnds == {"done", "canceled", "unclaimed", "idle", "access_gone", "limit"}

TaskRows ==
    [state : Unfinished \cup Closed \cup {"unmade", "deleted"}, claim : Claims \cup {NoOne},
     by : Keys \cup {NoOne}, title : Titles \cup {NoOne}]

\* end: "live" while ended_at is null
ClaimRows ==
    [task : Tasks \cup {NoOne}, key : Keys \cup {NoOne},
     end : ClaimEnds \cup {"unused", "live", "gone"}, row : Nat]

\* agent: it carries a key name, so the bounds count it
EntryRows ==
    [claim : Claims \cup {NoOne}, kind : EntryKinds, text : Texts \cup {"none"},
     agent : BOOLEAN, end : ClaimEnds \cup {"none"}]

AgentCalls ==
    [task : Tasks, claim : Claims, kind : Reports \cup {"unclaim"},
     text : Texts, row : Nat]

TypeOK ==
    /\ task \in [Tasks -> TaskRows]
    /\ claim \in [Claims -> ClaimRows]
    /\ rows \in [Tasks -> Seq(EntryRows)]
    /\ quiet \subseteq Claims
    /\ access \in [Keys -> {"good", "expired", "revoked"}]
    /\ sees \subseteq Users \X Projects
    /\ call \in [Keys -> AgentCalls \cup {NoOne}]

----------------------------------------------------------------------------
(* rules.ts *)

\* TRANSITIONS: the states a move leaves, for whom
From(actor, kind) ==
    CASE kind = "claim"                        -> {"todo"}
      [] kind \in Reports \cup {"answer"}      -> Held
      [] kind = "unclaim" /\ actor = "idle"    -> {"in_progress"}
      [] kind = "unclaim" /\ actor # "idle"    -> Held
      [] kind = "cancel"                       -> Unfinished
      [] kind = "reopen"                       -> Closed

\* and the state it enters, whichever it left
To(kind) ==
    CASE kind \in {"claim", "progress", "answer"} -> "in_progress"
      [] kind = "question"                        -> "awaiting_input"
      [] kind = "result"                          -> "done"
      [] kind \in {"unclaim", "reopen"}           -> "todo"
      [] kind = "cancel"                          -> "canceled"

RoomFor(entries, move) ==
    \/ move = "unclaim"
    \/ entries < MAX_ENTRIES /\ (entries < CLOSING_ENTRIES \/ move = "result")

----------------------------------------------------------------------------
(* Reads *)

\* the rows since the last reopen
Since(t) ==
    LET reopens == {i \in DOMAIN rows[t] : rows[t][i].kind = "reopen"}
    IN  {i \in DOMAIN rows[t] : \A r \in reopens : r < i}

Counted(t) == Cardinality({i \in Since(t) : rows[t][i].agent})

ClaimsSinceReopen(t) == Cardinality({i \in Since(t) : rows[t][i].kind = "claim"})

\* the last row of S, 0 for none
LastOf(S) == IF S = {} THEN 0 ELSE CHOOSE i \in S : \A j \in S : j <= i

\* lastEntry() that holds an ended claim to the task's last entry too
LastEntryOfTask(c) ==
    LET t == claim[c].task
        last == LastOf({i \in DOMAIN rows[t] : rows[t][i].kind # "edit"})
    IN  IF last # 0 /\ rows[t][last].claim = c THEN last ELSE 0

\* lastEntry(): of a live claim only when no other entry of the task, an
\* edit aside, came after it
LastEntry(c) ==
    LET t == claim[c].task
        own == LastOf({i \in DOMAIN rows[t] : rows[t][i].claim = c})
    IN  IF claim[c].end = "live"
              /\ \E i \in DOMAIN rows[t] : i > own /\ rows[t][i].kind # "edit"
        THEN 0 ELSE own

UnfinishedCount(p) ==
    Cardinality({t \in Tasks : ProjectOf[t] = p /\ task[t].state \in Unfinished})

MadeUnfinished(k) == {t \in Tasks : task[t].by = k /\ task[t].state \in Unfinished}

\* keys and memberships that were lost
Losses ==
    Cardinality({k \in Keys : access[k] # "good"})
      + Cardinality((Users \X Projects) \ sees)

\* the bound on entries, claims apart, and losses; entries of 1ctx always land
May(n) ==
    Losses + Cardinality(UNION {{t} \X {i \in DOMAIN rows[t] : rows[t][i].kind # "claim"} :
                                   t \in Tasks}) + n <= MaxMoves

\* the key alone
ReachesByKey(k, p) == access[k] = "good"

\* checkKey(), in the write's transaction
Reaches(k, p) == access[k] = "good" /\ <<UserOf[k], p>> \in sees

----------------------------------------------------------------------------
(* Writes *)

Store == [task |-> task, claim |-> claim, rows |-> rows, quiet |-> quiet]

Commit(w) ==
    /\ task' = w.task /\ claim' = w.claim /\ rows' = w.rows
    /\ quiet' = w.quiet

Entry(c, kind, text, agent, end) ==
    [claim |-> c, kind |-> kind, text |-> text, agent |-> agent, end |-> end]

\* ends that leave out a cancel of a task someone works on
EndOfReports(actor, kind, held) ==
    CASE kind = "result"  -> "done"
      [] kind = "unclaim" -> IF actor \in {"agent", "member"} THEN "unclaimed" ELSE actor
      [] OTHER            -> "none"

\* ends that take a member's unclaim for a cause of 1ctx
EndOfMembers(actor, kind, held) ==
    CASE kind = "result"           -> "done"
      [] kind = "cancel" /\ held  -> "canceled"
      [] kind = "unclaim"          -> IF actor = "agent" THEN "unclaimed" ELSE actor
      [] OTHER                     -> "none"

\* the end an entry gives the claim its task holds
EndOf(actor, kind, held) ==
    CASE kind = "result"           -> "done"
      [] kind = "cancel" /\ held  -> "canceled"
      [] kind = "unclaim"          -> IF actor \in {"agent", "member"} THEN "unclaimed" ELSE actor
      [] OTHER                     -> "none"

\* an end that 1ctx or a member gave is no entry of the claim
NamesAgents(actor, ends) == actor = "agent"

\* the entry names the claim of its agent, and the one it ends
NamesClaim(actor, ends) == actor = "agent" \/ ends

\* writeEntry(), of the same move to each task of S: its claim is active,
\* or ends
WriteEntry(w, S, actor, kind, text) ==
    LET Live(t) == w.task[t].claim
        held == {t \in S : Live(t) # NoOne}
        End(t) == EndOf(actor, kind, t \in held)
        ends == {t \in S : End(t) # "none"}
        heard == {Live(t) : t \in held}
    IN  [w EXCEPT
            !.task = [t \in Tasks |-> IF t \notin S THEN @[t]
                ELSE [@[t] EXCEPT !.state = To(kind),
                                  !.claim = IF t \in ends THEN NoOne ELSE Live(t)]],
            !.claim = [c \in Claims |-> IF c \notin {Live(t) : t \in held \cap ends}
                THEN @[c] ELSE [@[c] EXCEPT !.end = End(w.claim[c].task)]],
            !.rows = [t \in Tasks |-> IF t \notin S THEN @[t]
                ELSE Append(@[t], Entry(IF NamesClaim(actor, t \in ends)
                                        THEN Live(t) ELSE NoOne,
                                        kind, text, actor = "agent", End(t)))],
            !.quiet = @ \ heard]

\* remember(): the task's row as the entry left it, for a retry
Remember(w, c) == [w EXCEPT !.claim[c].row = Len(w.rows[w.claim[c].task])]

\* 1ctx gives the tasks of S back
End(w, S, actor) ==
    IF S = {} THEN w ELSE WriteEntry(w, S, actor, "unclaim", "none")

\* delete from external_tasks, and what cascades
Delete(w, S) ==
    IF S = {} THEN w ELSE [w EXCEPT
        !.task = [t \in Tasks |-> IF t \notin S THEN @[t] ELSE
            [state |-> "deleted", claim |-> NoOne, by |-> NoOne, title |-> NoOne]],
        !.claim = [c \in Claims |-> IF @[c].task \notin S THEN @[c]
            ELSE [task |-> NoOne, key |-> NoOne, end |-> "gone", row |-> 0]],
        !.rows = [t \in Tasks |-> IF t \in S THEN <<>> ELSE @[t]],
        !.quiet = {c \in @ : w.claim[c].task \notin S}]

Make(w, t, k, title) ==
    [w EXCEPT !.task[t] =
        [state |-> "todo", claim |-> NoOne, by |-> k, title |-> title]]

----------------------------------------------------------------------------
(* An agent's calls *)

\* the same call as the claim's last entry, or its end again
Replays(c, kind, text) ==
    LET last == LastEntry(c)
        row == rows[claim[c].task][last]
    IN  /\ last # 0
        /\ row.kind = kind
        /\ \/ claim[c].end = "live" /\ row.text = text
           \/ /\ <<kind, claim[c].end>> \in {<<"result", "done">>, <<"unclaim", "unclaimed">>}
              /\ row.agent

\* what agentEntry() answers
Outcome(k, t, c, kind, text) ==
    IF claim[c].end \in {"unused", "gone"}              THEN "missing"
    ELSE IF claim[c].task # t \/ claim[c].key # k       THEN "stale"
    ELSE IF Replays(c, kind, text)                      THEN "replay"
    ELSE IF claim[c].end # "live"                       THEN "stale"
    ELSE IF task[t].state \notin From("agent", kind)    THEN "refused"
    ELSE IF ~RoomFor(Counted(t), kind)                  THEN "limit"
    ELSE "written"

\* and what it commits: past the bounds the claim's end, then the refusal
AgentEntry(t, c, kind, text, outcome) ==
    CASE outcome = "limit"   -> Commit(End(Store, {t}, "limit"))
      [] outcome = "written" ->
            Commit(Remember(WriteEntry(Store, {t}, "agent", kind, text), c))
      [] OTHER               -> Commit(Store)

Lost == Cardinality({k \in Keys : call[k] # NoOne})

\* a report or an unclaim; its answer may be lost on the way
Call(k) ==
    /\ call[k] = NoOne
    /\ \E t \in Tasks, c \in Claims, kind \in Reports \cup {"unclaim"}, text \in Texts :
          LET outcome == Outcome(k, t, c, kind, text) IN
          /\ outcome \in {"limit", "written"}
          /\ Reaches(k, ProjectOf[t])
          /\ May(1)
          /\ AgentEntry(t, c, kind, text, outcome)
          /\ call' \in {call} \cup IF outcome # "written" \/ Lost = MaxLost THEN {} ELSE
                {[call EXCEPT ![k] = [task |-> t, claim |-> c, kind |-> kind,
                                      text |-> text, row |-> Len(rows[t]) + 1]]}
    /\ UNCHANGED <<access, sees>>

\* the same call once more
Repeat(k) ==
    /\ call[k] # NoOne
    /\ LET t == call[k].task
           c == call[k].claim
           outcome == IF Reaches(k, ProjectOf[t])
                      THEN Outcome(k, t, c, call[k].kind, call[k].text)
                      ELSE "missing"
       IN  /\ May(1)
           /\ AgentEntry(t, c, call[k].kind, call[k].text, outcome)
    /\ call' \in {call, [call EXCEPT ![k] = NoOne]}
    /\ UNCHANGED <<access, sees>>

\* claim(): the holder's own again answers the claim it has
Claim(k, t) ==
    /\ Reaches(k, ProjectOf[t])
    /\ task[t].state \in From("agent", "claim") /\ task[t].claim = NoOne
    /\ RoomFor(Counted(t), "claim")
    /\ ClaimsSinceReopen(t) < MAX_CLAIMS
    /\ \E c \in Claims :
          /\ claim[c].end = "unused"
          /\ c = CHOOSE d \in Claims : claim[d].end = "unused"
          /\ task' = [task EXCEPT ![t] =
                [@ EXCEPT !.state = "in_progress", !.claim = c]]
          /\ claim' = [claim EXCEPT ![c] =
                [task |-> t, key |-> k, end |-> "live", row |-> 0]]
          /\ rows' = [rows EXCEPT ![t] =
                Append(@, Entry(c, "claim", "none", TRUE, "none"))]
    /\ UNCHANGED <<quiet, access, sees, call>>

\* agentCreate(): the key's unfinished task of that title, or a new one
AgentCreate(k, t, title) ==
    /\ Reaches(k, ProjectOf[t])
    /\ task[t].state = "unmade"
    /\ \A u \in MadeUnfinished(k) :
          ProjectOf[u] = ProjectOf[t] => task[u].title # title
    /\ UnfinishedCount(ProjectOf[t]) < MAX_UNFINISHED
    /\ Cardinality(MadeUnfinished(k)) < MAX_KEY_UNFINISHED
    /\ Commit(Make(Store, t, k, title))
    /\ UNCHANGED <<access, sees, call>>

\* a key's own task before a claim
KeyTodo(k, t) ==
    /\ Reaches(k, ProjectOf[t])
    /\ task[t].by = k /\ task[t].state = "todo"

AgentEdit(k, t, title) ==
    /\ KeyTodo(k, t)
    /\ RoomFor(Counted(t), "edit")
    /\ May(1)
    /\ task' = [task EXCEPT ![t].title = title]
    /\ rows' = [rows EXCEPT ![t] =
          Append(@, Entry(NoOne, "edit", "none", TRUE, "none"))]
    /\ UNCHANGED <<claim, quiet, access, sees, call>>

\* it carries the key's name and lands whatever the bounds say
AgentCancel(k, t) ==
    /\ KeyTodo(k, t)
    /\ May(1)
    /\ task' = [task EXCEPT ![t].state = "canceled"]
    /\ rows' = [rows EXCEPT ![t] =
          Append(@, Entry(NoOne, "cancel", "none", TRUE, "none"))]
    /\ UNCHANGED <<claim, quiet, access, sees, call>>

----------------------------------------------------------------------------
(* Members *)

Create(t, title) ==
    /\ task[t].state = "unmade"
    /\ UnfinishedCount(ProjectOf[t]) < MAX_UNFINISHED
    /\ Commit(Make(Store, t, NoOne, title))
    /\ UNCHANGED <<access, sees, call>>

Edit(t, title) ==
    /\ task[t].state \in Unfinished
    /\ May(1)
    /\ task' = [task EXCEPT ![t].title = title]
    /\ rows' = [rows EXCEPT ![t] =
          Append(@, Entry(NoOne, "edit", "none", FALSE, "none"))]
    /\ UNCHANGED <<claim, quiet, access, sees, call>>

Reopen(t) ==
    /\ task[t].state \in Closed
    /\ UnfinishedCount(ProjectOf[t]) < MAX_UNFINISHED
    /\ May(1)
    /\ Commit(WriteEntry(Store, {t}, "member", "reopen", "none"))
    /\ UNCHANGED <<access, sees, call>>

\* answer, unclaim or cancel, of the state and the claim the member saw
Move(t, kind) ==
    /\ task[t].state \in From("member", kind)
    /\ May(1)
    /\ Commit(WriteEntry(Store, {t}, "member", kind, "none"))
    /\ UNCHANGED <<access, sees, call>>

Discard(t) ==
    /\ task[t].state \notin {"unmade", "deleted"}
    /\ Commit(Delete(Store, {t}))
    /\ UNCHANGED <<access, sees, call>>

----------------------------------------------------------------------------
(* Access and time *)

HeldBy(k) == {t \in Tasks : task[t].claim # NoOne /\ claim[task[t].claim].key = k}

\* keys deleted, their claims ended in the same transaction
Revoke(K) ==
    /\ K # {} /\ May(Cardinality(K))
    /\ \A k \in K : access[k] # "revoked"
    /\ access' = [k \in Keys |-> IF k \in K THEN "revoked" ELSE access[k]]
    /\ Commit(End(Store, UNION {HeldBy(k) : k \in K}, "access_gone"))
    /\ UNCHANGED <<sees, call>>

\* a membership lost: the user's claims in that project
LoseProject(u, p) ==
    /\ <<u, p>> \in sees /\ May(1)
    /\ sees' = sees \ {<<u, p>>}
    /\ Commit(End(Store, {t \in Tasks : ProjectOf[t] = p /\
                             \E k \in Keys : UserOf[k] = u /\ t \in HeldBy(k)},
                  "access_gone"))
    /\ UNCHANGED <<access, call>>

Expire(k) ==
    /\ access[k] = "good" /\ May(1)
    /\ access' = [access EXCEPT ![k] = "expired"]
    /\ UNCHANGED <<task, claim, rows, quiet, sees, call>>

\* the idle limit passed since the claim's last entry
Quieten(c) ==
    /\ claim[c].end = "live" /\ c \notin quiet
    /\ quiet' = quiet \cup {c}
    /\ UNCHANGED <<task, claim, rows, access, sees, call>>

\* endClaims() of the keys no longer available
EndClaims(w) ==
    End(w, {t \in Tasks : \E k \in Keys : access[k] # "good" /\ t \in HeldBy(k)},
        "access_gone")

\* unclaimIdle(), as far as the tasks of S
UnclaimIdle(w, S) ==
    End(w, {t \in S : w.task[t].state = "in_progress" /\ w.task[t].claim \in w.quiet},
        "idle")

\* nothing for the first two transactions of a sweep to do
Cleared ==
    \A t \in Tasks :
        /\ \A k \in Keys : t \in HeldBy(k) => access[k] = "good"
        /\ task[t].state = "in_progress" => task[t].claim \notin quiet

\* the hourly sweep: endClaims(), unclaimIdle(), then deleteClosed() of the
\* tasks whose last move is past retention
Sweep ==
    /\ \E expired \in SUBSET {t \in Tasks : task[t].state \in Closed} :
          /\ expired # {} \/ ~Cleared
          /\ Commit(Delete(UnclaimIdle(EndClaims(Store), Tasks), expired))
    /\ UNCHANGED <<access, sees, call>>

\* an error ended it after its first transaction or some of the next ones
SweepCut ==
    /\ ~Cleared
    /\ \E S \in SUBSET Tasks : Commit(UnclaimIdle(EndClaims(Store), S))
    /\ UNCHANGED <<access, sees, call>>

Init ==
    /\ task = [t \in Tasks |->
          [state |-> "unmade", claim |-> NoOne, by |-> NoOne, title |-> NoOne]]
    /\ claim = [c \in Claims |->
          [task |-> NoOne, key |-> NoOne, end |-> "unused", row |-> 0]]
    /\ rows = [t \in Tasks |-> <<>>]
    /\ quiet = {}
    /\ access = [k \in Keys |-> "good"]
    /\ sees = Users \X Projects
    /\ call = [k \in Keys |-> NoOne]

Next ==
    \/ \E k \in Keys : Call(k) \/ Repeat(k) \/ Expire(k)
    \/ \E k \in Keys, t \in Tasks : Claim(k, t) \/ AgentCancel(k, t)
    \/ \E k \in Keys, t \in Tasks, title \in Titles :
          AgentCreate(k, t, title) \/ AgentEdit(k, t, title)
    \/ \E t \in Tasks, title \in Titles : Create(t, title) \/ Edit(t, title)
    \/ \E t \in Tasks : Reopen(t) \/ Discard(t)
    \/ \E t \in Tasks, kind \in {"answer", "unclaim", "cancel"} : Move(t, kind)
    \/ \E K \in SUBSET Keys : Revoke(K)
    \/ \E u \in Users, p \in Projects : LoseProject(u, p)
    \/ \E c \in Claims : Quieten(c)
    \/ Sweep \/ SweepCut

Spec == Init /\ [][Next]_vars

----------------------------------------------------------------------------
(* Properties *)

\* The task and the claim tables agree: a task holds a claim exactly while
\* it is in progress or awaits input, and its open claims are that one.
ClaimMirror ==
    \A t \in Tasks :
        /\ task[t].claim # NoOne <=> task[t].state \in Held
        /\ {c \in Claims : claim[c].task = t /\ claim[c].end = "live"}
             = {task[t].claim} \ {NoOne}

\* A claim ends once: an ended one has a single ending entry, that entry
\* is its last, and a live one has none.
EndsOnce ==
    \A c \in Claims : claim[c].end \notin {"unused", "gone"} =>
        LET t == claim[c].task
            own == {i \in DOMAIN rows[t] : rows[t][i].claim = c}
            ending == {i \in own : rows[t][i].end # "none"}
        IN  IF claim[c].end = "live" THEN ending = {}
            ELSE /\ ending = {LastOf(own)}
                 /\ rows[t][LastOf(own)].end = claim[c].end

\* The entries a call wrote, with what the retry may have added
CallRows(k) ==
    {i \in DOMAIN rows[call[k].task] :
        /\ i >= call[k].row
        /\ rows[call[k].task][i].claim = call[k].claim
        /\ rows[call[k].task][i].agent}

CallLasts(k) == call[k] # NoOne /\ claim[call[k].claim].end # "gone"

\* but for one a member answered in between
WritesOnce ==
    \A k \in Keys : CallLasts(k) =>
        \A i, j \in CallRows(k) : i < j =>
            \E a \in i..j : rows[call[k].task][a].kind = "answer"

\* while nothing but edits came since, and for a result or an unclaim
\* whatever came since
HearsFirst ==
    \A k \in Keys : CallLasts(k) =>
        LET t == call[k].task
            c == call[k].claim
            Told(text) == /\ Outcome(k, t, c, call[k].kind, text) = "replay"
                          /\ LastEntry(c) = call[k].row
                          /\ claim[c].row = call[k].row
        IN  /\ call[k].kind \in {"result", "unclaim"} => \A text \in Texts \cup {"none"} : Told(text)
            /\ (\A i \in DOMAIN rows[t] : i > call[k].row => rows[t][i].kind = "edit")
                 => Told(call[k].text)

\* A call made again because no answer came writes no second entry and is
\* told what it was told first, after another claim or a reopen and in other
\* words too once it ended its claim (actions.ts agentEntry()).
RetryAsFirst == WritesOnce /\ HearsFirst

\* What a task's page and the agents may rely on: TaskLife.
Life == INSTANCE TaskLife WITH life <- [t \in Tasks |->
    [state  |-> task[t].state,
     holder |-> IF task[t].claim = NoOne THEN NoOne ELSE claim[task[t].claim].key,
     taken  |-> ClaimsSinceReopen(t),
     reach  |-> {k \in Keys : /\ access[k] # "revoked"
                              /\ <<UserOf[k], ProjectOf[t]>> \in sees}]]

LivesAsPromised == Life!Life
=============================================================================
