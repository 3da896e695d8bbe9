--------------------------- MODULE ReposWordProofs ---------------------------
(***************************************************************************)
(* Proofs about Repos: whose answer a row tells and a turn mounts, and     *)
(* that a row that says pending or fetching is about to be settled, for    *)
(* every number of rows, keys, calls, commits and slots.                   *)
(***************************************************************************)
EXTENDS Repos, TLAPS

USE ReposAssumption

RowFields == {"st", "error", "commit", "key", "ignore", "of"}

RowOK(rw) ==
    /\ DOMAIN rw = RowFields /\ rw.key \in Signers /\ rw.ignore \in Rules
    /\ \/ rw.st = "ready"
       \/ rw.st = "failed" /\ rw.error # "over the size cap"
       => rw.of = rw.key

RowsOK(table) == DOMAIN table = Rows /\ \A r \in Rows : RowOK(table[r])

CopyOK(cl) == /\ cl.repo \in Rows /\ DOMAIN cl.copy = RowFields
              /\ cl.copy.key \in Signers /\ cl.copy.ignore \in Rules

\* a lookup's answer to this key: a lookup waits for no slot
AnswerOK(res, s) ==
    res # NoRes => /\ res.of = s /\ res.word # "queued"
                   /\ (res.word = "ok" => res.commit \in Commits)

\* a call waits for one thing, hears what its own key was told unless it
\* waits for another key's fetch, and goes on with what its lookup named
CallOK(cl) ==
    /\ DOMAIN cl = DOMAIN Idle /\ cl.on \in Jobs \cup {None}
    /\ cl.pc # "idle" => CopyOK(cl)
    /\ cl.got # NoRes => cl.on = None /\ cl.from = None
    /\ cl.pc # "look" => cl.from = None
    /\ cl.pc \in {"idle", "look", "held"} => cl.on = None
    /\ cl.pc \notin {"idle", "look"} => cl.of = cl.copy.key /\ cl.want \in Commits
    /\ cl.pin \in Commits \cup {None}
    /\ cl.pc = "look" => AnswerOK(cl.got, cl.copy.key)
    /\ cl.pc = "tree" /\ cl.got # NoRes => cl.got.of = cl.copy.key

CallsOK(cs) == DOMAIN cs = Calls /\ \A c \in Calls : CallOK(cs[c])

\* the calls that wait for a tree's fetch: one of their own key, or once
\* of another's; the call that began it waits with them
FetchesOK ==
    /\ DOMAIN job = Jobs /\ \A j \in Jobs : DOMAIN job[j] = DOMAIN NoJob
    /\ \A c \in Calls : job[<<c, "look">>].signer = NoKey
    /\ \A d \in Calls : call[d].pc = "tree" /\ call[d].on # None
                          => job[call[d].on].signer = call[d].copy.key
    /\ \A c, d \in Calls : call[d].on = <<c, "tree">> => call[c].on = <<c, "tree">>
    /\ DOMAIN inFlight = Folders
    /\ \A f \in Folders :
          /\ inFlight[f] \in Jobs \cup {None}
          /\ \A c \in Calls : inFlight[f] = <<c, "tree">> => call[c].on = <<c, "tree">>

\* the lookup of b is out, for this key
Asks(b, s) == /\ b \in Calls
              /\ call[b].pc = "look" /\ call[b].from = b /\ call[b].copy.key = s

LooksOK ==
    /\ \A d \in Calls : call[d].from # None => Asks(call[d].from, call[d].copy.key)
    /\ DOMAIN answers = Signers
    /\ \A s \in Signers :
          /\ answers[s].by # None => answers[s].res = NoRes /\ Asks(answers[s].by, s)
          /\ AnswerOK(answers[s].res, s)
    /\ \A c \in Calls : job[<<c, "look">>].phase = "ask" => Asks(c, NoKey)

OwnInv == RowsOK(row) /\ CallsOK(call) /\ FetchesOK /\ LooksOK

LEMMA TreeJobs ==
    \A c \in Calls : /\ <<c, "tree">> \in Jobs /\ <<c, "tree">> # None
                     /\ <<c, "look">> \in Jobs /\ <<c, "look">> # None
                     /\ \A d \in Calls : <<d, "look">> # <<c, "tree">>
<1>1. \A c \in Calls : <<c, "tree">> \in Jobs /\ <<c, "look">> \in Jobs
  BY DEF Jobs
<1>2. None \notin Jobs
  OBVIOUS
<1> QED
  BY <1>1, <1>2

----------------------------------------------------------------------------
(* The writes of the table *)

LEMMA FetchedOK ==
    ASSUME RowsOK(row), NEW cl, CopyOK(cl), NEW st, NEW error, NEW commit, NEW of,
           \/ st = "ready" \/ (st = "failed" /\ error # "over the size cap")
           => of = cl.copy.key
    PROVE  RowsOK(Fetched(cl, st, error, commit, of))
<1> DEFINE rw == [row[cl.repo] EXCEPT !.st = st, !.error = error,
                                      !.commit = commit, !.of = of]
<1>1. CASE ~closing /\ row[cl.repo].st # "gone" /\ SameFields(row[cl.repo], cl.copy)
  <2>1. RowOK(rw)
    BY <1>1 DEF RowsOK, RowOK, RowFields, CopyOK, SameFields
  <2>2. Fetched(cl, st, error, commit, of) = [row EXCEPT ![cl.repo] = rw]
    BY <1>1 DEF Fetched, RowsOK, RowOK, RowFields, CopyOK
  <2> HIDE DEF rw
  <2> QED
    BY <2>1, <2>2 DEF RowsOK
<1>2. CASE ~(~closing /\ row[cl.repo].st # "gone" /\ SameFields(row[cl.repo], cl.copy))
  BY <1>2 DEF Fetched
<1> QED
  BY <1>1, <1>2

LEMMA ReadiedOK ==
    ASSUME RowsOK(row), NEW cl, CopyOK(cl), cl.of = cl.copy.key, row' \in Readied(cl)
    PROVE  RowsOK(row')
<1>1. RowsOK(Fetched(cl, "ready", None, cl.commit, cl.of))
  BY FetchedOK
<1> QED
  BY <1>1 DEF Readied

LEMMA FailedOK ==
    ASSUME RowsOK(row), NEW cl, CopyOK(cl), NEW word, NEW of,
           word # "over the size cap" => of = cl.copy.key,
           row' \in Failed(cl, word, of)
    PROVE  RowsOK(row')
<1>1. RowsOK(Fetched(cl, "failed", word, row[cl.repo].commit, of))
  BY FetchedOK
<1> QED
  BY <1>1 DEF Failed

LEMMA MarkedOK ==
    ASSUME RowsOK(row), NEW cl, CopyOK(cl)
    PROVE  /\ RowsOK(Marked(cl))
           /\ DOMAIN MarkedCopy(cl) = RowFields /\ MarkedCopy(cl).key = cl.copy.key
           /\ MarkedCopy(cl).ignore = cl.copy.ignore
<1>1. RowsOK(Fetched(cl, "fetching", None, row[cl.repo].commit, None))
  BY FetchedOK
<1> QED
  BY <1>1 DEF Marked, MarkedCopy, CopyOK, RowFields

----------------------------------------------------------------------------
(* A call that heard its answer goes on *)

\* it waits for nothing, so nobody waits for it
Heard(c) == call[c].from = None /\ call[c].on = None

LEMMA NobodyAsks ==
    ASSUME OwnInv, NEW c \in Calls, NEW cl, call' = [call EXCEPT ![c] = cl],
           call[c].from = None, NEW b, NEW s, Asks(b, s)
    PROVE  Asks(b, s)'
<1>1. b # c
  BY DEF Asks
<1> QED
  BY <1>1 DEF Asks, OwnInv, CallsOK

\* as cl, to wait for a job that is out or for none
LEMMA GoesOn ==
    ASSUME OwnInv, NEW c \in Calls, Heard(c),
           NEW cl, CallOK(cl), cl.from = None,
           cl.pc = "tree" /\ cl.on # None => job[cl.on].signer = cl.copy.key,
           \A d \in Calls : cl.on = <<d, "tree">> => call[d].on = <<d, "tree">>,
           call' = [call EXCEPT ![c] = cl], RowsOK(row'),
           UNCHANGED <<job, inFlight, answers>>
    PROVE  OwnInv'
<1>1. CallsOK(call')
  BY DEF OwnInv, CallsOK
<1>2. FetchesOK'
  <2>1. \A d \in Calls : call'[d].pc = "tree" /\ call'[d].on # None
                           => job[call'[d].on].signer = call'[d].copy.key
    BY DEF OwnInv, CallsOK, FetchesOK
  <2>2. \A b, d \in Calls : call'[d].on = <<b, "tree">> => call'[b].on = <<b, "tree">>
    <3> SUFFICES ASSUME NEW b \in Calls, NEW d \in Calls, call'[d].on = <<b, "tree">>
                 PROVE  call'[b].on = <<b, "tree">>
      OBVIOUS
    <3>1. call[b].on = <<b, "tree">>
      BY DEF OwnInv, CallsOK, FetchesOK
    <3>2. b # c
      BY <3>1, TreeJobs DEF Heard
    <3> QED
      BY <3>1, <3>2 DEF OwnInv, CallsOK
  <2>3. \A f \in Folders, d \in Calls :
          inFlight[f] = <<d, "tree">> => call'[d].on = <<d, "tree">>
    <3> SUFFICES ASSUME NEW f \in Folders, NEW d \in Calls, inFlight[f] = <<d, "tree">>
                 PROVE  call'[d].on = <<d, "tree">>
      OBVIOUS
    <3>1. call[d].on = <<d, "tree">>
      BY DEF OwnInv, FetchesOK
    <3>2. d # c
      BY <3>1, TreeJobs DEF Heard
    <3> QED
      BY <3>1, <3>2 DEF OwnInv, CallsOK
  <2> QED
    BY <2>1, <2>2, <2>3 DEF OwnInv, FetchesOK
<1>3. LooksOK'
  <2>1. \A b, s : Asks(b, s) => Asks(b, s)'
    BY NobodyAsks DEF Heard
  <2>2. \A d \in Calls : call'[d].from # None => d # c
    BY DEF OwnInv, CallsOK
  <2> QED
    BY <2>1, <2>2 DEF OwnInv, CallsOK, LooksOK
<1> QED
  BY <1>1, <1>2, <1>3 DEF OwnInv

\* as cl, with a fetch of its own
LEMMA GoesFetching ==
    ASSUME OwnInv, NEW c \in Calls, Heard(c), NEW cl, CallOK(cl), cl.from = None,
           cl.on = <<c, "tree">>, NEW jb, DOMAIN jb = DOMAIN NoJob,
           jb.signer = cl.copy.key, NEW f,
           call' = [call EXCEPT ![c] = cl], RowsOK(row'),
           job' = [job EXCEPT ![<<c, "tree">>] = jb],
           inFlight' = [inFlight EXCEPT ![f] = <<c, "tree">>],
           UNCHANGED answers
    PROVE  OwnInv'
<1>1. CallsOK(call')
  BY DEF OwnInv, CallsOK
<1>2. FetchesOK'
  <2>1. \A d \in Calls : call[d].on # <<c, "tree">>
    BY DEF OwnInv, FetchesOK, Heard, Jobs
  <2>2. <<c, "tree">> \in Jobs /\ \A d \in Calls : <<d, "look">> # <<c, "tree">>
    BY DEF Jobs
  <2>3. /\ DOMAIN job' = Jobs /\ \A j \in Jobs : DOMAIN job'[j] = DOMAIN NoJob
        /\ \A d \in Calls : job'[<<d, "look">>].signer = NoKey
    BY <2>2 DEF OwnInv, FetchesOK, Jobs
  <2>4. \A d \in Calls : call'[d].pc = "tree" /\ call'[d].on # None
                           => job'[call'[d].on].signer = call'[d].copy.key
    BY <2>1, <2>2 DEF OwnInv, CallsOK, CallOK, FetchesOK
  <2>5. \A b, d \in Calls : call'[d].on = <<b, "tree">> => call'[b].on = <<b, "tree">>
    BY <2>1 DEF OwnInv, CallsOK, FetchesOK, Heard
  <2>6. \A g \in Folders :
          /\ inFlight'[g] \in Jobs \cup {None}
          /\ \A d \in Calls : inFlight'[g] = <<d, "tree">> => call'[d].on = <<d, "tree">>
    BY <2>2 DEF OwnInv, CallsOK, FetchesOK, Heard
  <2> QED
    BY <2>3, <2>4, <2>5, <2>6 DEF OwnInv, FetchesOK
<1>3. LooksOK'
  <2>1. \A b, s : Asks(b, s) => Asks(b, s)'
    BY NobodyAsks DEF Heard
  <2>2. \A d \in Calls : call'[d].from # None => d # c
    BY DEF OwnInv, CallsOK
  <2>3. \A d \in Calls : job'[<<d, "look">>] = job[<<d, "look">>]
    BY TreeJobs DEF OwnInv, FetchesOK
  <2> QED
    BY <2>1, <2>2, <2>3 DEF OwnInv, CallsOK, LooksOK
<1> QED
  BY <1>1, <1>2, <1>3 DEF OwnInv

----------------------------------------------------------------------------
(* The parts of a call's own steps *)

\* what a call is that goes on after an answer
Going(cl) ==
    /\ DOMAIN cl = DOMAIN Idle /\ CopyOK(cl) /\ cl.of = cl.copy.key
    /\ cl.on = None /\ cl.from = None /\ cl.got = NoRes
    /\ cl.want \in Commits /\ cl.pin \in Commits \cup {None}

LEMMA ByCommitOwn ==
    ASSUME OwnInv, NEW c \in Calls, Heard(c), NEW cl, Going(cl),
           NEW joined \in BOOLEAN, ByCommit(c, cl, joined), RowsOK(row'),
           UNCHANGED answers
    PROVE  OwnInv'
<1> DEFINE f == TreeOf(cl)
           j == inFlight[f]
           On(pc, x) == [cl EXCEPT !.pc = pc, !.on = x]
           Told(res) == [cl EXCEPT !.pc = "tree", !.got = res]
<1>1. f \in Folders /\ j \in Jobs \cup {None}
  BY DEF OwnInv, FetchesOK, Going, CopyOK, TreeOf, Folders
<1>2. ASSUME NEW pc \in {"tree", "other"}, NEW x \in Jobs
      PROVE  /\ CallOK(On(pc, x)) /\ On(pc, x).from = None
             /\ On(pc, x).on = x /\ On(pc, x).pc = pc
             /\ On(pc, x).copy.key = cl.copy.key
  BY DEF Going, CallOK, CopyOK, Idle, AnswerOK
<1>3. ASSUME NEW res, res.of = cl.copy.key
      PROVE  /\ CallOK(Told(res)) /\ Told(res).from = None /\ Told(res).on = None
  <2>1. /\ DOMAIN Told(res) = DOMAIN Idle /\ Told(res).pc = "tree"
        /\ Told(res).on = None /\ Told(res).from = None /\ Told(res).got = res
        /\ Told(res).copy = cl.copy /\ Told(res).repo = cl.repo
        /\ Told(res).of = cl.of /\ Told(res).want = cl.want /\ Told(res).pin = cl.pin
    BY DEF Going, Idle
  <2> HIDE DEF Told
  <2> QED
    BY <2>1, <1>3 DEF Going, CallOK, CopyOK
<1>4. \A d \in Calls : j = <<d, "tree">> => call[d].on = <<d, "tree">>
  BY <1>1 DEF OwnInv, FetchesOK
<1>5. ASSUME NEW res, res.of = cl.copy.key, call' = [call EXCEPT ![c] = Told(res)],
             UNCHANGED <<job, inFlight>>
      PROVE  OwnInv'
  <2> HIDE DEF Told
  <2> QED
    BY <1>3, <1>5, TreeJobs, GoesOn
<1>6. ASSUME NEW pc \in {"tree", "other"}, j # None,
             pc = "tree" => job[j].signer = cl.copy.key,
             call' = [call EXCEPT ![c] = On(pc, j)], UNCHANGED <<job, inFlight>>
      PROVE  OwnInv'
  <2> DEFINE dl == On(pc, j)
  <2>1. /\ CallOK(dl) /\ dl.from = None
        /\ dl.pc = "tree" /\ dl.on # None => job[dl.on].signer = dl.copy.key
        /\ \A d \in Calls : dl.on = <<d, "tree">> => call[d].on = <<d, "tree">>
    <3> HIDE DEF On
    <3> QED
      BY <1>1, <1>2, <1>4, <1>6
  <2> HIDE DEF dl
  <2> QED
    BY <2>1, <1>6, GoesOn DEF dl
<1>7. CASE Joins(c, cl)
  BY <1>6, <1>7 DEF Joins
<1>8. CASE WaitsOnce(c, cl, joined)
  BY <1>6, <1>8 DEF WaitsOnce
<1>9. CASE OnItsOwn(c, cl, joined)
  <2>1. ASSUME NEW x \in Refusals(f, cl.copy.key),
               call' = [call EXCEPT ![c] = Told(Bad(x.word, x.signer))],
               UNCHANGED <<job, inFlight>>
        PROVE  OwnInv'
    <3>1. Bad(x.word, x.signer).of = cl.copy.key
      BY DEF Refusals, Bad
    <3> QED
      BY <2>1, <3>1, <1>5
  <2>2. CASE /\ call' = [call EXCEPT ![c] = Told(Bad("failed", cl.copy.key))]
             /\ UNCHANGED <<job, inFlight>>
    <3>1. Bad("failed", cl.copy.key).of = cl.copy.key
      BY DEF Bad
    <3> QED
      BY <2>2, <3>1, <1>5
  <2> DEFINE jb == [NoJob EXCEPT !.phase = "ask", !.commit = cl.want,
                                 !.ignore = cl.copy.ignore, !.signer = cl.copy.key,
                                 !.caps = caps, !.under = caps]
  <2>3. CASE /\ job' = [job EXCEPT ![<<c, "tree">>] = jb]
             /\ inFlight' = [inFlight EXCEPT ![f] = <<c, "tree">>]
             /\ call' = [call EXCEPT ![c] = On("tree", <<c, "tree">>)]
    <3>1. DOMAIN jb = DOMAIN NoJob /\ jb.signer = cl.copy.key
      BY DEF NoJob
    <3>2. <<c, "tree">> \in Jobs
      BY TreeJobs
    <3> DEFINE dl == On("tree", <<c, "tree">>)
    <3>3. CallOK(dl) /\ dl.from = None /\ dl.on = <<c, "tree">> /\ dl.copy.key = cl.copy.key
      BY <3>2, <1>2
    <3> HIDE DEF jb, dl, f
    <3>4. /\ call' = [call EXCEPT ![c] = dl]
          /\ job' = [job EXCEPT ![<<c, "tree">>] = jb]
          /\ inFlight' = [inFlight EXCEPT ![f] = <<c, "tree">>]
      BY <2>3 DEF dl
    <3> HIDE DEF On
    <3> QED
      BY <3>1, <3>3, <3>4, GoesFetching
  <2> QED
    BY <1>9, <2>1, <2>2, <2>3 DEF OnItsOwn
<1> QED
  BY <1>7, <1>8, <1>9 DEF ByCommit

LEMMA FailsOwn ==
    ASSUME OwnInv, NEW c \in Calls, Heard(c), call[c].pc # "idle", NEW word, NEW of,
           word # "over the size cap" => of = call[c].copy.key,
           Fails(c, word, of), UNCHANGED answers
    PROVE  OwnInv'
<1>1. CallOK(call[c]) /\ CopyOK(call[c])
  BY DEF OwnInv, CallsOK, CallOK
<1>2. RowsOK(row')
  BY <1>1, FailedOK DEF Fails, OwnInv
<1>3. CallOK(Idle) /\ Idle.from = None /\ Idle.on = None /\ Idle.pc = "idle"
  BY DEF CallOK, Idle
<1>4. call' = [call EXCEPT ![c] = Idle] /\ UNCHANGED <<job, inFlight>>
  BY DEF Fails
<1> QED
  BY <1>2, <1>3, <1>4, TreeJobs, GoesOn

LEMMA AttemptOwn ==
    ASSUME OwnInv, NEW c \in Calls, Heard(c), NEW cl, Going(cl),
           Attempt(c, cl), UNCHANGED answers
    PROVE  OwnInv'
<1> DEFINE f == TreeOf(cl)
<1>1. CASE /\ call' = [call EXCEPT ![c] =
                         IF cl.gone THEN Idle ELSE [cl EXCEPT !.pc = "held"]]
           /\ row' \in IF cl.want # cl.commit THEN {row} ELSE Readied(cl)
           /\ UNCHANGED <<job, inFlight>>
  <2> DEFINE dl == IF cl.gone THEN Idle ELSE [cl EXCEPT !.pc = "held"]
  <2>1. CallOK(dl) /\ dl.from = None /\ dl.on = None /\ dl.pc # "tree"
    BY DEF Going, CallOK, CopyOK, Idle
  <2>2. RowsOK(row')
    BY <1>1, ReadiedOK DEF Going, OwnInv
  <2>3. call' = [call EXCEPT ![c] = dl]
    BY <1>1
  <2> HIDE DEF dl
  <2> QED
    BY <1>1, <2>1, <2>2, <2>3, TreeJobs, GoesOn
<1>2. CASE /\ row' = Marked(cl)
           /\ ByCommit(c, [cl EXCEPT !.copy = MarkedCopy(cl)], FALSE)
  <2> DEFINE dl == [cl EXCEPT !.copy = MarkedCopy(cl)]
  <2>1. CopyOK(cl)
    BY DEF Going
  <2>2. RowsOK(row')
    BY <1>2, <2>1, MarkedOK DEF OwnInv
  <2>3. Going(dl)
    BY <2>1, MarkedOK DEF Going, CopyOK, OwnInv, Idle
  <2> HIDE DEF dl
  <2> QED
    BY <1>2, <2>2, <2>3, ByCommitOwn DEF dl
<1> QED
  BY <1>1, <1>2 DEF Attempt

----------------------------------------------------------------------------
(* What is told, by the lookups and by the jobs *)

\* what the answers and lookups kept still ask for
LEMMA LooksStay ==
    ASSUME LooksOK, CallsOK(call), CallsOK(call'),
           \A b, s : Asks(b, s) => Asks(b, s)',
           \A d \in Calls : call'[d].from # None =>
               call'[d].from = call[d].from /\ call'[d].copy.key = call[d].copy.key,
           DOMAIN answers' = Signers,
           \A s \in Signers : answers'[s] = answers[s] \/ answers'[s] = NoAnswer,
           \A d \in Calls : job'[<<d, "look">>].phase = "ask"
                               => job[<<d, "look">>].phase = "ask"
    PROVE  LooksOK'
<1>1. ASSUME NEW s \in Signers
      PROVE  /\ (answers[s].by)' # None => (answers[s].res)' = NoRes /\ Asks(answers[s].by, s)'
             /\ AnswerOK(answers'[s].res, s)
  <2>1. CASE answers'[s] = answers[s]
    BY <2>1 DEF LooksOK, Asks
  <2>2. CASE answers'[s] = NoAnswer
    BY <2>2 DEF NoAnswer, AnswerOK
  <2> QED
    BY <2>1, <2>2
<1>2. \A d \in Calls : (call[d].from)' # None => Asks(call[d].from, call[d].copy.key)'
  BY DEF LooksOK, Asks
<1>3. \A d \in Calls : (job[<<d, "look">>].phase)' = "ask" => Asks(d, NoKey)'
  BY DEF LooksOK
<1> QED
  BY <1>1, <1>2, <1>3 DEF LooksOK, AnswerOK

\* the lookup of c is answered, to its key
LEMMA HeardCalls ==
    ASSUME OwnInv, NEW c \in Calls, NEW res, call[c].from = c,
           AnswerOK(res, call[c].copy.key)
    PROVE  CallsOK(LookupHeard(c, res))
<1> SUFFICES ASSUME NEW d \in Calls, call[d].pc = "look", call[d].from = c
             PROVE  CallOK([call[d] EXCEPT !.got = res, !.from = None])
  BY DEF OwnInv, CallsOK, LookupHeard
<1>1. call[d].copy.key = call[c].copy.key /\ CallOK(call[d])
  BY DEF OwnInv, LooksOK, Asks, CallsOK
<1> QED
  BY <1>1 DEF CallOK, CopyOK, Idle

LEMMA HeardLooks ==
    ASSUME OwnInv, NEW c \in Calls, NEW res, call[c].from = c,
           AnswerOK(res, call[c].copy.key), DOMAIN call' = Calls,
           \A d \in Calls : /\ call'[d].pc = call[d].pc
                            /\ call'[d].copy = call[d].copy
                            /\ call'[d].from = LookupHeard(c, res)[d].from,
           answers' = LookupKept(c, res),
           \A d \in Calls : job'[<<d, "look">>].phase = "ask"
                               => job[<<d, "look">>].phase = "ask" /\ d # c
    PROVE  LooksOK'
<1>1. \A d \in Calls : call[d].from # None => call[d].pc = "look"
  BY DEF OwnInv, CallsOK, CallOK
<1>2. \A d \in Calls : call'[d].from = IF call[d].from = c THEN None ELSE call[d].from
  BY <1>1 DEF LookupHeard, OwnInv, CallsOK, CallOK, Idle
<1>3. \A b, s : b # c /\ Asks(b, s) => Asks(b, s)'
  BY <1>2 DEF Asks
<1>4. \A d \in Calls : (call[d].from)' # None => Asks(call[d].from, call[d].copy.key)'
  BY <1>2, <1>3 DEF OwnInv, LooksOK, Asks
<1>5. ASSUME NEW s \in Signers
      PROVE  /\ (answers[s].by)' # None => (answers[s].res)' = NoRes /\ Asks(answers[s].by, s)'
             /\ AnswerOK(answers'[s].res, s)
  <2>1. CASE answers[s].by = c
    <3>1. answers'[s] = [by |-> None, res |-> res]
      BY <2>1 DEF LookupKept
    <3>2. s = call[c].copy.key
      BY <2>1 DEF OwnInv, LooksOK, Asks
    <3> QED
      BY <3>1, <3>2
  <2>2. CASE answers[s].by # c
    <3>1. answers'[s] = answers[s]
      BY <2>2 DEF LookupKept
    <3>2. Asks(answers[s].by, s) => Asks(answers[s].by, s)'
      BY <3>1, <2>2, <1>3 DEF Asks
    <3> QED
      BY <3>1, <3>2 DEF OwnInv, LooksOK
  <2> QED
    BY <2>1, <2>2
<1>6. DOMAIN answers' = Signers
  BY DEF LookupKept
<1>7. \A d \in Calls : (job[<<d, "look">>].phase)' = "ask" => Asks(d, NoKey)'
  BY <1>3 DEF OwnInv, LooksOK
<1> QED
  BY <1>4, <1>5, <1>6, <1>7 DEF LooksOK, AnswerOK

\* a job ends: those who wait for it hear what its key was told
LEMMA EndsOwn ==
    ASSUME OwnInv, NEW cs, CallsOK(cs),
           \A d \in Calls : /\ cs[d].on = call[d].on /\ cs[d].pc = call[d].pc
                            /\ cs[d].copy = call[d].copy,
           NEW j \in Jobs, NEW res, res.of = job[j].signer, Ends(cs, j, res)
    PROVE  /\ CallsOK(call') /\ FetchesOK'
           /\ \A d \in Calls : /\ call'[d].pc = cs[d].pc /\ call'[d].copy = cs[d].copy
                                /\ call'[d].from = cs[d].from
           /\ \A d \in Calls : job'[<<d, "look">>].phase = "ask"
                 => job[<<d, "look">>].phase = "ask" /\ <<d, "look">> # j
<1> DEFINE told(d) == [cs[d] EXCEPT !.got = res, !.on = None]
<1>1. /\ DOMAIN call' = Calls
      /\ \A d \in Calls : call'[d] = IF cs[d].on = j THEN told(d) ELSE cs[d]
  BY DEF Ends, Delivers
<1>2. ASSUME NEW d \in Calls
      PROVE  /\ call'[d].pc = cs[d].pc /\ call'[d].copy = cs[d].copy
             /\ call'[d].from = cs[d].from
             /\ call'[d].on = IF call[d].on = j THEN None ELSE call[d].on
  <2>1. DOMAIN cs[d] = DOMAIN Idle
    BY DEF CallsOK, CallOK
  <2>2. /\ told(d).pc = cs[d].pc /\ told(d).copy = cs[d].copy
        /\ told(d).from = cs[d].from /\ told(d).on = None
    BY <2>1 DEF Idle
  <2> HIDE DEF told
  <2> QED
    BY <1>1, <2>2
<1>3. ASSUME NEW d \in Calls, cs[d].on = j
      PROVE  CallOK(told(d))
  <2>1. CallOK(cs[d]) /\ cs[d].pc \notin {"idle", "look", "held"} /\ j # None
    BY <1>3 DEF CallsOK, CallOK
  <2>2. cs[d].pc = "tree" => res.of = cs[d].copy.key
    BY <1>3, <2>1 DEF OwnInv, FetchesOK
  <2> QED
    BY <2>1, <2>2 DEF CallOK, CopyOK, Idle
<1>4. CallsOK(call')
  BY <1>1, <1>3 DEF CallsOK
<1>5. \E next : job' = [x \in Jobs |->
                          IF x = j THEN NoJob
                          ELSE IF x = next THEN [job[x] EXCEPT !.phase = "proc"]
                          ELSE job[x]]
  BY DEF Ends
<1>6. ASSUME NEW x \in Jobs
      PROVE  /\ DOMAIN job'[x] = DOMAIN NoJob
             /\ x # j => job'[x].signer = job[x].signer
             /\ x = j => job'[x] = NoJob
             /\ job'[x].phase = "ask" => job[x].phase = "ask" /\ x # j
  BY <1>5 DEF OwnInv, FetchesOK, NoJob
<1>7. DOMAIN job' = Jobs /\ NoJob.signer = NoKey
  BY <1>5 DEF NoJob
<1>8. /\ DOMAIN inFlight' = Folders
      /\ \A f \in Folders : inFlight'[f] = IF inFlight[f] = j THEN None ELSE inFlight[f]
  BY DEF Ends
<1>9. FetchesOK'
  <2>1. \A d \in Calls : job'[<<d, "look">>].signer = NoKey
    BY <1>6, <1>7, TreeJobs DEF OwnInv, FetchesOK
  <2>2. \A d \in Calls : call'[d].pc = "tree" /\ call'[d].on # None
                           => job'[call'[d].on].signer = call'[d].copy.key
    <3> SUFFICES ASSUME NEW d \in Calls, call'[d].pc = "tree", call'[d].on # None
                 PROVE  job'[call'[d].on].signer = call'[d].copy.key
      OBVIOUS
    <3>1. /\ call'[d].on = call[d].on /\ call[d].on # j /\ call[d].pc = "tree"
          /\ call'[d].copy = call[d].copy
      BY <1>2
    <3>2. call[d].on \in Jobs
      BY <3>1 DEF OwnInv, CallsOK, CallOK
    <3> QED
      BY <3>1, <3>2, <1>6 DEF OwnInv, FetchesOK
  <2>3. \A b, d \in Calls : call'[d].on = <<b, "tree">> => call'[b].on = <<b, "tree">>
    <3> SUFFICES ASSUME NEW b \in Calls, NEW d \in Calls, call'[d].on = <<b, "tree">>
                 PROVE  call'[b].on = <<b, "tree">>
      OBVIOUS
    <3>1. call[d].on = <<b, "tree">> /\ call[d].on # j
      BY <1>2, TreeJobs
    <3>2. call[b].on = <<b, "tree">>
      BY <3>1 DEF OwnInv, FetchesOK
    <3> QED
      BY <3>1, <3>2, <1>2
  <2>4. ASSUME NEW f \in Folders
        PROVE  /\ inFlight'[f] \in Jobs \cup {None}
               /\ \A d \in Calls : inFlight'[f] = <<d, "tree">> => call'[d].on = <<d, "tree">>
    <3>1. CASE inFlight[f] = j
      BY <3>1, <1>8, TreeJobs
    <3>2. CASE inFlight[f] # j
      <4>1. inFlight'[f] = inFlight[f]
        BY <3>2, <1>8
      <4>2. inFlight[f] \in Jobs \cup {None}
        BY DEF OwnInv, FetchesOK
      <4>3. \A d \in Calls : inFlight[f] = <<d, "tree">> => call[d].on = <<d, "tree">>
        BY DEF OwnInv, FetchesOK
      <4> QED
        BY <3>2, <4>1, <4>2, <4>3, <1>2
    <3> QED
      BY <3>1, <3>2
  <2> QED
    BY <1>6, <1>7, <1>8, <2>1, <2>2, <2>3, <2>4 DEF FetchesOK
<1> QED
  BY <1>2, <1>4, <1>6, <1>9, TreeJobs

\* a job goes on, without its lookup once its archive named a commit
LEMMA JobGoesOn ==
    ASSUME FetchesOK, NEW j \in Jobs, DOMAIN job' = Jobs,
           NEW jb, DOMAIN jb = DOMAIN NoJob, jb.signer = job[j].signer, jb.phase # "ask",
           job' = [job EXCEPT ![j] = jb]
    PROVE  /\ \A x \in Jobs : /\ DOMAIN job'[x] = DOMAIN NoJob
                               /\ job'[x].signer = job[x].signer
           /\ \A d \in Calls : job'[<<d, "look">>].phase = "ask"
                 => job[<<d, "look">>].phase = "ask" /\ <<d, "look">> # j
  BY TreeJobs DEF FetchesOK

----------------------------------------------------------------------------
(* The steps *)

LEMMA InitOwn == Init => OwnInv
<1> SUFFICES ASSUME Init PROVE OwnInv
  OBVIOUS
<1>1. RowsOK(row)
  BY BegunAssumption DEF Init, RowsOK, RowOK, RowRows, RowFields
<1>2. /\ call = NoCalls /\ job = NoJobs /\ answers = NoAnswers
      /\ inFlight = NoFlight
  BY DEF Init
<1>3. CallsOK(call)
  BY <1>2 DEF CallsOK, CallOK, NoCalls, Idle
<1>4. FetchesOK
  BY <1>2, TreeJobs DEF FetchesOK, NoCalls, NoJobs, NoFlight, Idle, NoJob
<1>5. LooksOK
  BY <1>2, TreeJobs DEF LooksOK, NoCalls, NoJobs, NoAnswers, Idle, NoJob,
                        NoAnswer, AnswerOK
<1> QED
  BY <1>1, <1>3, <1>4, <1>5 DEF OwnInv

\* a call begins as cl, to share a lookup that is out or answered, or its own
LEMMA BegunOwn ==
    ASSUME OwnInv, NEW c \in Calls, Free(c), NEW cl, CallOK(cl), cl.pc = "look",
           cl.from # None => cl.from = c \/ Asks(cl.from, cl.copy.key),
           NEW ans, DOMAIN ans = Signers,
           \A s \in Signers : ans[s] = answers[s] \/ ans[s] = NoAnswer,
           answers' = [ans EXCEPT ![cl.copy.key] = [by |-> cl.from, res |-> cl.got]],
           call' = [call EXCEPT ![c] = cl],
           \/ job' = job
           \/ /\ cl.from = c /\ cl.copy.key = NoKey
              /\ \E jb : /\ DOMAIN jb = DOMAIN NoJob /\ jb.signer = NoKey
                         /\ job' = [job EXCEPT ![<<c, "look">>] = jb],
           row' = row, inFlight' = inFlight
    PROVE  OwnInv'
<1> DEFINE key == cl.copy.key
           by  == cl.from
           res == cl.got
<1>0. key \in Signers /\ AnswerOK(res, key) /\ (by # None => res = NoRes)
  BY DEF CallOK, CopyOK
<1>1. call[c].from = None /\ call[c].on = None /\ call[c].pc = "idle" /\ cl.on = None
  BY DEF Free, Idle, CallOK
<1>2. CallsOK(call')
  BY DEF OwnInv, CallsOK
<1> DEFINE OneAsks ==
      /\ DOMAIN job' = Jobs
      /\ \A j \in Jobs : DOMAIN job'[j] = DOMAIN NoJob /\ job'[j].signer = job[j].signer
      /\ \A d \in Calls : job'[<<d, "look">>] = job[<<d, "look">>]
                             \/ (d = c /\ by = c /\ key = NoKey)
<1>3. OneAsks
  <2>1. /\ DOMAIN job = Jobs /\ \A j \in Jobs : DOMAIN job[j] = DOMAIN NoJob
        /\ job[<<c, "look">>].signer = NoKey
    BY DEF OwnInv, FetchesOK
  <2>2. CASE job' = job
    BY <2>1, <2>2
  <2>3. ASSUME NEW jb, DOMAIN jb = DOMAIN NoJob, jb.signer = NoKey,
               job' = [job EXCEPT ![<<c, "look">>] = jb], by = c, key = NoKey
        PROVE  OneAsks
    <3>1. ASSUME NEW j \in Jobs
          PROVE  DOMAIN job'[j] = DOMAIN NoJob /\ job'[j].signer = job[j].signer
      BY <2>1, <2>3
    <3>2. \A d \in Calls : d # c => <<d, "look">> # <<c, "look">>
      OBVIOUS
    <3>3. \A d \in Calls : d # c => job'[<<d, "look">>] = job[<<d, "look">>]
      BY <2>1, <2>3, <3>2, TreeJobs
    <3> QED
      BY <2>1, <2>3, <3>1, <3>3
  <2> QED
    BY <2>2, <2>3
<1>4. FetchesOK'
  <2>1. \A d \in Calls : call'[d].on = call[d].on
    BY <1>1 DEF OwnInv, CallsOK
  <2>2. \A d \in Calls : call[d].on # None => call'[d] = call[d] /\ call[d].on \in Jobs
    BY <1>1 DEF OwnInv, CallsOK, CallOK
  <2>3. \A d \in Calls : (call[d].pc)' = "tree" /\ (call[d].on)' # None
                            => (job[call[d].on].signer)' = (call[d].copy.key)'
    BY <2>1, <2>2, <1>3 DEF OwnInv, FetchesOK
  <2>4. \A d \in Calls : (job[<<d, "look">>].signer)' = NoKey
    BY <1>3, TreeJobs DEF OwnInv, FetchesOK
  <2> QED
    BY <2>1, <2>3, <2>4, <1>3 DEF OwnInv, FetchesOK
<1>5. \A b, s : Asks(b, s) => Asks(b, s)'
  BY <1>1, NobodyAsks
<1>6. by # None => Asks(by, key)'
  BY <1>5 DEF Asks, OwnInv, CallsOK
<1>7. LooksOK'
  <2>1. \A d \in Calls : (call[d].from)' # None => Asks(call[d].from, call[d].copy.key)'
    <3> SUFFICES ASSUME NEW d \in Calls, (call[d].from)' # None
                 PROVE  Asks(call[d].from, call[d].copy.key)'
      OBVIOUS
    <3>1. CASE d = c
      <4>1. call'[d] = cl
        BY <3>1 DEF OwnInv, CallsOK
      <4> QED
        BY <4>1, <1>6 DEF Asks
    <3>2. CASE d # c
      <4>1. call'[d] = call[d]
        BY <3>2
      <4>2. Asks(call[d].from, call[d].copy.key)
        BY <4>1 DEF OwnInv, LooksOK
      <4> QED
        BY <4>1, <4>2, <1>5 DEF Asks
    <3> QED
      BY <3>1, <3>2
  <2>2. ASSUME NEW s \in Signers
        PROVE  /\ (answers[s].by)' # None
                     => (answers[s].res)' = NoRes /\ Asks(answers[s].by, s)'
               /\ AnswerOK(answers[s].res, s)'
    <3>1. CASE s = key
      <4>1. answers'[s].by = by /\ answers'[s].res = res
        BY <3>1
      <4> QED
        BY <3>1, <4>1, <1>0, <1>6 DEF Asks, AnswerOK
    <3>2. CASE s # key /\ answers'[s] = answers[s]
      <4>1. answers[s].by # None => answers[s].res = NoRes /\ Asks(answers[s].by, s)
        BY DEF OwnInv, LooksOK
      <4>2. AnswerOK(answers[s].res, s)
        BY DEF OwnInv, LooksOK
      <4> QED
        BY <3>2, <4>1, <4>2, <1>5 DEF Asks, AnswerOK
    <3>3. CASE s # key /\ answers'[s] = NoAnswer
      BY <3>3 DEF NoAnswer, AnswerOK
    <3> QED
      BY <3>1, <3>2, <3>3
  <2>3. \A d \in Calls : (job[<<d, "look">>].phase)' = "ask" => Asks(d, NoKey)'
    BY <1>1, <1>3, <1>5, <1>6, TreeJobs DEF OwnInv, LooksOK
  <2> QED
    BY <2>1, <2>2, <2>3 DEF LooksOK
<1> QED
  BY <1>2, <1>4, <1>7 DEF OwnInv

LEMMA BeginsOwn ==
    ASSUME OwnInv, NEW c \in Calls, Free(c), NEW r \in Rows,
           NEW pin \in Commits \cup {None}, NEW gone, NEW ans,
           DOMAIN ans = Signers,
           \A s \in Signers : ans[s] = answers[s] \/ ans[s] = NoAnswer,
           Begins(c, r, pin, gone, ans), UNCHANGED <<row, inFlight>>
    PROVE  OwnInv'
<1> DEFINE cp  == row[r]
           key  == cp.key
           hit  == ans[cp.key]
           new  == hit = NoAnswer
           dead == new /\ closing /\ cp.key = NoKey
           res  == IF dead THEN Bad("failed", NoKey) ELSE hit.res
           by   == IF dead THEN None ELSE IF new THEN c ELSE hit.by
           cl   == [Idle EXCEPT !.pc = "look", !.repo = r, !.copy = cp, !.pin = pin,
                                !.gone = gone, !.from = by, !.got = res]
           jb   == [NoJob EXCEPT !.phase = "ask", !.ignore = cp.ignore, !.caps = caps]
<1>1. /\ answers' = [ans EXCEPT ![key] = [by |-> by, res |-> res]]
      /\ call' = [call EXCEPT ![c] = cl]
      /\ job' = IF new /\ ~dead /\ cp.key = NoKey
                THEN [job EXCEPT ![<<c, "look">>] = jb] ELSE job
  BY Zenon DEF Begins
<1>2. DOMAIN cp = RowFields /\ key \in Signers /\ cp.ignore \in Rules
  BY DEF OwnInv, RowsOK, RowOK
<1>3. /\ AnswerOK(res, key)
      /\ by # None => res = NoRes
      /\ by # None => by = c \/ Asks(by, key)
  <2>1. CASE dead
    BY <2>1 DEF AnswerOK, Bad
  <2>2. CASE new /\ ~dead
    BY <2>2 DEF AnswerOK, NoAnswer
  <2>3. CASE ~new
    BY <2>3, <1>2 DEF OwnInv, LooksOK
  <2> QED
    BY <2>1, <2>2, <2>3
<1>4. /\ DOMAIN cl = DOMAIN Idle /\ cl.pc = "look" /\ cl.copy = cp /\ cl.repo = r
      /\ cl.from = by /\ cl.got = res /\ cl.on = None /\ cl.pin = pin
  BY DEF Idle
<1>5. DOMAIN jb = DOMAIN NoJob /\ jb.signer = NoKey
  BY DEF NoJob
<1>6. \/ job' = job
      \/ job' = [job EXCEPT ![<<c, "look">>] = jb] /\ by = c /\ key = NoKey
  BY <1>1
<1>7. UNCHANGED <<row, inFlight>>
  OBVIOUS
<1>8. cl.copy.key = key /\ cl.copy.ignore = cp.ignore /\ DOMAIN cl.copy = RowFields
  BY <1>2, <1>4
<1> HIDE DEF cl, jb, by, res, cp, key
<1>9. CallOK(cl)
  <2>1. CopyOK(cl)
    BY <1>2, <1>4, <1>8 DEF CopyOK
  <2>2. cl.got # NoRes => cl.from = None
    BY <1>3, <1>4
  <2>3. AnswerOK(cl.got, cl.copy.key)
    BY <1>3, <1>4, <1>8
  <2> QED
    BY <1>4, <2>1, <2>2, <2>3 DEF CallOK
<1>10. /\ answers' = [ans EXCEPT ![cl.copy.key] = [by |-> cl.from, res |-> cl.got]]
       /\ cl.from # None => cl.from = c \/ Asks(cl.from, cl.copy.key)
       /\ \/ job' = job
          \/ /\ cl.from = c /\ cl.copy.key = NoKey
             /\ \E b : /\ DOMAIN b = DOMAIN NoJob /\ b.signer = NoKey
                       /\ job' = [job EXCEPT ![<<c, "look">>] = b]
  BY <1>1, <1>3, <1>4, <1>5, <1>6, <1>8
<1>11. row' = row /\ inFlight' = inFlight /\ call' = [call EXCEPT ![c] = cl] /\ cl.pc = "look"
  BY <1>1, <1>4
<1> QED
  BY <1>9, <1>10, <1>11, BegunOwn

LEMMA StepOwn ==
    ASSUME OwnInv, Step
    PROVE  OwnInv'
<1>1. ASSUME NEW r \in Rows, NEW c \in Calls, Refresh(r, c)
      PROVE  OwnInv'
  <2> DEFINE ans == [answers EXCEPT ![row[r].key] = NoAnswer]
  <2>1. CASE Free(c) /\ Begins(c, r, None, TRUE, ans)
    <3>1. DOMAIN ans = Signers /\ \A s \in Signers : ans[s] = answers[s] \/ ans[s] = NoAnswer
      BY DEF OwnInv, LooksOK
    <3>2. UNCHANGED <<row, inFlight>>
      BY <1>1 DEF Refresh
    <3> HIDE DEF ans
    <3> QED
      BY <2>1, <3>1, <3>2, BeginsOwn
  <2>2. CASE UNCHANGED <<row, answers, call, job, inFlight>>
    BY <2>2 DEF OwnInv, FetchesOK, LooksOK, Asks
  <2> QED
    BY <1>1, <2>1, <2>2 DEF Refresh
<1>2. ASSUME NEW c \in Calls, Looked(c)
      PROVE  OwnInv'
  <2> DEFINE res == call[c].got
             pin == call[c].pin
             to  == IF pin # None /\ Cached(<<pin, call[c].copy.ignore>>)
                    THEN pin ELSE res.commit
             cl  == [call[c] EXCEPT !.got = NoRes, !.commit = res.commit,
                                    !.of = res.of, !.want = to]
  <2>1. /\ call[c].pc = "look" /\ res # NoRes /\ UNCHANGED answers
        /\ CallOK(call[c])
    BY <1>2 DEF Looked, OwnInv, CallsOK
  <2>2. Heard(c) /\ res.of = call[c].copy.key /\ (res.word = "ok" => res.commit \in Commits)
    BY <2>1 DEF Heard, CallOK, AnswerOK
  <2>3. ASSUME Fails(c, res.word, res.of)
        PROVE  OwnInv'
    BY <2>1, <2>2, <2>3, FailsOwn
  <2>4. ASSUME res.word = "ok", Attempt(c, cl)
        PROVE  OwnInv'
    <3>1. to \in Commits
      BY <2>1, <2>2, <2>4 DEF CallOK
    <3> HIDE DEF to
    <3>2. Going(cl)
      BY <2>1, <2>2, <3>1 DEF Going, CallOK, CopyOK, Heard, Idle
    <3> HIDE DEF cl
    <3> QED
      BY <2>1, <2>2, <2>4, <3>2, AttemptOwn
  <2> QED
    BY <1>2, <2>3, <2>4 DEF Looked
<1>3. ASSUME NEW c \in Calls, Answered(c)
      PROVE  OwnInv'
  <2> DEFINE cl   == [call[c] EXCEPT !.got = NoRes]
             word == call[c].got.word
  <2>1. /\ call[c].pc \in {"tree", "other"} /\ call[c].got # NoRes
        /\ UNCHANGED answers /\ CallOK(call[c])
    BY <1>3 DEF Answered, OwnInv, CallsOK
  <2>2. Heard(c) /\ (call[c].pc = "tree" => call[c].got.of = call[c].copy.key)
    BY <2>1 DEF Heard, CallOK
  <2>3. ASSUME NEW w, NEW of, Fails(c, w, of),
               w = "over the size cap" \/ of = call[c].copy.key
        PROVE  OwnInv'
    BY <2>1, <2>2, <2>3, FailsOwn
  <2>4. /\ Going(cl) /\ Going([cl EXCEPT !.tries = 1])
        /\ cl.copy = call[c].copy /\ cl.pc = call[c].pc
    BY <2>1, <2>2 DEF Going, CallOK, CopyOK, Heard, Idle
  <2>5. CASE Attempt(c, [cl EXCEPT !.tries = 1])
    BY <2>1, <2>2, <2>4, <2>5, AttemptOwn
  <2>6. CASE ByCommit(c, cl, TRUE) /\ UNCHANGED row
    BY <2>1, <2>2, <2>4, <2>6, ByCommitOwn DEF OwnInv
  <2>7. CASE /\ cl.pc = "tree" \/ word = "over the size cap"
             /\ Fails(c, word, call[c].got.of)
    BY <2>2, <2>3, <2>4, <2>7
  <2>8. CASE Fails(c, "failed", cl.copy.key)
    BY <2>3, <2>4, <2>8
  <2> HIDE DEF cl, word
  <2> QED
    BY <1>3, <2>5, <2>6, <2>7, <2>8 DEF Answered, cl, word
<1> QED
  BY <1>1, <1>2, <1>3 DEF Step

LEMMA TurnOwn ==
    ASSUME OwnInv, Turn
    PROVE  OwnInv'
<1>1. ASSUME NEW c \in Calls, NEW r \in Rows, NEW pin \in Pins \cup {None},
             Prepare(c, r, pin)
      PROVE  OwnInv'
  <2>1. /\ Free(c) /\ Begins(c, r, pin, FALSE, answers)
        /\ UNCHANGED <<row, inFlight>> /\ pin \in Commits \cup {None}
    BY <1>1 DEF Prepare
  <2>2. DOMAIN answers = Signers
    BY DEF OwnInv, LooksOK
  <2> QED
    BY <2>1, <2>2, BeginsOwn
<1>2. ASSUME NEW c \in Calls, WaitEnds(c)
      PROVE  OwnInv'
  <2>1. /\ call' = [call EXCEPT ![c].gone = TRUE]
        /\ UNCHANGED <<row, job, inFlight, answers>>
    BY <1>2 DEF WaitEnds
  <2>2. /\ DOMAIN call' = Calls
        /\ \A d \in Calls : /\ DOMAIN call'[d] = DOMAIN Idle
                             /\ \A x \in DOMAIN Idle \ {"gone"} : call'[d][x] = call[d][x]
    BY <2>1 DEF OwnInv, CallsOK, CallOK
  <2>3. \A d \in Calls :
          /\ call'[d].pc = call[d].pc /\ call'[d].repo = call[d].repo
          /\ call'[d].copy = call[d].copy /\ call'[d].pin = call[d].pin
          /\ call'[d].from = call[d].from /\ call'[d].on = call[d].on
          /\ call'[d].got = call[d].got /\ call'[d].of = call[d].of
          /\ call'[d].want = call[d].want
    BY <2>2 DEF Idle
  <2>4. CallsOK(call')
    BY <2>2, <2>3 DEF OwnInv, CallsOK, CallOK, CopyOK
  <2>5. FetchesOK'
    BY <2>1, <2>3 DEF OwnInv, FetchesOK
  <2>6. LooksOK'
    BY <2>1, <2>3 DEF OwnInv, LooksOK, Asks
  <2> QED
    BY <2>1, <2>4, <2>5, <2>6 DEF OwnInv
<1>3. ASSUME NEW c \in Calls, Release(c)
      PROVE  OwnInv'
  <2>1. /\ call[c].pc = "held" /\ call' = [call EXCEPT ![c] = Idle]
        /\ UNCHANGED <<row, job, inFlight, answers>>
    BY <1>3 DEF Release
  <2>2. Heard(c)
    BY <2>1 DEF Heard, OwnInv, CallsOK, CallOK
  <2>3. CallOK(Idle) /\ Idle.from = None /\ Idle.on = None /\ Idle.pc = "idle"
    BY DEF CallOK, Idle
  <2>4. RowsOK(row')
    BY <2>1 DEF OwnInv
  <2> QED
    BY <2>1, <2>2, <2>3, <2>4, TreeJobs, GoesOn
<1> QED
  BY <1>1, <1>2, <1>3 DEF Turn

LEMMA LookupsOwn ==
    ASSUME OwnInv, Lookups
    PROVE  OwnInv'
<1>0. /\ CallsOK(call) /\ FetchesOK /\ LooksOK /\ RowsOK(row)
      /\ \A c \in Calls : job[<<c, "look">>].signer = NoKey
  BY DEF OwnInv, FetchesOK
<1>1. ASSUME NEW c \in Calls, NEW m \in Commits \cup {None}, SignedLookup(c, m)
      PROVE  OwnInv'
  <2> DEFINE res == Says(m, call[c].copy.key)
  <2>1. /\ call[c].from = c /\ call[c].copy.key # NoKey
        /\ call' = LookupHeard(c, res) /\ answers' = LookupKept(c, res)
        /\ UNCHANGED <<row, job, inFlight>>
    BY <1>1 DEF SignedLookup
  <2>2. AnswerOK(res, call[c].copy.key)
    BY DEF AnswerOK, Says, Ok, Bad
  <2> HIDE DEF res
  <2>3. CallsOK(call')
    BY <2>1, <2>2, HeardCalls
  <2>4. \A d \in Calls : /\ call'[d].pc = call[d].pc /\ call'[d].copy = call[d].copy
                         /\ call'[d].on = call[d].on
    BY <2>1, <1>0 DEF LookupHeard, CallsOK, CallOK, Idle
  <2>5. FetchesOK'
    BY <1>0, <2>1, <2>4 DEF FetchesOK
  <2>6. \A d \in Calls : job'[<<d, "look">>].phase = "ask"
                           => job[<<d, "look">>].phase = "ask" /\ d # c
    BY <1>0, <2>1 DEF LooksOK, Asks
  <2>7. LooksOK'
    BY <2>1, <2>2, <2>3, <2>4, <2>6, HeardLooks DEF CallsOK
  <2> QED
    BY <1>0, <2>1, <2>3, <2>5, <2>7 DEF OwnInv
<1>2. ASSUME NEW c \in Calls, job[<<c, "look">>].phase = "ask"
      PROVE  /\ call[c].from = c /\ call[c].copy.key = NoKey
             /\ <<c, "look">> \in Jobs
  BY <1>0, <1>2, TreeJobs DEF LooksOK, Asks
\* its job ends with the answer
<1>3. ASSUME NEW c \in Calls, NEW res, job[<<c, "look">>].phase = "ask",
             AnswerOK(res, NoKey), res.of = NoKey,
             Ends(LookupHeard(c, res), <<c, "look">>, res),
             answers' = LookupKept(c, res), UNCHANGED row
      PROVE  OwnInv'
  <2> DEFINE cs == LookupHeard(c, res)
             j  == <<c, "look">>
  <2>1. CallsOK(cs)
    BY <1>2, <1>3, HeardCalls
  <2>2. \A d \in Calls : cs[d].on = call[d].on /\ cs[d].pc = call[d].pc /\ cs[d].copy = call[d].copy
    BY <1>0 DEF LookupHeard, CallsOK, CallOK, Idle
  <2>3. j \in Jobs /\ res.of = job[j].signer /\ Ends(cs, j, res)
    BY <1>0, <1>2, <1>3
  <2> HIDE DEF cs, j
  <2>4. /\ CallsOK(call') /\ FetchesOK'
        /\ \A d \in Calls : /\ call'[d].pc = cs[d].pc /\ call'[d].copy = cs[d].copy
                             /\ call'[d].from = cs[d].from
        /\ \A d \in Calls : job'[<<d, "look">>].phase = "ask"
              => job[<<d, "look">>].phase = "ask" /\ <<d, "look">> # j
    BY <2>1, <2>2, <2>3, EndsOwn
  <2>5. LooksOK'
    BY <1>2, <1>3, <2>2, <2>4, HeardLooks DEF CallsOK, cs, j
  <2> QED
    BY <1>0, <1>3, <2>4, <2>5 DEF OwnInv
<1>4. ASSUME NEW c \in Calls, NEW m \in Commits \cup {None}, PublicLookup(c, m)
      PROVE  OwnInv'
  <2>1. AnswerOK(Says(m, NoKey), NoKey) /\ Says(m, NoKey).of = NoKey
    BY DEF AnswerOK, Says, Ok, Bad
  <2> QED
    BY <1>3, <1>4, <2>1 DEF PublicLookup
<1>5. ASSUME NEW c \in Calls, NEW m \in Commits, ArchiveNames(c, m)
      PROVE  OwnInv'
  <2> DEFINE res == Ok(m, NoKey)
             j   == <<c, "look">>
             f   == <<m, job[j].ignore>>
             jb  == [job[j] EXCEPT !.commit = m, !.under = caps]
  <2>1. AnswerOK(res, NoKey) /\ res.of = NoKey
    BY DEF AnswerOK, Ok
  <2>2. job[j].phase = "ask" /\ answers' = LookupKept(c, res) /\ UNCHANGED row
    BY <1>5 DEF ArchiveNames
  <2>3. CASE Ends(LookupHeard(c, res), j, res)
    BY <1>3, <2>1, <2>2, <2>3
  <2>4. CASE /\ call' = LookupHeard(c, res)
             /\ inFlight' = [inFlight EXCEPT ![f] = j]
             /\ Takes(j, jb)
    <3> HIDE DEF res
    <3>1. CallsOK(call')
      BY <1>2, <2>1, <2>2, <2>4, HeardCalls
    <3>2. \A d \in Calls : /\ call'[d].pc = call[d].pc /\ call'[d].copy = call[d].copy
                           /\ call'[d].on = call[d].on
      BY <2>4, <1>0 DEF LookupHeard, CallsOK, CallOK, Idle
    <3>3. j \in Jobs /\ DOMAIN job[j] = DOMAIN NoJob
      BY <1>2, <2>2 DEF OwnInv, FetchesOK
    <3>4. PICK phase \in {"proc", "slot"} : job' = [job EXCEPT ![j] = [jb EXCEPT !.phase = phase]]
      BY <2>4 DEF Takes
    <3> DEFINE kb == [jb EXCEPT !.phase = phase]
    <3>5. DOMAIN kb = DOMAIN NoJob /\ kb.signer = job[j].signer /\ kb.phase # "ask"
      BY <3>3 DEF NoJob
    <3>6. job' = [job EXCEPT ![j] = kb] /\ DOMAIN job' = Jobs
      BY <3>4 DEF OwnInv, FetchesOK
    <3> HIDE DEF kb, jb
    <3>7. /\ \A x \in Jobs : /\ DOMAIN job'[x] = DOMAIN NoJob
                              /\ job'[x].signer = job[x].signer
          /\ \A d \in Calls : job'[<<d, "look">>].phase = "ask"
                => job[<<d, "look">>].phase = "ask" /\ <<d, "look">> # j
      BY <1>0, <3>3, <3>5, <3>6, JobGoesOn
    <3>8. \A g \in Folders : inFlight'[g] = inFlight[g] \/ inFlight'[g] = j
      BY <2>4 DEF OwnInv, FetchesOK
    <3>9. DOMAIN inFlight' = Folders
      BY <2>4 DEF OwnInv, FetchesOK
    <3>10. FetchesOK'
      <4>1. \A d \in Calls : (job[<<d, "look">>].signer)' = NoKey
        BY <1>0, <3>7, TreeJobs
      <4>2. \A d \in Calls : (call[d].pc)' = "tree" /\ (call[d].on)' # None
                                => (job[call[d].on].signer)' = (call[d].copy.key)'
        BY <1>0, <3>1, <3>2, <3>7 DEF FetchesOK, CallsOK, CallOK
      <4>3. \A g \in Folders :
              /\ inFlight'[g] \in Jobs \cup {None}
              /\ \A d \in Calls : inFlight'[g] = <<d, "tree">> => call'[d].on = <<d, "tree">>
        BY <1>0, <3>2, <3>3, <3>8, TreeJobs DEF FetchesOK
      <4>4. \A b, d \in Calls : call'[d].on = <<b, "tree">> => call'[b].on = <<b, "tree">>
        BY <1>0, <3>2 DEF FetchesOK
      <4> QED
        BY <3>6, <3>7, <3>9, <4>1, <4>2, <4>3, <4>4 DEF FetchesOK
    <3>11. \A d \in Calls : job'[<<d, "look">>].phase = "ask"
                              => job[<<d, "look">>].phase = "ask" /\ d # c
      BY <3>7
    <3>12. LooksOK'
      BY <1>2, <2>1, <2>2, <2>4, <3>1, <3>2, <3>11, HeardLooks DEF CallsOK
    <3> QED
      BY <1>0, <2>2, <3>1, <3>10, <3>12 DEF OwnInv
  <2> QED
    BY <1>5, <2>3, <2>4 DEF ArchiveNames
<1> QED
  BY <1>1, <1>4, <1>5 DEF Lookups

LEMMA FetchingOwn ==
    ASSUME OwnInv, Fetching
    PROVE  OwnInv'
<1>0. /\ CallsOK(call) /\ FetchesOK /\ LooksOK /\ RowsOK(row)
      /\ DOMAIN answers = Signers
  BY DEF OwnInv, LooksOK
<1>1. ASSUME NEW j \in Jobs, NEW res, res.of = job[j].signer, Ends(call, j, res),
             UNCHANGED <<row, answers>>
      PROVE  OwnInv'
  <2>1. /\ CallsOK(call') /\ FetchesOK'
        /\ \A d \in Calls : /\ call'[d].pc = call[d].pc /\ call'[d].copy = call[d].copy
                             /\ call'[d].from = call[d].from
        /\ \A d \in Calls : job'[<<d, "look">>].phase = "ask"
              => job[<<d, "look">>].phase = "ask"
    BY <1>0, <1>1, EndsOwn
  <2>2. \A b, s : Asks(b, s) => Asks(b, s)'
    BY <2>1 DEF Asks
  <2>3. LooksOK'
    BY <1>0, <1>1, <2>1, <2>2, LooksStay
  <2> QED
    BY <1>0, <1>1, <2>1, <2>3 DEF OwnInv
<1>2. ASSUME NEW j \in Jobs, NEW phase \in {"slot", "proc", "unpack"},
             job' = [job EXCEPT ![j] = [job[j] EXCEPT !.phase = phase]],
             UNCHANGED <<row, call, inFlight, answers>>
      PROVE  OwnInv'
  <2> DEFINE jb == [job[j] EXCEPT !.phase = phase]
  <2>1. DOMAIN jb = DOMAIN NoJob /\ jb.signer = job[j].signer /\ jb.phase # "ask"
    BY <1>0 DEF FetchesOK, NoJob
  <2>2. job' = [job EXCEPT ![j] = jb] /\ DOMAIN job' = Jobs
    BY <1>0, <1>2 DEF FetchesOK
  <2> HIDE DEF jb
  <2>3. /\ \A x \in Jobs : /\ DOMAIN job'[x] = DOMAIN NoJob
                            /\ job'[x].signer = job[x].signer
        /\ \A d \in Calls : job'[<<d, "look">>].phase = "ask"
              => job[<<d, "look">>].phase = "ask"
    BY <1>0, <2>1, <2>2, JobGoesOn
  <2>4. FetchesOK'
    <3>1. \A d \in Calls : (job[<<d, "look">>].signer)' = NoKey
      BY <1>0, <2>3, TreeJobs DEF FetchesOK
    <3>2. \A d \in Calls : (call[d].pc)' = "tree" /\ (call[d].on)' # None
                              => (job[call[d].on].signer)' = (call[d].copy.key)'
      BY <1>0, <1>2, <2>3 DEF FetchesOK, CallsOK, CallOK
    <3> QED
      BY <1>0, <1>2, <2>2, <2>3, <3>1, <3>2 DEF FetchesOK
  <2>5. CallsOK(call')
    BY <1>0, <1>2
  <2>6. LooksOK'
    BY <1>0, <1>2, <2>3 DEF LooksOK, Asks
  <2> QED
    BY <1>0, <1>2, <2>4, <2>5, <2>6 DEF OwnInv
<1>3. ASSUME NEW word, NEW s
      PROVE  Bad(word, s).of = s /\ Ok(word, s).of = s
  BY DEF Bad, Ok
<1>4. ASSUME NEW j \in Jobs, TreeNames(j)
      PROVE  OwnInv'
  <2>1. CASE Ends(call, j, Ok(job[j].commit, job[j].signer))
    BY <1>1, <1>3, <1>4, <2>1 DEF TreeNames
  <2>2. CASE Takes(j, job[j]) /\ UNCHANGED <<call, inFlight>>
    BY <1>2, <1>4, <2>2 DEF TreeNames, Takes
  <2> QED
    BY <1>4, <2>1, <2>2 DEF TreeNames
<1>5. ASSUME NEW j \in Jobs, TreeRefused(j) \/ SlotWaitEnds(j) \/ NoRoom(j)
      PROVE  OwnInv'
  <2>1. /\ \E word : Ends(call, j, Bad(word, job[j].signer))
        /\ UNCHANGED <<row, answers>>
    BY <1>5 DEF TreeRefused, SlotWaitEnds, NoRoom
  <2> QED
    BY <1>1, <1>3, <2>1
<1>6. ASSUME NEW j \in Jobs, Unpacks(j)
      PROVE  OwnInv'
  <2>1. /\ job' = [job EXCEPT ![j] = [job[j] EXCEPT !.phase = "unpack"]]
        /\ UNCHANGED <<row, call, inFlight, answers>>
    BY <1>6 DEF Unpacks
  <2> QED
    BY <1>2, <2>1
<1>7. ASSUME NEW j \in Jobs, Publishes(j)
      PROVE  OwnInv'
  BY <1>1, <1>3, <1>7 DEF Publishes
<1>8. ASSUME NEW j \in Jobs, NEW word \in Words, UnpackFails(j, word)
      PROVE  OwnInv'
  BY <1>1, <1>3, <1>8 DEF UnpackFails
<1> QED
  BY <1>4, <1>5, <1>6, <1>7, <1>8 DEF Fetching

LEMMA OutsideOwn ==
    ASSUME OwnInv, Outside
    PROVE  OwnInv'
<1>0. /\ CallsOK(call) /\ FetchesOK /\ LooksOK /\ RowsOK(row)
      /\ DOMAIN answers = Signers
  BY DEF OwnInv, LooksOK
<1>1. ASSUME RowsOK(row'), UNCHANGED <<call, job, inFlight, answers>>
      PROVE  OwnInv'
  BY <1>0, <1>1 DEF OwnInv, FetchesOK, LooksOK, Asks
<1>2. ASSUME NEW r \in Rows, NEW key \in Signers, NEW ignore \in Rules,
             Writes(r, key, ignore)
      PROVE  OwnInv'
  <2> DEFINE rw == [st |-> "pending", error |-> None, commit |-> None,
                    key |-> key, ignore |-> ignore, of |-> None]
  <2>1. RowOK(rw)
    BY DEF RowOK, RowFields
  <2>2. row' = [row EXCEPT ![r] = rw] /\ UNCHANGED <<call, job, inFlight, answers>>
    BY <1>2 DEF Writes
  <2> HIDE DEF rw
  <2>3. RowsOK(row')
    BY <1>0, <2>1, <2>2 DEF RowsOK
  <2> QED
    BY <1>1, <2>2, <2>3
<1>3. ASSUME NEW r \in Rows, AskRefresh(r) \/ Deletes(r)
      PROVE  OwnInv'
  <2>1. UNCHANGED <<call, job, inFlight, answers>>
    BY <1>3 DEF AskRefresh, Deletes, mem
  <2>2. PICK rw : row' = [row EXCEPT ![r] = rw] /\ RowOK(rw)
    <3>1. RowOK(row[r])
      BY <1>0 DEF RowsOK
    <3>2. CASE AskRefresh(r)
      <4> DEFINE rw == [row[r] EXCEPT !.st = "pending", !.error = None, !.of = None]
      <4>1. RowOK(rw)
        BY <3>1 DEF RowOK, RowFields
      <4>2. row' = [row EXCEPT ![r] = rw]
        BY <3>2, <3>1, <1>0 DEF AskRefresh, RowsOK, RowOK, RowFields
      <4> HIDE DEF rw
      <4> QED
        BY <4>1, <4>2
    <3>3. CASE Deletes(r)
      <4> DEFINE rw == [row[r] EXCEPT !.st = "gone"]
      <4>1. RowOK(rw)
        BY <3>1 DEF RowOK, RowFields
      <4>2. row' = [row EXCEPT ![r] = rw]
        BY <3>3 DEF Deletes
      <4> HIDE DEF rw
      <4> QED
        BY <4>1, <4>2
    <3> QED
      BY <1>3, <3>2, <3>3
  <2>3. RowsOK(row')
    BY <1>0, <2>2 DEF RowsOK
  <2> QED
    BY <1>1, <2>1, <2>3
<1>4. ASSUME NEW x, SetsCaps(x) \/ Loses(x) \/ RefusalExpires(x)
      PROVE  UNCHANGED <<row, call, job, inFlight, answers>>
  BY <1>4 DEF SetsCaps, Loses, RefusalExpires, mem
<1>5. CASE Sweep
  BY <1>0, <1>1, <1>5 DEF Sweep
<1>6. ASSUME NEW s \in Signers, LookupExpires(s)
      PROVE  OwnInv'
  <2>1. /\ answers' = [answers EXCEPT ![s] = NoAnswer]
        /\ UNCHANGED <<row, call, job, inFlight>>
    BY <1>6 DEF LookupExpires
  <2>2. LooksOK'
    BY <1>0, <2>1, LooksStay DEF Asks
  <2> QED
    BY <1>0, <2>1, <2>2 DEF OwnInv, FetchesOK
<1>7. CASE Close
  <2> DEFINE rest(d) == ~(call[d].on # None \/ (call[d].pc = "look" /\ Asking(call[d].from)))
  <2>1. /\ DOMAIN call' = Calls /\ job' = NoJobs /\ inFlight' = NoFlight
        /\ UNCHANGED row
        /\ answers' = [s \in Signers |->
                         IF Asking(answers[s].by)
                         THEN [by |-> None, res |-> Bad("failed", NoKey)]
                         ELSE answers[s]]
    BY <1>7 DEF Close
  <2>2. ASSUME NEW d \in Calls
        PROVE  /\ CallOK(call'[d]) /\ call'[d].on = None /\ call'[d].pc = call[d].pc
               /\ call'[d].copy = call[d].copy
               /\ call'[d].from # None => call'[d].from = call[d].from /\ ~Asking(call[d].from)
               /\ call[d].from # None /\ ~Asking(call[d].from) => call'[d].from = call[d].from
    <3>1. CallOK(call[d])
      BY <1>0 DEF CallsOK
    <3>2. CASE call[d].on # None
      <4> DEFINE res == Cut(call[d].on)
      <4>1. call'[d] = [call[d] EXCEPT !.got = res, !.on = None]
        BY <1>7, <3>2 DEF Close
      <4>2. res.of = job[call[d].on].signer
        BY DEF Cut, Bad
      <4>3. call[d].pc = "tree" => res.of = call[d].copy.key
        BY <1>0, <3>2, <4>2 DEF FetchesOK
      <4>4. call[d].from = None /\ call[d].pc \notin {"idle", "look", "held"}
        BY <3>1, <3>2 DEF CallOK
      <4> HIDE DEF res
      <4> QED
        BY <3>1, <4>1, <4>3, <4>4 DEF CallOK, CopyOK, Idle
    <3>3. CASE call[d].on = None /\ call[d].pc = "look" /\ Asking(call[d].from)
      <4>1. call'[d] = [call[d] EXCEPT !.got = Bad("failed", NoKey), !.from = None]
        BY <1>7, <3>3 DEF Close
      <4>2. call[d].from # None /\ Asks(call[d].from, call[d].copy.key)
        BY <1>0, <3>3 DEF Asking, LooksOK
      <4>3. Asks(call[d].from, NoKey)
        BY <1>0, <3>3, <4>2 DEF Asking, LooksOK, Asks
      <4>4. call[d].copy.key = NoKey
        BY <4>2, <4>3 DEF Asks
      <4>5. AnswerOK(Bad("failed", NoKey), call[d].copy.key)
        BY <4>4 DEF AnswerOK, Bad
      <4> QED
        BY <3>1, <3>3, <4>1, <4>5 DEF CallOK, CopyOK, Idle
    <3>4. CASE rest(d)
      <4>1. call'[d] = call[d]
        BY <1>7, <3>4 DEF Close
      <4>2. call[d].from # None => call[d].pc = "look"
        BY <3>1 DEF CallOK
      <4> QED
        BY <3>1, <3>4, <4>1, <4>2
    <3> QED
      BY <3>2, <3>3, <3>4
  <2>3. CallsOK(call')
    BY <2>1, <2>2 DEF CallsOK
  <2>4. FetchesOK'
    BY <2>1, <2>2, TreeJobs DEF FetchesOK, NoJobs, NoFlight, NoJob
  <2>5. ASSUME NEW b, NEW s, Asks(b, s), ~Asking(b)
        PROVE  Asks(b, s)'
    BY <2>2, <2>5 DEF Asks
  <2>6. \A d \in Calls : (call[d].from)' # None => Asks(call[d].from, call[d].copy.key)'
    BY <1>0, <2>2, <2>5 DEF LooksOK, Asks
  <2>7. ASSUME NEW s \in Signers
        PROVE  /\ (answers[s].by)' # None
                     => (answers[s].res)' = NoRes /\ Asks(answers[s].by, s)'
               /\ AnswerOK(answers[s].res, s)'
    <3>0. /\ answers[s].by # None => answers[s].res = NoRes /\ Asks(answers[s].by, s)
          /\ AnswerOK(answers[s].res, s)
      BY <1>0 DEF LooksOK
    <3>1. CASE Asking(answers[s].by)
      <4>1. Asks(answers[s].by, s)
        BY <3>0, <3>1 DEF Asking
      <4>2. Asks(answers[s].by, NoKey)
        BY <1>0, <3>1, <4>1 DEF Asking, LooksOK, Asks
      <4>3. s = NoKey
        BY <4>1, <4>2 DEF Asks
      <4>4. answers'[s] = [by |-> None, res |-> Bad("failed", NoKey)]
        BY <2>1, <3>1
      <4> QED
        BY <4>3, <4>4 DEF AnswerOK, Bad
    <3>2. CASE ~Asking(answers[s].by)
      <4>1. answers'[s] = answers[s]
        BY <2>1, <3>2
      <4> QED
        BY <3>0, <3>2, <4>1, <2>5 DEF Asks, AnswerOK
    <3> QED
      BY <3>1, <3>2
  <2>8. \A d \in Calls : (job[<<d, "look">>].phase)' # "ask"
    BY <2>1, TreeJobs DEF NoJobs, NoJob
  <2>9. LooksOK'
    BY <2>1, <2>6, <2>7, <2>8 DEF LooksOK
  <2> QED
    BY <1>0, <2>1, <2>3, <2>4, <2>9 DEF OwnInv
<1>8. CASE Restart
  <2>1. /\ row' = [r \in Rows |-> IF row[r].st = "fetching"
                                    THEN [row[r] EXCEPT !.st = "pending"] ELSE row[r]]
        /\ call' = NoCalls /\ job' = NoJobs /\ answers' = NoAnswers
        /\ inFlight' = NoFlight
    BY <1>8 DEF Restart
  <2>2. RowsOK(row')
    BY <1>0, <2>1 DEF RowsOK, RowOK, RowFields
  <2>3. CallsOK(call')
    BY <2>1 DEF CallsOK, CallOK, NoCalls, Idle
  <2>4. FetchesOK'
    BY <2>1, TreeJobs DEF FetchesOK, NoCalls, NoJobs, NoFlight, Idle, NoJob
  <2>5. LooksOK'
    BY <2>1, TreeJobs DEF LooksOK, NoCalls, NoJobs, NoAnswers, Idle, NoJob,
                          NoAnswer, AnswerOK
  <2> QED
    BY <2>2, <2>3, <2>4, <2>5 DEF OwnInv
<1> QED
  BY <1>0, <1>1, <1>2, <1>3, <1>4, <1>5, <1>6, <1>7, <1>8 DEF Outside

LEMMA OwnStep == OwnInv /\ [Next]_vars => OwnInv'
<1> SUFFICES ASSUME OwnInv, [Next]_vars PROVE OwnInv'
  OBVIOUS
<1>1. CASE UNCHANGED <<row, call, job, inFlight, answers>>
  BY <1>1 DEF OwnInv, FetchesOK, LooksOK, Asks
<1>2. UNCHANGED vars => UNCHANGED <<row, call, job, inFlight, answers>>
  BY DEF vars, mem
<1> QED
  BY <1>1, <1>2, StepOwn, TurnOwn, LookupsOwn, FetchingOwn, OutsideOwn
  DEF Next, Rest

----------------------------------------------------------------------------
\* A row tells what hosts answered to its own key, and a turn mounts a commit
\* that a lookup of its own key named (fetches.ts byCommit(), lookup.ts
\* lookupKey(), store.ts setFetched()), for any number of keys that share
\* lookups, trees and fetches, under edits, drains and restarts.
THEOREM WordsOwn == Spec => []OwnWord
<1>1. OwnInv => OwnWord
  <2> SUFFICES ASSUME OwnInv PROVE OwnWord
    OBVIOUS
  <2>1. \A r \in Rows : RowOK(row[r])
    BY DEF OwnInv, RowsOK
  <2>2. \A c \in Calls : call[c].pc = "held" => call[c].of = call[c].copy.key
    BY DEF OwnInv, CallsOK, CallOK
  <2> QED
    BY <2>1, <2>2 DEF OwnWord, RowOK
<1> QED
  BY InitOwn, OwnStep, <1>1, PTL DEF Spec
----------------------------------------------------------------------------
(* A row that says pending or fetching is about to be settled *)

Unsettled(rw) == rw.st \in {"pending", "fetching"}

\* the end of cl writes row r, which is rw.  A pending row is looked up by
\* a call that read it so, and of no pin: one of a pin may find its tree
\* cached and write nothing.
Owes(cl, r, rw) ==
    /\ cl.pc \in {"look", "tree", "other"}
    /\ cl.repo = r /\ SameFields(cl.copy, rw)
    /\ cl.pc = "look" => cl.pin = None
    /\ IF rw.st = "pending" THEN cl.pc = "look" /\ cl.copy.st = "pending"
       ELSE cl.copy.st \in {"pending", "fetching"}

OwedInv ==
    /\ \A r \in Rows :
          Unsettled(row[r]) /\ ~closing /\ r \notin left \cup toStart
             => \E c \in Calls : Owes(call[c], r, row[r])
    /\ \A r \in left : row[r].st = "fetching"

\* no call stops owing, and no row changes
LEMMA Keeps ==
    ASSUME OwedInv, UNCHANGED <<row, closing, left, toStart>>,
           \A c \in Calls, r \in Rows :
              Owes(call[c], r, row[r]) => Owes(call'[c], r, row[r])
    PROVE  OwedInv'
BY DEF OwedInv

\* a call's own step moves its row alone: the row is as it was and still
\* owed, or left, or it is settled, or the call owes it now
LEMMA OneMoves ==
    ASSUME OwedInv, NEW c \in Calls, NEW r0 \in Rows, call[c].repo = r0,
           \A d \in Calls \ {c} : call'[d] = call[d],
           \A r \in Rows \ {r0} : row'[r] = row[r],
           \A r \in Rows : r \in left /\ row'[r].st = "fetching" => r \in left',
           \A r \in left' : row'[r].st = "fetching",
           UNCHANGED <<closing, toStart>>,
           \/ /\ row'[r0] = row[r0]
              /\ Owes(call[c], r0, row[r0]) /\ Unsettled(row[r0]) /\ ~closing
                    => Owes(call'[c], r0, row[r0]) \/ r0 \in left'
           \/ ~Unsettled(row'[r0])
           \/ Owes(call'[c], r0, row'[r0])
    PROVE  OwedInv'
<1>1. ASSUME NEW r \in Rows, Unsettled(row'[r]), ~closing, r \notin left' \cup toStart
      PROVE  \E d \in Calls : Owes(call'[d], r, row'[r])
  <2>1. CASE row'[r] = row[r]
    <3>1. r \notin left
      BY <1>1, <2>1 DEF OwedInv
    <3>2. PICK d \in Calls : Owes(call[d], r, row[r])
      BY <1>1, <2>1, <3>1 DEF OwedInv
    <3>3. d = c => r = r0
      BY <3>2 DEF Owes
    <3> QED
      BY <1>1, <2>1, <3>2, <3>3
  <2>2. CASE row'[r] # row[r]
    BY <1>1, <2>2
  <2> QED
    BY <2>1, <2>2
<1> QED
  BY <1>1 DEF OwedInv

----------------------------------------------------------------------------
(* What a call's step writes *)

LEMMA FetchedRow ==
    ASSUME RowsOK(row), NEW cl, CopyOK(cl), NEW st, NEW error, NEW commit, NEW of,
           row' = Fetched(cl, st, error, commit, of)
    PROVE  /\ \A r \in Rows \ {cl.repo} : row'[r] = row[r]
           /\ \/ /\ row' = row
                 /\ \/ closing \/ row[cl.repo].st = "gone"
                    \/ ~SameFields(cl.copy, row[cl.repo])
              \/ row'[cl.repo].st = st /\ SameFields(cl.copy, row'[cl.repo])
<1> DEFINE rw == [row[cl.repo] EXCEPT !.st = st, !.error = error,
                                      !.commit = commit, !.of = of]
<1>1. CASE ~closing /\ row[cl.repo].st # "gone" /\ SameFields(row[cl.repo], cl.copy)
  <2>1. rw.st = st /\ SameFields(cl.copy, rw)
    BY <1>1 DEF RowsOK, RowOK, RowFields, CopyOK, SameFields
  <2>2. row' = [row EXCEPT ![cl.repo] = rw]
    BY <1>1 DEF Fetched, RowsOK, RowOK, RowFields, CopyOK
  <2> HIDE DEF rw
  <2> QED
    BY <2>1, <2>2 DEF RowsOK, CopyOK
<1>2. CASE ~(~closing /\ row[cl.repo].st # "gone" /\ SameFields(row[cl.repo], cl.copy))
  BY <1>2 DEF Fetched, SameFields
<1> QED
  BY <1>1, <1>2

\* a call that ends with a write settles the row it owes
LEMMA Settles ==
    ASSUME RowsOK(row), NEW cl, CopyOK(cl), NEW st, st \in {"ready", "failed"},
           NEW error, NEW commit, NEW of,
           \/ row' = Fetched(cl, st, error, commit, of)
           \/ row' = row /\ cl.copy.st \in {"ready", "failed"}
    PROVE  /\ \A r \in Rows \ {cl.repo} : row'[r] = row[r]
           /\ \/ /\ row' = row
                 /\ ~(/\ Owes(cl, cl.repo, row[cl.repo])
                      /\ Unsettled(row[cl.repo]) /\ ~closing)
              \/ ~Unsettled(row'[cl.repo])
BY FetchedRow DEF Owes, Unsettled

\* a call that waits for a tree keeps its row and its copy
LEMMA ByCommitKeeps ==
    ASSUME NEW c \in Calls, DOMAIN call = Calls, NEW cl, DOMAIN cl = DOMAIN Idle,
           NEW joined, ByCommit(c, cl, joined), cl.pc \in {"tree", "other"} \/ ~joined
    PROVE  /\ \A d \in Calls \ {c} : call'[d] = call[d]
           /\ call'[c].pc \in {"tree", "other"}
           /\ call'[c].repo = cl.repo /\ call'[c].copy = cl.copy
<1>1. ASSUME NEW x, call' = [call EXCEPT ![c] = x], x.pc \in {"tree", "other"},
             x.repo = cl.repo, x.copy = cl.copy
      PROVE  /\ \A d \in Calls \ {c} : call'[d] = call[d]
             /\ call'[c].pc \in {"tree", "other"}
             /\ call'[c].repo = cl.repo /\ call'[c].copy = cl.copy
  BY <1>1
<1>2. ASSUME NEW pc \in {"tree", "other"}, NEW j,
             call' = [call EXCEPT ![c] = [cl EXCEPT !.pc = pc, !.on = j]]
      PROVE  /\ \A d \in Calls \ {c} : call'[d] = call[d]
             /\ call'[c].pc \in {"tree", "other"}
             /\ call'[c].repo = cl.repo /\ call'[c].copy = cl.copy
  BY <1>2 DEF Idle
<1>3. ASSUME NEW res, call' = [call EXCEPT ![c] = [cl EXCEPT !.pc = "tree", !.got = res]]
      PROVE  /\ \A d \in Calls \ {c} : call'[d] = call[d]
             /\ call'[c].pc \in {"tree", "other"}
             /\ call'[c].repo = cl.repo /\ call'[c].copy = cl.copy
  BY <1>3 DEF Idle
<1> QED
  BY <1>2, <1>3 DEF ByCommit, Joins, WaitsOnce, OnItsOwn

----------------------------------------------------------------------------
(* The steps *)

\* fails, of the row it has: settled, or left for want of slots
LEMMA FailsOwed ==
    ASSUME OwnInv, OwedInv, NEW c \in Calls, call[c].pc # "idle", NEW word, NEW of,
           word = "queued" => call[c].pc # "look",
           Fails(c, word, of), UNCHANGED <<closing, toStart>>
    PROVE  OwedInv'
<1> DEFINE cl == call[c]
           r0 == call[c].repo
<1>1. RowsOK(row) /\ CopyOK(cl) /\ DOMAIN call = Calls /\ DOMAIN row = Rows
  BY DEF OwnInv, CallsOK, CallOK, RowsOK
<1>2. /\ \A d \in Calls \ {c} : call'[d] = call[d]
      /\ Leaves(IF word = "queued" THEN {r0} ELSE {})
      /\ row' \in Failed(cl, word, of)
  BY DEF Fails
<1>3. /\ \A r \in Rows : r \in left /\ row'[r].st = "fetching" => r \in left'
      /\ \A r \in left' : row'[r].st = "fetching"
  BY <1>2 DEF Leaves
<1>4. CASE word = "queued"
  <2>1. row' = row
    BY <1>2, <1>4 DEF Failed
  <2>2. Owes(cl, r0, row[r0]) /\ Unsettled(row[r0]) => r0 \in left'
    BY <1>2, <1>4, <2>1 DEF Owes, Unsettled, Leaves
  <2> QED
    BY <1>1, <1>2, <1>3, <2>1, <2>2, OneMoves DEF CopyOK
<1>5. CASE word # "queued"
  <2>1. \/ row' = Fetched(cl, "failed", word, row[r0].commit, of)
        \/ row' = row /\ cl.copy.st \in {"ready", "failed"}
    BY <1>2, <1>5 DEF Failed
  <2>2. /\ \A r \in Rows \ {r0} : row'[r] = row[r]
        /\ \/ /\ row' = row
              /\ ~(Owes(cl, r0, row[r0]) /\ Unsettled(row[r0]) /\ ~closing)
           \/ ~Unsettled(row'[r0])
    BY <1>1, <2>1, Settles
  <2> QED
    BY <1>1, <1>2, <1>3, <2>2, OneMoves DEF CopyOK
<1> QED
  BY <1>4, <1>5

\* an attempt of cl, which has the row and the copy the call has
LEMMA AttemptOwed ==
    ASSUME OwnInv, OwedInv, NEW c \in Calls, NEW cl, Going(cl),
           call[c].pc # "idle",
           cl.repo = call[c].repo, cl.copy = call[c].copy,
           call[c].pc = "look" /\ call[c].pin = None => cl.want = cl.commit,
           call[c].pc \in {"tree", "other"} => cl.tries > 0,
           Attempt(c, cl), UNCHANGED <<closing, toStart>>
    PROVE  OwedInv'
<1> DEFINE r0 == cl.repo
           f  == TreeOf(cl)
<1>1. /\ RowsOK(row) /\ CopyOK(cl) /\ DOMAIN call = Calls /\ DOMAIN row = Rows
      /\ DOMAIN cl = DOMAIN Idle /\ r0 \in Rows
  BY DEF OwnInv, CallsOK, RowsOK, Going, CopyOK
<1>2. CASE /\ call' = [call EXCEPT ![c] =
                         IF cl.gone THEN Idle ELSE [cl EXCEPT !.pc = "held"]]
           /\ row' \in IF cl.want # cl.commit THEN {row} ELSE Readied(cl)
           /\ Leaves(IF cl.want # cl.commit /\ cl.tries > 0 THEN {r0} ELSE {})
  <2>1. /\ \A d \in Calls \ {c} : call'[d] = call[d]
        /\ \A r \in Rows : r \in left /\ row'[r].st = "fetching" => r \in left'
        /\ \A r \in left' : row'[r].st = "fetching"
    BY <1>2 DEF Leaves
  <2>2. CASE cl.want # cl.commit
    <3>1. row' = row
      BY <1>2, <2>2
    <3>2. Owes(call[c], r0, row[r0]) /\ Unsettled(row[r0]) => r0 \in left'
      BY <1>2, <2>2, <3>1 DEF Owes, Unsettled, Leaves
    <3> QED
      BY <1>1, <2>1, <3>1, <3>2, OneMoves
  <2>3. CASE cl.want = cl.commit
    <3>1. \/ row' = Fetched(cl, "ready", None, cl.commit, cl.of)
          \/ row' = row /\ cl.copy.st = "ready"
      BY <1>2, <2>3 DEF Readied
    <3>2. /\ CopyOK(call[c])
          /\ Fetched(call[c], "ready", None, cl.commit, cl.of)
               = Fetched(cl, "ready", None, cl.commit, cl.of)
      BY <1>1 DEF CopyOK, Fetched
    <3>3. /\ \A r \in Rows \ {r0} : row'[r] = row[r]
          /\ \/ /\ row' = row
                /\ ~(Owes(call[c], r0, row[r0]) /\ Unsettled(row[r0]) /\ ~closing)
             \/ ~Unsettled(row'[r0])
      BY <1>1, <3>1, <3>2, Settles
    <3> QED
      BY <1>1, <2>1, <3>3, OneMoves
  <2> QED
    BY <2>2, <2>3
<1>3. CASE /\ row' = Marked(cl) /\ Leaves({})
           /\ ByCommit(c, [cl EXCEPT !.copy = MarkedCopy(cl)], FALSE)
  <2> DEFINE dl == [cl EXCEPT !.copy = MarkedCopy(cl)]
  <2>1. DOMAIN dl = DOMAIN Idle /\ dl.repo = r0 /\ dl.copy = MarkedCopy(cl)
    BY <1>1 DEF Idle
  <2>2. /\ \A r \in Rows : r \in left /\ row'[r].st = "fetching" => r \in left'
        /\ \A r \in left' : row'[r].st = "fetching"
    BY <1>3 DEF Leaves
  <2> HIDE DEF dl
  <2>3. /\ \A d \in Calls \ {c} : call'[d] = call[d]
        /\ call'[c].pc \in {"tree", "other"}
        /\ call'[c].repo = r0 /\ call'[c].copy = MarkedCopy(cl)
    <3>1. ByCommit(c, dl, FALSE)
      BY <1>3 DEF dl
    <3> QED
      BY <1>1, <2>1, <3>1, ByCommitKeeps
  <2>4. ASSUME ~closing
        PROVE  /\ MarkedCopy(cl).st = "fetching" /\ MarkedCopy(cl).key = cl.copy.key
               /\ MarkedCopy(cl).ignore = cl.copy.ignore
    BY <1>1, <2>4 DEF MarkedCopy, CopyOK, RowFields
  <2>5. ASSUME NEW rw, ~closing, SameFields(cl.copy, rw), rw.st # "pending"
        PROVE  Owes(call'[c], r0, rw)
    BY <2>3, <2>4, <2>5 DEF Owes, SameFields
  <2>6. CASE row' = row
    <3>1. Owes(call[c], r0, row[r0]) /\ Unsettled(row[r0]) /\ ~closing
            => Owes(call'[c], r0, row[r0])
      <4> SUFFICES ASSUME Owes(call[c], r0, row[r0]), Unsettled(row[r0]), ~closing
                   PROVE  row[r0].st # "pending"
        BY <2>5 DEF Owes
      <4>1. CASE cl.copy.st = "fetching"
        BY <4>1 DEF Owes
      <4>2. CASE cl.copy.st # "fetching"
        <5>1. row' = Fetched(cl, "fetching", None, row[r0].commit, None)
          BY <1>3, <4>2 DEF Marked
        <5>2. row'[r0].st = "fetching"
          BY <1>1, <5>1, FetchedRow DEF Owes, Unsettled
        <5> QED
          BY <2>6, <5>2
      <4> QED
        BY <4>1, <4>2
    <3> QED
      BY <1>1, <2>2, <2>3, <2>6, <3>1, OneMoves
  <2>7. CASE row' # row
    <3>1. row' = Fetched(cl, "fetching", None, row[r0].commit, None)
      BY <1>3, <2>7 DEF Marked
    <3>2. /\ \A r \in Rows \ {r0} : row'[r] = row[r]
          /\ row'[r0].st = "fetching" /\ SameFields(cl.copy, row'[r0])
      BY <1>1, <2>7, <3>1, FetchedRow
    <3>3. CASE closing
      BY <2>7, <3>1, <3>3 DEF Fetched
    <3>4. CASE ~closing
      <4>1. Owes(call'[c], r0, row'[r0])
        BY <2>5, <3>2, <3>4
      <4> QED
        BY <1>1, <2>2, <2>3, <3>2, <4>1, OneMoves
    <3> QED
      BY <3>3, <3>4
  <2> QED
    BY <2>6, <2>7
<1> QED
  BY <1>2, <1>3 DEF Attempt

LEMMA StepOwed ==
    ASSUME OwnInv, OwedInv, Step
    PROVE  OwedInv'
<1>0. DOMAIN call = Calls /\ \A c \in Calls : CallOK(call[c])
  BY DEF OwnInv, CallsOK
<1>1. ASSUME NEW r \in Rows, NEW c \in Calls, Refresh(r, c)
      PROVE  OwedInv'
  <2>1. UNCHANGED <<row, closing, left>> /\ toStart' = toStart \ {r}
    BY <1>1 DEF Refresh, ghost
  <2>2. CASE Free(c) /\ \E ans : Begins(c, r, None, TRUE, ans)
    <3>1. call[c].pc = "idle"
      BY <2>2 DEF Free, Idle
    <3>2. \A d \in Calls \ {c} : call'[d] = call[d]
      BY <2>2 DEF Begins
    <3>3. /\ call'[c].pc = "look" /\ call'[c].repo = r
          /\ call'[c].copy = row[r] /\ call'[c].pin = None
      BY <1>0, <2>2 DEF Begins, Idle
    <3>4. Unsettled(row[r]) => Owes(call'[c], r, row[r])
      BY <3>3 DEF Owes, Unsettled, SameFields
    <3>5. ASSUME NEW q \in Rows, NEW d \in Calls, Owes(call[d], q, row[q])
          PROVE  Owes(call'[d], q, row[q])
      BY <3>1, <3>2, <3>5 DEF Owes
    <3> QED
      BY <2>1, <3>4, <3>5 DEF OwedInv
  <2>3. CASE (closing \/ row[r].st = "gone") /\ UNCHANGED call
    BY <2>1, <2>3 DEF OwedInv, Unsettled
  <2> QED
    BY <1>1, <2>2, <2>3 DEF Refresh
<1>2. ASSUME NEW c \in Calls, Looked(c)
      PROVE  OwedInv'
  <2> DEFINE res == call[c].got
             pin == call[c].pin
             to  == IF pin # None /\ Cached(<<pin, call[c].copy.ignore>>)
                    THEN pin ELSE res.commit
             cl  == [call[c] EXCEPT !.got = NoRes, !.commit = res.commit,
                                    !.of = res.of, !.want = to]
  <2>1. /\ call[c].pc = "look" /\ res # NoRes /\ CallOK(call[c])
        /\ UNCHANGED <<closing, toStart>>
    BY <1>0, <1>2 DEF Looked
  <2>2. /\ Heard(c) /\ res.of = call[c].copy.key /\ res.word # "queued"
        /\ (res.word = "ok" => res.commit \in Commits)
    BY <2>1 DEF Heard, CallOK, AnswerOK
  <2>3. ASSUME Fails(c, res.word, res.of)
        PROVE  OwedInv'
    BY <2>1, <2>2, <2>3, FailsOwed
  <2>4. ASSUME res.word = "ok", Attempt(c, cl)
        PROVE  OwedInv'
    <3>1. to \in Commits /\ (pin = None => to = res.commit)
      BY <2>1, <2>2, <2>4 DEF CallOK
    <3> HIDE DEF to
    <3>2. /\ Going(cl) /\ cl.repo = call[c].repo /\ cl.copy = call[c].copy
          /\ (pin = None => cl.want = cl.commit)
      BY <2>1, <2>2, <3>1 DEF Going, CallOK, CopyOK, Heard, Idle
    <3> HIDE DEF cl
    <3> QED
      BY <2>1, <2>4, <3>2, AttemptOwed
  <2> QED
    BY <1>2, <2>3, <2>4 DEF Looked
<1>3. ASSUME NEW c \in Calls, Answered(c)
      PROVE  OwedInv'
  <2> DEFINE cl   == [call[c] EXCEPT !.got = NoRes]
             word == call[c].got.word
             dl   == [cl EXCEPT !.tries = 1]
  <2>1. /\ call[c].pc \in {"tree", "other"} /\ call[c].got # NoRes
        /\ UNCHANGED <<closing, toStart>> /\ CallOK(call[c])
    BY <1>0, <1>3 DEF Answered
  <2>2. Heard(c)
    BY <2>1 DEF Heard, CallOK
  <2>3. /\ cl.copy = call[c].copy /\ cl.pc = call[c].pc /\ cl.repo = call[c].repo
        /\ DOMAIN cl = DOMAIN Idle
        /\ Going(dl) /\ dl.copy = call[c].copy /\ dl.repo = call[c].repo /\ dl.tries = 1
    BY <2>1, <2>2 DEF Going, CallOK, CopyOK, Heard, Idle
  <2>4. ASSUME NEW w, NEW of, Fails(c, w, of)
        PROVE  OwedInv'
    BY <2>1, <2>4, FailsOwed
  <2>5. CASE Attempt(c, dl)
    <3> HIDE DEF dl
    <3> QED
      BY <2>1, <2>3, <2>5, AttemptOwed
  <2>6. CASE ByCommit(c, cl, TRUE) /\ UNCHANGED <<row, left>>
    <3> HIDE DEF cl
    <3>1. /\ \A d \in Calls \ {c} : call'[d] = call[d]
          /\ call'[c].pc \in {"tree", "other"}
          /\ call'[c].repo = call[c].repo /\ call'[c].copy = call[c].copy
      BY <1>0, <2>1, <2>3, <2>6, ByCommitKeeps
    <3>2. \A d \in Calls, r \in Rows :
            Owes(call[d], r, row[r]) => Owes(call'[d], r, row[r])
      BY <2>1, <3>1 DEF Owes
    <3> QED
      BY <2>1, <2>6, <3>2, Keeps
  <2> HIDE DEF cl, word, dl
  <2> QED
    BY <1>3, <2>4, <2>5, <2>6 DEF Answered, cl, word, dl
<1> QED
  BY <1>1, <1>2, <1>3 DEF Step

\* what the hosts and the fetches answer keeps what a call is of
LEMMA CallsKept ==
    ASSUME OwedInv, UNCHANGED <<row, closing, left, toStart>>,
           \A d \in Calls :
              \/ call'[d] = call[d]
              \/ /\ call'[d].pc = call[d].pc /\ call'[d].repo = call[d].repo
                 /\ call'[d].copy = call[d].copy /\ call'[d].pin = call[d].pin
    PROVE  OwedInv'
BY Keeps DEF Owes

LEMMA HeardKeeps ==
    ASSUME OwnInv, NEW c \in Calls, NEW res
    PROVE  /\ DOMAIN LookupHeard(c, res) = Calls
           /\ \A d \in Calls :
                LET cl == LookupHeard(c, res)[d]
                IN  /\ DOMAIN cl = DOMAIN Idle
                    /\ cl.pc = call[d].pc /\ cl.repo = call[d].repo
                    /\ cl.copy = call[d].copy /\ cl.pin = call[d].pin
BY DEF OwnInv, CallsOK, CallOK, LookupHeard, Idle

LEMMA EndsKeeps ==
    ASSUME NEW cs, DOMAIN cs = Calls, \A d \in Calls : DOMAIN cs[d] = DOMAIN Idle,
           NEW j, NEW res, Ends(cs, j, res)
    PROVE  \A d \in Calls :
              /\ call'[d].pc = cs[d].pc /\ call'[d].repo = cs[d].repo
              /\ call'[d].copy = cs[d].copy /\ call'[d].pin = cs[d].pin
BY DEF Ends, Delivers, Idle

LEMMA TurnOwed ==
    ASSUME OwnInv, OwedInv, Turn
    PROVE  OwedInv'
<1>0. DOMAIN call = Calls /\ \A c \in Calls : DOMAIN call[c] = DOMAIN Idle
  BY DEF OwnInv, CallsOK, CallOK
<1>1. ASSUME NEW c \in Calls, NEW r \in Rows, NEW pin, Prepare(c, r, pin)
      PROVE  OwedInv'
  <2>1. /\ UNCHANGED <<row, closing, left, toStart>> /\ call[c].pc = "idle"
        /\ \A d \in Calls \ {c} : call'[d] = call[d]
    BY <1>1 DEF Prepare, Begins, Free, Idle, ghost
  <2> QED
    BY <2>1, Keeps DEF Owes
<1>2. ASSUME NEW c \in Calls, WaitEnds(c)
      PROVE  OwedInv'
  <2>1. /\ UNCHANGED <<row, closing, left, toStart>>
        /\ call' = [call EXCEPT ![c].gone = TRUE]
    BY <1>2 DEF WaitEnds, ghost
  <2>2. \A d \in Calls :
          /\ call'[d].pc = call[d].pc /\ call'[d].repo = call[d].repo
          /\ call'[d].copy = call[d].copy /\ call'[d].pin = call[d].pin
    BY <1>0, <2>1 DEF Idle
  <2> QED
    BY <2>1, <2>2, CallsKept
<1>3. ASSUME NEW c \in Calls, Release(c)
      PROVE  OwedInv'
  <2>1. /\ UNCHANGED <<row, closing, left, toStart>> /\ call[c].pc = "held"
        /\ \A d \in Calls \ {c} : call'[d] = call[d]
    BY <1>3 DEF Release, ghost
  <2> QED
    BY <2>1, Keeps DEF Owes
<1> QED
  BY <1>1, <1>2, <1>3 DEF Turn

LEMMA LookupsOwed ==
    ASSUME OwnInv, OwedInv, Lookups
    PROVE  OwedInv'
<1>1. UNCHANGED <<row, closing, left, toStart>>
  BY DEF Lookups, SignedLookup, PublicLookup, ArchiveNames, ghost
<1>2. ASSUME NEW c \in Calls, NEW res, call' = LookupHeard(c, res)
      PROVE  OwedInv'
  BY <1>1, <1>2, HeardKeeps, CallsKept
<1>3. ASSUME NEW c \in Calls, NEW res, Ends(LookupHeard(c, res), <<c, "look">>, res)
      PROVE  OwedInv'
  <2> DEFINE cs == LookupHeard(c, res)
  <2>1. /\ DOMAIN cs = Calls /\ \A d \in Calls : DOMAIN cs[d] = DOMAIN Idle
        /\ \A d \in Calls : /\ cs[d].pc = call[d].pc /\ cs[d].repo = call[d].repo
                             /\ cs[d].copy = call[d].copy /\ cs[d].pin = call[d].pin
    BY HeardKeeps
  <2> HIDE DEF cs
  <2>2. Ends(cs, <<c, "look">>, res)
    BY <1>3 DEF cs
  <2>3. \A d \in Calls :
          /\ call'[d].pc = call[d].pc /\ call'[d].repo = call[d].repo
          /\ call'[d].copy = call[d].copy /\ call'[d].pin = call[d].pin
    BY <2>1, <2>2, EndsKeeps
  <2> QED
    BY <1>1, <2>3, CallsKept
<1> QED
  BY <1>2, <1>3 DEF Lookups, SignedLookup, PublicLookup, ArchiveNames

LEMMA FetchingOwed ==
    ASSUME OwnInv, OwedInv, Fetching
    PROVE  OwedInv'
<1>1. UNCHANGED <<row, closing, left, toStart>>
  BY DEF Fetching, TreeNames, TreeRefused, SlotWaitEnds, Unpacks, NoRoom,
         Publishes, UnpackFails, ghost
<1>2. UNCHANGED call \/ \E j, res : Ends(call, j, res)
  BY DEF Fetching, TreeNames, TreeRefused, SlotWaitEnds, Unpacks, NoRoom,
         Publishes, UnpackFails
<1>3. DOMAIN call = Calls /\ \A d \in Calls : DOMAIN call[d] = DOMAIN Idle
  BY DEF OwnInv, CallsOK, CallOK
<1> QED
  BY <1>1, <1>2, <1>3, EndsKeeps, CallsKept

LEMMA OutsideOwed ==
    ASSUME OwnInv, OwedInv, Outside
    PROVE  OwedInv'
<1>0. /\ DOMAIN row = Rows /\ \A r \in Rows : DOMAIN row[r] = RowFields
  BY DEF OwnInv, RowsOK, RowOK
\* a write of one row, in the same turn as its refresh or of no use of it
<1>1. ASSUME NEW r \in Rows, Leaves({}), UNCHANGED <<call, closing>>, toStart = {},
             \A q \in Rows \ {r} : row'[q] = row[q],
             \/ row'[r].st = "gone" /\ toStart' = {}
             \/ row'[r].st = "pending" /\ toStart' = {r}
      PROVE  OwedInv'
  BY <1>1 DEF OwedInv, Leaves, Unsettled
<1>2. ASSUME NEW r \in Rows, NEW key \in Signers, NEW ignore \in Rules,
             Writes(r, key, ignore)
      PROVE  OwedInv'
  <2>1. /\ toStart = {} /\ toStart' = {r} /\ Leaves({}) /\ UNCHANGED <<call, closing>>
        /\ \A q \in Rows \ {r} : row'[q] = row[q]
        /\ row'[r].st = "pending"
    BY <1>0, <1>2 DEF Writes, Moves, Quiet, Changed
  <2> QED
    BY <1>1, <2>1
<1>3. ASSUME NEW r \in Rows, AskRefresh(r)
      PROVE  OwedInv'
  <2>1. /\ toStart = {} /\ toStart' = {r} /\ Leaves({}) /\ UNCHANGED <<call, closing>>
        /\ \A q \in Rows \ {r} : row'[q] = row[q]
        /\ row'[r].st = "pending"
    BY <1>0, <1>3 DEF AskRefresh, Moves, Quiet, Changed, RowFields
  <2> QED
    BY <1>1, <2>1
<1>4. ASSUME NEW r \in Rows, Deletes(r)
      PROVE  OwedInv'
  <2>1. /\ toStart = {} /\ toStart' = {} /\ Leaves({}) /\ UNCHANGED <<call, closing>>
        /\ \A q \in Rows \ {r} : row'[q] = row[q]
        /\ row'[r].st = "gone"
    BY <1>0, <1>4 DEF Deletes, Moves, Quiet, mem, RowFields
  <2> QED
    BY <1>1, <2>1
<1>5. ASSUME NEW x, SetsCaps(x) \/ Loses(x) \/ LookupExpires(x) \/ RefusalExpires(x) \/ Sweep
      PROVE  OwedInv'
  <2>1. UNCHANGED <<row, call, closing, left, toStart>>
    BY <1>5 DEF SetsCaps, Loses, LookupExpires, RefusalExpires, Sweep, mem, ghost
  <2> QED
    BY <2>1, Keeps
<1>6. CASE Close
  <2>1. closing' = TRUE /\ UNCHANGED <<row, left>>
    BY <1>6 DEF Close, ghost
  <2> QED
    BY <2>1 DEF OwedInv
<1>7. CASE Restart
  <2>1. /\ \A r \in Rows : row'[r].st # "fetching"
        /\ toStart' = {r \in Rows : row'[r].st = "pending"} /\ left' = {}
    BY <1>0, <1>7 DEF Restart, RowFields
  <2> QED
    BY <2>1 DEF OwedInv, Unsettled
<1> QED
  BY <1>2, <1>3, <1>4, <1>5, <1>6, <1>7 DEF Outside

----------------------------------------------------------------------------
\* While the server runs, a row that says pending or fetching has a call on
\* its way whose end writes it (mounts.ts ensure(), attempt(), failed()), but
\* for those in left, for any number of rows and calls, under edits,
\* refreshes, deletes, drains and restarts.
THEOREM RowsSettle == Spec => []RowOwed
<1>1. Init => OwedInv
  BY BegunAssumption DEF Init, OwedInv, Unsettled
<1>2. OwnInv /\ OwedInv /\ [Next]_vars => OwedInv'
  <2> SUFFICES ASSUME OwnInv, OwedInv, [Next]_vars PROVE OwedInv'
    OBVIOUS
  <2>1. ASSUME UNCHANGED vars PROVE OwedInv'
    <3>1. UNCHANGED <<row, call, closing, left, toStart>>
      BY <2>1 DEF vars, mem, ghost
    <3> QED
      BY <3>1, Keeps
  <2> QED
    BY <2>1, StepOwed, TurnOwed, LookupsOwed, FetchingOwed, OutsideOwed
    DEF Next, Rest
<1>3. OwedInv => RowOwed
  BY DEF OwedInv, RowOwed, Owes, Unsettled
<1> QED
  BY InitOwn, OwnStep, <1>1, <1>2, <1>3, PTL DEF Spec
=============================================================================
