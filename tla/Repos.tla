-------------------------------- MODULE Repos --------------------------------
(***************************************************************************)
(* The trees a turn mounts from its project's repositories: repos/mounts,  *)
(* lookup, fetches, cache and the parts of jobs, unpack, store and routes  *)
(* that move them, with the queue of lib/queue.ts, all under src/server.   *)
(*                                                                         *)
(* The rows are of one URL, kind and ref, so of one source: a lookup is    *)
(* shared by key and a tree is a commit under ignore rules.  A call is one *)
(* ensure() of one row, with the mount a turn keeps of it.  The server is  *)
(* one thread: what an answer sets off is done before the next event, so   *)
(* an event waits until the calls are Quiet.                               *)
(***************************************************************************)
EXTENDS Integers, Sequences, FiniteSets, SequencesExt

CONSTANTS
    Rows,        \* the rows of repos, by id
    Keys,        \* the key files a row may name
    NoKey,       \* the row names none
    Rules,       \* ignore rules
    Commits,
    Size,        \* [Commits -> Nat]: what repoBytes is held against
    CapValues,   \* what an admin may set repoBytes to
    CacheTrees,  \* repoCacheBytes, each tree as large
    FETCHES,     \* REPO_FETCHES_IN_FLIGHT
    Calls,       \* bound: the ensures at once
    Begun,       \* [Rows -> RowRows]: the table at the first start
    Pins,        \* what a regenerate may ask for
    MaxMoves,    \* bound: what admins, operators and restarts do
    None

Signers == Keys \cup {NoKey}
Folders == Commits \X Rules
Jobs    == Calls \X {"look", "tree"}

ASSUME ReposAssumption ==
    /\ IsFiniteSet(Calls)
    /\ NoKey \notin Keys
    /\ None \notin Commits \cup Calls \cup Jobs
    /\ Size \in [Commits -> Nat] /\ Pins \subseteq Commits
    /\ CapValues \subseteq Nat \ {0} /\ CapValues # {}
    /\ CacheTrees \in Nat /\ FETCHES \in Nat \ {0} /\ MaxMoves \in Nat

VARIABLES
    row,       \* the table
    caps,      \* repoBytes
    closing,   \* the drain began
    answers,   \* per key: the lookup out or answered this minute
    call,      \* the ensures, and the mounts turns keep
    job,       \* the fetch jobs: a public lookup's, a tree's
    inFlight,  \* per tree: the job that fetches it
    refused,   \* the failures remembered
    slotQ,     \* the jobs that wait for a fetch slot
    index,     \* the trees indexed, the least recently read first
    disk,      \* the trees published
    holds,     \* per tree
    toStart,   \* the rows whose refresh() is next in this turn
    moves,
    lost,      \* the trees an operator removed and no fetch put back
    left       \* the rows a call that ended left fetching

mem   == <<answers, call, job, inFlight, refused, slotQ, index, holds, toStart>>
ghost == <<lost, left>>
vars  == <<row, caps, closing, mem, disk, moves, ghost>>

\* failed stands for every other word of REPO_ERRORS: they move alike
Words == {"failed", "over the size cap"}

RowStates == {"new", "gone", "pending", "fetching", "ready", "failed"}
\* of: the key whose answer the row tells, for OwnWord
RowRows   == [st : RowStates, error : Words \cup {None},
              commit : Commits \cup {None}, key : Signers, ignore : Rules,
              of : Signers \cup {None}]

\* the first start finds rows that tell what their own key was told, and
\* has set those that were fetching back to pending
ASSUME BegunAssumption ==
    /\ Begun \in [Rows -> RowRows]
    /\ \A r \in Rows :
          /\ Begun[r].st # "fetching"
          /\ Begun[r].st \in {"ready", "failed"} => Begun[r].of = Begun[r].key

\* what a promise settled with, and the key that was answered; queued: the
\* job ended waiting for its slots
Ok(m, s)  == [word |-> "ok", commit |-> m, of |-> s]
Bad(w, s) == [word |-> w, commit |-> None, of |-> s]
NoRes     == Bad("none", NoKey)
Results   == {Ok(m, s) : m \in Commits, s \in Signers}
                \cup {Bad(w, s) : w \in Words \cup {"queued"}, s \in Signers}
                \cup {NoRes}

\* by: whose lookup is out
NoAnswer == [by |-> None, res |-> NoRes]

\* under: the caps in force when the fetch was tracked, 0 while it is not
NoJob == [phase |-> "none", commit |-> None, ignore |-> None, signer |-> NoKey,
          caps |-> 0, under |-> 0]
Holding == {"proc", "unpack"}

\* copy: the row as the call read it; commit: what its lookup named, to the
\* key of, want: what it mounts; gone: nobody waits for its hold
Idle == [pc |-> "idle", repo |-> None, copy |-> None, pin |-> None,
         gone |-> FALSE, from |-> None, on |-> None, got |-> NoRes,
         commit |-> None, of |-> None, want |-> None, tries |-> 0]

TreeOf(cl)    == <<cl.want, cl.copy.ignore>>
Target(j)     == <<job[j].commit, job[j].ignore>>
Mounted(f)    == {c \in Calls : call[c].pc = "held" /\ TreeOf(call[c]) = f}
SameFields(a, b) == a.key = b.key /\ a.ignore = b.ignore
Cached(f)     == \E i \in DOMAIN index : index[i] = f

\* the members of q that are not in out, in their order
Without(q, out) ==
    LET kept[i \in 0..Len(q)] ==
            IF i = 0 THEN << >>
            ELSE IF q[i] \in out THEN kept[i - 1]
            ELSE Append(kept[i - 1], q[i])
    IN  kept[Len(q)]

Quiet   == toStart = {} /\ \A c \in Calls : call[c].got = NoRes
Moves   == Quiet /\ moves < MaxMoves /\ moves' = moves + 1
Free(c) == /\ call[c] = Idle
           /\ job[<<c, "look">>] = NoJob /\ job[<<c, "tree">>] = NoJob

----------------------------------------------------------------------------
(* The table *)

\* setFetched() that asks only whether the row is there
FetchedAny(cl, st, error, commit, of) ==
    IF ~closing /\ row[cl.repo].st # "gone"
    THEN [row EXCEPT ![cl.repo].st = st, ![cl.repo].error = error,
                     ![cl.repo].commit = commit, ![cl.repo].of = of]
    ELSE row

\* setFetched() of a call's row: only while it still fetches what it was
\* read as, and never once the drain began
Fetched(cl, st, error, commit, of) ==
    IF /\ ~closing
       /\ row[cl.repo].st # "gone" /\ SameFields(row[cl.repo], cl.copy)
    THEN [row EXCEPT ![cl.repo].st = st, ![cl.repo].error = error,
                     ![cl.repo].commit = commit, ![cl.repo].of = of]
    ELSE row

\* markFetching(): the row as the call has it afterwards, and the table
MarkedCopy(cl) ==
    IF closing THEN cl.copy ELSE [cl.copy EXCEPT !.st = "fetching"]

Marked(cl) ==
    IF cl.copy.st = "fetching" THEN row
    ELSE Fetched(cl, "fetching", None, row[cl.repo].commit, None)

\* ready() that skips the write for the commit the row had
ReadiedKnown(cl) ==
    IF cl.copy.commit = cl.commit THEN {row}
    ELSE {Fetched(cl, "ready", None, cl.commit, cl.of)}

\* ready(), of the commit its lookup named: a row that says so is written
\* again only for a new ETag
Readied(cl) ==
    {Fetched(cl, "ready", None, cl.commit, cl.of)}
        \cup (IF cl.copy.st = "ready" /\ cl.copy.commit = cl.commit
              THEN {row} ELSE {})

\* failed(): nothing for a fetch that waited too long for its slots, nor for
\* the word the row has, of those that failed stands for
Failed(cl, word, of) ==
    (IF word = "queued" THEN {}
     ELSE {Fetched(cl, "failed", word, row[cl.repo].commit, of)})
        \cup (IF word = "queued" \/ (cl.copy.st = "failed" /\ cl.copy.error = word)
              THEN {row} ELSE {})

\* a write other than fetching settles a row a call left
Leaves(rs) == left' = {r \in left \cup rs : row'[r].st = "fetching"}

----------------------------------------------------------------------------
(* The cache *)

\* evict(): the least recently read first until the rest fit, never one
\* that is held or whose folder cannot be moved
Evictable(f) == holds[f] = 0 /\ f \in disk

Evicted ==
    {index[i] : i \in
        {i \in DOMAIN index :
            /\ Evictable(index[i])
            /\ Cardinality({k \in 1..i - 1 : Evictable(index[k])})
                 < Len(index) - CacheTrees}}

Evicts(out) == /\ index' = Without(index, out)
               /\ disk' = disk \ out

\* hold() moves a tree to the end
Read(f) == Append(Without(index, {f}), f)

\* a hold kept that nobody waits for
HoldsLate(cl, f) == [holds EXCEPT ![f] = @ + 1]

\* one the turn no longer waits for is let go of in the same turn
HoldsWith(cl, f) ==
    IF cl.gone THEN holds ELSE [holds EXCEPT ![f] = @ + 1]

\* add(): where the cache has it not
Indexed(f) == IF Cached(f) THEN index ELSE Append(index, f)

----------------------------------------------------------------------------
(* The fetch queue *)

Refusals(f, s) == {x \in refused : x.folder = f /\ x.caps = caps /\ x.signer = s}

\* what each answer is to the calls that wait for it
Delivers(cs, j, res) ==
    [d \in Calls |-> IF cs[d].on = j
                     THEN [cs[d] EXCEPT !.got = res, !.on = None] ELSE cs[d]]

LookupHeard(c, res) ==
    [d \in Calls |-> IF call[d].pc = "look" /\ call[d].from = c
                     THEN [call[d] EXCEPT !.got = res, !.from = None]
                     ELSE call[d]]

LookupKept(c, res) ==
    [s \in Signers |-> IF answers[s].by = c THEN [by |-> None, res |-> res]
                       ELSE answers[s]]

\* a slot handed on by a job that unpacked only
ServedUnpacked(j) ==
    IF job[j].phase = "unpack" /\ slotQ # <<>> THEN Head(slotQ) ELSE None

\* the job that gets the slot of one that ends, also of one that waited for
\* its process slot
Served(j) ==
    IF job[j].phase \in Holding /\ slotQ # <<>> THEN Head(slotQ) ELSE None

\* run() ends: the slots go to the next job, the tree's promise settles
Ends(cs, j, res) ==
    LET f    == Target(j)
        next == Served(j)
    IN  /\ job' = [x \in Jobs |->
                     IF x = j THEN NoJob
                     ELSE IF x = next THEN [job[x] EXCEPT !.phase = "proc"]
                     ELSE job[x]]
        /\ slotQ' = IF next # None THEN Tail(slotQ) ELSE Without(slotQ, {j})
        /\ inFlight' = [g \in Folders |-> IF inFlight[g] = j THEN None
                                          ELSE inFlight[g]]
        /\ refused' =
             IF job[j].under # 0 /\ res.word \in Words /\ ~closing
             THEN {x \in refused : ~(/\ x.folder = f /\ x.caps = job[j].under
                                     /\ x.signer = job[j].signer)}
                  \cup {[folder |-> f, caps |-> job[j].under,
                         signer |-> job[j].signer, word |-> res.word]}
             ELSE refused
        /\ call' = Delivers(cs, j, res)

\* an unpack takes a fetch slot, in arrival order, and then a process slot
Takes(j, with) ==
    IF Cardinality({x \in Jobs : job[x].phase \in Holding}) < FETCHES
    THEN /\ job' = [job EXCEPT ![j] = [with EXCEPT !.phase = "proc"]]
         /\ UNCHANGED slotQ
    ELSE /\ job' = [job EXCEPT ![j] = [with EXCEPT !.phase = "slot"]]
         /\ slotQ' = Append(slotQ, j)

\* byCommit(), for the call as cl: a fetch of its own key is joined, one of
\* another's waited for once; a failure remembered stands; else it fetches
Joins(c, cl) ==
    LET j == inFlight[TreeOf(cl)]
    IN  /\ j # None /\ job[j].signer = cl.copy.key
        /\ call' = [call EXCEPT ![c] = [cl EXCEPT !.pc = "tree", !.on = j]]
        /\ UNCHANGED <<job, inFlight>>

WaitsOnce(c, cl, joined) ==
    LET j == inFlight[TreeOf(cl)]
    IN  /\ j # None /\ job[j].signer # cl.copy.key /\ ~joined
        /\ call' = [call EXCEPT ![c] = [cl EXCEPT !.pc = "other", !.on = j]]
        /\ UNCHANGED <<job, inFlight>>

OnItsOwn(c, cl, joined) ==
    LET f == TreeOf(cl)
        j == inFlight[f]
        refusals == Refusals(f, cl.copy.key)
    IN  /\ j # None => joined /\ job[j].signer # cl.copy.key
        /\ \/ \E x \in refusals :
                /\ call' = [call EXCEPT ![c] =
                              [cl EXCEPT !.pc = "tree", !.got = Bad(x.word, x.signer)]]
                /\ UNCHANGED <<job, inFlight>>
           \* the drain began: the job ends before it starts
           \/ /\ refusals = {} /\ closing
              /\ call' = [call EXCEPT ![c] =
                    [cl EXCEPT !.pc = "tree", !.got = Bad("failed", cl.copy.key)]]
              /\ UNCHANGED <<job, inFlight>>
           \/ /\ refusals = {} /\ ~closing
              /\ job' = [job EXCEPT ![<<c, "tree">>] =
                    [NoJob EXCEPT !.phase = "ask", !.commit = cl.want,
                                  !.ignore = cl.copy.ignore,
                                  !.signer = cl.copy.key,
                                  !.caps = caps, !.under = caps]]
              /\ inFlight' = [inFlight EXCEPT ![f] = <<c, "tree">>]
              /\ call' = [call EXCEPT ![c] =
                    [cl EXCEPT !.pc = "tree", !.on = <<c, "tree">>]]

ByCommit(c, cl, joined) ==
    \/ Joins(c, cl)
    \/ WaitsOnce(c, cl, joined)
    \/ OnItsOwn(c, cl, joined)

----------------------------------------------------------------------------
(* ensure(), a step at a time *)

Begins(c, r, pin, gone, ans) ==
    LET cp   == row[r]
        hit  == ans[cp.key]
        new  == hit = NoAnswer
        \* the drain began: the job of a public lookup ends before it starts
        dead == new /\ closing /\ cp.key = NoKey
        res  == IF dead THEN Bad("failed", NoKey) ELSE hit.res
        by   == IF dead THEN None ELSE IF new THEN c ELSE hit.by
    IN  /\ answers' = [ans EXCEPT ![cp.key] = [by |-> by, res |-> res]]
        /\ call' = [call EXCEPT ![c] =
             [Idle EXCEPT !.pc = "look", !.repo = r, !.copy = cp, !.pin = pin,
                          !.gone = gone, !.from = by, !.got = res]]
        /\ job' = IF new /\ ~dead /\ cp.key = NoKey
                  THEN [job EXCEPT ![<<c, "look">>] =
                          [NoJob EXCEPT !.phase = "ask", !.ignore = cp.ignore,
                                        !.caps = caps]]
                  ELSE job

\* refresh(): the lookup and the failures forgotten, the row fetched now
Refresh(r, c) ==
    /\ r \in toStart
    /\ toStart' = toStart \ {r}
    /\ \/ /\ ~closing /\ row[r].st # "gone" /\ Free(c)
          /\ Begins(c, r, None, TRUE,
                    [answers EXCEPT ![row[r].key] = NoAnswer])
          /\ refused' = {}
       \/ /\ closing \/ row[r].st = "gone"
          /\ UNCHANGED <<answers, call, job, refused>>
    /\ UNCHANGED <<row, caps, closing, inFlight, slotQ, index, holds, disk,
                   moves, ghost>>

\* a turn's prepare() reads the row and looks its ref up; a regenerate
\* asks for the commit pinned
Prepare(c, r, pin) ==
    /\ Moves /\ Free(c) /\ row[r].st \notin {"new", "gone"}
    /\ Begins(c, r, pin, FALSE, answers)
    /\ UNCHANGED <<row, caps, closing, inFlight, refused, slotQ, index, holds,
                   disk, toStart, ghost>>

\* an attempt: the tree is held, or the row marked and the tree asked for
Attempt(c, cl) ==
    LET f == TreeOf(cl)
        moved == cl.want # cl.commit
    IN  \/ /\ Cached(f) /\ f \in disk
           /\ index' = Read(f)
           /\ holds' = HoldsWith(cl, f)
           /\ call' = [call EXCEPT ![c] =
                         IF cl.gone THEN Idle ELSE [cl EXCEPT !.pc = "held"]]
           /\ row' \in IF moved THEN {row} ELSE Readied(cl)
           /\ Leaves(IF moved /\ cl.tries > 0 THEN {cl.repo} ELSE {})
           /\ UNCHANGED <<job, inFlight>>
        \/ /\ ~(Cached(f) /\ f \in disk)
           /\ index' = Without(index, {f})
           /\ row' = Marked(cl)
           /\ Leaves({})
           /\ ByCommit(c, [cl EXCEPT !.copy = MarkedCopy(cl)], FALSE)
           /\ UNCHANGED holds

Fails(c, word, of) ==
    /\ call' = [call EXCEPT ![c] = Idle]
    /\ row' \in Failed(call[c], word, of)
    /\ Leaves(IF word = "queued" THEN {call[c].repo} ELSE {})
    /\ UNCHANGED <<job, inFlight, index, holds>>

\* the lookup answered: a pinned commit is mounted when it is cached
Looked(c) ==
    LET res == call[c].got
        pin == call[c].pin
        to  == IF pin # None /\ Cached(<<pin, call[c].copy.ignore>>)
               THEN pin ELSE res.commit
    IN  /\ toStart = {}
        /\ call[c].pc = "look" /\ res # NoRes
        /\ \/ /\ res.word # "ok"
              /\ Fails(c, res.word, res.of)
           \/ /\ res.word = "ok"
              /\ Attempt(c, [call[c] EXCEPT !.got = NoRes,
                                            !.commit = res.commit,
                                            !.of = res.of, !.want = to])
        /\ UNCHANGED <<caps, closing, answers, refused, slotQ, disk, toStart,
                       moves, lost>>

\* the tree's fetch answered: two attempts, and of another key's fetch
\* only a tree or "over the size cap" is taken for an answer
Answered(c) ==
    LET cl   == [call[c] EXCEPT !.got = NoRes]
        word == call[c].got.word
    IN  /\ toStart = {}
        /\ call[c].pc \in {"tree", "other"} /\ call[c].got # NoRes
        /\ \/ /\ word = "ok" /\ cl.tries = 0
              /\ Attempt(c, [cl EXCEPT !.tries = 1])
           \/ /\ word = "ok" /\ cl.tries = 1
              /\ Fails(c, "failed", cl.copy.key)
           \/ /\ word # "ok" /\ (cl.pc = "tree" \/ word = "over the size cap")
              /\ Fails(c, word, call[c].got.of)
           \/ /\ cl.pc = "other" /\ word \notin {"ok", "over the size cap"}
              /\ ByCommit(c, cl, TRUE)
              /\ UNCHANGED <<row, left, index, holds>>
        /\ UNCHANGED <<caps, closing, answers, refused, slotQ, disk, toStart,
                       moves, lost>>

\* REPO_WAIT_MS or the send's abort: the turn goes on, the call too
WaitEnds(c) ==
    /\ Quiet
    /\ call[c].pc \in {"look", "tree", "other"} /\ ~call[c].gone
    /\ call' = [call EXCEPT ![c].gone = TRUE]
    /\ UNCHANGED <<row, caps, closing, answers, job, inFlight, refused, slotQ,
                   index, holds, disk, toStart, moves, ghost>>

\* the turn ended
Release(c) ==
    /\ Quiet
    /\ call[c].pc = "held"
    /\ holds' = [holds EXCEPT ![TreeOf(call[c])] = @ - 1]
    /\ call' = [call EXCEPT ![c] = Idle]
    /\ UNCHANGED <<row, caps, closing, answers, job, inFlight, refused, slotQ,
                   index, disk, toStart, moves, ghost>>

----------------------------------------------------------------------------
(* The host's answers, and what ends a job *)

\* a lookup's answer to a key: a commit, or None for a failure
Says(m, s) == IF m = None THEN Bad("failed", s) ELSE Ok(m, s)

\* signed: the API's answer, or no access for a key file that is gone
SignedLookup(c, m) ==
    LET key == call[c].copy.key
    IN  /\ Quiet
        /\ call[c].pc = "look" /\ call[c].from = c /\ key # NoKey
        /\ call' = LookupHeard(c, Says(m, key))
        /\ answers' = LookupKept(c, Says(m, key))
        /\ UNCHANGED <<row, caps, closing, job, inFlight, refused, slotQ, index,
                       holds, disk, toStart, moves, ghost>>

\* public: the archive's GET failed or named no commit, which the API then
\* answers, or it answered 304 to the ETag it was sent
PublicLookup(c, m) ==
    LET j == <<c, "look">>
    IN  /\ Quiet
        /\ job[j].phase = "ask"
        /\ Ends(LookupHeard(c, Says(m, NoKey)), j, Says(m, NoKey))
        /\ answers' = LookupKept(c, Says(m, NoKey))
        /\ UNCHANGED <<row, caps, closing, index, holds, disk, toStart, moves,
                       ghost>>

\* its first member names a commit: one published, refused or being
\* fetched stops the job there, any other is this job's fetch now
ArchiveNames(c, m) ==
    LET j == <<c, "look">>
        f == <<m, job[j].ignore>>
        stops == f \in disk \/ Refusals(f, NoKey) # {} \/ inFlight[f] # None
    IN  /\ Quiet
        /\ job[j].phase = "ask"
        /\ answers' = LookupKept(c, Ok(m, NoKey))
        /\ \/ /\ stops
              /\ Ends(LookupHeard(c, Ok(m, NoKey)), j, Ok(m, NoKey))
              /\ index' = IF f \in disk THEN Indexed(f) ELSE index
           \/ /\ ~stops
              /\ call' = LookupHeard(c, Ok(m, NoKey))
              /\ inFlight' = [inFlight EXCEPT ![f] = j]
              /\ Takes(j, [job[j] EXCEPT !.commit = m, !.under = caps])
              /\ UNCHANGED <<refused, index>>
        /\ UNCHANGED <<row, caps, closing, holds, disk, toStart, moves, lost,
                       left>>

\* a tree's first member: one published meanwhile needs no unpack
TreeNames(j) ==
    /\ Quiet
    /\ j[2] = "tree" /\ job[j].phase = "ask"
    /\ \/ /\ Target(j) \in disk
          /\ Ends(call, j, Ok(job[j].commit, job[j].signer))
          /\ index' = Indexed(Target(j))
       \/ /\ Target(j) \notin disk
          /\ Takes(j, job[j])
          /\ UNCHANGED <<call, inFlight, refused, index>>
    /\ UNCHANGED <<row, caps, closing, answers, holds, disk, toStart, moves,
                   ghost>>

\* the host refuses the tarball, or is not reached
TreeRefused(j) ==
    /\ Quiet
    /\ j[2] = "tree" /\ job[j].phase = "ask"
    /\ Ends(call, j, Bad("failed", job[j].signer))
    /\ UNCHANGED <<row, caps, closing, answers, index, holds, disk, toStart,
                   moves, lost, left>>

\* REPO_SLOT_WAIT_MS, or the worker's end while it waits
SlotWaitEnds(j) ==
    /\ Quiet
    /\ job[j].phase \in {"slot", "proc"}
    /\ Ends(call, j, Bad("queued", job[j].signer))
    /\ UNCHANGED <<row, caps, closing, answers, index, holds, disk, toStart,
                   moves, ghost>>

\* the process slot granted: the cache is evicted to make room
Unpacks(j) ==
    /\ Quiet
    /\ job[j].phase = "proc"
    /\ job' = [job EXCEPT ![j].phase = "unpack"]
    /\ Evicts(Evicted)
    /\ UNCHANGED <<row, caps, closing, answers, call, inFlight, refused, slotQ,
                   holds, toStart, moves, ghost>>

\* and the volume has none
NoRoom(j) ==
    /\ Quiet
    /\ job[j].phase = "proc"
    /\ Ends(call, j, Bad("failed", job[j].signer))
    /\ UNCHANGED <<row, caps, closing, answers, index, holds, disk, toStart,
                   moves, ghost>>

\* the tree renamed into trees/, or there already, and indexed
Publishes(j) ==
    /\ Quiet
    /\ job[j].phase = "unpack" /\ Size[job[j].commit] <= job[j].caps
    /\ Ends(call, j, Ok(job[j].commit, job[j].signer))
    /\ disk' = disk \cup {Target(j)}
    /\ index' = Indexed(Target(j))
    /\ lost' = lost \ {Target(j)}
    /\ UNCHANGED <<row, caps, closing, answers, holds, toStart, moves, left>>

\* past the cap; a stall, the deadline or a bad member; no space
UnpackFails(j, word) ==
    /\ Quiet
    /\ job[j].phase = "unpack"
    /\ word = "over the size cap" => Size[job[j].commit] > job[j].caps
    /\ Ends(call, j, Bad(word, job[j].signer))
    /\ UNCHANGED <<row, caps, closing, answers, index, holds, disk, toStart,
                   moves, ghost>>

----------------------------------------------------------------------------
(* What the routes, the clock, an operator and a restart do *)

\* changed(): refresh() of the row, in the same turn
Changed(r) == (\E c \in Calls : Free(c)) /\ toStart' = {r}

\* create() and patch() of what is fetched set the row pending
Writes(r, key, ignore) ==
    /\ Moves /\ Changed(r)
    /\ row[r].st # "gone"
    /\ row[r].st = "new" \/ <<key, ignore>> # <<row[r].key, row[r].ignore>>
    /\ row' = [row EXCEPT ![r] =
                 [st |-> "pending", error |-> None, commit |-> None,
                  key |-> key, ignore |-> ignore, of |-> None]]
    /\ Leaves({})
    /\ UNCHANGED <<caps, closing, answers, call, job, inFlight, refused, slotQ,
                   index, holds, disk, lost>>

\* the refresh an admin asks for keeps what the last fetch found
AskRefresh(r) ==
    /\ Moves /\ Changed(r)
    /\ row[r].st \notin {"new", "gone"}
    /\ row' = [row EXCEPT ![r].st = "pending", ![r].error = None,
                            ![r].of = None]
    /\ Leaves({})
    /\ UNCHANGED <<caps, closing, answers, call, job, inFlight, refused, slotQ,
                   index, holds, disk, lost>>

Deletes(r) ==
    /\ Moves
    /\ row[r].st \notin {"new", "gone"}
    /\ row' = [row EXCEPT ![r].st = "gone"]
    /\ Leaves({})
    /\ UNCHANGED <<caps, closing, mem, disk, lost>>

SetsCaps(n) ==
    /\ Moves
    /\ n # caps /\ caps' = n
    /\ UNCHANGED <<row, closing, mem, disk, ghost>>

\* the cache can be lost: an operator removes a tree, at any moment
Loses(f) ==
    /\ moves < MaxMoves /\ moves' = moves + 1
    /\ f \in disk
    /\ disk' = disk \ {f}
    /\ lost' = IF Mounted(f) # {} THEN lost \cup {f} ELSE lost
    /\ UNCHANGED <<row, caps, closing, mem, left>>

\* a minute after it was asked, answered or not
LookupExpires(s) ==
    /\ Moves
    /\ answers[s] # NoAnswer
    /\ answers' = [answers EXCEPT ![s] = NoAnswer]
    /\ UNCHANGED <<row, caps, closing, call, job, inFlight, refused, slotQ,
                   index, holds, disk, toStart, ghost>>

\* a minute after the failure, an hour past the cap
RefusalExpires(x) ==
    /\ Moves
    /\ refused' = refused \ {x}
    /\ UNCHANGED <<row, caps, closing, answers, call, job, inFlight, slotQ,
                   index, holds, disk, toStart, ghost>>

\* hourly
Sweep ==
    /\ Quiet
    /\ Evicted # {}
    /\ Evicts(Evicted)
    /\ UNCHANGED <<row, caps, closing, answers, call, job, inFlight, refused,
                   slotQ, holds, toStart, moves, ghost>>

\* what the process holds at a start
NoCalls   == [c \in Calls |-> Idle]
NoJobs    == [j \in Jobs |-> NoJob]
NoAnswers == [s \in Signers |-> NoAnswer]
NoFlight  == [f \in Folders |-> None]
NoHolds   == [f \in Folders |-> 0]

\* the drain: every job ends
Cut(j) == Bad(IF job[j].phase \in {"slot", "proc"} THEN "queued" ELSE "failed",
              job[j].signer)

Asking(c) == c # None /\ job[<<c, "look">>].phase = "ask"

Close ==
    /\ Moves
    /\ ~closing /\ closing' = TRUE
    /\ call' = [d \in Calls |->
                  IF call[d].on # None
                  THEN [call[d] EXCEPT !.got = Cut(call[d].on), !.on = None]
                  ELSE IF call[d].pc = "look" /\ Asking(call[d].from)
                  THEN [call[d] EXCEPT !.got = Bad("failed", NoKey),
                                       !.from = None]
                  ELSE call[d]]
    /\ answers' = [s \in Signers |->
                     IF Asking(answers[s].by)
                     THEN [by |-> None, res |-> Bad("failed", NoKey)]
                     ELSE answers[s]]
    /\ job' = NoJobs /\ inFlight' = NoFlight /\ slotQ' = << >>
    /\ UNCHANGED <<row, caps, refused, index, holds, disk, toStart, ghost>>

\* the process dies, drained or not, and the next one starts: fetching goes
\* back to pending, the trees are indexed and every pending row is fetched
Restart ==
    /\ moves < MaxMoves /\ moves' = moves + 1
    /\ row' = [r \in Rows |-> IF row[r].st = "fetching"
                              THEN [row[r] EXCEPT !.st = "pending"] ELSE row[r]]
    /\ toStart' = {r \in Rows : row'[r].st = "pending"}
    /\ index' \in SetToSeqs(disk)
    /\ call' = NoCalls /\ job' = NoJobs /\ answers' = NoAnswers
    /\ inFlight' = NoFlight /\ refused' = {} /\ slotQ' = << >>
    /\ holds' = NoHolds /\ closing' = FALSE /\ lost' = {} /\ left' = {}
    /\ UNCHANGED <<caps, disk>>

----------------------------------------------------------------------------
Init ==
    /\ row = Begun
    /\ toStart = {r \in Rows : row[r].st = "pending"}
    /\ caps \in CapValues
    /\ index = << >> /\ disk = {} /\ moves = 0
    /\ call = NoCalls /\ job = NoJobs /\ answers = NoAnswers
    /\ inFlight = NoFlight /\ refused = {} /\ slotQ = << >>
    /\ holds = NoHolds /\ closing = FALSE
    /\ lost = {} /\ left = {}

\* what the calls do with what they heard, before anything else happens
Step == \/ \E r \in Rows, c \in Calls : Refresh(r, c)
        \/ \E c \in Calls : Looked(c) \/ Answered(c)

Turn == \E c \in Calls :
          \/ \E r \in Rows, pin \in Pins \cup {None} : Prepare(c, r, pin)
          \/ WaitEnds(c)
          \/ Release(c)

Lookups == \E c \in Calls :
             \/ \E m \in Commits \cup {None} : SignedLookup(c, m)
             \/ \E m \in Commits \cup {None} : PublicLookup(c, m)
             \/ \E m \in Commits : ArchiveNames(c, m)

Fetching == \E j \in Jobs :
              \/ TreeNames(j)
              \/ TreeRefused(j)
              \/ SlotWaitEnds(j)
              \/ Unpacks(j)
              \/ NoRoom(j)
              \/ Publishes(j)
              \/ \E word \in Words : UnpackFails(j, word)

Outside == \/ \E r \in Rows, key \in Signers, ignore \in Rules :
                Writes(r, key, ignore)
           \/ \E r \in Rows : AskRefresh(r) \/ Deletes(r)
           \/ \E n \in CapValues : SetsCaps(n)
           \/ \E f \in Folders : Loses(f)
           \/ \E s \in Signers : LookupExpires(s)
           \/ \E x \in refused : RefusalExpires(x)
           \/ Sweep
           \/ Close
           \/ Restart

\* bound: the moves are spent and no call is on its way
Rest == /\ moves = MaxMoves /\ toStart = {}
        /\ \A c \in Calls : Free(c)
        /\ UNCHANGED vars

Next == Step \/ Turn \/ Lookups \/ Fetching \/ Outside \/ Rest

Spec == Init /\ [][Next]_vars

----------------------------------------------------------------------------
(* Properties *)

CallRows ==
    [pc : {"idle", "look", "tree", "other", "held"}, repo : Rows \cup {None},
     copy : RowRows \cup {None}, pin : Commits \cup {None}, gone : BOOLEAN,
     from : Calls \cup {None}, on : Jobs \cup {None}, got : Results,
     commit : Commits \cup {None}, of : Signers \cup {None},
     want : Commits \cup {None}, tries : 0..1]

JobRows ==
    [phase : {"none", "ask", "slot", "proc", "unpack"},
     commit : Commits \cup {None}, ignore : Rules \cup {None},
     signer : Signers, caps : CapValues \cup {0}, under : CapValues \cup {0}]

\* no more unpacks than slots, and no job waits while a slot is free
SlotsOK ==
    LET held == {j \in Jobs : job[j].phase \in Holding}
    IN  /\ Cardinality(held) <= FETCHES
        /\ slotQ # << >> => Cardinality(held) = FETCHES
        /\ {slotQ[i] : i \in DOMAIN slotQ} = {j \in Jobs : job[j].phase = "slot"}

\* whoever waits, waits for something that is out
WaitsOK ==
    \A c \in Calls :
        /\ call[c].pc \in {"tree", "other"} /\ call[c].got = NoRes =>
              call[c].on # None /\ job[call[c].on].phase # "none"
        /\ call[c].pc = "look" /\ call[c].got = NoRes =>
              LET b == call[c].from
              IN  /\ b # None
                  /\ \/ job[<<b, "look">>].phase = "ask"
                     \/ call[b].from = b /\ call[b].copy.key # NoKey

\* Every value has its type, a fetch slot is never free while a job waits
\* for one, and every call waits for a job or a request that is out.
TypeOK ==
    /\ row \in [Rows -> RowRows]
    /\ caps \in CapValues /\ closing \in BOOLEAN
    /\ answers \in [Signers -> [by : Calls \cup {None}, res : Results]]
    /\ call \in [Calls -> CallRows]
    /\ job \in [Jobs -> JobRows]
    /\ inFlight \in [Folders -> Jobs \cup {None}]
    /\ refused \subseteq [folder : Folders, caps : CapValues, signer : Signers,
                          word : Words]
    /\ index \in Seq(Folders) /\ disk \subseteq Folders
    /\ holds \in [Folders -> Nat]
    /\ toStart \subseteq Rows /\ moves \in 0..MaxMoves
    /\ lost \subseteq Folders /\ left \subseteq Rows
    /\ SlotsOK /\ WaitsOK

\* A tree is held once for each mount that turns keep of it, no more and no
\* fewer (mounts.ts: a hold taken after the turn went on is let go of, and
\* a refresh's at once), and a mounted tree stays on disk through every
\* eviction (cache.ts evict()), unless an operator removes it.
MountsStand ==
    \A f \in Folders :
        /\ holds[f] = Cardinality(Mounted(f))
        /\ Mounted(f) # {} => f \in disk \cup lost

\* While the server runs, a row that says pending or fetching is about to be
\* settled: a call of the row as it is now is on its way and its end will
\* write it.  The exceptions are in left: a call whose fetch waited too long
\* for its slots, or that mounted a pinned commit it had to fetch again.
RowOwed ==
    \A r \in Rows :
        /\ row[r].st \in {"pending", "fetching"} /\ ~closing
        /\ r \notin left \cup toStart
        => \E c \in Calls :
              /\ call[c].pc \in {"look", "tree", "other"}
              /\ call[c].repo = r /\ SameFields(call[c].copy, row[r])
              /\ call[c].copy.st \in {"pending", "fetching"}

\* What a row says, and what a turn mounts, is what hosts answered to the
\* row's own key: a failure of its own lookup or fetch, but for a tree over
\* the cap, which is over it for all (fetches.ts byCommit()), and a commit a
\* lookup of its own named (lookup.ts lookupKey()).
OwnWord ==
    /\ \A r \in Rows :
          \/ row[r].st = "ready"
          \/ row[r].st = "failed" /\ row[r].error # "over the size cap"
          => row[r].of = row[r].key
    /\ \A c \in Calls : call[c].pc = "held" => call[c].of = call[c].copy.key

=============================================================================
