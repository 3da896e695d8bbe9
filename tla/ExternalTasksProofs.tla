------------------------- MODULE ExternalTasksProofs -------------------------
(***************************************************************************)
(* Proofs about ExternalTasks, for every number of tasks, keys, claims and *)
(* entries.                                                                *)
(***************************************************************************)
EXTENDS ExternalTasks, FiniteSetTheorems, SequenceTheorems,
        WellFoundedInduction, TLAPS

USE ExternalTasksAssumption

Stores == [task : [Tasks -> TaskRows], claim : [Claims -> ClaimRows],
           rows : [Tasks -> Seq(EntryRows)], quiet : SUBSET Claims]

\* what a task holds, and the live claims there are of it
Mirrors(w) ==
    \A t \in Tasks :
        /\ w.task[t].claim # NoOne <=> w.task[t].state \in Held
        /\ w.task[t].claim # NoOne =>
              /\ w.claim[w.task[t].claim].task = t
              /\ w.claim[w.task[t].claim].end = "live"
        /\ \A c \in Claims :
              w.claim[c].task = t /\ w.claim[c].end = "live" => w.task[t].claim = c

StoreOK(w) == w \in Stores /\ Mirrors(w)

\* the end a move gives the claim of t
EndAt(w, t, actor, kind) == EndOf(actor, kind, w.task[t].claim # NoOne)

\* a move of the tasks S that the rules allow: whoever holds a task after it
\* held it before and goes on, and whoever holds none after it is let go
MoveOK(w, S, actor, kind) ==
    /\ S \subseteq Tasks
    /\ kind \in EntryKinds \ {"claim", "edit"} /\ actor # "none"
    /\ actor = "agent" \/ To(kind) \notin Held \/ kind = "answer"
    /\ \A t \in S :
          /\ w.task[t].state \notin {"unmade", "deleted"}
          /\ kind = "cancel" => w.task[t].state \in Unfinished
          /\ kind = "reopen" => w.task[t].state \in Closed
          /\ EndAt(w, t, actor, kind) \in ClaimEnds \cup {"none"}
          /\ IF To(kind) \in Held
             THEN w.task[t].state \in Held /\ EndAt(w, t, actor, kind) = "none"
             ELSE w.task[t].claim # NoOne <=> EndAt(w, t, actor, kind) # "none"

----------------------------------------------------------------------------
(* What the writes leave *)

LEMMA ToStates == \A kind \in EntryKinds \ {"edit"} : To(kind) \in Unfinished \cup Closed
BY DEF EntryKinds, Reports, To, Unfinished, Held, Closed

LEMMA NoOnes == NoOne \notin Claims /\ NoOne \notin Keys /\ NoOne \notin Titles
OBVIOUS

\* the tables v after a move of the tasks S
Moved(w, v, S, actor, kind, text) ==
    /\ v = [task |-> v.task, claim |-> v.claim, rows |-> v.rows, quiet |-> v.quiet]
    /\ v.task = [t \in Tasks |-> v.task[t]] /\ v.claim = [c \in Claims |-> v.claim[c]]
    /\ v.rows = [t \in Tasks |-> v.rows[t]]
    /\ v.quiet \subseteq w.quiet
    /\ \A t \in Tasks \ S : v.task[t] = w.task[t] /\ v.rows[t] = w.rows[t]
    /\ \A t \in S : v.task[t] =
          [state |-> To(kind),
           claim |-> IF EndAt(w, t, actor, kind) # "none" THEN NoOne ELSE w.task[t].claim,
           by |-> w.task[t].by, title |-> w.task[t].title]
    /\ \A t \in S : v.rows[t] = Append(w.rows[t],
          Entry(IF NamesClaim(actor, EndAt(w, t, actor, kind) # "none")
                THEN w.task[t].claim ELSE NoOne,
                kind, text, actor = "agent", EndAt(w, t, actor, kind)))
    /\ \A c \in Claims :
          \/ /\ v.claim[c] = w.claim[c]
             /\ \A t \in S : w.task[t].claim = c => EndAt(w, t, actor, kind) = "none"
          \/ \E t \in S :
                /\ w.task[t].claim = c /\ w.claim[c].task = t
                /\ EndAt(w, t, actor, kind) # "none"
                /\ v.claim[c] = [w.claim[c] EXCEPT !.end = EndAt(w, t, actor, kind)]

LEMMA Wrote ==
    ASSUME NEW w, StoreOK(w), NEW S, NEW actor, NEW kind, MoveOK(w, S, actor, kind),
           NEW text \in Texts \cup {"none"}
    PROVE  Moved(w, WriteEntry(w, S, actor, kind, text), S, actor, kind, text)
<1> DEFINE v == WriteEntry(w, S, actor, kind, text)
           E(t) == EndAt(w, t, actor, kind)
           Live(t) == w.task[t].claim
           held == {t \in S : Live(t) # NoOne}
           ends == {t \in S : EndOf(actor, kind, t \in held) # "none"}
<1>1. w \in Stores /\ Mirrors(w) /\ S \subseteq Tasks
  BY DEF StoreOK, MoveOK
<1>2. \A t \in S : /\ t \in held <=> w.task[t].claim # NoOne
                   /\ EndOf(actor, kind, t \in held) = E(t)
                   /\ t \in ends <=> E(t) # "none"
  BY DEF EndAt
<1> DEFINE T == [t \in Tasks |-> IF t \notin S THEN w.task[t]
                ELSE [w.task[t] EXCEPT !.state = To(kind),
                                  !.claim = IF t \in ends THEN NoOne ELSE Live(t)]]
           C == [c \in Claims |-> IF c \notin {Live(t) : t \in held \cap ends}
                THEN w.claim[c]
                ELSE [w.claim[c] EXCEPT !.end = EndOf(actor, kind, w.claim[c].task \in held)]]
           R == [t \in Tasks |-> IF t \notin S THEN w.rows[t]
                ELSE Append(w.rows[t], Entry(IF NamesClaim(actor, t \in ends)
                                        THEN Live(t) ELSE NoOne, kind, text,
                                        actor = "agent", EndOf(actor, kind, t \in held)))]
           Q == w.quiet \ {Live(t) : t \in held}
<1>3. v = [w EXCEPT !.task = T, !.claim = C, !.rows = R, !.quiet = Q]
  BY DEF WriteEntry
<1> HIDE DEF T, C, R, Q, v
<1>0. v.task = T /\ v.claim = C /\ v.rows = R /\ v.quiet = Q /\ DOMAIN v = DOMAIN w
  BY <1>1, <1>3 DEF Stores
<1> HIDE DEF held, ends, Live, E
<1>4. ASSUME NEW t \in S
      PROVE  v.task[t] = [state |-> To(kind),
                          claim |-> IF E(t) # "none" THEN NoOne ELSE w.task[t].claim,
                          by |-> w.task[t].by, title |-> w.task[t].title]
  <2>1. w.task[t] \in TaskRows
    BY <1>1 DEF Stores
  <2>2. v.task[t] = [w.task[t] EXCEPT !.state = To(kind),
                                      !.claim = IF E(t) # "none" THEN NoOne ELSE @]
    BY <1>0, <1>1, <1>2 DEF T, Live
  <2> QED
    BY <2>1, <2>2 DEF TaskRows
<1>5. ASSUME NEW t \in S
      PROVE  v.rows[t] = Append(w.rows[t],
                          Entry(IF NamesClaim(actor, E(t) # "none") THEN w.task[t].claim
                                ELSE NoOne, kind, text, actor = "agent", E(t)))
  BY <1>0, <1>1, <1>2 DEF R, Live
<1>6. ASSUME NEW c \in Claims
      PROVE  \/ /\ v.claim[c] = w.claim[c]
                /\ \A t \in S : w.task[t].claim = c => E(t) = "none"
             \/ \E t \in S : /\ w.task[t].claim = c /\ w.claim[c].task = t
                             /\ E(t) # "none"
                             /\ v.claim[c] = [w.claim[c] EXCEPT !.end = E(t)]
  <2>1. c \in {Live(t) : t \in held \cap ends}
          <=> \E t \in S : w.task[t].claim = c /\ E(t) # "none"
    BY <1>2, NoOnes DEF held, ends, Live
  <2>2. CASE \E t \in S : w.task[t].claim = c /\ E(t) # "none"
    <3>1. PICK t \in S : w.task[t].claim = c /\ E(t) # "none"
      BY <2>2
    <3>2. w.claim[c].task = t
      BY <1>1, <3>1, NoOnes DEF Mirrors
    <3>3. v.claim[c] = [w.claim[c] EXCEPT !.end = E(t)]
      <4>1. t \in S /\ EndOf(actor, kind, t \in held) = E(t)
        BY <1>2
      <4> QED
        BY <1>0, <2>1, <2>2, <3>2, <4>1 DEF C
    <3> QED
      BY <3>1, <3>2, <3>3
  <2>3. CASE ~\E t \in S : w.task[t].claim = c /\ E(t) # "none"
    <3>1. v.claim[c] = w.claim[c]
      BY <1>0, <2>1, <2>3 DEF C
    <3> QED
      BY <2>3, <3>1
  <2> QED
    BY <2>2, <2>3
<1>7. v = [task |-> v.task, claim |-> v.claim, rows |-> v.rows, quiet |-> v.quiet]
  BY <1>1, <1>3 DEF Stores
<1> QED
  <2>0. /\ v.task = [t \in Tasks |-> v.task[t]] /\ v.claim = [c \in Claims |-> v.claim[c]]
        /\ v.rows = [t \in Tasks |-> v.rows[t]]
    BY <1>0 DEF T, C, R
  <2>1. /\ \A t \in Tasks \ S : v.task[t] = w.task[t] /\ v.rows[t] = w.rows[t]
        /\ v.quiet \subseteq w.quiet
    BY <1>0 DEF T, C, R, Q
  <2> HIDE DEF T, C, R, Q, v
  <2>2. Moved(w, v, S, actor, kind, text)
    BY <1>4, <1>5, <1>6, <1>7, <2>0, <2>1 DEF Moved, E
  <2> QED
    BY <2>2 DEF v

LEMMA MovedClaim ==
    ASSUME NEW w, StoreOK(w), NEW S, NEW actor, NEW kind, NEW text, NEW c \in Claims,
           NEW v, Moved(w, v, S, actor, kind, text)
    PROVE  /\ v.claim[c].task = w.claim[c].task /\ v.claim[c].key = w.claim[c].key
           /\ v.claim[c].row = w.claim[c].row
<1>1. w.claim[c] \in ClaimRows
  BY DEF StoreOK, Stores
<1>2. CASE v.claim[c] = w.claim[c]
  BY <1>2
<1>3. ASSUME NEW t \in S, v.claim[c] = [w.claim[c] EXCEPT !.end = EndAt(w, t, actor, kind)]
      PROVE  /\ v.claim[c].task = w.claim[c].task /\ v.claim[c].key = w.claim[c].key
             /\ v.claim[c].row = w.claim[c].row
  BY <1>1, <1>3 DEF ClaimRows
<1>4. \/ v.claim[c] = w.claim[c]
      \/ \E t \in S : v.claim[c] = [w.claim[c] EXCEPT !.end = EndAt(w, t, actor, kind)]
  <2>1. \A d \in Claims :
          \/ /\ v.claim[d] = w.claim[d]
             /\ \A t \in S : w.task[t].claim = d => EndAt(w, t, actor, kind) = "none"
          \/ \E t \in S :
                /\ w.task[t].claim = d /\ w.claim[d].task = t
                /\ EndAt(w, t, actor, kind) # "none"
                /\ v.claim[d] = [w.claim[d] EXCEPT !.end = EndAt(w, t, actor, kind)]
    BY DEF Moved
  <2> QED
    BY <2>1
<1> QED
  BY <1>2, <1>3, <1>4

LEMMA StoreIs ==
    ASSUME NEW v, v = [task |-> v.task, claim |-> v.claim, rows |-> v.rows, quiet |-> v.quiet],
           v.task = [t \in Tasks |-> v.task[t]], v.claim = [c \in Claims |-> v.claim[c]],
           v.rows = [t \in Tasks |-> v.rows[t]],
           \A t \in Tasks : v.task[t] \in TaskRows,
           \A t \in Tasks : v.rows[t] \in Seq(EntryRows),
           \A c \in Claims : v.claim[c] \in ClaimRows,
           v.quiet \in SUBSET Claims
    PROVE  v \in Stores
<1>1. v.task \in [Tasks -> TaskRows]
  OBVIOUS
<1>2. v.rows \in [Tasks -> Seq(EntryRows)]
  <2> DEFINE X == Seq(EntryRows)
  <2> HIDE DEF X
  <2>1. \A t \in Tasks : v.rows[t] \in X
    BY DEF X
  <2>2. v.rows \in [Tasks -> X]
    BY <2>1
  <2> QED
    BY <2>2 DEF X
<1>3. v.claim \in [Claims -> ClaimRows]
  OBVIOUS
<1> QED
  BY <1>1, <1>2, <1>3 DEF Stores

\* an entry keeps the tables what they are
LEMMA WroteOK ==
    ASSUME NEW w, StoreOK(w), NEW S, NEW actor, NEW kind, MoveOK(w, S, actor, kind),
           NEW text \in Texts \cup {"none"},
           NEW v, Moved(w, v, S, actor, kind, text)
    PROVE  StoreOK(v)
<1> DEFINE E(t) == EndAt(w, t, actor, kind)
<1>1. w \in Stores /\ Mirrors(w) /\ S \subseteq Tasks
  BY DEF StoreOK, MoveOK
<1>2. ASSUME NEW t \in S
      PROVE  /\ E(t) \in ClaimEnds \cup {"none"}
             /\ kind \in EntryKinds /\ To(kind) \in Unfinished \cup Closed
             /\ IF To(kind) \in Held
                THEN w.task[t].state \in Held /\ E(t) = "none"
                ELSE w.task[t].claim # NoOne <=> E(t) # "none"
  BY ToStates DEF MoveOK
<1>3. ASSUME NEW t \in S
      PROVE  v.task[t] = [state |-> To(kind),
                          claim |-> IF E(t) # "none" THEN NoOne ELSE w.task[t].claim,
                          by |-> w.task[t].by, title |-> w.task[t].title]
  BY DEF Moved
<1>4. ASSUME NEW t \in Tasks, t \notin S
      PROVE  v.task[t] = w.task[t] /\ v.rows[t] = w.rows[t]
  BY <1>4 DEF Moved
<1>a. ASSUME NEW t \in Tasks
      PROVE  v.task[t].claim = IF t \in S /\ E(t) # "none" THEN NoOne ELSE w.task[t].claim
  <2>1. CASE t \in S
    <3> DEFINE c == IF E(t) # "none" THEN NoOne ELSE w.task[t].claim
    <3>1. v.task[t] = [state |-> To(kind), claim |-> c, by |-> w.task[t].by,
                       title |-> w.task[t].title]
      BY <1>3, <2>1
    <3> HIDE DEF c
    <3>2. v.task[t].claim = c
      BY <3>1
    <3> QED
      BY <2>1, <3>2 DEF c
  <2> QED
    BY <1>4, <2>1
<1>5. ASSUME NEW c \in Claims
      PROVE  \/ /\ v.claim[c] = w.claim[c]
                /\ \A t \in S : w.task[t].claim = c => E(t) = "none"
             \/ \E t \in S : /\ w.task[t].claim = c /\ w.claim[c].task = t
                             /\ E(t) # "none"
                             /\ v.claim[c] = [w.claim[c] EXCEPT !.end = E(t)]
  BY DEF Moved
<1>6. ASSUME NEW t \in Tasks
      PROVE  v.task[t] \in TaskRows
  <2>1. w.task[t] \in TaskRows
    BY <1>1 DEF Stores
  <2>2. CASE t \in S
    <3>1. v.task[t] = [state |-> To(kind),
                       claim |-> IF E(t) # "none" THEN NoOne ELSE w.task[t].claim,
                       by |-> w.task[t].by, title |-> w.task[t].title]
      BY <1>3, <2>2
    <3>2. To(kind) \in Unfinished \cup Closed
      BY <1>2, <2>2
    <3> QED
      BY <2>1, <3>1, <3>2 DEF TaskRows
  <2> QED
    BY <1>4, <2>1, <2>2
<1>7. ASSUME NEW t \in Tasks
      PROVE  v.rows[t] \in Seq(EntryRows)
  <2>1. w.rows[t] \in Seq(EntryRows) /\ w.task[t].claim \in Claims \cup {NoOne}
    BY <1>1 DEF Stores, TaskRows
  <2>2. CASE t \in S
    <3> DEFINE e == Entry(IF NamesClaim(actor, E(t) # "none") THEN w.task[t].claim
                          ELSE NoOne, kind, text, actor = "agent", E(t))
    <3>1. e \in EntryRows
      BY <1>2, <2>1, <2>2 DEF Entry, EntryRows
    <3>2. v.rows[t] = Append(w.rows[t], e)
      BY <2>2 DEF Moved
    <3> HIDE DEF e
    <3> QED
      BY <2>1, <3>1, <3>2
  <2> QED
    BY <1>4, <2>1, <2>2
<1>8. ASSUME NEW c \in Claims
      PROVE  /\ v.claim[c] \in ClaimRows
             /\ v.claim[c].task = w.claim[c].task
             /\ \A t \in S : w.task[t].claim = c /\ E(t) = "none" => v.claim[c] = w.claim[c]
             /\ v.claim[c].end = "live" =>
                   w.claim[c].end = "live" /\ \A t \in S : w.task[t].claim = c => E(t) = "none"
  <2>1. w.claim[c] \in ClaimRows
    BY <1>1 DEF Stores
  <2>2. CASE v.claim[c] = w.claim[c] /\ \A t \in S : w.task[t].claim = c => E(t) = "none"
    BY <2>1, <2>2
  <2>3. ASSUME NEW t \in S, w.task[t].claim = c, w.claim[c].task = t, E(t) # "none",
               v.claim[c] = [w.claim[c] EXCEPT !.end = E(t)]
        PROVE  /\ v.claim[c] \in ClaimRows
               /\ v.claim[c].task = w.claim[c].task
               /\ \A u \in S : w.task[u].claim = c /\ E(u) = "none" => v.claim[c] = w.claim[c]
               /\ v.claim[c].end # "live"
    <3>1. E(t) \in ClaimEnds /\ E(t) # "live"
      BY <1>2, <2>3 DEF ClaimEnds
    <3>2. \A u \in S : w.task[u].claim = c => u = t
      BY <1>1, <2>3, NoOnes DEF Mirrors
    <3> HIDE DEF E
    <3> QED
      BY <2>1, <2>3, <3>1, <3>2 DEF ClaimRows
  <2> QED
    BY <1>5, <2>2, <2>3
<1> HIDE DEF E
<1>9. v \in Stores
  <2>1. v = [task |-> v.task, claim |-> v.claim, rows |-> v.rows, quiet |-> v.quiet]
    BY DEF Moved
  <2>2. /\ v.task = [t \in Tasks |-> v.task[t]] /\ v.claim = [c \in Claims |-> v.claim[c]]
        /\ v.rows = [t \in Tasks |-> v.rows[t]]
    BY DEF Moved
  <2>3. v.quiet \in SUBSET Claims
    BY <1>1 DEF Moved, Stores
  <2> QED
    BY <1>6, <1>7, <1>8, <2>1, <2>2, <2>3, StoreIs
<1>10. Mirrors(v)
  <2>1. ASSUME NEW t \in Tasks
        PROVE  v.task[t].claim # NoOne <=> v.task[t].state \in Held
    <3>1. CASE t \in S
      <4>1. v.task[t].state = To(kind)
        <5> DEFINE c == IF E(t) # "none" THEN NoOne ELSE w.task[t].claim
        <5>1. v.task[t] = [state |-> To(kind), claim |-> c, by |-> w.task[t].by,
                           title |-> w.task[t].title]
          BY <1>3, <3>1
        <5> HIDE DEF c
        <5> QED
          BY <5>1
      <4>2. IF To(kind) \in Held THEN w.task[t].state \in Held /\ E(t) = "none"
            ELSE w.task[t].claim # NoOne <=> E(t) # "none"
        BY <1>2, <3>1
      <4>3. w.task[t].claim # NoOne <=> w.task[t].state \in Held
        BY <1>1 DEF Mirrors
      <4> QED
        BY <1>a, <3>1, <4>1, <4>2, <4>3
    <3> QED
      BY <1>1, <1>4, <3>1 DEF Mirrors
  <2>2. ASSUME NEW t \in Tasks, v.task[t].claim # NoOne
        PROVE  /\ v.claim[v.task[t].claim].task = t
               /\ v.claim[v.task[t].claim].end = "live"
    <3> DEFINE c == w.task[t].claim
    <3>1. v.task[t].claim = c /\ (t \in S => E(t) = "none")
      BY <1>a, <2>2
    <3>2. c \in Claims /\ w.claim[c].task = t /\ w.claim[c].end = "live"
      BY <1>1, <2>2, <3>1 DEF Stores, TaskRows, Mirrors
    <3>3. \A u \in S : w.task[u].claim = c => u = t
      BY <1>1, <3>2, NoOnes DEF Mirrors
    <3>4. v.claim[c] = w.claim[c]
      BY <1>5, <3>1, <3>2, <3>3
    <3> QED
      BY <3>1, <3>2, <3>4
  <2>3. ASSUME NEW t \in Tasks, NEW c \in Claims,
               v.claim[c].task = t, v.claim[c].end = "live"
        PROVE  v.task[t].claim = c
    <3>1. w.claim[c].task = t /\ w.claim[c].end = "live"
      BY <1>8, <2>3
    <3>2. w.task[t].claim = c
      BY <1>1, <3>1 DEF Mirrors
    <3>3. t \in S => E(t) = "none"
      BY <1>8, <2>3, <3>2
    <3> QED
      BY <1>a, <3>2, <3>3
  <2> QED
    BY <2>1, <2>2, <2>3 DEF Mirrors
<1> QED
  BY <1>9, <1>10 DEF StoreOK

\* the tables v after the tasks S were deleted
Deleted(w, v, S) ==
    /\ v = [task |-> v.task, claim |-> v.claim, rows |-> v.rows, quiet |-> v.quiet]
    /\ v.task = [t \in Tasks |-> v.task[t]] /\ v.claim = [c \in Claims |-> v.claim[c]]
    /\ v.rows = [t \in Tasks |-> v.rows[t]]
    /\ v.quiet \subseteq w.quiet
    /\ \A t \in Tasks \ S : v.task[t] = w.task[t] /\ v.rows[t] = w.rows[t]
    /\ \A t \in S \cap Tasks :
          /\ v.task[t] = [state |-> "deleted", claim |-> NoOne, by |-> NoOne, title |-> NoOne]
          /\ v.rows[t] = <<>>
    /\ \A c \in Claims :
          v.claim[c] = IF w.claim[c].task \in S
                       THEN [task |-> NoOne, key |-> NoOne, end |-> "gone", row |-> 0]
                       ELSE w.claim[c]

LEMMA Deletes ==
    ASSUME NEW w, w \in Stores, NEW S
    PROVE  Deleted(w, Delete(w, S), S)
<1> DEFINE T == [t \in Tasks |-> IF t \notin S THEN w.task[t] ELSE
                    [state |-> "deleted", claim |-> NoOne, by |-> NoOne, title |-> NoOne]]
           C == [c \in Claims |-> IF w.claim[c].task \notin S THEN w.claim[c]
                    ELSE [task |-> NoOne, key |-> NoOne, end |-> "gone", row |-> 0]]
           R == [t \in Tasks |-> IF t \in S THEN <<>> ELSE w.rows[t]]
           Q == {c \in w.quiet : w.claim[c].task \notin S}
           v == Delete(w, S)
<1>1. CASE S = {}
  <2>1. v = w
    BY <1>1 DEF Delete
  <2> QED
    BY <1>1, <2>1 DEF Deleted, Stores
<1>2. CASE S # {}
  <2>1. v = [w EXCEPT !.task = T, !.claim = C, !.rows = R, !.quiet = Q]
    BY <1>2 DEF Delete
  <2> HIDE DEF T, C, R, Q, v
  <2>2. v = [task |-> T, claim |-> C, rows |-> R, quiet |-> Q]
    BY <2>1 DEF Stores
  <2>3. v.task = T /\ v.claim = C /\ v.rows = R /\ v.quiet = Q
    BY <2>2
  <2>4. /\ v = [task |-> v.task, claim |-> v.claim, rows |-> v.rows, quiet |-> v.quiet]
        /\ v.task = [t \in Tasks |-> v.task[t]]
        /\ v.claim = [c \in Claims |-> v.claim[c]]
        /\ v.rows = [t \in Tasks |-> v.rows[t]]
        /\ v.quiet \subseteq w.quiet
    BY <2>2, <2>3 DEF T, C, R, Q
  <2>5. /\ \A t \in Tasks \ S : v.task[t] = w.task[t] /\ v.rows[t] = w.rows[t]
        /\ \A t \in S \cap Tasks :
              /\ v.task[t] = [state |-> "deleted", claim |-> NoOne, by |-> NoOne, title |-> NoOne]
              /\ v.rows[t] = <<>>
    BY <2>3 DEF T, R
  <2>6. \A c \in Claims :
          v.claim[c] = IF w.claim[c].task \in S
                       THEN [task |-> NoOne, key |-> NoOne, end |-> "gone", row |-> 0]
                       ELSE w.claim[c]
    BY <2>3 DEF C
  <2>7. Deleted(w, v, S)
    BY <2>4, <2>5, <2>6 DEF Deleted
  <2> QED
    BY <2>7 DEF v
<1> QED
  BY <1>1, <1>2

LEMMA DeletedOK ==
    ASSUME NEW w, StoreOK(w), NEW S, NEW v, Deleted(w, v, S)
    PROVE  StoreOK(v)
<1>1. w \in Stores /\ Mirrors(w)
  BY DEF StoreOK
<1>2. ASSUME NEW t \in Tasks
      PROVE  v.task[t] \in TaskRows /\ v.rows[t] \in Seq(EntryRows)
  <2>1. w.task[t] \in TaskRows /\ w.rows[t] \in Seq(EntryRows)
    BY <1>1 DEF Stores
  <2>2. CASE t \in S
    <3>1. v.task[t] = [state |-> "deleted", claim |-> NoOne, by |-> NoOne, title |-> NoOne]
          /\ v.rows[t] = <<>>
      BY <2>2 DEF Deleted
    <3> QED
      BY <3>1 DEF TaskRows
  <2>3. CASE t \notin S
    <3>1. v.task[t] = w.task[t] /\ v.rows[t] = w.rows[t]
      BY <2>3 DEF Deleted
    <3> QED
      BY <2>1, <3>1
  <2> QED
    BY <2>2, <2>3
<1>3. ASSUME NEW c \in Claims
      PROVE  /\ v.claim[c] \in ClaimRows
             /\ v.claim[c].end = "live" => v.claim[c] = w.claim[c] /\ w.claim[c].task \notin S
  <2>1. w.claim[c] \in ClaimRows
    BY <1>1 DEF Stores
  <2>2. CASE w.claim[c].task \in S
    <3>1. v.claim[c] = [task |-> NoOne, key |-> NoOne, end |-> "gone", row |-> 0]
      BY <2>2 DEF Deleted
    <3> QED
      BY <3>1 DEF ClaimRows
  <2>3. CASE w.claim[c].task \notin S
    <3>1. v.claim[c] = w.claim[c]
      BY <2>3 DEF Deleted
    <3> QED
      BY <2>1, <2>3, <3>1
  <2> QED
    BY <2>2, <2>3
<1>4. v \in Stores
  <2>1. /\ v = [task |-> v.task, claim |-> v.claim, rows |-> v.rows, quiet |-> v.quiet]
        /\ v.task = [t \in Tasks |-> v.task[t]]
        /\ v.claim = [c \in Claims |-> v.claim[c]]
        /\ v.rows = [t \in Tasks |-> v.rows[t]]
    BY DEF Deleted
  <2>2. v.quiet \in SUBSET Claims
    BY <1>1 DEF Deleted, Stores
  <2> QED
    BY <1>2, <1>3, <2>1, <2>2, StoreIs
<1>5. Mirrors(v)
  <2>1. ASSUME NEW t \in Tasks, t \in S
        PROVE  /\ v.task[t].claim = NoOne /\ v.task[t].state \notin Held
               /\ \A c \in Claims : v.claim[c].task = t => v.claim[c].end # "live"
    <3>1. v.task[t] = [state |-> "deleted", claim |-> NoOne, by |-> NoOne, title |-> NoOne]
      BY <2>1 DEF Deleted
    <3> QED
      BY <1>3, <2>1, <3>1 DEF Held
  <2>2. ASSUME NEW t \in Tasks, t \notin S
        PROVE  /\ v.task[t] = w.task[t]
               /\ \A c \in Claims : w.claim[c].task = t => v.claim[c] = w.claim[c]
               /\ \A c \in Claims : v.claim[c].end = "live" => v.claim[c] = w.claim[c]
    BY <1>3, <2>2 DEF Deleted
  <2>3. ASSUME NEW t \in Tasks, t \notin S
        PROVE  /\ v.task[t].claim # NoOne <=> v.task[t].state \in Held
               /\ v.task[t].claim # NoOne =>
                     /\ v.claim[v.task[t].claim].task = t
                     /\ v.claim[v.task[t].claim].end = "live"
               /\ \A c \in Claims :
                     v.claim[c].task = t /\ v.claim[c].end = "live" => v.task[t].claim = c
    <3>1. w.task[t].claim \in Claims \cup {NoOne}
      BY <1>1 DEF Stores, TaskRows
    <3>2. /\ w.task[t].claim # NoOne <=> w.task[t].state \in Held
          /\ w.task[t].claim # NoOne =>
                /\ w.claim[w.task[t].claim].task = t
                /\ w.claim[w.task[t].claim].end = "live"
          /\ \A c \in Claims :
                w.claim[c].task = t /\ w.claim[c].end = "live" => w.task[t].claim = c
      BY <1>1 DEF Mirrors
    <3> QED
      BY <2>2, <2>3, <3>1, <3>2
  <2> QED
    BY <2>1, <2>3 DEF Mirrors
<1> QED
  BY <1>4, <1>5 DEF StoreOK

\* a claim's row number says nothing of what it is
Kept(w, v, c) ==
    /\ v.task = w.task /\ v.rows = w.rows /\ v.quiet = w.quiet
    /\ v.claim = [w.claim EXCEPT ![c].row = Len(w.rows[w.claim[c].task])]
    /\ v = [task |-> v.task, claim |-> v.claim, rows |-> v.rows, quiet |-> v.quiet]

LEMMA Remembers ==
    ASSUME NEW w \in Stores, NEW c \in Claims
    PROVE  Kept(w, Remember(w, c), c)
<1> DEFINE n == Len(w.rows[w.claim[c].task])
           v == [w EXCEPT !.claim[c].row = n]
<1>1. v.task = w.task /\ v.rows = w.rows /\ v.quiet = w.quiet
  BY DEF Stores
<1>2. v.claim = [w.claim EXCEPT ![c].row = n]
  BY DEF Stores
<1>3. v = [task |-> v.task, claim |-> v.claim, rows |-> v.rows, quiet |-> v.quiet]
  <2> DEFINE C == [w.claim EXCEPT ![c].row = n]
  <2>1. v = [w EXCEPT !.claim = C]
    OBVIOUS
  <2> HIDE DEF v, C
  <2> QED
    BY <2>1 DEF Stores
<1> QED
  BY <1>1, <1>2, <1>3 DEF Kept, Remember

LEMMA KeptOK ==
    ASSUME NEW w, StoreOK(w), NEW c \in Claims, w.claim[c].task \in Tasks,
           NEW v, Kept(w, v, c)
    PROVE  StoreOK(v)
<1>1. w \in Stores /\ Mirrors(w) /\ w.claim[c] \in ClaimRows
  BY DEF StoreOK, Stores
<1>2. Len(w.rows[w.claim[c].task]) \in Nat
  BY <1>1, LenProperties DEF Stores
<1>3. [w.claim[c] EXCEPT !.row = Len(w.rows[w.claim[c].task])] \in ClaimRows
  BY <1>1, <1>2 DEF ClaimRows
<1>4. v.claim \in [Claims -> ClaimRows]
  BY <1>1, <1>3 DEF Kept, Stores
<1>5. v \in Stores
  BY <1>1, <1>4 DEF Kept, Stores
<1>6. ASSUME NEW d \in Claims
      PROVE  v.claim[d].task = w.claim[d].task /\ v.claim[d].end = w.claim[d].end
  BY <1>1 DEF Kept, Stores, ClaimRows
<1>7. ASSUME NEW t \in Tasks
      PROVE  w.task[t].claim \in Claims \cup {NoOne} /\ v.task[t] = w.task[t]
  BY <1>1 DEF Kept, Stores, TaskRows
<1>8. Mirrors(v)
  <2>1. ASSUME NEW t \in Tasks
        PROVE  /\ v.task[t].claim # NoOne <=> v.task[t].state \in Held
               /\ v.task[t].claim # NoOne =>
                     /\ v.claim[v.task[t].claim].task = t
                     /\ v.claim[v.task[t].claim].end = "live"
               /\ \A d \in Claims :
                     v.claim[d].task = t /\ v.claim[d].end = "live" => v.task[t].claim = d
    <3>1. /\ w.task[t].claim # NoOne <=> w.task[t].state \in Held
          /\ w.task[t].claim # NoOne =>
                /\ w.claim[w.task[t].claim].task = t
                /\ w.claim[w.task[t].claim].end = "live"
          /\ \A d \in Claims :
                w.claim[d].task = t /\ w.claim[d].end = "live" => w.task[t].claim = d
      BY <1>1 DEF Mirrors
    <3> QED
      BY <1>6, <1>7, <3>1
  <2> QED
    BY <2>1 DEF Mirrors
<1> QED
  BY <1>5, <1>8 DEF StoreOK

\* the tables v after the key k took t with c
Claimed(w, v, k, t, c) ==
    /\ v.task = [w.task EXCEPT ![t] = [state |-> "in_progress", claim |-> c,
                                       by |-> w.task[t].by, title |-> w.task[t].title]]
    /\ v.claim = [w.claim EXCEPT ![c] = [task |-> t, key |-> k, end |-> "live", row |-> 0]]
    /\ v.rows = [w.rows EXCEPT ![t] = Append(@, Entry(c, "claim", "none", TRUE, "none"))]
    /\ v.quiet = w.quiet
    /\ v = [task |-> v.task, claim |-> v.claim, rows |-> v.rows, quiet |-> v.quiet]

LEMMA ClaimedOK ==
    ASSUME NEW w, StoreOK(w), NEW k \in Keys, NEW t \in Tasks, NEW c \in Claims,
           w.task[t].state = "todo", w.claim[c].end = "unused",
           NEW v, Claimed(w, v, k, t, c)
    PROVE  StoreOK(v)
<1>1. w \in Stores /\ Mirrors(w)
  BY DEF StoreOK
<1>2. ASSUME NEW u \in Tasks
      PROVE  /\ v.task[u] \in TaskRows
             /\ u # t => v.task[u] = w.task[u]
             /\ u = t => v.task[u].state = "in_progress" /\ v.task[u].claim = c
  BY <1>1 DEF Claimed, Stores, TaskRows, Unfinished, Held
<1>3. ASSUME NEW d \in Claims
      PROVE  /\ v.claim[d] \in ClaimRows
             /\ d # c => v.claim[d] = w.claim[d]
             /\ d = c => v.claim[d].task = t /\ v.claim[d].end = "live"
  BY <1>1 DEF Claimed, Stores, ClaimRows
<1>4. v.rows \in [Tasks -> Seq(EntryRows)]
  <2>1. Entry(c, "claim", "none", TRUE, "none") \in EntryRows
    BY DEF Entry, EntryRows, EntryKinds
  <2>2. \A s \in Seq(EntryRows) : \A e \in EntryRows : Append(s, e) \in Seq(EntryRows)
    OBVIOUS
  <2> DEFINE X == Seq(EntryRows)
             e == Entry(c, "claim", "none", TRUE, "none")
  <2>3. \A s \in X : Append(s, e) \in X
    BY <2>1, <2>2
  <2>4. w.rows \in [Tasks -> X]
    BY <1>1 DEF Stores
  <2>5. v.rows = [w.rows EXCEPT ![t] = Append(@, e)]
    BY DEF Claimed
  <2> HIDE DEF X, e
  <2>6. v.rows \in [Tasks -> X]
    BY <2>3, <2>4, <2>5
  <2> QED
    BY <2>6 DEF X
<1>5. v \in Stores
  <2>1. v.task \in [Tasks -> TaskRows] /\ v.claim \in [Claims -> ClaimRows]
    BY <1>1, <1>2, <1>3 DEF Claimed, Stores
  <2>2. v.quiet \in SUBSET Claims
    BY <1>1 DEF Claimed, Stores
  <2>3. v = [task |-> v.task, claim |-> v.claim, rows |-> v.rows, quiet |-> v.quiet]
    BY DEF Claimed
  <2> QED
    BY <1>4, <2>1, <2>2, <2>3 DEF Stores
<1>6. Mirrors(v)
  <2>1. w.task[t].claim = NoOne
    BY <1>1 DEF Mirrors, Held
  <2>2. ASSUME NEW u \in Tasks, u # t
        PROVE  /\ v.task[u].claim # NoOne <=> v.task[u].state \in Held
               /\ v.task[u].claim # NoOne =>
                     /\ v.claim[v.task[u].claim].task = u
                     /\ v.claim[v.task[u].claim].end = "live"
               /\ \A d \in Claims :
                     v.claim[d].task = u /\ v.claim[d].end = "live" => v.task[u].claim = d
    <3>1. /\ w.task[u].claim # NoOne <=> w.task[u].state \in Held
          /\ w.task[u].claim # NoOne =>
                /\ w.claim[w.task[u].claim].task = u
                /\ w.claim[w.task[u].claim].end = "live"
          /\ \A d \in Claims :
                w.claim[d].task = u /\ w.claim[d].end = "live" => w.task[u].claim = d
      BY <1>1 DEF Mirrors
    <3>2. w.task[u].claim \in Claims \cup {NoOne} /\ v.task[u] = w.task[u]
      BY <1>1, <1>2, <2>2 DEF Stores, TaskRows
    <3>3. \A d \in Claims : v.claim[d].task = u => v.claim[d] = w.claim[d]
      BY <1>3, <2>2
    <3>4. w.task[u].claim # c
      BY <3>1, NoOnes
    <3> QED
      BY <1>3, <3>1, <3>2, <3>3, <3>4
  <2>3. \A d \in Claims : v.claim[d].task = t /\ v.claim[d].end = "live" => d = c
    BY <1>1, <1>3, <2>1, NoOnes DEF Mirrors
  <2> QED
    BY <1>2, <1>3, <2>2, <2>3, NoOnes DEF Mirrors, Held
<1> QED
  BY <1>5, <1>6 DEF StoreOK

\* the tables v after an entry that ends no claim nor takes one was noted of t
Noted(w, v, t, e) ==
    /\ v.task = [w.task EXCEPT ![t] = v.task[t]]
    /\ v.task[t] \in TaskRows
    /\ v.task[t].claim = w.task[t].claim
    /\ v.task[t].state = w.task[t].state \/
          (w.task[t].state = "todo" /\ v.task[t].state = "canceled")
    /\ e \in EntryRows /\ e.claim = NoOne /\ e.end = "none" /\ e.kind \in {"edit", "cancel"}
    /\ e.kind = "edit" \/ w.task[t].state = "todo"
    /\ v.rows = [w.rows EXCEPT ![t] = Append(@, e)]
    /\ v.claim = w.claim /\ v.quiet = w.quiet
    /\ v = [task |-> v.task, claim |-> v.claim, rows |-> v.rows, quiet |-> v.quiet]

LEMMA NotedOK ==
    ASSUME NEW w, StoreOK(w), NEW t \in Tasks, NEW e, NEW v, Noted(w, v, t, e)
    PROVE  StoreOK(v)
<1>1. w \in Stores /\ Mirrors(w)
  BY DEF StoreOK
<1>2. v.rows \in [Tasks -> Seq(EntryRows)]
  <2> DEFINE X == Seq(EntryRows)
  <2>1. \A s \in X : Append(s, e) \in X
    BY DEF Noted
  <2>2. w.rows \in [Tasks -> X] /\ v.rows = [w.rows EXCEPT ![t] = Append(@, e)]
    BY <1>1 DEF Stores, Noted
  <2> HIDE DEF X
  <2>3. v.rows \in [Tasks -> X]
    BY <2>1, <2>2
  <2> QED
    BY <2>3 DEF X
<1>3. v \in Stores
  <2>a. v.task \in [Tasks -> TaskRows]
    <3> DEFINE x == v.task[t]
    <3>1. v.task = [w.task EXCEPT ![t] = x] /\ x \in TaskRows
      BY DEF Noted
    <3> HIDE DEF x
    <3> QED
      BY <1>1, <3>1 DEF Stores
  <2>1. v.task \in [Tasks -> TaskRows] /\ v.claim \in [Claims -> ClaimRows]
        /\ v.quiet \in SUBSET Claims
    BY <1>1, <2>a DEF Noted, Stores
  <2>2. v = [task |-> v.task, claim |-> v.claim, rows |-> v.rows, quiet |-> v.quiet]
    BY DEF Noted
  <2> QED
    BY <1>2, <2>1, <2>2 DEF Stores
<1>4. Mirrors(v)
  <2>1. ASSUME NEW u \in Tasks
        PROVE  /\ v.task[u].claim = w.task[u].claim
               /\ v.task[u].state \in Held <=> w.task[u].state \in Held
    BY <1>1 DEF Noted, Stores, TaskRows, Held
  <2>2. v.claim = w.claim
    BY DEF Noted
  <2> QED
    BY <1>1, <2>1, <2>2 DEF Mirrors
<1> QED
  BY <1>3, <1>4 DEF StoreOK

\* the tables v after a task was made of t
Made(w, v, t, k, title) ==
    /\ v.task = [w.task EXCEPT ![t] =
          [state |-> "todo", claim |-> NoOne, by |-> k, title |-> title]]
    /\ v.claim = w.claim /\ v.rows = w.rows /\ v.quiet = w.quiet
    /\ v = [task |-> v.task, claim |-> v.claim, rows |-> v.rows, quiet |-> v.quiet]

LEMMA Makes ==
    ASSUME NEW w \in Stores, NEW t \in Tasks, NEW k, NEW title
    PROVE  Made(w, Make(w, t, k, title), t, k, title)
<1> DEFINE T == [w.task EXCEPT ![t] =
                    [state |-> "todo", claim |-> NoOne, by |-> k, title |-> title]]
           v == [w EXCEPT !.task = T]
<1>1. v = Make(w, t, k, title)
  BY DEF Make
<1> HIDE DEF T
<1>a. w = [task |-> w.task, claim |-> w.claim, rows |-> w.rows, quiet |-> w.quiet]
  BY DEF Stores
<1>b. v = [task |-> T, claim |-> w.claim, rows |-> w.rows, quiet |-> w.quiet]
  BY <1>a
<1> HIDE DEF v
<1>2. /\ v.task = T /\ v.claim = w.claim /\ v.rows = w.rows /\ v.quiet = w.quiet
      /\ v = [task |-> v.task, claim |-> v.claim, rows |-> v.rows, quiet |-> v.quiet]
  BY <1>b
<1>3. Made(w, v, t, k, title)
  BY <1>2 DEF Made, T
<1> QED
  BY <1>1, <1>3

LEMMA MadeOK ==
    ASSUME NEW w, StoreOK(w), NEW t \in Tasks, w.task[t].state = "unmade",
           NEW k \in Keys \cup {NoOne}, NEW title \in Titles, NEW v, Made(w, v, t, k, title)
    PROVE  StoreOK(v)
<1>1. w \in Stores /\ Mirrors(w)
  BY DEF StoreOK
<1>2. v \in Stores
  <2>1. [state |-> "todo", claim |-> NoOne, by |-> k, title |-> title] \in TaskRows
    BY DEF TaskRows, Unfinished
  <2>2. v.task \in [Tasks -> TaskRows]
    BY <1>1, <2>1 DEF Made, Stores
  <2>3. /\ v.claim = w.claim /\ v.rows = w.rows /\ v.quiet = w.quiet
        /\ v = [task |-> v.task, claim |-> v.claim, rows |-> v.rows, quiet |-> v.quiet]
    BY DEF Made
  <2> QED
    BY <1>1, <2>2, <2>3 DEF Stores
<1>3. w.task[t].claim = NoOne
  BY <1>1 DEF Mirrors, Held
<1>4. Mirrors(v)
  <2>1. ASSUME NEW u \in Tasks
        PROVE  /\ v.task[u].claim = w.task[u].claim
               /\ v.task[u].state \in Held <=> w.task[u].state \in Held
    BY <1>1, <1>3 DEF Made, Stores, TaskRows, Held
  <2>2. v.claim = w.claim
    BY DEF Made
  <2> QED
    BY <1>1, <2>1, <2>2 DEF Mirrors
<1> QED
  BY <1>2, <1>4 DEF StoreOK

----------------------------------------------------------------------------
(* What each step does to the tables *)

Calls(k, t, c, kind) ==
    /\ claim[c].end = "live" /\ claim[c].task = t /\ claim[c].key = k
    /\ task[t].claim = c /\ task[t].state \in Held
    /\ kind \in Reports \cup {"unclaim"}

LEMMA StoreFields ==
    /\ Store.task = task /\ Store.claim = claim /\ Store.rows = rows /\ Store.quiet = quiet
    /\ Store' = [task |-> task', claim |-> claim', rows |-> rows', quiet |-> quiet']
    /\ Store'.task = task' /\ Store'.claim = claim' /\ Store'.rows = rows'
    /\ Store'.quiet = quiet'
BY DEF Store

LEMMA Typed ==
    ASSUME StoreOK(Store)
    PROVE  /\ task \in [Tasks -> TaskRows] /\ claim \in [Claims -> ClaimRows]
           /\ rows \in [Tasks -> Seq(EntryRows)] /\ quiet \subseteq Claims
BY StoreFields DEF StoreOK, Stores

LEMMA Commits ==
    ASSUME NEW w, w = [task |-> w.task, claim |-> w.claim, rows |-> w.rows, quiet |-> w.quiet],
           Commit(w)
    PROVE  Store' = w
BY StoreFields DEF Commit

LEMMA StoreRecord ==
    ASSUME NEW w, StoreOK(w)
    PROVE  w = [task |-> w.task, claim |-> w.claim, rows |-> w.rows, quiet |-> w.quiet]
BY DEF StoreOK, Stores

\* 1ctx may end the claims of tasks that hold one
LEMMA EndsOK ==
    ASSUME NEW w, StoreOK(w), NEW S \in SUBSET Tasks,
           \A t \in S : w.task[t].claim # NoOne,
           NEW actor \in {"access_gone", "idle", "limit"}
    PROVE  /\ StoreOK(End(w, S, actor))
           /\ \/ S = {} /\ End(w, S, actor) = w
              \/ /\ MoveOK(w, S, actor, "unclaim")
                 /\ Moved(w, End(w, S, actor), S, actor, "unclaim", "none")
<1>1. MoveOK(w, S, actor, "unclaim")
  <2>1. \A t \in S : EndAt(w, t, actor, "unclaim") = actor
    BY DEF EndAt, EndOf
  <2>2. \A t \in S : w.task[t].state \in Held
    BY DEF StoreOK, Mirrors
  <2>3. To("unclaim") = "todo"
    BY DEF To
  <2> QED
    BY <2>1, <2>2, <2>3 DEF MoveOK, EntryKinds, Reports, ClaimEnds, Held
<1>2. CASE S = {}
  BY <1>2 DEF End
<1>3. CASE S # {}
  <2>1. End(w, S, actor) = WriteEntry(w, S, actor, "unclaim", "none")
    BY <1>3 DEF End
  <2> QED
    BY <1>1, <2>1, Wrote, WroteOK
<1> QED
  BY <1>2, <1>3

\* the entry an agent's call writes is one the rules allow
LEMMA CallOK ==
    ASSUME StoreOK(Store), NEW k \in Keys, NEW t \in Tasks, NEW c \in Claims, NEW kind, NEW text,
           kind \in Reports \cup {"unclaim"},
           Outcome(k, t, c, kind, text) \in {"limit", "written"}
    PROVE  /\ claim[c].end = "live" /\ claim[c].task = t /\ claim[c].key = k
           /\ task[t].claim = c /\ task[t].state \in Held
           /\ ~Replays(c, kind, text)
<1>1. /\ claim[c].end \notin {"unused", "gone"} /\ claim[c].task = t /\ claim[c].key = k
      /\ ~Replays(c, kind, text) /\ claim[c].end = "live"
  BY DEF Outcome
<1>2. task[t].claim = c
  BY <1>1, StoreFields DEF StoreOK, Mirrors
<1> QED
  BY <1>1, <1>2, NoOnes, StoreFields DEF StoreOK, Mirrors

LEMMA AgentMoves ==
    ASSUME StoreOK(Store), NEW t \in Tasks, task[t].state \in Held, task[t].claim # NoOne,
           NEW kind \in Reports \cup {"unclaim"}
    PROVE  MoveOK(Store, {t}, "agent", kind)
<1>1. EndAt(Store, t, "agent", kind) = CASE kind = "result" -> "done"
                                         [] kind = "unclaim" -> "unclaimed"
                                         [] OTHER -> "none"
  BY DEF EndAt, EndOf, Reports
<1>2. CASE kind = "result"
  BY <1>1, <1>2, StoreFields DEF MoveOK, EntryKinds, Reports, ClaimEnds, Held, To
<1>3. CASE kind = "unclaim"
  BY <1>1, <1>3, StoreFields DEF MoveOK, EntryKinds, Reports, ClaimEnds, Held, To
<1>4. CASE kind \in {"progress", "question"}
  BY <1>1, <1>4, StoreFields DEF MoveOK, EntryKinds, Reports, ClaimEnds, Held, To
<1> QED
  BY <1>2, <1>3, <1>4 DEF Reports

LEMMA MemberMoves ==
    ASSUME StoreOK(Store), NEW t \in Tasks, NEW kind \in {"answer", "unclaim", "cancel", "reopen"},
           task[t].state \in From("member", kind)
    PROVE  MoveOK(Store, {t}, "member", kind)
<1>0. task[t].claim # NoOne <=> task[t].state \in Held
  BY StoreFields DEF StoreOK, Mirrors
<1>1. CASE kind = "answer"
  <2>1. EndAt(Store, t, "member", kind) = "none"
    BY <1>1 DEF EndAt, EndOf
  <2> QED
    BY <1>0, <1>1, <2>1, StoreFields
    DEF MoveOK, EntryKinds, Reports, ClaimEnds, Held, To, From
<1>2. CASE kind = "unclaim"
  <2>1. EndAt(Store, t, "member", kind) = "unclaimed"
    BY <1>2 DEF EndAt, EndOf
  <2> QED
    BY <1>0, <1>2, <2>1, StoreFields
    DEF MoveOK, EntryKinds, Reports, ClaimEnds, Held, To, From
<1>3. CASE kind = "cancel"
  <2>1. EndAt(Store, t, "member", kind) = IF task[t].claim # NoOne THEN "canceled" ELSE "none"
    BY <1>3, StoreFields DEF EndAt, EndOf
  <2> QED
    BY <1>0, <1>3, <2>1, StoreFields
    DEF MoveOK, EntryKinds, Reports, ClaimEnds, Held, Unfinished, To, From
<1>4. CASE kind = "reopen"
  <2>1. EndAt(Store, t, "member", kind) = "none"
    BY <1>4 DEF EndAt, EndOf
  <2> QED
    BY <1>0, <1>4, <2>1, StoreFields
    DEF MoveOK, EntryKinds, Reports, ClaimEnds, Held, Closed, To, From
<1> QED
  BY <1>1, <1>2, <1>3, <1>4

\* an agent's call that writes
AgentWrote(k, t, c, kind, text) ==
    \/ /\ Outcome(k, t, c, kind, text) = "limit"
       /\ MoveOK(Store, {t}, "limit", "unclaim")
       /\ Moved(Store, Store', {t}, "limit", "unclaim", "none")
    \/ /\ Outcome(k, t, c, kind, text) = "written"
       /\ MoveOK(Store, {t}, "agent", kind)
       /\ \E v : Moved(Store, v, {t}, "agent", kind, text) /\ Kept(v, Store', c)

LEMMA AgentEntryWrites ==
    ASSUME StoreOK(Store), NEW k \in Keys, NEW t \in Tasks, NEW c \in Claims,
           NEW kind \in Reports \cup {"unclaim"}, NEW text \in Texts,
           Outcome(k, t, c, kind, text) \in {"limit", "written"},
           AgentEntry(t, c, kind, text, Outcome(k, t, c, kind, text))
    PROVE  StoreOK(Store') /\ AgentWrote(k, t, c, kind, text)
<1>1. /\ claim[c].end = "live" /\ claim[c].task = t /\ claim[c].key = k
      /\ task[t].claim = c /\ task[t].state \in Held
  BY CallOK
<1>2. Store.task[t].claim # NoOne
  BY <1>1, NoOnes, StoreFields
<1>3. CASE Outcome(k, t, c, kind, text) = "limit"
  <2> DEFINE w == End(Store, {t}, "limit")
  <2>1. Commit(w)
    BY <1>3 DEF AgentEntry
  <2>2. w = WriteEntry(Store, {t}, "limit", "unclaim", "none")
    BY DEF End
  <2>3. MoveOK(Store, {t}, "limit", "unclaim")
    <3>1. EndAt(Store, t, "limit", "unclaim") = "limit" /\ To("unclaim") = "todo"
      BY DEF EndAt, EndOf, To
    <3> QED
      BY <1>1, <1>2, <3>1, StoreFields DEF MoveOK, EntryKinds, ClaimEnds, Held
  <2>4. StoreOK(w) /\ Moved(Store, w, {t}, "limit", "unclaim", "none")
    BY <2>2, <2>3, Wrote, WroteOK
  <2> HIDE DEF w
  <2>5. Store' = w
    BY <2>1, <2>4, StoreRecord, Commits
  <2> QED
    BY <1>3, <2>3, <2>4, <2>5 DEF AgentWrote
<1>4. CASE Outcome(k, t, c, kind, text) = "written"
  <2> DEFINE v == WriteEntry(Store, {t}, "agent", kind, text)
             w == Remember(v, c)
  <2>1. Commit(w)
    BY <1>4 DEF AgentEntry
  <2>2. MoveOK(Store, {t}, "agent", kind)
    BY <1>1, <1>2, AgentMoves, StoreFields
  <2>3. StoreOK(v) /\ Moved(Store, v, {t}, "agent", kind, text)
    BY <2>2, Wrote, WroteOK
  <2> HIDE DEF v
  <2>4. Kept(v, w, c)
    BY <2>3, Remembers DEF StoreOK
  <2>5. v.claim[c].task = t
    BY <1>1, <2>3, MovedClaim, StoreFields
  <2>6. StoreOK(w)
    BY <2>3, <2>4, <2>5, KeptOK
  <2> HIDE DEF w
  <2>7. Store' = w
    BY <2>1, <2>6, StoreRecord, Commits
  <2> QED
    BY <1>4, <2>2, <2>3, <2>4, <2>6, <2>7 DEF AgentWrote
<1> QED
  BY <1>3, <1>4

LEMMA AgentEntryRests ==
    ASSUME StoreOK(Store), NEW t, NEW c, NEW kind, NEW text, NEW outcome,
           outcome \notin {"limit", "written"}, AgentEntry(t, c, kind, text, outcome)
    PROVE  Store' = Store
BY StoreRecord, Commits DEF AgentEntry

LEMMA Calling ==
    ASSUME StoreOK(Store), NEW k \in Keys, Call(k)
    PROVE  /\ StoreOK(Store')
           /\ \E t \in Tasks, c \in Claims, kind \in Reports \cup {"unclaim"}, text \in Texts :
                 /\ AgentWrote(k, t, c, kind, text)
                 /\ Reaches(k, ProjectOf[t])
                 /\ \/ call' = call
                    \/ /\ Outcome(k, t, c, kind, text) = "written"
                       /\ call' = [call EXCEPT ![k] =
                             [task |-> t, claim |-> c, kind |-> kind, text |-> text,
                              row |-> Len(rows[t]) + 1]]
<1>1. PICK t \in Tasks, c \in Claims, kind \in Reports \cup {"unclaim"}, text \in Texts :
          /\ Outcome(k, t, c, kind, text) \in {"limit", "written"}
          /\ Reaches(k, ProjectOf[t])
          /\ AgentEntry(t, c, kind, text, Outcome(k, t, c, kind, text))
          /\ call' \in {call} \cup
                IF Outcome(k, t, c, kind, text) # "written" \/ Lost = MaxLost THEN {} ELSE
                {[call EXCEPT ![k] = [task |-> t, claim |-> c, kind |-> kind,
                                      text |-> text, row |-> Len(rows[t]) + 1]]}
  BY DEF Call
<1>2. StoreOK(Store') /\ AgentWrote(k, t, c, kind, text)
  BY <1>1, AgentEntryWrites
<1>3. \/ call' = call
      \/ /\ Outcome(k, t, c, kind, text) = "written"
         /\ call' = [call EXCEPT ![k] =
               [task |-> t, claim |-> c, kind |-> kind, text |-> text,
                row |-> Len(rows[t]) + 1]]
  BY <1>1
<1> QED
  BY <1>1, <1>2, <1>3

LEMMA Repeating ==
    ASSUME StoreOK(Store), NEW k \in Keys, Repeat(k), call[k] \in AgentCalls
    PROVE  LET t == call[k].task
               c == call[k].claim
               kind == call[k].kind
               text == call[k].text
           IN  /\ StoreOK(Store')
               /\ \/ Store' = Store
                  \/ AgentWrote(k, t, c, kind, text) /\ Reaches(k, ProjectOf[t])
               /\ call' \in {call, [call EXCEPT ![k] = NoOne]}
<1> DEFINE t == call[k].task
           c == call[k].claim
           kind == call[k].kind
           text == call[k].text
           outcome == IF Reaches(k, ProjectOf[t]) THEN Outcome(k, t, c, kind, text)
                      ELSE "missing"
<1>1. AgentEntry(t, c, kind, text, outcome) /\ call' \in {call, [call EXCEPT ![k] = NoOne]}
  BY DEF Repeat
<1>2. /\ t \in Tasks /\ c \in Claims /\ kind \in Reports \cup {"unclaim"} /\ text \in Texts
  BY DEF AgentCalls
<1>3. CASE outcome \in {"limit", "written"}
  <2>1. Reaches(k, ProjectOf[t]) /\ outcome = Outcome(k, t, c, kind, text)
    BY <1>3
  <2> QED
    BY <1>1, <1>2, <1>3, <2>1, AgentEntryWrites
<1>4. CASE outcome \notin {"limit", "written"}
  BY <1>1, <1>4, AgentEntryRests
<1> QED
  BY <1>3, <1>4

LEMMA TakenRow ==
    ASSUME NEW x \in TaskRows, NEW c, NEW y,
           y = [x EXCEPT !.state = "in_progress", !.claim = c]
    PROVE  y = [state |-> "in_progress", claim |-> c, by |-> x.by, title |-> x.title]
BY DEF TaskRows

LEMMA Claiming ==
    ASSUME StoreOK(Store), NEW k \in Keys, NEW t \in Tasks, Claim(k, t)
    PROVE  /\ StoreOK(Store')
           /\ Reaches(k, ProjectOf[t]) /\ task[t].state = "todo"
           /\ ClaimsSinceReopen(t) < MAX_CLAIMS
           /\ \E c \in Claims : claim[c].end = "unused" /\ Claimed(Store, Store', k, t, c)
<1>1. PICK c \in Claims :
          /\ claim[c].end = "unused"
          /\ task' = [task EXCEPT ![t] = [@ EXCEPT !.state = "in_progress", !.claim = c]]
          /\ claim' = [claim EXCEPT ![c] = [task |-> t, key |-> k, end |-> "live", row |-> 0]]
          /\ rows' = [rows EXCEPT ![t] = Append(@, Entry(c, "claim", "none", TRUE, "none"))]
  BY DEF Claim
<1>2. /\ Reaches(k, ProjectOf[t]) /\ task[t].state = "todo"
      /\ ClaimsSinceReopen(t) < MAX_CLAIMS /\ quiet' = quiet
  <2>1. From("agent", "claim") = {"todo"}
    BY DEF From, Reports
  <2> QED
    BY <2>1 DEF Claim
<1>3. task' = [task EXCEPT ![t] = [state |-> "in_progress", claim |-> c,
                                   by |-> task[t].by, title |-> task[t].title]]
  <2>1. task[t] \in TaskRows
    BY Typed
  <2>2. [task[t] EXCEPT !.state = "in_progress", !.claim = c] =
           [state |-> "in_progress", claim |-> c, by |-> task[t].by, title |-> task[t].title]
    BY <2>1, TakenRow
  <2> QED
    BY <1>1, <2>2
<1>4. Claimed(Store, Store', k, t, c)
  BY <1>1, <1>2, <1>3, StoreFields DEF Claimed
<1>5. StoreOK(Store')
  BY <1>1, <1>2, <1>4, ClaimedOK, StoreFields
<1> QED
  BY <1>1, <1>2, <1>4, <1>5

LEMMA Creating ==
    ASSUME StoreOK(Store), NEW t \in Tasks, NEW k \in Keys \cup {NoOne}, NEW title \in Titles,
           task[t].state = "unmade", Commit(Make(Store, t, k, title))
    PROVE  StoreOK(Store') /\ Made(Store, Store', t, k, title)
<1> DEFINE w == Make(Store, t, k, title)
<1>1. Made(Store, w, t, k, title)
  BY Makes DEF StoreOK
<1>2. StoreOK(w)
  BY <1>1, MadeOK, StoreFields
<1>3. Store' = w
  BY <1>2, StoreRecord, Commits
<1> QED
  BY <1>1, <1>2, <1>3

LEMMA Noting ==
    ASSUME StoreOK(Store), NEW t \in Tasks, NEW agent \in BOOLEAN, NEW kind \in {"edit", "cancel"},
           NEW x \in TaskRows, x.claim = task[t].claim,
           x.state = task[t].state \/ (task[t].state = "todo" /\ x.state = "canceled"),
           kind = "edit" \/ task[t].state = "todo",
           task' = [task EXCEPT ![t] = x],
           rows' = [rows EXCEPT ![t] = Append(@, Entry(NoOne, kind, "none", agent, "none"))],
           claim' = claim, quiet' = quiet
    PROVE  /\ StoreOK(Store')
           /\ Noted(Store, Store', t, Entry(NoOne, kind, "none", agent, "none"))
<1> DEFINE e == Entry(NoOne, kind, "none", agent, "none")
<1>1. e \in EntryRows /\ e.claim = NoOne /\ e.end = "none" /\ e.kind = kind
  BY DEF Entry, EntryRows, EntryKinds
<1> HIDE DEF e
<1>2. task'[t] = x
  BY StoreFields DEF StoreOK, Stores
<1>3. Noted(Store, Store', t, e)
  BY <1>1, <1>2, StoreFields DEF Noted, e
<1>4. StoreOK(Store')
  BY <1>3, NotedOK
<1> QED
  BY <1>3, <1>4 DEF e

LEMMA Editing ==
    ASSUME StoreOK(Store), NEW t \in Tasks, NEW title \in Titles,
           Edit(t, title) \/ \E k \in Keys : AgentEdit(k, t, title)
    PROVE  /\ StoreOK(Store') /\ task'[t].state = task[t].state
           /\ \E agent \in BOOLEAN :
                 Noted(Store, Store', t, Entry(NoOne, "edit", "none", agent, "none"))
<1>1. PICK agent \in BOOLEAN :
          /\ task' = [task EXCEPT ![t].title = title]
          /\ rows' = [rows EXCEPT ![t] = Append(@, Entry(NoOne, "edit", "none", agent, "none"))]
          /\ claim' = claim /\ quiet' = quiet
  BY DEF Edit, AgentEdit
<1> DEFINE x == [task[t] EXCEPT !.title = title]
<1>2. x \in TaskRows /\ x.claim = task[t].claim /\ x.state = task[t].state
  <2>1. task[t] \in TaskRows
    BY Typed
  <2> QED
    BY <2>1 DEF TaskRows
<1>3. task' = [task EXCEPT ![t] = x] /\ task'[t] = x
  BY <1>1, StoreFields DEF StoreOK, Stores
<1> HIDE DEF x
<1> QED
  BY <1>1, <1>2, <1>3, Noting

LEMMA AgentCanceling ==
    ASSUME StoreOK(Store), NEW k \in Keys, NEW t \in Tasks, AgentCancel(k, t)
    PROVE  /\ StoreOK(Store') /\ task[t].state = "todo" /\ task'[t].state = "canceled"
           /\ Noted(Store, Store', t, Entry(NoOne, "cancel", "none", TRUE, "none"))
<1>1. /\ task' = [task EXCEPT ![t].state = "canceled"] /\ task[t].state = "todo"
      /\ rows' = [rows EXCEPT ![t] = Append(@, Entry(NoOne, "cancel", "none", TRUE, "none"))]
      /\ claim' = claim /\ quiet' = quiet
  BY DEF AgentCancel, KeyTodo
<1> DEFINE x == [task[t] EXCEPT !.state = "canceled"]
<1>2. x \in TaskRows /\ x.claim = task[t].claim /\ x.state = "canceled"
  <2>1. task[t] \in TaskRows
    BY Typed
  <2> QED
    BY <2>1 DEF TaskRows, Closed
<1>3. task' = [task EXCEPT ![t] = x] /\ task'[t] = x
  BY <1>1, StoreFields DEF StoreOK, Stores
<1> HIDE DEF x
<1> QED
  BY <1>1, <1>2, <1>3, Noting

LEMMA Moving ==
    ASSUME StoreOK(Store), NEW t \in Tasks,
           NEW kind \in {"answer", "unclaim", "cancel", "reopen"},
           task[t].state \in From("member", kind),
           Commit(WriteEntry(Store, {t}, "member", kind, "none"))
    PROVE  /\ StoreOK(Store') /\ MoveOK(Store, {t}, "member", kind)
           /\ Moved(Store, Store', {t}, "member", kind, "none")
<1> DEFINE w == WriteEntry(Store, {t}, "member", kind, "none")
<1>1. MoveOK(Store, {t}, "member", kind)
  BY MemberMoves
<1>2. Moved(Store, w, {t}, "member", kind, "none") /\ StoreOK(w)
  BY <1>1, Wrote, WroteOK
<1> HIDE DEF w
<1>3. Store' = w
  BY <1>2, StoreRecord, Commits DEF w
<1> QED
  BY <1>1, <1>2, <1>3

LEMMA Discarding ==
    ASSUME StoreOK(Store), NEW t \in Tasks, Discard(t)
    PROVE  StoreOK(Store') /\ Deleted(Store, Store', {t})
<1> DEFINE w == Delete(Store, {t})
<1>1. Deleted(Store, w, {t}) /\ StoreOK(w)
  BY Deletes, DeletedOK DEF StoreOK
<1>2. Commit(w)
  BY DEF Discard
<1> HIDE DEF w
<1>3. Store' = w
  BY <1>1, <1>2, StoreRecord, Commits
<1> QED
  BY <1>1, <1>3

\* 1ctx ends the claims of the tasks S, if there are any
Ended(w, v, S, actor) ==
    /\ S \subseteq Tasks
    /\ \A t \in S : w.task[t].claim # NoOne
    /\ \/ S = {} /\ v = w
       \/ /\ MoveOK(w, S, actor, "unclaim")
          /\ Moved(w, v, S, actor, "unclaim", "none")

LEMMA EndingAccess ==
    ASSUME StoreOK(Store), NEW S \in SUBSET Tasks, \A t \in S : task[t].claim # NoOne,
           Commit(End(Store, S, "access_gone"))
    PROVE  /\ StoreOK(Store') /\ Ended(Store, Store', S, "access_gone")
           /\ Store' = End(Store, S, "access_gone")
<1> DEFINE w == End(Store, S, "access_gone")
<1>1. StoreOK(w) /\ Ended(Store, w, S, "access_gone")
  BY EndsOK, StoreFields DEF Ended
<1> HIDE DEF w
<1>2. Store' = w
  BY <1>1, StoreRecord, Commits DEF w
<1> QED
  BY <1>1, <1>2 DEF w

\* the first transactions of a sweep
LEMMA Ends ==
    ASSUME StoreOK(Store), NEW S \in SUBSET Tasks
    PROVE  LET v == EndClaims(Store)
               w == UnclaimIdle(v, S)
               K == {t \in Tasks : \E k \in Keys : access[k] # "good" /\ t \in HeldBy(k)}
               I == {t \in S : v.task[t].state = "in_progress" /\ v.task[t].claim \in v.quiet}
           IN  /\ StoreOK(v) /\ Ended(Store, v, K, "access_gone")
               /\ StoreOK(w) /\ Ended(v, w, I, "idle")
<1> DEFINE v == EndClaims(Store)
           w == UnclaimIdle(v, S)
           K == {t \in Tasks : \E k \in Keys : access[k] # "good" /\ t \in HeldBy(k)}
           I == {t \in S : v.task[t].state = "in_progress" /\ v.task[t].claim \in v.quiet}
<1>1. v = End(Store, K, "access_gone")
  BY DEF EndClaims
<1>2. K \in SUBSET Tasks /\ \A t \in K : Store.task[t].claim # NoOne
  BY StoreFields DEF HeldBy
<1> HIDE DEF v, K
<1>3. StoreOK(v) /\ Ended(Store, v, K, "access_gone")
  BY <1>1, <1>2, EndsOK DEF Ended
<1>4. w = End(v, I, "idle")
  BY DEF UnclaimIdle
<1>5. I \in SUBSET Tasks /\ \A t \in I : v.task[t].claim # NoOne
  BY <1>3 DEF StoreOK, Mirrors, Held
<1> HIDE DEF w, I
<1>6. StoreOK(w) /\ Ended(v, w, I, "idle")
  BY <1>3, <1>4, <1>5, EndsOK DEF Ended
<1> QED
  BY <1>3, <1>6 DEF v, w, K, I

LEMMA Sweeping ==
    ASSUME StoreOK(Store), Sweep
    PROVE  \E S \in SUBSET Tasks :
              /\ \A t \in S : task[t].state \in Closed
              /\ Deleted(UnclaimIdle(EndClaims(Store), Tasks), Store', S)
              /\ StoreOK(Store')
<1> DEFINE v == UnclaimIdle(EndClaims(Store), Tasks)
<1>1. StoreOK(v)
  BY Ends
<1> HIDE DEF v
<1>2. PICK S \in SUBSET {t \in Tasks : task[t].state \in Closed} : Commit(Delete(v, S))
  BY DEF Sweep, v
<1> DEFINE w == Delete(v, S)
<1>3. Deleted(v, w, S) /\ StoreOK(w)
  BY <1>1, Deletes, DeletedOK DEF StoreOK
<1> HIDE DEF w
<1>4. Store' = w
  BY <1>2, <1>3, StoreRecord, Commits DEF w
<1> QED
  BY <1>2, <1>3, <1>4 DEF v

LEMMA CutSweeping ==
    ASSUME StoreOK(Store), SweepCut
    PROVE  \E S \in SUBSET Tasks :
              Store' = UnclaimIdle(EndClaims(Store), S) /\ StoreOK(Store')
<1>1. PICK S \in SUBSET Tasks : Commit(UnclaimIdle(EndClaims(Store), S))
  BY DEF SweepCut
<1>2. StoreOK(UnclaimIdle(EndClaims(Store), S))
  BY Ends
<1> QED
  BY <1>1, <1>2, StoreRecord, Commits

----------------------------------------------------------------------------
(* The tables agree *)

OthersOK ==
    /\ access \in [Keys -> {"good", "expired", "revoked"}]
    /\ sees \subseteq Users \X Projects
    /\ call \in [Keys -> AgentCalls \cup {NoOne}]

TaskInv == StoreOK(Store) /\ OthersOK

LEMMA TaskInvTypeOK == TaskInv => TypeOK
BY Typed DEF TaskInv, OthersOK, TypeOK

LEMMA TaskInvMirror == TaskInv => ClaimMirror
<1> SUFFICES ASSUME TaskInv, NEW t \in Tasks
             PROVE  /\ task[t].claim # NoOne <=> task[t].state \in Held
                    /\ {c \in Claims : claim[c].task = t /\ claim[c].end = "live"}
                         = {task[t].claim} \ {NoOne}
  BY DEF ClaimMirror
<1>1. /\ task[t].claim # NoOne <=> task[t].state \in Held
      /\ task[t].claim # NoOne =>
            /\ claim[task[t].claim].task = t
            /\ claim[task[t].claim].end = "live"
      /\ \A c \in Claims : claim[c].task = t /\ claim[c].end = "live" => task[t].claim = c
  BY StoreFields DEF TaskInv, StoreOK, Mirrors
<1>2. task[t].claim \in Claims \cup {NoOne}
  BY Typed DEF TaskInv, TaskRows
<1> QED
  BY <1>1, <1>2, NoOnes

LEMMA TaskInvInit == Init => TaskInv
<1> SUFFICES ASSUME Init PROVE TaskInv
  OBVIOUS
<1>1. task \in [Tasks -> TaskRows] /\ claim \in [Claims -> ClaimRows]
  BY DEF Init, TaskRows, ClaimRows
<1>2. rows \in [Tasks -> Seq(EntryRows)] /\ quiet \subseteq Claims
  <2> DEFINE X == Seq(EntryRows)
  <2>1. <<>> \in X
    OBVIOUS
  <2> HIDE DEF X
  <2>2. rows \in [Tasks -> X]
    BY <2>1 DEF Init
  <2> QED
    BY <2>2 DEF X, Init
<1>3. Store \in Stores
  BY <1>1, <1>2 DEF Store, Stores
<1>4. Mirrors(Store)
  BY StoreFields DEF Init, Mirrors, Held
<1>5. OthersOK
  BY DEF Init, OthersOK
<1> QED
  BY <1>3, <1>4, <1>5 DEF TaskInv, StoreOK

LEMMA CallTyped ==
    ASSUME TaskInv, NEW k \in Keys, Call(k)
    PROVE  call' \in [Keys -> AgentCalls \cup {NoOne}]
<1>1. PICK t \in Tasks, c \in Claims, kind \in Reports \cup {"unclaim"}, text \in Texts :
          \/ call' = call
          \/ call' = [call EXCEPT ![k] =
                        [task |-> t, claim |-> c, kind |-> kind, text |-> text,
                         row |-> Len(rows[t]) + 1]]
  BY Calling DEF TaskInv
<1>2. Len(rows[t]) + 1 \in Nat
  BY Typed, LenProperties DEF TaskInv
<1>3. [task |-> t, claim |-> c, kind |-> kind, text |-> text, row |-> Len(rows[t]) + 1]
        \in AgentCalls
  BY <1>2 DEF AgentCalls
<1> QED
  BY <1>1, <1>3 DEF TaskInv, OthersOK

LEMMA TaskInvNext == TaskInv /\ [Next]_vars => TaskInv'
<1> SUFFICES ASSUME TaskInv, [Next]_vars PROVE StoreOK(Store') /\ OthersOK'
  BY DEF TaskInv
<1> USE DEF TaskInv
<1>1. ASSUME NEW k \in Keys, Call(k) PROVE StoreOK(Store') /\ OthersOK'
  BY <1>1, Calling, CallTyped DEF OthersOK, Call
<1>2. ASSUME NEW k \in Keys, Repeat(k) PROVE StoreOK(Store') /\ OthersOK'
  <2>1. call[k] \in AgentCalls
    BY <1>2 DEF OthersOK, Repeat
  <2>2. StoreOK(Store') /\ call' \in {call, [call EXCEPT ![k] = NoOne]}
    BY <1>2, <2>1, Repeating
  <2> QED
    BY <1>2, <2>2 DEF OthersOK, Repeat
<1>3. ASSUME NEW k \in Keys, Expire(k) PROVE StoreOK(Store') /\ OthersOK'
  BY <1>3, StoreFields DEF Expire, OthersOK, Store
<1>4. ASSUME NEW k \in Keys, NEW t \in Tasks, Claim(k, t) PROVE StoreOK(Store') /\ OthersOK'
  BY <1>4, Claiming DEF OthersOK, Claim
<1>5. ASSUME NEW k \in Keys, NEW t \in Tasks, AgentCancel(k, t)
      PROVE  StoreOK(Store') /\ OthersOK'
  BY <1>5, AgentCanceling DEF OthersOK, AgentCancel
<1>6. ASSUME NEW k \in Keys, NEW t \in Tasks, NEW title \in Titles, AgentCreate(k, t, title)
      PROVE  StoreOK(Store') /\ OthersOK'
  BY <1>6, Creating DEF OthersOK, AgentCreate
<1>7. ASSUME NEW k \in Keys, NEW t \in Tasks, NEW title \in Titles, AgentEdit(k, t, title)
      PROVE  StoreOK(Store') /\ OthersOK'
  BY <1>7, Editing DEF OthersOK, AgentEdit
<1>8. ASSUME NEW t \in Tasks, NEW title \in Titles, Create(t, title)
      PROVE  StoreOK(Store') /\ OthersOK'
  BY <1>8, Creating DEF OthersOK, Create
<1>9. ASSUME NEW t \in Tasks, NEW title \in Titles, Edit(t, title)
      PROVE  StoreOK(Store') /\ OthersOK'
  BY <1>9, Editing DEF OthersOK, Edit
<1>10. ASSUME NEW t \in Tasks, Reopen(t) PROVE StoreOK(Store') /\ OthersOK'
  <2>1. task[t].state \in From("member", "reopen")
    BY <1>10 DEF Reopen, From, Reports
  <2> QED
    BY <1>10, <2>1, Moving DEF OthersOK, Reopen
<1>11. ASSUME NEW t \in Tasks, Discard(t) PROVE StoreOK(Store') /\ OthersOK'
  BY <1>11, Discarding DEF OthersOK, Discard
<1>12. ASSUME NEW t \in Tasks, NEW kind \in {"answer", "unclaim", "cancel"}, Move(t, kind)
       PROVE  StoreOK(Store') /\ OthersOK'
  BY <1>12, Moving DEF OthersOK, Move
<1>13. ASSUME NEW K \in SUBSET Keys, Revoke(K) PROVE StoreOK(Store') /\ OthersOK'
  <2>1. UNION {HeldBy(k) : k \in K} \in SUBSET Tasks
        /\ \A t \in UNION {HeldBy(k) : k \in K} : task[t].claim # NoOne
    BY DEF HeldBy
  <2> QED
    BY <1>13, <2>1, EndingAccess DEF OthersOK, Revoke
<1>14. ASSUME NEW u \in Users, NEW p \in Projects, LoseProject(u, p)
       PROVE  StoreOK(Store') /\ OthersOK'
  <2> DEFINE S == {t \in Tasks : ProjectOf[t] = p /\
                             \E k \in Keys : UserOf[k] = u /\ t \in HeldBy(k)}
  <2>1. S \in SUBSET Tasks /\ \A t \in S : task[t].claim # NoOne
    BY DEF HeldBy
  <2>2. Commit(End(Store, S, "access_gone")) /\ sees' \subseteq sees
        /\ access' = access /\ call' = call
    BY <1>14 DEF LoseProject
  <2> HIDE DEF S
  <2> QED
    BY <2>1, <2>2, EndingAccess DEF OthersOK
<1>15. ASSUME NEW c \in Claims, Quieten(c) PROVE StoreOK(Store') /\ OthersOK'
  <2>1. task' = task /\ claim' = claim /\ rows' = rows /\ quiet' = quiet \cup {c}
    BY <1>15 DEF Quieten
  <2>2. Store' \in Stores
    BY <2>1, StoreFields, Typed DEF Stores
  <2>3. Mirrors(Store')
    BY <2>1, StoreFields DEF StoreOK, Mirrors
  <2> QED
    BY <1>15, <2>2, <2>3 DEF Quieten, OthersOK, StoreOK
<1>16. CASE Sweep
  BY <1>16, Sweeping DEF OthersOK, Sweep
<1>17. CASE SweepCut
  BY <1>17, CutSweeping DEF OthersOK, SweepCut
<1>18. CASE UNCHANGED vars
  BY <1>18 DEF OthersOK, vars, Store
<1> QED
  BY <1>1, <1>2, <1>3, <1>4, <1>5, <1>6, <1>7, <1>8, <1>9, <1>10, <1>11, <1>12, <1>13, <1>14,
     <1>15, <1>16, <1>17, <1>18 DEF Next

LEMMA TaskInvHolds == Spec => []TaskInv
BY TaskInvInit, TaskInvNext, PTL DEF Spec

\* Types: TypeOK of ExternalTasks, over any number of keys, tasks and claims.
THEOREM TasksTyped == Spec => []TypeOK
BY TaskInvHolds, TaskInvTypeOK, PTL

\* The task table and the claim table say the same (writes.ts writeEntry(),
\* actions.ts claim()): a task holds a claim exactly while an agent works on it
\* or it waits for an answer, and that claim is the only open one it has.
THEOREM ClaimsMirrored == Spec => []ClaimMirror
BY TaskInvHolds, TaskInvMirror, PTL

----------------------------------------------------------------------------
(* A claim ends once *)

InUse(w, c) == w.claim[c].end \notin {"unused", "gone"}

\* what an entry that names a claim is
Names(e) == e.kind # "edit" /\ (e.agent \/ e.end # "none")

\* an entry names a claim of its own task
RowsNamed(w) ==
    \A t \in Tasks : \A i \in DOMAIN w.rows[t] :
        LET c == w.rows[t][i].claim
        IN  c # NoOne => InUse(w, c) /\ w.claim[c].task = t /\ Names(w.rows[t][i])

\* no entry ends a live claim, and the last one of an ended claim ended it
OwnRowsEnd(w, c, t) ==
    IF w.claim[c].end = "live"
    THEN \A i \in DOMAIN w.rows[t] : w.rows[t][i].claim = c => w.rows[t][i].end = "none"
    ELSE \E i \in DOMAIN w.rows[t] :
            /\ w.rows[t][i].claim = c /\ w.rows[t][i].end = w.claim[c].end
            /\ \A j \in DOMAIN w.rows[t] :
                  w.rows[t][j].claim = c /\ j # i => j < i /\ w.rows[t][j].end = "none"

RowsEnd(w) ==
    \A c \in Claims : InUse(w, c) =>
        w.claim[c].task \in Tasks /\ OwnRowsEnd(w, c, w.claim[c].task)

\* only answers and edits come between the entries of a live claim, or after
RowsAfter(w) ==
    \A c \in Claims : w.claim[c].end = "live" =>
        LET t == w.claim[c].task
        IN  \A i, j \in DOMAIN w.rows[t] :
                i < j /\ w.rows[t][i].claim = c /\ w.rows[t][j].claim # c =>
                    w.rows[t][j].kind \in {"answer", "edit"}

RowsOK(w) == RowsNamed(w) /\ RowsEnd(w) /\ RowsAfter(w)

LEMMA Appends ==
    ASSUME NEW s \in Seq(EntryRows), NEW e
    PROVE  /\ Len(s) \in Nat /\ DOMAIN s = 1..Len(s)
           /\ DOMAIN Append(s, e) = DOMAIN s \cup {Len(s) + 1}
           /\ Len(s) + 1 \notin DOMAIN s
           /\ Append(s, e)[Len(s) + 1] = e
           /\ \A i \in DOMAIN s : i \in Nat /\ i < Len(s) + 1 /\ Append(s, e)[i] = s[i]
OBVIOUS

\* what an entry e of t says of the claims
Fits(w, v, t, e) ==
    /\ e \in EntryRows
    /\ e.claim # NoOne =>
          /\ InUse(v, e.claim) /\ v.claim[e.claim].task = t /\ Names(e)
          /\ w.claim[e.claim].end \in {"unused", "live"}
          /\ v.claim[e.claim].end = IF e.end = "none" THEN "live" ELSE e.end
    /\ \A d \in Claims : v.claim[d].task = t /\ v.claim[d].end = "live" =>
          e.claim = d \/ e.kind \in {"answer", "edit"}

\* what may become of a claim
ClaimGoesOn(w, v, c) ==
    /\ InUse(w, c) => InUse(v, c) /\ v.claim[c].task = w.claim[c].task
    /\ \/ v.claim[c].end = w.claim[c].end
       \/ /\ w.claim[c].end = "unused" /\ v.claim[c].end = "live"
          /\ v.claim[c].task \in Tasks
       \/ /\ w.claim[c].end = "live" /\ v.claim[c].end \in ClaimEnds
          /\ \E e \in EntryRows :
                /\ e.claim = c /\ e.end = v.claim[c].end
                /\ v.rows[w.claim[c].task] = Append(w.rows[w.claim[c].task], e)

LEMMA RowsGrow ==
    ASSUME NEW w, NEW v, w.rows \in [Tasks -> Seq(EntryRows)], RowsOK(w),
           \A t \in Tasks :
              \/ v.rows[t] = w.rows[t]
              \/ \E e : v.rows[t] = Append(w.rows[t], e) /\ Fits(w, v, t, e),
           \A c \in Claims : ClaimGoesOn(w, v, c)
    PROVE  RowsOK(v)
<1>0. \A t \in Tasks : w.rows[t] \in Seq(EntryRows)
  OBVIOUS
<1>a. ASSUME NEW t \in Tasks, NEW i \in DOMAIN w.rows[t]
      PROVE  i \in DOMAIN v.rows[t] /\ v.rows[t][i] = w.rows[t][i]
  <2>1. CASE v.rows[t] = w.rows[t]
    BY <2>1
  <2>2. ASSUME NEW e, v.rows[t] = Append(w.rows[t], e)
        PROVE  i \in DOMAIN v.rows[t] /\ v.rows[t][i] = w.rows[t][i]
    <3>1. w.rows[t] \in Seq(EntryRows)
      BY <1>0
    <3> QED
      BY <2>2, <3>1, Appends
  <2> QED
    BY <2>1, <2>2
<1>b. ASSUME NEW t \in Tasks, NEW i \in DOMAIN v.rows[t], i \notin DOMAIN w.rows[t]
      PROVE  \E e : /\ v.rows[t] = Append(w.rows[t], e) /\ Fits(w, v, t, e)
                    /\ v.rows[t][i] = e /\ i = Len(w.rows[t]) + 1
                    /\ \A j \in DOMAIN w.rows[t] : j < i
                    /\ \A j \in DOMAIN v.rows[t] : j = i \/ j \in DOMAIN w.rows[t]
  <2>1. v.rows[t] # w.rows[t]
    BY <1>b
  <2>2. PICK e : v.rows[t] = Append(w.rows[t], e) /\ Fits(w, v, t, e)
    BY <2>1
  <2> QED
    BY <1>0, <1>b, <2>2, Appends
<1>c. ASSUME NEW t \in Tasks, NEW i \in DOMAIN w.rows[t], w.rows[t][i].claim # NoOne
      PROVE  /\ InUse(w, w.rows[t][i].claim) /\ w.claim[w.rows[t][i].claim].task = t
             /\ Names(w.rows[t][i])
  BY <1>c DEF RowsOK, RowsNamed
<1>d. \A t \in Tasks : \A i \in DOMAIN w.rows[t] : w.rows[t][i] \in EntryRows
  BY <1>0
<1>1. RowsNamed(v)
  <2> SUFFICES ASSUME NEW t \in Tasks, NEW i \in DOMAIN v.rows[t], v.rows[t][i].claim # NoOne
               PROVE  /\ InUse(v, v.rows[t][i].claim)
                      /\ v.claim[v.rows[t][i].claim].task = t
                      /\ Names(v.rows[t][i])
    BY DEF RowsNamed
  <2>1. CASE i \in DOMAIN w.rows[t]
    <3>1. v.rows[t][i] = w.rows[t][i] /\ w.rows[t][i].claim \in Claims
      BY <1>a, <1>d, <2>1 DEF EntryRows
    <3> DEFINE c == w.rows[t][i].claim
    <3>2. c \in Claims /\ c # NoOne
      BY <3>1
    <3>3. InUse(w, c) /\ w.claim[c].task = t /\ Names(w.rows[t][i])
      BY <1>c, <2>1, <3>2
    <3>4. InUse(v, c) /\ v.claim[c].task = t
      BY <3>2, <3>3 DEF ClaimGoesOn
    <3>5. v.rows[t][i].claim = c
      BY <3>1
    <3>6. Names(v.rows[t][i])
      BY <3>1, <3>3
    <3> HIDE DEF c
    <3> QED
      BY <3>4, <3>5, <3>6
  <2>2. CASE i \notin DOMAIN w.rows[t]
    <3>1. PICK e : Fits(w, v, t, e) /\ v.rows[t][i] = e
      BY <1>b, <2>2
    <3>2. e.claim # NoOne
      BY <3>1
    <3>3. InUse(v, e.claim) /\ v.claim[e.claim].task = t /\ Names(e)
      BY <3>1, <3>2 DEF Fits
    <3> QED
      BY <3>1, <3>3
  <2> QED
    BY <2>1, <2>2
<1>2. RowsEnd(v)
  <2> SUFFICES ASSUME NEW c \in Claims, InUse(v, c)
               PROVE  v.claim[c].task \in Tasks /\ OwnRowsEnd(v, c, v.claim[c].task)
    BY DEF RowsEnd
  <2> DEFINE t == v.claim[c].task
  <2>a. "live" \notin ClaimEnds /\ "none" \notin ClaimEnds
    BY DEF ClaimEnds
  <2>1. CASE v.claim[c].end = w.claim[c].end
    <3>1. InUse(w, c) /\ w.claim[c].task = t
      BY <2>1 DEF InUse, ClaimGoesOn
    <3>2. t \in Tasks /\ OwnRowsEnd(w, c, t)
      BY <3>1 DEF RowsOK, RowsEnd
    <3> HIDE DEF t
    <3>3. CASE v.claim[c].end = "live"
      <4> SUFFICES ASSUME NEW i \in DOMAIN v.rows[t], v.rows[t][i].claim = c
                   PROVE  v.rows[t][i].end = "none"
        BY <3>2, <3>3 DEF t, OwnRowsEnd
      <4>1. CASE i \in DOMAIN w.rows[t]
        BY <1>a, <2>1, <3>2, <3>3, <4>1 DEF OwnRowsEnd
      <4>2. CASE i \notin DOMAIN w.rows[t]
        <5>1. PICK e : Fits(w, v, t, e) /\ v.rows[t][i] = e
          BY <1>b, <3>2, <4>2
        <5>2. v.claim[c].end = IF e.end = "none" THEN "live" ELSE e.end
          BY <5>1, NoOnes DEF Fits
        <5>3. e.end \in ClaimEnds \cup {"none"}
          BY <5>1 DEF Fits, EntryRows
        <5> QED
          BY <2>a, <3>3, <5>1, <5>2, <5>3
      <4> QED
        BY <4>1, <4>2
    <3>4. CASE v.claim[c].end # "live"
      <4>1. PICK i \in DOMAIN w.rows[t] :
                /\ w.rows[t][i].claim = c /\ w.rows[t][i].end = w.claim[c].end
                /\ \A j \in DOMAIN w.rows[t] :
                      w.rows[t][j].claim = c /\ j # i => j < i /\ w.rows[t][j].end = "none"
        BY <2>1, <3>2, <3>4 DEF OwnRowsEnd
      <4>2. ASSUME NEW j \in DOMAIN v.rows[t], v.rows[t][j].claim = c
            PROVE  j \in DOMAIN w.rows[t]
        <5> SUFFICES ASSUME j \notin DOMAIN w.rows[t] PROVE FALSE
          OBVIOUS
        <5>1. PICK e : Fits(w, v, t, e) /\ v.rows[t][j] = e
          BY <1>b, <3>2
        <5>2. w.claim[c].end \in {"unused", "live"}
          BY <4>2, <5>1, NoOnes DEF Fits
        <5> QED
          BY <2>1, <3>1, <3>4, <5>2 DEF InUse
      <4>3. i \in DOMAIN v.rows[t] /\ v.rows[t][i] = w.rows[t][i]
        BY <1>a, <3>2
      <4>4. ASSUME NEW j \in DOMAIN v.rows[t], v.rows[t][j].claim = c, j # i
            PROVE  j < i /\ v.rows[t][j].end = "none"
        BY <1>a, <3>2, <4>1, <4>2, <4>4
      <4>5. OwnRowsEnd(v, c, t)
        BY <2>1, <3>4, <4>1, <4>3, <4>4 DEF OwnRowsEnd
      <4> QED
        BY <3>2, <4>5 DEF t
    <3> QED
      BY <3>3, <3>4
  <2>2. CASE w.claim[c].end = "unused" /\ v.claim[c].end = "live" /\ t \in Tasks
    <3> HIDE DEF t
    <3> SUFFICES ASSUME NEW i \in DOMAIN v.rows[t], v.rows[t][i].claim = c
                 PROVE  v.rows[t][i].end = "none"
      BY <2>2 DEF t, OwnRowsEnd
    <3>1. i \notin DOMAIN w.rows[t]
      <4> SUFFICES ASSUME i \in DOMAIN w.rows[t] PROVE FALSE
        OBVIOUS
      <4>1. w.rows[t][i].claim = c
        BY <1>a, <2>2
      <4>2. InUse(w, c)
        BY <1>c, <2>2, <4>1, NoOnes
      <4> QED
        BY <2>2, <4>2 DEF InUse
    <3>2. PICK e : Fits(w, v, t, e) /\ v.rows[t][i] = e
      BY <1>b, <2>2, <3>1
    <3>3. v.claim[c].end = IF e.end = "none" THEN "live" ELSE e.end
      BY <3>2, NoOnes DEF Fits
    <3>4. e.end \in ClaimEnds \cup {"none"}
      BY <3>2 DEF Fits, EntryRows
    <3> QED
      BY <2>a, <2>2, <3>2, <3>3, <3>4
  <2>3. ASSUME w.claim[c].end = "live", v.claim[c].end \in ClaimEnds,
               NEW e \in EntryRows, e.claim = c, e.end = v.claim[c].end,
               v.rows[w.claim[c].task] = Append(w.rows[w.claim[c].task], e)
        PROVE  v.claim[c].task \in Tasks /\ OwnRowsEnd(v, c, v.claim[c].task)
    <3>1. InUse(w, c) /\ w.claim[c].task = t
      BY <2>3 DEF InUse, ClaimGoesOn
    <3>2. t \in Tasks /\ OwnRowsEnd(w, c, t) /\ v.rows[t] = Append(w.rows[t], e)
      BY <2>3, <3>1 DEF RowsOK, RowsEnd
    <3> HIDE DEF t
    <3> DEFINE n == Len(w.rows[t]) + 1
    <3>3. /\ n \in DOMAIN v.rows[t] /\ v.rows[t][n] = e
          /\ \A j \in DOMAIN v.rows[t] : j # n => j \in DOMAIN w.rows[t] /\ j < n
      BY <1>0, <3>2, Appends
    <3> HIDE DEF n
    <3>4. ASSUME NEW j \in DOMAIN v.rows[t], v.rows[t][j].claim = c, j # n
          PROVE  j < n /\ v.rows[t][j].end = "none"
      <4>1. j \in DOMAIN w.rows[t] /\ j < n
        BY <3>3, <3>4
      <4>2. v.rows[t][j] = w.rows[t][j]
        BY <1>a, <3>2, <4>1
      <4> QED
        BY <2>3, <3>2, <3>4, <4>1, <4>2 DEF OwnRowsEnd
    <3>5. OwnRowsEnd(v, c, t)
      BY <2>a, <2>3, <3>3, <3>4 DEF OwnRowsEnd
    <3> QED
      BY <3>2, <3>5 DEF t
  <2> QED
    BY <2>1, <2>2, <2>3 DEF ClaimGoesOn
<1>3. RowsAfter(v)
  <2> SUFFICES ASSUME NEW c \in Claims, v.claim[c].end = "live",
                      NEW i \in DOMAIN v.rows[v.claim[c].task],
                      NEW j \in DOMAIN v.rows[v.claim[c].task],
                      i < j, v.rows[v.claim[c].task][i].claim = c,
                      v.rows[v.claim[c].task][j].claim # c
               PROVE  v.rows[v.claim[c].task][j].kind \in {"answer", "edit"}
    BY DEF RowsAfter
  <2> DEFINE t == v.claim[c].task
  <2>1. t \in Tasks
    BY <1>2 DEF RowsEnd, InUse
  <2> HIDE DEF t
  <2>a. /\ i \in DOMAIN v.rows[t] /\ j \in DOMAIN v.rows[t]
        /\ v.rows[t][i].claim = c /\ v.rows[t][j].claim # c
    BY DEF t
  <2>2. CASE j \in DOMAIN w.rows[t]
    <3>1. i \in DOMAIN w.rows[t]
      <4>1. i \notin DOMAIN w.rows[t] => j < i
        BY <1>b, <2>1, <2>2, <2>a
      <4> QED
        BY <1>0, <1>b, <2>1, <2>2, <2>a, <4>1, Appends
    <3>2. InUse(w, c) /\ w.claim[c].task = t
      <4>1. w.rows[t][i].claim = c /\ c # NoOne
        BY <1>a, <2>1, <2>a, <3>1, NoOnes
      <4> QED
        BY <1>c, <2>1, <3>1, <4>1
    <3>3. w.claim[c].end = "live"
      BY <3>2 DEF ClaimGoesOn, InUse, ClaimEnds
    <3>4. w.rows[t][j].kind \in {"answer", "edit"}
      <4>1. w.rows[t][i].claim = c /\ w.rows[t][j].claim # c
        BY <1>a, <2>1, <2>2, <2>a, <3>1
      <4>2. RowsAfter(w)
        BY DEF RowsOK
      <4> QED
        BY <2>2, <3>1, <3>2, <3>3, <4>1, <4>2 DEF RowsAfter
    <3> QED
      BY <1>a, <2>1, <2>2, <3>4 DEF t
  <2>3. CASE j \notin DOMAIN w.rows[t]
    <3>1. PICK e : Fits(w, v, t, e) /\ v.rows[t][j] = e
      BY <1>b, <2>1, <2>3, <2>a
    <3> QED
      BY <2>a, <3>1 DEF Fits, t
  <2> QED
    BY <2>2, <2>3
<1> QED
  BY <1>1, <1>2, <1>3 DEF RowsOK

\* what a move makes of a claim, in words
LEMMA MovedEnd ==
    ASSUME NEW w, StoreOK(w), NEW S, NEW actor, NEW kind, MoveOK(w, S, actor, kind),
           NEW text, NEW v, Moved(w, v, S, actor, kind, text), NEW c \in Claims
    PROVE  \/ /\ v.claim[c] = w.claim[c]
              /\ \A t \in S : w.task[t].claim = c => EndAt(w, t, actor, kind) = "none"
           \/ \E t \in S :
                 /\ w.task[t].claim = c /\ w.claim[c].task = t /\ w.claim[c].end = "live"
                 /\ v.claim[c].end = EndAt(w, t, actor, kind)
                 /\ v.claim[c].end \in ClaimEnds
<1>1. \A d \in Claims :
          \/ /\ v.claim[d] = w.claim[d]
             /\ \A t \in S : w.task[t].claim = d => EndAt(w, t, actor, kind) = "none"
          \/ \E t \in S :
                /\ w.task[t].claim = d /\ w.claim[d].task = t
                /\ EndAt(w, t, actor, kind) # "none"
                /\ v.claim[d] = [w.claim[d] EXCEPT !.end = EndAt(w, t, actor, kind)]
  BY DEF Moved
<1>2. ASSUME NEW t \in S, w.task[t].claim = c, w.claim[c].task = t,
             EndAt(w, t, actor, kind) # "none",
             v.claim[c] = [w.claim[c] EXCEPT !.end = EndAt(w, t, actor, kind)]
      PROVE  /\ w.claim[c].end = "live" /\ v.claim[c].end = EndAt(w, t, actor, kind)
             /\ v.claim[c].end \in ClaimEnds
  <2>1. w.claim[c] \in ClaimRows
    BY DEF StoreOK, Stores
  <2>2. v.claim[c].end = EndAt(w, t, actor, kind)
    BY <1>2, <2>1 DEF ClaimRows
  <2>3. EndAt(w, t, actor, kind) \in ClaimEnds
    BY <1>2 DEF MoveOK
  <2>4. t \in Tasks
    BY DEF MoveOK
  <2>5. w.claim[c].end = "live"
    BY <1>2, <2>4, NoOnes DEF StoreOK, Mirrors
  <2> QED
    BY <2>2, <2>3, <2>5
<1> QED
  BY <1>1, <1>2

LEMMA MovedRows ==
    ASSUME NEW w, StoreOK(w), RowsOK(w), NEW S, NEW actor, NEW kind, MoveOK(w, S, actor, kind),
           NEW text \in Texts \cup {"none"}, NEW v, Moved(w, v, S, actor, kind, text)
    PROVE  RowsOK(v)
<1> DEFINE E(t) == EndAt(w, t, actor, kind)
           e(t) == Entry(IF NamesClaim(actor, E(t) # "none") THEN w.task[t].claim ELSE NoOne,
                         kind, text, actor = "agent", E(t))
<1>1. w.rows \in [Tasks -> Seq(EntryRows)]
  BY DEF StoreOK, Stores
<1>2. ASSUME NEW t \in S
      PROVE  v.rows[t] = Append(w.rows[t], e(t))
  BY DEF Moved
<1>3. \A t \in Tasks \ S : v.rows[t] = w.rows[t]
  BY DEF Moved
<1>4. ASSUME NEW t \in S
      PROVE  /\ t \in Tasks /\ w.task[t].claim \in Claims \cup {NoOne}
             /\ E(t) \in ClaimEnds \cup {"none"} /\ E(t) # "live"
             /\ kind \in EntryKinds
             /\ w.task[t].claim = NoOne => E(t) = "none"
             /\ E(t) = "none" /\ w.task[t].claim # NoOne => actor = "agent" \/ kind = "answer"
  <2>1. t \in Tasks
    BY DEF MoveOK
  <2>2. w.task[t].claim \in Claims \cup {NoOne}
    BY <2>1 DEF StoreOK, Stores, TaskRows
  <2>3. w.task[t].claim # NoOne <=> w.task[t].state \in Held
    BY <2>1 DEF StoreOK, Mirrors
  <2> QED
    BY <2>1, <2>2, <2>3 DEF MoveOK, ClaimEnds
<1>5. ASSUME NEW t \in S
      PROVE  /\ e(t) \in EntryRows /\ e(t).end = E(t) /\ e(t).kind = kind
             /\ e(t).claim = IF actor = "agent" \/ E(t) # "none" THEN w.task[t].claim ELSE NoOne
             /\ e(t).agent = (actor = "agent") /\ kind # "edit"
  <2> DEFINE c == IF NamesClaim(actor, E(t) # "none") THEN w.task[t].claim ELSE NoOne
  <2>1. c \in Claims \cup {NoOne}
    BY <1>4
  <2>2. c = IF actor = "agent" \/ E(t) # "none" THEN w.task[t].claim ELSE NoOne
    BY DEF NamesClaim
  <2>3. E(t) \in ClaimEnds \cup {"none"} /\ kind \in EntryKinds
    BY <1>4
  <2>4. e(t) = Entry(c, kind, text, actor = "agent", E(t))
    OBVIOUS
  <2> HIDE DEF c, E, e
  <2>5. e(t) = [claim |-> c, kind |-> kind, text |-> text, agent |-> actor = "agent", end |-> E(t)]
    BY <2>4 DEF Entry
  <2>6. e(t).end = E(t) /\ e(t).kind = kind /\ e(t).claim = c /\ e(t).agent = (actor = "agent")
    BY <2>5
  <2>8. kind # "edit"
    BY DEF MoveOK
  <2>7. e(t) \in EntryRows
    BY <2>1, <2>3, <2>5 DEF EntryRows
  <2> QED
    BY <2>2, <2>6, <2>7, <2>8
<1> HIDE DEF E, e
<1>m. \A c \in Claims : v.claim[c].task = w.claim[c].task
  BY MovedClaim
<1>6. ASSUME NEW t \in S
      PROVE  Fits(w, v, t, e(t))
  <2>1. ASSUME e(t).claim # NoOne
        PROVE  /\ InUse(v, e(t).claim) /\ v.claim[e(t).claim].task = t
               /\ w.claim[e(t).claim].end = "live"
               /\ v.claim[e(t).claim].end = IF e(t).end = "none" THEN "live" ELSE e(t).end
    <3> DEFINE c == w.task[t].claim
    <3>1. e(t).claim = c /\ c # NoOne /\ c \in Claims
      BY <1>4, <1>5, <2>1
    <3>2. w.claim[c].task = t /\ w.claim[c].end = "live"
      BY <1>4, <3>1 DEF StoreOK, Mirrors
    <3>3. \A u \in S : w.task[u].claim = c => u = t
      BY <1>4, <3>1, <3>2 DEF StoreOK, Mirrors
    <3>4. v.claim[c].task = t
      BY <1>m, <3>1, <3>2
    <3>5. v.claim[c].end = IF E(t) = "none" THEN "live" ELSE E(t)
      <4>1. \/ /\ v.claim[c] = w.claim[c]
               /\ \A u \in S : w.task[u].claim = c => E(u) = "none"
            \/ \E u \in S : /\ w.task[u].claim = c /\ v.claim[c].end = E(u)
                            /\ v.claim[c].end \in ClaimEnds
        BY <3>1, MovedEnd DEF E
      <4> QED
        BY <3>1, <3>2, <3>3, <4>1 DEF ClaimEnds
    <3>6. InUse(v, c)
      BY <1>4, <3>5 DEF InUse, ClaimEnds
    <3> QED
      BY <1>5, <3>1, <3>2, <3>4, <3>5, <3>6
  <2>3. e(t).claim # NoOne => Names(e(t))
    BY <1>5 DEF Names
  <2>2. ASSUME NEW d \in Claims, v.claim[d].task = t, v.claim[d].end = "live"
        PROVE  e(t).claim = d \/ e(t).kind \in {"answer", "edit"}
    <3>1. v.claim[d] = w.claim[d] /\ \A u \in S : w.task[u].claim = d => E(u) = "none"
      BY <2>2, MovedEnd DEF E, ClaimEnds
    <3>2. w.task[t].claim = d
      BY <1>4, <2>2, <3>1 DEF StoreOK, Mirrors
    <3> QED
      BY <1>4, <1>5, <3>1, <3>2, NoOnes
  <2> QED
    BY <1>5, <2>1, <2>2, <2>3 DEF Fits
<1>7. ASSUME NEW c \in Claims
      PROVE  ClaimGoesOn(w, v, c)
  <2>1. v.claim[c].task = w.claim[c].task
    BY MovedClaim
  <2>2. CASE v.claim[c] = w.claim[c]
    BY <2>2 DEF ClaimGoesOn, InUse
  <2>3. ASSUME NEW t \in S, w.task[t].claim = c, w.claim[c].task = t, w.claim[c].end = "live",
               v.claim[c].end = E(t), v.claim[c].end \in ClaimEnds
        PROVE  ClaimGoesOn(w, v, c)
    <3>1. E(t) # "none"
      BY <2>3 DEF ClaimEnds
    <3>2. e(t) \in EntryRows /\ e(t).claim = c /\ e(t).end = v.claim[c].end
      BY <1>5, <2>3, <3>1
    <3>3. v.rows[w.claim[c].task] = Append(w.rows[w.claim[c].task], e(t))
      BY <1>2, <2>3
    <3>4. InUse(v, c)
      BY <2>3 DEF InUse, ClaimEnds
    <3> QED
      BY <2>1, <2>3, <3>2, <3>3, <3>4 DEF ClaimGoesOn
  <2> QED
    BY <2>2, <2>3, MovedEnd DEF E
<1>8. \A t \in Tasks : \/ v.rows[t] = w.rows[t]
                       \/ \E x : v.rows[t] = Append(w.rows[t], x) /\ Fits(w, v, t, x)
  BY <1>2, <1>3, <1>6
<1> QED
  BY <1>1, <1>7, <1>8, RowsGrow

\* tables whose rows and claims are those of w, a claim's row number apart
LEMMA SameRows ==
    ASSUME NEW w, NEW v, RowsOK(w), v.rows = w.rows,
           \A c \in Claims : v.claim[c].task = w.claim[c].task /\ v.claim[c].end = w.claim[c].end,
           w.rows \in [Tasks -> Seq(EntryRows)]
    PROVE  RowsOK(v)
BY RowsGrow DEF ClaimGoesOn, InUse

LEMMA KeptRows ==
    ASSUME NEW w, StoreOK(w), RowsOK(w), NEW c \in Claims, NEW v, Kept(w, v, c)
    PROVE  RowsOK(v)
<1>1. w.claim \in [Claims -> ClaimRows] /\ w.rows \in [Tasks -> Seq(EntryRows)]
  BY DEF StoreOK, Stores
<1>2. \A d \in Claims : v.claim[d].task = w.claim[d].task /\ v.claim[d].end = w.claim[d].end
  BY <1>1 DEF Kept, ClaimRows
<1> QED
  BY <1>1, <1>2, SameRows DEF Kept

LEMMA MadeRows ==
    ASSUME NEW w, StoreOK(w), RowsOK(w), NEW t, NEW k, NEW title, NEW v, Made(w, v, t, k, title)
    PROVE  RowsOK(v)
<1>1. w.rows \in [Tasks -> Seq(EntryRows)]
  BY DEF StoreOK, Stores
<1> QED
  BY <1>1, SameRows DEF Made

LEMMA ClaimedRows ==
    ASSUME NEW w, StoreOK(w), RowsOK(w), NEW k \in Keys, NEW t \in Tasks, NEW c \in Claims,
           w.task[t].state = "todo", w.claim[c].end = "unused",
           NEW v, Claimed(w, v, k, t, c)
    PROVE  RowsOK(v)
<1> DEFINE e == Entry(c, "claim", "none", TRUE, "none")
<1>1. w.claim \in [Claims -> ClaimRows] /\ w.rows \in [Tasks -> Seq(EntryRows)]
  BY DEF StoreOK, Stores
<1>2. e \in EntryRows /\ e.claim = c /\ e.end = "none" /\ Names(e)
  BY DEF Entry, EntryRows, EntryKinds, Names
<1> HIDE DEF e
<1>3. v.rows = [w.rows EXCEPT ![t] = Append(@, e)]
  BY DEF Claimed, e
<1>4. /\ v.claim[c].task = t /\ v.claim[c].end = "live"
      /\ \A d \in Claims \ {c} : v.claim[d] = w.claim[d]
  BY <1>1 DEF Claimed
<1>5. \A d \in Claims : v.claim[d].task = t /\ v.claim[d].end = "live" => d = c
  <2>1. w.task[t].claim = NoOne
    BY DEF StoreOK, Mirrors, Held
  <2> QED
    BY <1>4, <2>1, NoOnes DEF StoreOK, Mirrors
<1>6. Fits(w, v, t, e)
  BY <1>2, <1>4, <1>5 DEF Fits, InUse
<1>7. ASSUME NEW d \in Claims PROVE ClaimGoesOn(w, v, d)
  BY <1>4 DEF ClaimGoesOn, InUse
<1>8. ASSUME NEW u \in Tasks
      PROVE  \/ v.rows[u] = w.rows[u]
             \/ \E x : v.rows[u] = Append(w.rows[u], x) /\ Fits(w, v, u, x)
  BY <1>1, <1>3, <1>6
<1> QED
  BY <1>1, <1>7, <1>8, RowsGrow

LEMMA NotedRows ==
    ASSUME NEW w, StoreOK(w), RowsOK(w), NEW t \in Tasks, NEW e, NEW v, Noted(w, v, t, e)
    PROVE  RowsOK(v)
<1>1. w.rows \in [Tasks -> Seq(EntryRows)]
  BY DEF StoreOK, Stores
<1>2. /\ e \in EntryRows /\ e.claim = NoOne /\ v.claim = w.claim
      /\ e.kind = "edit" \/ w.task[t].state = "todo"
      /\ v.rows = [w.rows EXCEPT ![t] = Append(@, e)]
  BY DEF Noted
<1>3. \A d \in Claims : v.claim[d].task = t /\ v.claim[d].end = "live" => w.task[t].state # "todo"
  BY <1>2, NoOnes DEF StoreOK, Mirrors, Held
<1>4. Fits(w, v, t, e)
  BY <1>2, <1>3 DEF Fits
<1>5. ASSUME NEW d \in Claims PROVE ClaimGoesOn(w, v, d)
  BY <1>2 DEF ClaimGoesOn, InUse
<1>6. ASSUME NEW u \in Tasks
      PROVE  \/ v.rows[u] = w.rows[u]
             \/ \E x : v.rows[u] = Append(w.rows[u], x) /\ Fits(w, v, u, x)
  BY <1>1, <1>2, <1>4
<1> QED
  BY <1>1, <1>5, <1>6, RowsGrow

LEMMA DeletedRows ==
    ASSUME NEW w, StoreOK(w), RowsOK(w), NEW S, NEW v, Deleted(w, v, S)
    PROVE  RowsOK(v)
<1>1. ASSUME NEW c \in Claims, InUse(v, c)
      PROVE  v.claim[c] = w.claim[c] /\ InUse(w, c) /\ w.claim[c].task \notin S
  <2>1. v.claim[c] = IF w.claim[c].task \in S
                     THEN [task |-> NoOne, key |-> NoOne, end |-> "gone", row |-> 0]
                     ELSE w.claim[c]
    BY DEF Deleted
  <2> QED
    BY <1>1, <2>1 DEF InUse
<1>2. ASSUME NEW t \in Tasks
      PROVE  v.rows[t] = IF t \in S THEN <<>> ELSE w.rows[t]
  BY DEF Deleted
<1>3. ASSUME NEW c \in Claims, w.claim[c].task \notin S
      PROVE  v.claim[c] = w.claim[c]
  BY <1>3 DEF Deleted
<1>a. \A t \in Tasks : \A i \in DOMAIN w.rows[t] : w.rows[t][i].claim \in Claims \cup {NoOne}
  <2>1. \A t \in Tasks : w.rows[t] \in Seq(EntryRows)
    BY DEF StoreOK, Stores
  <2>2. \A t \in Tasks : \A i \in DOMAIN w.rows[t] : w.rows[t][i] \in EntryRows
    BY <2>1
  <2> QED
    BY <2>2 DEF EntryRows
<1>4. RowsNamed(v)
  <2> SUFFICES ASSUME NEW t \in Tasks, NEW i \in DOMAIN v.rows[t], v.rows[t][i].claim # NoOne
               PROVE  /\ InUse(v, v.rows[t][i].claim)
                      /\ v.claim[v.rows[t][i].claim].task = t
                      /\ Names(v.rows[t][i])
                      /\ Names(v.rows[t][i])
    BY DEF RowsNamed
  <2>1. t \notin S /\ v.rows[t] = w.rows[t]
    BY <1>2
  <2> DEFINE c == v.rows[t][i].claim
  <2>2. c \in Claims /\ InUse(w, c) /\ w.claim[c].task = t /\ Names(w.rows[t][i])
    BY <1>a, <2>1 DEF RowsOK, RowsNamed
  <2>3. v.claim[c] = w.claim[c]
    BY <1>3, <2>1, <2>2
  <2> QED
    BY <2>1, <2>2, <2>3 DEF InUse
<1>5. RowsEnd(v)
  <2> SUFFICES ASSUME NEW c \in Claims, InUse(v, c)
               PROVE  v.claim[c].task \in Tasks /\ OwnRowsEnd(v, c, v.claim[c].task)
    BY DEF RowsEnd
  <2>1. v.claim[c] = w.claim[c] /\ w.claim[c].task \notin S
    BY <1>1
  <2>2. w.claim[c].task \in Tasks /\ OwnRowsEnd(w, c, w.claim[c].task)
    BY <1>1 DEF RowsOK, RowsEnd
  <2>3. v.rows[w.claim[c].task] = w.rows[w.claim[c].task]
    BY <1>2, <2>1, <2>2
  <2> QED
    BY <2>1, <2>2, <2>3 DEF OwnRowsEnd
<1>6. RowsAfter(v)
  <2> SUFFICES ASSUME NEW c \in Claims, v.claim[c].end = "live"
               PROVE  \A i, j \in DOMAIN v.rows[v.claim[c].task] :
                          i < j /\ v.rows[v.claim[c].task][i].claim = c
                            /\ v.rows[v.claim[c].task][j].claim # c =>
                             v.rows[v.claim[c].task][j].kind \in {"answer", "edit"}
    BY DEF RowsAfter
  <2>1. v.claim[c] = w.claim[c] /\ w.claim[c].task \notin S /\ InUse(w, c)
    BY <1>1 DEF InUse
  <2>2. w.claim[c].task \in Tasks
    BY <2>1 DEF RowsOK, RowsEnd
  <2>3. v.rows[w.claim[c].task] = w.rows[w.claim[c].task]
    BY <1>2, <2>1, <2>2
  <2> QED
    BY <2>1, <2>3 DEF RowsOK, RowsAfter
<1> QED
  BY <1>4, <1>5, <1>6 DEF RowsOK

LEMMA EndedRows ==
    ASSUME NEW w, StoreOK(w), RowsOK(w), NEW S, NEW actor, NEW v, Ended(w, v, S, actor)
    PROVE  RowsOK(v)
BY MovedRows DEF Ended

LEMMA SweptRows ==
    ASSUME StoreOK(Store), RowsOK(Store), NEW S \in SUBSET Tasks
    PROVE  RowsOK(UnclaimIdle(EndClaims(Store), S))
<1>1. RowsOK(EndClaims(Store))
  BY Ends, EndedRows
<1> QED
  BY <1>1, Ends, EndedRows

LEMMA WroteRows ==
    ASSUME StoreOK(Store), RowsOK(Store), NEW k, NEW t \in Tasks, NEW c \in Claims,
           NEW kind, NEW text \in Texts, AgentWrote(k, t, c, kind, text), claim[c].task = t
    PROVE  RowsOK(Store')
<1>1. CASE Moved(Store, Store', {t}, "limit", "unclaim", "none")
           /\ MoveOK(Store, {t}, "limit", "unclaim")
  BY <1>1, MovedRows
<1>2. ASSUME MoveOK(Store, {t}, "agent", kind), NEW v,
             Moved(Store, v, {t}, "agent", kind, text), Kept(v, Store', c)
      PROVE  RowsOK(Store')
  <2>1. RowsOK(v) /\ StoreOK(v)
    BY <1>2, MovedRows, WroteOK
  <2> QED
    BY <1>2, <2>1, KeptRows
<1> QED
  BY <1>1, <1>2 DEF AgentWrote

RowsInv == TaskInv /\ RowsOK(Store)

LEMMA RowsInvNext == RowsInv /\ [Next]_vars => RowsOK(Store')
<1> SUFFICES ASSUME TaskInv, RowsOK(Store), [Next]_vars PROVE RowsOK(Store')
  BY DEF RowsInv
<1>0. StoreOK(Store)
  BY DEF TaskInv
<1>1. ASSUME NEW k \in Keys, Call(k) PROVE RowsOK(Store')
  <2>1. PICK t \in Tasks, c \in Claims, kind \in Reports \cup {"unclaim"}, text \in Texts :
            AgentWrote(k, t, c, kind, text)
    BY <1>0, <1>1, Calling
  <2>2. claim[c].task = t
    BY <1>0, <2>1, CallOK DEF AgentWrote
  <2> QED
    BY <1>0, <2>1, <2>2, WroteRows
<1>2. ASSUME NEW k \in Keys, Repeat(k) PROVE RowsOK(Store')
  <2> DEFINE t == call[k].task
             c == call[k].claim
             kind == call[k].kind
             text == call[k].text
  <2>1. call[k] \in AgentCalls
    BY <1>2 DEF TaskInv, OthersOK, Repeat
  <2>2. t \in Tasks /\ c \in Claims /\ kind \in Reports \cup {"unclaim"} /\ text \in Texts
    BY <2>1 DEF AgentCalls
  <2>3. Store' = Store \/ AgentWrote(k, t, c, kind, text)
    BY <1>0, <1>2, <2>1, Repeating
  <2>4. AgentWrote(k, t, c, kind, text) => claim[c].task = t
    BY <1>0, <2>2, CallOK DEF AgentWrote
  <2> QED
    BY <1>0, <2>2, <2>3, <2>4, WroteRows
<1>3. ASSUME NEW k \in Keys, Expire(k) PROVE RowsOK(Store')
  BY <1>3 DEF Expire, Store
<1>4. ASSUME NEW k \in Keys, NEW t \in Tasks, Claim(k, t) PROVE RowsOK(Store')
  BY <1>0, <1>4, Claiming, ClaimedRows, StoreFields
<1>5. ASSUME NEW k \in Keys, NEW t \in Tasks, AgentCancel(k, t) PROVE RowsOK(Store')
  BY <1>0, <1>5, AgentCanceling, NotedRows
<1>6. ASSUME NEW t \in Tasks, NEW k \in Keys \cup {NoOne}, NEW title \in Titles,
             task[t].state = "unmade", Commit(Make(Store, t, k, title))
      PROVE  RowsOK(Store')
  BY <1>0, <1>6, Creating, MadeRows
<1>7. ASSUME NEW t \in Tasks, NEW title \in Titles,
             Edit(t, title) \/ \E k \in Keys : AgentEdit(k, t, title)
      PROVE  RowsOK(Store')
  BY <1>0, <1>7, Editing, NotedRows
<1>8. ASSUME NEW t \in Tasks, NEW kind \in {"answer", "unclaim", "cancel", "reopen"},
             task[t].state \in From("member", kind),
             Commit(WriteEntry(Store, {t}, "member", kind, "none"))
      PROVE  RowsOK(Store')
  BY <1>0, <1>8, Moving, MovedRows
<1>9. ASSUME NEW t \in Tasks, Reopen(t) PROVE RowsOK(Store')
  <2>1. task[t].state \in From("member", "reopen")
    BY <1>9 DEF Reopen, From, Reports
  <2> QED
    BY <1>8, <1>9, <2>1 DEF Reopen
<1>10. ASSUME NEW t \in Tasks, Discard(t) PROVE RowsOK(Store')
  BY <1>0, <1>10, Discarding, DeletedRows
<1>11. ASSUME NEW S \in SUBSET Tasks, \A t \in S : task[t].claim # NoOne,
              Commit(End(Store, S, "access_gone"))
       PROVE  RowsOK(Store')
  BY <1>0, <1>11, EndingAccess, EndedRows
<1>12. ASSUME NEW K \in SUBSET Keys, Revoke(K) PROVE RowsOK(Store')
  <2>1. UNION {HeldBy(k) : k \in K} \in SUBSET Tasks
        /\ \A t \in UNION {HeldBy(k) : k \in K} : task[t].claim # NoOne
    BY DEF HeldBy
  <2> QED
    BY <1>11, <1>12, <2>1 DEF Revoke
<1>13. ASSUME NEW u \in Users, NEW p \in Projects, LoseProject(u, p) PROVE RowsOK(Store')
  <2> DEFINE S == {t \in Tasks : ProjectOf[t] = p /\
                             \E k \in Keys : UserOf[k] = u /\ t \in HeldBy(k)}
  <2>1. S \in SUBSET Tasks /\ \A t \in S : task[t].claim # NoOne
    BY DEF HeldBy
  <2>2. Commit(End(Store, S, "access_gone"))
    BY <1>13 DEF LoseProject
  <2> HIDE DEF S
  <2> QED
    BY <1>11, <2>1, <2>2
<1>14. ASSUME NEW c \in Claims, Quieten(c) PROVE RowsOK(Store')
  <2>1. Store'.rows = Store.rows /\ Store'.claim = Store.claim
        /\ Store.rows \in [Tasks -> Seq(EntryRows)]
    BY <1>0, <1>14, StoreFields, Typed DEF Quieten
  <2> QED
    BY <2>1, SameRows
<1>15. CASE Sweep
  BY <1>0, <1>15, Sweeping, SweptRows, Ends, DeletedRows
<1>16. CASE SweepCut
  BY <1>0, <1>16, CutSweeping, SweptRows
<1>17. CASE UNCHANGED vars
  BY <1>17 DEF vars, Store
<1>18. ASSUME NEW k \in Keys, NEW t \in Tasks, NEW title \in Titles, AgentCreate(k, t, title)
       PROVE  RowsOK(Store')
  BY <1>6, <1>18 DEF AgentCreate
<1>19. ASSUME NEW t \in Tasks, NEW title \in Titles, Create(t, title)
       PROVE  RowsOK(Store')
  BY <1>6, <1>19 DEF Create
<1>20. ASSUME NEW t \in Tasks, NEW kind \in {"answer", "unclaim", "cancel"}, Move(t, kind)
       PROVE  RowsOK(Store')
  BY <1>8, <1>20 DEF Move
<1> QED
  BY <1>1, <1>2, <1>3, <1>4, <1>5, <1>7, <1>9, <1>10, <1>12, <1>13, <1>14, <1>15, <1>16,
     <1>17, <1>18, <1>19, <1>20 DEF Next

LEMMA RowsInvInit == Init => RowsInv
<1> SUFFICES ASSUME Init PROVE RowsOK(Store)
  BY TaskInvInit DEF RowsInv
<1>1. /\ \A t \in Tasks : Store.rows[t] = <<>>
      /\ \A c \in Claims : Store.claim[c].end = "unused"
  BY StoreFields DEF Init
<1> QED
  BY <1>1 DEF RowsOK, RowsNamed, RowsEnd, RowsAfter, InUse

LEMMA RowsInvHolds == Spec => []RowsInv
<1>1. RowsInv /\ [Next]_vars => RowsInv'
  BY RowsInvNext, TaskInvNext DEF RowsInv
<1> QED
  BY <1>1, RowsInvInit, PTL DEF Spec

LEMMA GreatestOf ==
    ASSUME NEW n \in Nat, NEW S \in SUBSET (1..n), S # {}
    PROVE  \E m \in S : \A j \in S : j <= m
<1> DEFINE D == {d \in Nat : \A j \in S : j <= d}
<1>1. n \in D
  OBVIOUS
<1>2. PICK d \in D : \A e \in D : <<e, d>> \notin OpToRel(<, Nat)
  <2> HIDE DEF D
  <2>1. D \in SUBSET Nat
    BY DEF D
  <2> QED
    BY <1>1, <2>1, NatLessThanWellFounded, WFMin
<1>3. d \in S
  <2> SUFFICES ASSUME d \notin S PROVE FALSE
    OBVIOUS
  <2>1. PICK i \in S : TRUE
    OBVIOUS
  <2>2. i \in Nat /\ 1 <= i /\ i <= d /\ d \in Nat
    OBVIOUS
  <2>3. d - 1 \in Nat /\ d - 1 < d
    BY <2>2
  <2>4. \A j \in S : j <= d - 1
    BY <2>2
  <2>5. d - 1 \in D
    BY <2>3, <2>4
  <2> HIDE DEF D
  <2>6. ~(d - 1 < d)
    BY <1>2, <2>2, <2>3, <2>5 DEF OpToRel
  <2> QED
    BY <2>3, <2>6
<1> QED
  BY <1>3

LEMMA LastIs ==
    ASSUME NEW S \in SUBSET Nat, NEW i \in S, \A j \in S : j <= i
    PROVE  LastOf(S) = i
<1>1. \A m \in S : (\A j \in S : j <= m) => m = i
  OBVIOUS
<1> QED
  BY <1>1 DEF LastOf

\* the last entry of an ended claim
LEMMA EndedLast ==
    ASSUME RowsInv, NEW c \in Claims, claim[c].end \notin {"unused", "gone", "live"}
    PROVE  LET t == claim[c].task
               own == {i \in DOMAIN rows[t] : rows[t][i].claim = c}
           IN  /\ t \in Tasks /\ LastOf(own) \in own
               /\ rows[t][LastOf(own)].end = claim[c].end
               /\ claim[c].end # "none"
               /\ \A i \in own : i <= LastOf(own)
               /\ \A i \in own : i # LastOf(own) => rows[t][i].end = "none"
<1> DEFINE t == claim[c].task
           own == {i \in DOMAIN rows[t] : rows[t][i].claim = c}
<1>1. t \in Tasks /\ OwnRowsEnd(Store, c, t)
  BY StoreFields DEF RowsInv, RowsOK, RowsEnd, InUse
<1>2. rows[t] \in Seq(EntryRows) /\ claim[c] \in ClaimRows
  BY <1>1, Typed DEF RowsInv, TaskInv
<1>3. DOMAIN rows[t] \subseteq Nat
  BY <1>2
<1>4. PICK i \in DOMAIN rows[t] :
          /\ rows[t][i].claim = c /\ rows[t][i].end = claim[c].end
          /\ \A j \in DOMAIN rows[t] :
                rows[t][j].claim = c /\ j # i => j < i /\ rows[t][j].end = "none"
  BY <1>1, StoreFields DEF OwnRowsEnd
<1>5. own \in SUBSET Nat /\ i \in own /\ \A j \in own : j <= i
  BY <1>3, <1>4
<1>6. LastOf(own) = i
  <2> HIDE DEF own
  <2> QED
    BY <1>5, LastIs
<1>7. claim[c].end # "none"
  BY <1>2 DEF ClaimRows, ClaimEnds
<1> QED
  BY <1>1, <1>4, <1>5, <1>6, <1>7

LEMMA RowsInvEnds == RowsInv => EndsOnce
<1> SUFFICES ASSUME RowsInv, NEW c \in Claims, claim[c].end \notin {"unused", "gone"}
             PROVE  LET t == claim[c].task
                        own == {i \in DOMAIN rows[t] : rows[t][i].claim = c}
                        ending == {i \in own : rows[t][i].end # "none"}
                    IN  IF claim[c].end = "live" THEN ending = {}
                        ELSE /\ ending = {LastOf(own)}
                             /\ rows[t][LastOf(own)].end = claim[c].end
  BY DEF EndsOnce
<1>1. CASE claim[c].end = "live"
  <2>1. OwnRowsEnd(Store, c, claim[c].task)
    BY StoreFields DEF RowsInv, RowsOK, RowsEnd, InUse
  <2> QED
    BY <1>1, <2>1, StoreFields DEF OwnRowsEnd
<1>2. CASE claim[c].end # "live"
  <2> DEFINE t == claim[c].task
             own == {i \in DOMAIN rows[t] : rows[t][i].claim = c}
  <2>1. /\ LastOf(own) \in own /\ rows[t][LastOf(own)].end = claim[c].end
        /\ claim[c].end # "none"
        /\ \A i \in own : i # LastOf(own) => rows[t][i].end = "none"
    BY <1>2, EndedLast
  <2>2. {i \in own : rows[t][i].end # "none"} = {LastOf(own)}
    <3> HIDE DEF t, own
    <3> QED
      BY <2>1
  <2> QED
    BY <1>2, <2>1, <2>2
<1> QED
  BY <1>1, <1>2

\* A claim ends once (writes.ts writeEntry(), actions.ts agentEntry(),
\* sweeps.ts): whoever ends it, of an ended one exactly one entry says so, its
\* last, with that end, and of a live one none does.
THEOREM ClaimsEndOnce == Spec => []EndsOnce
BY RowsInvHolds, RowsInvEnds, PTL

----------------------------------------------------------------------------
(* A call made again *)

\* CallRows, of the tables w and the call x
RowsOfCall(w, x) ==
    {i \in DOMAIN w.rows[x.task] :
        /\ i >= x.row
        /\ w.rows[x.task][i].claim = x.claim
        /\ w.rows[x.task][i].agent}

CallGood(w, k, x) ==
    w.claim[x.claim].end # "gone" =>
        /\ InUse(w, x.claim) /\ w.claim[x.claim].task = x.task /\ w.claim[x.claim].key = k
        /\ x.row \in RowsOfCall(w, x)
        /\ w.rows[x.task][x.row].end = EndOf("agent", x.kind, TRUE)
        /\ \A i \in RowsOfCall(w, x) :
              /\ w.rows[x.task][i].kind = x.kind /\ w.rows[x.task][i].text = x.text
              /\ i <= w.claim[x.claim].row
        /\ w.claim[x.claim].row \in RowsOfCall(w, x)
        /\ \A i, j \in RowsOfCall(w, x) : i < j =>
              \E a \in i..j : w.rows[x.task][a].kind = "answer"

CallsOK == \A k \in Keys : call[k] # NoOne => CallGood(Store, k, call[k])

\* a step that writes no entry for the call's claim
LEMMA CallStays ==
    ASSUME NEW w, NEW v, w.rows \in [Tasks -> Seq(EntryRows)], NEW k, NEW x \in AgentCalls,
           CallGood(w, k, x),
           v.claim[x.claim].end # "gone" =>
              /\ w.claim[x.claim].end # "gone" /\ v.claim[x.claim].end # "unused"
              /\ v.claim[x.claim].task = w.claim[x.claim].task
              /\ v.claim[x.claim].key = w.claim[x.claim].key
              /\ v.claim[x.claim].row = w.claim[x.claim].row
              /\ \/ v.rows[x.task] = w.rows[x.task]
                 \/ \E e : /\ v.rows[x.task] = Append(w.rows[x.task], e)
                           /\ e.claim # x.claim \/ ~e.agent
    PROVE  CallGood(v, k, x)
<1> SUFFICES ASSUME v.claim[x.claim].end # "gone"
             PROVE  CallGood(v, k, x)
  BY DEF CallGood
<1> DEFINE t == x.task
           s == w.rows[t]
           R == RowsOfCall(w, x)
<1>1. t \in Tasks /\ s \in Seq(EntryRows)
  BY DEF AgentCalls
<1>2. /\ InUse(w, x.claim) /\ w.claim[x.claim].task = t /\ w.claim[x.claim].key = k
      /\ x.row \in R /\ s[x.row].end = EndOf("agent", x.kind, TRUE)
      /\ \A i \in R : s[i].kind = x.kind /\ s[i].text = x.text /\ i <= w.claim[x.claim].row
      /\ w.claim[x.claim].row \in R
      /\ \A i, j \in R : i < j => \E a \in i..j : s[a].kind = "answer"
  BY DEF CallGood
<1>3. /\ \A i \in DOMAIN s : i \in DOMAIN v.rows[t] /\ v.rows[t][i] = s[i]
      /\ \A i \in DOMAIN v.rows[t] : i \notin DOMAIN s =>
            v.rows[t][i].claim # x.claim \/ ~v.rows[t][i].agent
  <2>1. CASE v.rows[t] = s
    BY <2>1
  <2>2. ASSUME NEW e, v.rows[t] = Append(s, e), e.claim # x.claim \/ ~e.agent
        PROVE  /\ \A i \in DOMAIN s : i \in DOMAIN v.rows[t] /\ v.rows[t][i] = s[i]
               /\ \A i \in DOMAIN v.rows[t] : i \notin DOMAIN s =>
                     v.rows[t][i].claim # x.claim \/ ~v.rows[t][i].agent
    <3> HIDE DEF s
    <3>1. /\ DOMAIN Append(s, e) = DOMAIN s \cup {Len(s) + 1}
          /\ Append(s, e)[Len(s) + 1] = e
          /\ \A i \in DOMAIN s : Append(s, e)[i] = s[i]
      BY <1>1, Appends
    <3> QED
      BY <2>2, <3>1
  <2> QED
    BY <2>1, <2>2
<1>4. RowsOfCall(v, x) = R
  BY <1>3 DEF RowsOfCall
<1>5. R \subseteq DOMAIN s /\ DOMAIN s = 1..Len(s) /\ Len(s) \in Nat
  <2>1. DOMAIN s = 1..Len(s) /\ Len(s) \in Nat
    BY <1>1
  <2> QED
    BY <2>1 DEF RowsOfCall
<1> HIDE DEF s, R, t
<1>6. \A i, j \in R : i < j => \E a \in i..j : v.rows[t][a].kind = "answer"
  <2> SUFFICES ASSUME NEW i \in R, NEW j \in R, i < j
               PROVE  \E a \in i..j : v.rows[t][a].kind = "answer"
    OBVIOUS
  <2>1. PICK a \in i..j : s[a].kind = "answer"
    BY <1>2
  <2>2. a \in DOMAIN s
    BY <1>5
  <2> QED
    BY <1>3, <2>1, <2>2
<1>7. /\ InUse(v, x.claim) /\ v.claim[x.claim].task = t /\ v.claim[x.claim].key = k
      /\ v.claim[x.claim].row = w.claim[x.claim].row
  BY <1>2 DEF InUse
<1>8. \A i \in R : v.rows[t][i] = s[i]
  BY <1>3, <1>5
<1> QED
  BY <1>2, <1>4, <1>6, <1>7, <1>8 DEF CallGood, t

LEMMA MovedCall ==
    ASSUME NEW w, StoreOK(w), NEW S, NEW actor, NEW kind, MoveOK(w, S, actor, kind),
           NEW text, NEW v, Moved(w, v, S, actor, kind, text),
           NEW k, NEW x \in AgentCalls, CallGood(w, k, x),
           actor = "agent" => \A t \in S : w.task[t].claim # x.claim
    PROVE  CallGood(v, k, x)
<1> DEFINE c == x.claim
           t == x.task
<1>1. w.rows \in [Tasks -> Seq(EntryRows)] /\ c \in Claims /\ t \in Tasks
  BY DEF StoreOK, Stores, AgentCalls
<1>2. /\ v.claim[c].task = w.claim[c].task /\ v.claim[c].key = w.claim[c].key
      /\ v.claim[c].row = w.claim[c].row
  <2>1. \A d \in Claims :
           /\ v.claim[d].task = w.claim[d].task /\ v.claim[d].key = w.claim[d].key
           /\ v.claim[d].row = w.claim[d].row
    BY MovedClaim
  <2> QED
    BY <1>1, <2>1
<1>3. v.claim[c].end = w.claim[c].end
        \/ (w.claim[c].end = "live" /\ v.claim[c].end \in ClaimEnds)
  BY <1>1, MovedEnd
<1>4. \/ v.rows[t] = w.rows[t]
      \/ \E e : v.rows[t] = Append(w.rows[t], e) /\ (e.claim # c \/ ~e.agent)
  <2>1. CASE t \notin S
    BY <1>1, <2>1 DEF Moved
  <2>2. CASE t \in S
    <3> DEFINE d == IF NamesClaim(actor, EndAt(w, t, actor, kind) # "none")
                    THEN w.task[t].claim ELSE NoOne
               e == Entry(d, kind, text, actor = "agent", EndAt(w, t, actor, kind))
    <3>1. v.rows[t] = Append(w.rows[t], e)
      BY <2>2 DEF Moved
    <3>2. actor = "agent" => d # c
      BY <1>1, <2>2, NoOnes
    <3> HIDE DEF d
    <3>3. e.claim = d /\ e.agent = (actor = "agent")
      BY DEF Entry
    <3> HIDE DEF e
    <3> QED
      BY <3>1, <3>2, <3>3
  <2> QED
    BY <2>1, <2>2
<1>5. CASE v.claim[c].end = "gone"
  BY <1>5 DEF CallGood
<1>6. CASE v.claim[c].end # "gone"
  <2>1. w.claim[c].end # "gone"
    BY <1>3, <1>6
  <2>2. w.claim[c].end # "unused"
    BY <2>1 DEF CallGood, InUse
  <2>3. v.claim[c].end # "unused"
    BY <1>3, <2>2 DEF ClaimEnds
  <2> QED
    BY <1>1, <1>2, <1>4, <2>1, <2>3, CallStays
<1> QED
  BY <1>5, <1>6

LEMMA EndedCall ==
    ASSUME NEW w, StoreOK(w), NEW S, NEW actor \in {"access_gone", "idle", "limit"},
           NEW v, Ended(w, v, S, actor), NEW k, NEW x \in AgentCalls, CallGood(w, k, x)
    PROVE  CallGood(v, k, x)
BY MovedCall DEF Ended

LEMMA DeletedCall ==
    ASSUME NEW w, StoreOK(w), NEW S, NEW v, Deleted(w, v, S),
           NEW k, NEW x \in AgentCalls, CallGood(w, k, x)
    PROVE  CallGood(v, k, x)
<1> DEFINE c == x.claim
           t == x.task
<1>1. w.rows \in [Tasks -> Seq(EntryRows)] /\ c \in Claims /\ t \in Tasks
  BY DEF StoreOK, Stores, AgentCalls
<1>2. v.claim[c] = IF w.claim[c].task \in S
                   THEN [task |-> NoOne, key |-> NoOne, end |-> "gone", row |-> 0]
                   ELSE w.claim[c]
  BY <1>1 DEF Deleted
<1>3. CASE v.claim[c].end = "gone"
  BY <1>3 DEF CallGood
<1>4. CASE v.claim[c].end # "gone"
  <2>1. v.claim[c] = w.claim[c] /\ w.claim[c].task \notin S
    BY <1>2, <1>4
  <2>2. t \notin S /\ w.claim[c].end # "unused"
    BY <1>4, <2>1 DEF CallGood, InUse
  <2>3. v.rows[t] = w.rows[t]
    BY <1>1, <2>2 DEF Deleted
  <2> QED
    BY <1>1, <1>4, <2>1, <2>2, <2>3, CallStays
<1> QED
  BY <1>3, <1>4

\* the same rows and claims, but for the row number of another claim
LEMMA SameCall ==
    ASSUME NEW w, NEW v, w.rows \in [Tasks -> Seq(EntryRows)],
           v.rows = w.rows, NEW x \in AgentCalls, NEW k, CallGood(w, k, x),
           v.claim[x.claim] = w.claim[x.claim]
    PROVE  CallGood(v, k, x)
<1>1. v.claim[x.claim].end # "gone" =>
        w.claim[x.claim].end # "gone" /\ v.claim[x.claim].end # "unused"
  BY DEF CallGood, InUse
<1> QED
  BY <1>1, CallStays

LEMMA NotedCall ==
    ASSUME NEW w, StoreOK(w), NEW t \in Tasks, NEW e, NEW v, Noted(w, v, t, e),
           NEW k, NEW x \in AgentCalls, CallGood(w, k, x)
    PROVE  CallGood(v, k, x)
<1>1. w.rows \in [Tasks -> Seq(EntryRows)] /\ x.claim \in Claims /\ x.task \in Tasks
  BY DEF StoreOK, Stores, AgentCalls
<1>2. v.claim = w.claim /\ e.claim = NoOne /\ v.rows = [w.rows EXCEPT ![t] = Append(@, e)]
  BY DEF Noted
<1>3. \/ v.rows[x.task] = w.rows[x.task]
      \/ v.rows[x.task] = Append(w.rows[x.task], e) /\ e.claim # x.claim
  BY <1>1, <1>2, NoOnes
<1>4. v.claim[x.claim].end # "gone" =>
        w.claim[x.claim].end # "gone" /\ v.claim[x.claim].end # "unused"
  BY <1>2 DEF CallGood, InUse
<1> QED
  BY <1>1, <1>2, <1>3, <1>4, CallStays

LEMMA ClaimedCall ==
    ASSUME NEW w, StoreOK(w), NEW k2 \in Keys, NEW t \in Tasks, NEW c \in Claims,
           w.claim[c].end = "unused", NEW v, Claimed(w, v, k2, t, c),
           NEW k, NEW x \in AgentCalls, CallGood(w, k, x)
    PROVE  CallGood(v, k, x)
<1> DEFINE e == Entry(c, "claim", "none", TRUE, "none")
<1>1. /\ w.rows \in [Tasks -> Seq(EntryRows)] /\ w.claim \in [Claims -> ClaimRows]
      /\ x.claim \in Claims /\ x.task \in Tasks
  BY DEF StoreOK, Stores, AgentCalls
<1>2. e.claim = c
  BY DEF Entry
<1>3. v.rows = [w.rows EXCEPT ![t] = Append(@, e)]
  BY DEF Claimed
<1> HIDE DEF e
<1>4. x.claim # c
  BY DEF CallGood, InUse
<1>5. v.claim[x.claim] = w.claim[x.claim]
  BY <1>1, <1>4 DEF Claimed
<1>6. \/ v.rows[x.task] = w.rows[x.task]
      \/ v.rows[x.task] = Append(w.rows[x.task], e) /\ e.claim # x.claim
  BY <1>1, <1>2, <1>3, <1>4
<1>7. v.claim[x.claim].end # "gone" =>
        w.claim[x.claim].end # "gone" /\ v.claim[x.claim].end # "unused"
  BY <1>5 DEF CallGood, InUse
<1> QED
  BY <1>1, <1>5, <1>6, <1>7, CallStays

\* another key's call
LEMMA OthersCall ==
    ASSUME StoreOK(Store), NEW k \in Keys, NEW t \in Tasks, NEW c \in Claims,
           NEW kind \in Reports \cup {"unclaim"}, NEW text \in Texts,
           AgentWrote(k, t, c, kind, text),
           NEW k2 \in Keys, k2 # k, NEW x \in AgentCalls, CallGood(Store, k2, x)
    PROVE  CallGood(Store', k2, x)
<1>1. CASE Moved(Store, Store', {t}, "limit", "unclaim", "none")
           /\ MoveOK(Store, {t}, "limit", "unclaim")
  BY <1>1, MovedCall
<1>2. ASSUME MoveOK(Store, {t}, "agent", kind), NEW v, Outcome(k, t, c, kind, text) = "written",
             Moved(Store, v, {t}, "agent", kind, text), Kept(v, Store', c)
      PROVE  CallGood(Store', k2, x)
  <2>1. claim[c].end = "live" /\ claim[c].key = k /\ task[t].claim = c
    BY <1>2, CallOK
  <2>2. x.claim # c
    BY <2>1, StoreFields DEF CallGood
  <2>3. CallGood(v, k2, x)
    BY <1>2, <2>1, <2>2, MovedCall, StoreFields
  <2>4. StoreOK(v)
    BY <1>2, WroteOK
  <2>6. v.rows \in [Tasks -> Seq(EntryRows)]
    BY <2>4 DEF StoreOK, Stores
  <2>5. Store'.rows = v.rows /\ Store'.claim[x.claim] = v.claim[x.claim]
    <3>1. v.claim \in [Claims -> ClaimRows] /\ x.claim \in Claims
      BY <2>4 DEF StoreOK, Stores, AgentCalls
    <3> QED
      BY <1>2, <2>2, <3>1 DEF Kept
  <2> QED
    BY <2>3, <2>5, <2>6, SameCall
<1> QED
  BY <1>1, <1>2 DEF AgentWrote

\* what an agent's call that was written leaves
LEMMA AgentAppends ==
    ASSUME StoreOK(Store), NEW k \in Keys, NEW t \in Tasks, NEW c \in Claims,
           NEW kind \in Reports \cup {"unclaim"}, NEW text \in Texts,
           Outcome(k, t, c, kind, text) = "written", AgentWrote(k, t, c, kind, text)
    PROVE  /\ rows'[t] = Append(rows[t], Entry(c, kind, text, TRUE, EndOf("agent", kind, TRUE)))
           /\ claim'[c].task = t /\ claim'[c].key = k /\ claim'[c].row = Len(rows[t]) + 1
           /\ claim'[c].end \in ClaimEnds \cup {"live"}
<1>1. /\ claim[c].end = "live" /\ claim[c].task = t /\ claim[c].key = k
      /\ task[t].claim = c /\ task[t].state \in Held
  BY CallOK
<1>2. PICK v : /\ MoveOK(Store, {t}, "agent", kind)
               /\ Moved(Store, v, {t}, "agent", kind, text) /\ Kept(v, Store', c)
  BY DEF AgentWrote
<1>3. EndAt(Store, t, "agent", kind) = EndOf("agent", kind, TRUE)
  BY <1>1, NoOnes, StoreFields DEF EndAt
<1>4. v.rows[t] = Append(rows[t], Entry(c, kind, text, TRUE, EndOf("agent", kind, TRUE)))
  <2>1. v.rows[t] = Append(Store.rows[t],
            Entry(IF NamesClaim("agent", EndAt(Store, t, "agent", kind) # "none")
                  THEN Store.task[t].claim ELSE NoOne,
                  kind, text, "agent" = "agent", EndAt(Store, t, "agent", kind)))
    BY <1>2 DEF Moved
  <2> QED
    BY <1>1, <1>3, <2>1, StoreFields DEF NamesClaim
<1>5. v.claim[c].task = t /\ v.claim[c].key = k
  BY <1>1, <1>2, MovedClaim, StoreFields
<1>6. v.claim[c].end \in ClaimEnds \cup {"live"}
  <2>1. v.claim[c] = Store.claim[c] \/ v.claim[c].end \in ClaimEnds
    BY <1>2, MovedEnd
  <2> QED
    BY <1>1, <2>1, StoreFields
<1>7. v.claim \in [Claims -> ClaimRows]
  <2>1. StoreOK(v)
    BY <1>2, WroteOK
  <2> QED
    BY <2>1 DEF StoreOK, Stores
<1>8. claim' = [v.claim EXCEPT ![c].row = Len(v.rows[v.claim[c].task])] /\ rows' = v.rows
  BY <1>2, StoreFields DEF Kept
<1>9. Len(v.rows[t]) = Len(rows[t]) + 1
  <2>1. rows[t] \in Seq(EntryRows)
    BY Typed
  <2> QED
    BY <1>4, <2>1
<1> QED
  BY <1>4, <1>5, <1>6, <1>7, <1>8, <1>9 DEF ClaimRows

LEMMA FreshCall ==
    ASSUME StoreOK(Store), NEW k \in Keys, NEW t \in Tasks, NEW c \in Claims,
           NEW kind \in Reports \cup {"unclaim"}, NEW text \in Texts,
           Outcome(k, t, c, kind, text) = "written", AgentWrote(k, t, c, kind, text)
    PROVE  CallGood(Store', k, [task |-> t, claim |-> c, kind |-> kind, text |-> text,
                                row |-> Len(rows[t]) + 1])
<1> DEFINE n == Len(rows[t]) + 1
           e == Entry(c, kind, text, TRUE, EndOf("agent", kind, TRUE))
           x == [task |-> t, claim |-> c, kind |-> kind, text |-> text, row |-> n]
<1> HIDE DEF x
<1>1. /\ rows'[t] = Append(rows[t], e) /\ claim'[c].task = t /\ claim'[c].key = k
      /\ claim'[c].row = n /\ claim'[c].end \in ClaimEnds \cup {"live"}
  <2>1. /\ rows'[t] = Append(rows[t], Entry(c, kind, text, TRUE, EndOf("agent", kind, TRUE)))
        /\ claim'[c].task = t /\ claim'[c].key = k /\ claim'[c].row = Len(rows[t]) + 1
        /\ claim'[c].end \in ClaimEnds \cup {"live"}
    BY AgentAppends
  <2> QED
    BY <2>1
<1>2. /\ e.claim = c /\ e.kind = kind /\ e.text = text /\ e.agent = TRUE
      /\ e.end = EndOf("agent", kind, TRUE)
  BY DEF Entry
<1> HIDE DEF e
<1>3. /\ n \in Nat /\ n \in DOMAIN rows'[t] /\ rows'[t][n] = e
      /\ \A i \in DOMAIN rows'[t] : i \in Nat /\ i <= n
  <2>1. rows[t] \in Seq(EntryRows)
    BY Typed
  <2> QED
    BY <1>1, <2>1, Appends
<1> HIDE DEF n
<1>4. x.task = t /\ x.claim = c /\ x.kind = kind /\ x.text = text /\ x.row = n
  BY DEF x
<1>5. RowsOfCall(Store', x) = {n}
  BY <1>2, <1>3, <1>4, StoreFields DEF RowsOfCall
<1>6. InUse(Store', c)
  BY <1>1, StoreFields DEF InUse, ClaimEnds
<1>7. CallGood(Store', k, x)
  <2>1. Store'.rows[t][n] = e /\ Store'.claim[c].task = t /\ Store'.claim[c].key = k
        /\ Store'.claim[c].row = n
    BY <1>1, <1>3, StoreFields
  <2>2. \A i, j \in {n} : ~(i < j)
    BY <1>3
  <2> QED
    BY <1>2, <1>3, <1>4, <1>5, <1>6, <2>1, <2>2 DEF CallGood
<1> QED
  BY <1>7 DEF x, n

\* made again it writes a second entry only after an answer
LEMMA AnsweredBetween ==
    ASSUME RowsInv, NEW k \in Keys, NEW x \in AgentCalls, CallGood(Store, k, x),
           claim[x.claim].end = "live", ~Replays(x.claim, x.kind, x.text)
    PROVE  \A i \in RowsOfCall(Store, x) : \E a \in DOMAIN rows[x.task] :
              i <= a /\ rows[x.task][a].kind = "answer"
<1> DEFINE t == x.task
           c == x.claim
           own == {i \in DOMAIN rows[t] : rows[t][i].claim = c}
<1>0. t \in Tasks /\ c \in Claims
  BY DEF AgentCalls
<1>1. /\ claim[c].task = t /\ InUse(Store, c)
      /\ x.row \in RowsOfCall(Store, x)
      /\ \A i \in RowsOfCall(Store, x) : rows[t][i].kind = x.kind /\ rows[t][i].text = x.text
  BY StoreFields DEF CallGood
<1>2. rows[t] \in Seq(EntryRows)
  BY <1>0, Typed DEF RowsInv, TaskInv
<1>3. own \in SUBSET (1..Len(rows[t])) /\ Len(rows[t]) \in Nat
  BY <1>2
<1>4. RowsOfCall(Store, x) \subseteq own /\ \A i \in RowsOfCall(Store, x) : i >= x.row
  BY StoreFields DEF RowsOfCall
<1>5. \A i \in own : i >= x.row => i \in RowsOfCall(Store, x)
  <2> SUFFICES ASSUME NEW i \in own, i >= x.row PROVE rows[t][i].agent
    BY StoreFields DEF RowsOfCall
  <2>1. Names(rows[t][i])
    BY <1>0, StoreFields, NoOnes DEF RowsInv, RowsOK, RowsNamed
  <2>2. rows[t][i].end = "none"
    <3>1. OwnRowsEnd(Store, c, t)
      BY <1>0, <1>1, StoreFields DEF RowsInv, RowsOK, RowsEnd
    <3> QED
      BY <3>1, StoreFields DEF OwnRowsEnd
  <2> QED
    BY <2>1, <2>2 DEF Names
<1>6. PICK m \in own : \A j \in own : j <= m
  <2>1. own # {}
    BY <1>1, <1>4
  <2> HIDE DEF own
  <2> QED
    BY <1>3, <2>1, GreatestOf
<1>7. m \in RowsOfCall(Store, x) /\ m \in Nat /\ m # 0 /\ x.row \in Nat
  BY <1>1, <1>3, <1>4, <1>5, <1>6 DEF AgentCalls
<1>8. LastOf(own) = m
  <2>1. own \in SUBSET Nat
    BY <1>3
  <2> HIDE DEF own
  <2> QED
    BY <1>6, <2>1, LastIs
<1>9. \E i \in DOMAIN rows[t] : i > m /\ rows[t][i].kind # "edit"
  <2> SUFFICES ASSUME ~\E i \in DOMAIN rows[t] : i > m /\ rows[t][i].kind # "edit"
               PROVE  FALSE
    OBVIOUS
  <2>1. LastEntry(c) = m
    BY <1>1, <1>8 DEF LastEntry
  <2> QED
    BY <1>1, <1>7, <2>1 DEF Replays
<1>10. PICK a \in DOMAIN rows[t] : a > m /\ rows[t][a].kind # "edit"
  BY <1>9
<1>11. rows[t][a].kind = "answer"
  <2>1. a \notin own
    BY <1>2, <1>6, <1>7, <1>10
  <2>2. RowsAfter(Store)
    BY DEF RowsInv, RowsOK
  <2>3. m \in DOMAIN rows[t] /\ rows[t][m].claim = c /\ rows[t][a].claim # c /\ m < a
    BY <1>2, <1>6, <1>7, <1>10, <2>1
  <2>4. rows[t][a].kind \in {"answer", "edit"}
    BY <1>0, <1>1, <1>10, <2>2, <2>3, StoreFields DEF RowsAfter
  <2> QED
    BY <1>10, <2>4
<1>12. \A i \in RowsOfCall(Store, x) : i <= a
  BY <1>2, <1>3, <1>4, <1>6, <1>7, <1>10
<1> QED
  BY <1>11, <1>12

LEMMA RepeatedCall ==
    ASSUME RowsInv, NEW k \in Keys, NEW x \in AgentCalls, CallGood(Store, k, x),
           AgentWrote(k, x.task, x.claim, x.kind, x.text)
    PROVE  CallGood(Store', k, x)
<1> DEFINE t == x.task
           c == x.claim
           n == Len(rows[t]) + 1
           e == Entry(c, x.kind, x.text, TRUE, EndOf("agent", x.kind, TRUE))
<1>0. /\ StoreOK(Store) /\ t \in Tasks /\ c \in Claims
      /\ x.kind \in Reports \cup {"unclaim"} /\ x.text \in Texts /\ x.row \in Nat
  BY DEF RowsInv, TaskInv, AgentCalls
<1>1. CASE Moved(Store, Store', {t}, "limit", "unclaim", "none")
           /\ MoveOK(Store, {t}, "limit", "unclaim")
  BY <1>0, <1>1, MovedCall
<1>2. CASE Outcome(k, t, c, x.kind, x.text) = "written"
  <2>1. claim[c].end = "live" /\ ~Replays(c, x.kind, x.text)
    BY <1>0, <1>2, CallOK
  <2>2. /\ rows'[t] = Append(rows[t], e) /\ claim'[c].task = t /\ claim'[c].key = k
        /\ claim'[c].row = n /\ claim'[c].end \in ClaimEnds \cup {"live"}
    <3>1. /\ rows'[t] = Append(rows[t],
                Entry(c, x.kind, x.text, TRUE, EndOf("agent", x.kind, TRUE)))
          /\ claim'[c].task = t /\ claim'[c].key = k /\ claim'[c].row = Len(rows[t]) + 1
          /\ claim'[c].end \in ClaimEnds \cup {"live"}
      BY <1>0, <1>2, AgentAppends
    <3> QED
      BY <3>1
  <2>3. /\ e.claim = c /\ e.kind = x.kind /\ e.text = x.text /\ e.agent = TRUE
    BY DEF Entry
  <2> HIDE DEF e
  <2>4. /\ n \in Nat /\ DOMAIN rows'[t] = DOMAIN rows[t] \cup {n} /\ rows'[t][n] = e
        /\ \A i \in DOMAIN rows[t] : i \in Nat /\ i < n /\ rows'[t][i] = rows[t][i]
        /\ DOMAIN rows[t] = 1..(n - 1)
    <3>1. rows[t] \in Seq(EntryRows)
      BY <1>0, Typed
    <3>2. /\ Len(rows[t]) \in Nat /\ DOMAIN rows[t] = 1..Len(rows[t])
          /\ DOMAIN Append(rows[t], e) = DOMAIN rows[t] \cup {n}
          /\ Append(rows[t], e)[n] = e
          /\ \A i \in DOMAIN rows[t] : i \in Nat /\ i < n /\ Append(rows[t], e)[i] = rows[t][i]
      BY <3>1, Appends
    <3>3. n \in Nat /\ Len(rows[t]) = n - 1
      BY <3>2
    <3> HIDE DEF n
    <3> QED
      BY <2>2, <3>2, <3>3
  <2> HIDE DEF n
  <2> DEFINE R == RowsOfCall(Store, x)
  <2>5. /\ x.row \in R /\ rows[t][x.row].end = EndOf("agent", x.kind, TRUE)
        /\ \A i \in R : rows[t][i].kind = x.kind /\ rows[t][i].text = x.text
        /\ \A i, j \in R : i < j => \E a \in i..j : rows[t][a].kind = "answer"
    BY <2>1, StoreFields DEF CallGood
  <2>6. R \subseteq DOMAIN rows[t]
    BY StoreFields DEF RowsOfCall
  <2>7. RowsOfCall(Store', x) = R \cup {n}
    <3>1. x.row <= n
      BY <2>4, <2>5, <2>6, <1>0
    <3> QED
      BY <2>3, <2>4, <3>1, StoreFields DEF RowsOfCall
  <2>8. \A i \in R : \E a \in DOMAIN rows[t] : i <= a /\ rows[t][a].kind = "answer"
    BY <2>1, AnsweredBetween
  <2> HIDE DEF R
  <2>9. ASSUME NEW i \in R \cup {n}, NEW j \in R \cup {n}, i < j
        PROVE  \E a \in i..j : rows'[t][a].kind = "answer"
    <3>1. i \in R
      BY <2>4, <2>6, <2>9
    <3>2. CASE j \in R
      <4>1. PICK a \in i..j : rows[t][a].kind = "answer"
        BY <2>5, <2>9, <3>1, <3>2
      <4>2. a \in DOMAIN rows[t]
        BY <2>4, <2>6, <3>1, <3>2
      <4> QED
        BY <2>4, <4>1, <4>2
    <3>3. CASE j = n
      <4>1. PICK a \in DOMAIN rows[t] : i <= a /\ rows[t][a].kind = "answer"
        BY <2>8, <3>1
      <4>2. a \in i..n
        BY <2>4, <2>6, <3>1, <4>1
      <4> QED
        BY <2>4, <3>3, <4>1, <4>2
    <3> QED
      BY <3>2, <3>3
  <2>10. \A i \in R \cup {n} :
            /\ rows'[t][i].kind = x.kind /\ rows'[t][i].text = x.text /\ i <= n
    <3>1. /\ rows'[t][n].kind = x.kind /\ rows'[t][n].text = x.text /\ n <= n
      BY <2>3, <2>4
    <3>2. ASSUME NEW i \in R
          PROVE  rows'[t][i].kind = x.kind /\ rows'[t][i].text = x.text /\ i <= n
      <4>1. i \in DOMAIN rows[t]
        BY <2>6
      <4>2. rows'[t][i] = rows[t][i] /\ i < n /\ i \in Nat
        BY <2>4, <4>1
      <4> QED
        BY <2>4, <2>5, <4>2
    <3> QED
      BY <3>1, <3>2
  <2>11. rows'[t][x.row].end = EndOf("agent", x.kind, TRUE)
    BY <2>4, <2>5, <2>6
  <2>12. InUse(Store', c)
    BY <2>2, StoreFields DEF InUse, ClaimEnds
  <2>13. /\ Store'.claim[c].task = t /\ Store'.claim[c].key = k /\ Store'.claim[c].row = n
         /\ Store'.rows[t] = rows'[t]
    BY <2>2, StoreFields
  <2> DEFINE Q == RowsOfCall(Store', x)
             r == Store'.rows[x.task]
             m == Store'.claim[x.claim]
  <2>14. /\ InUse(Store', x.claim) /\ m.task = x.task /\ m.key = k
         /\ x.row \in Q /\ m.row \in Q
    BY <2>5, <2>7, <2>12, <2>13
  <2>15. r[x.row].end = EndOf("agent", x.kind, TRUE)
    BY <2>11, <2>13
  <2>16. \A i \in Q : r[i].kind = x.kind /\ r[i].text = x.text /\ i <= m.row
    BY <2>7, <2>10, <2>13
  <2>17. \A i, j \in Q : i < j => \E a \in i..j : r[a].kind = "answer"
    <3>1. r = rows'[t] /\ Q = R \cup {n}
      BY <2>7, <2>13
    <3> HIDE DEF Q, r, t
    <3> QED
      BY <2>9, <3>1
  <2> QED
    BY <2>14, <2>15, <2>16, <2>17 DEF CallGood
<1> QED
  BY <1>0, <1>1, <1>2 DEF AgentWrote

CallsInv == RowsInv /\ CallsOK

LEMMA CallsKept ==
    ASSUME CallsInv, [Next]_vars, call' = call,
           \A k \in Keys, x \in AgentCalls : CallGood(Store, k, x) => CallGood(Store', k, x)
    PROVE  CallsOK'
BY DEF CallsInv, RowsInv, TaskInv, OthersOK, CallsOK

LEMMA CallsInvNext == CallsInv /\ [Next]_vars => CallsOK'
<1> SUFFICES ASSUME CallsInv, [Next]_vars PROVE CallsOK'
  OBVIOUS
<1>0. StoreOK(Store) /\ RowsInv /\ CallsOK /\ call \in [Keys -> AgentCalls \cup {NoOne}]
  BY DEF CallsInv, RowsInv, TaskInv, OthersOK
<1>s. Store.rows \in [Tasks -> Seq(EntryRows)]
  BY <1>0 DEF StoreOK, Stores
<1>1. ASSUME NEW k \in Keys, Call(k) PROVE CallsOK'
  <2>0. call[k] = NoOne
    BY <1>1 DEF Call
  <2>1. PICK t \in Tasks, c \in Claims, kind \in Reports \cup {"unclaim"}, text \in Texts :
            /\ AgentWrote(k, t, c, kind, text)
            /\ \/ call' = call
               \/ /\ Outcome(k, t, c, kind, text) = "written"
                  /\ call' = [call EXCEPT ![k] =
                        [task |-> t, claim |-> c, kind |-> kind, text |-> text,
                         row |-> Len(rows[t]) + 1]]
    BY <1>0, <1>1, Calling
  <2> SUFFICES ASSUME NEW l \in Keys, call'[l] # NoOne
               PROVE  CallGood(Store', l, call'[l])
    BY DEF CallsOK
  <2>2. CASE l # k
    <3>1. call'[l] = call[l]
      BY <1>0, <2>1, <2>2
    <3>2. call[l] \in AgentCalls /\ CallGood(Store, l, call[l])
      BY <1>0, <3>1 DEF CallsOK
    <3> QED
      BY <1>0, <2>1, <2>2, <3>1, <3>2, OthersCall
  <2>3. CASE l = k
    <3>1. /\ Outcome(k, t, c, kind, text) = "written"
          /\ call'[k] = [task |-> t, claim |-> c, kind |-> kind, text |-> text,
                         row |-> Len(rows[t]) + 1]
      BY <1>0, <2>0, <2>1, <2>3
    <3> QED
      BY <1>0, <2>1, <2>3, <3>1, FreshCall
  <2> QED
    BY <2>2, <2>3
<1>2. ASSUME NEW k \in Keys, Repeat(k) PROVE CallsOK'
  <2> DEFINE x == call[k]
  <2>1. x \in AgentCalls /\ CallGood(Store, k, x)
    BY <1>0, <1>2 DEF Repeat, CallsOK
  <2>2. /\ Store' = Store \/ AgentWrote(k, x.task, x.claim, x.kind, x.text)
        /\ call' \in {call, [call EXCEPT ![k] = NoOne]}
    BY <1>0, <1>2, <2>1, Repeating
  <2>a. x.task \in Tasks /\ x.claim \in Claims /\ x.kind \in Reports \cup {"unclaim"}
        /\ x.text \in Texts
    BY <2>1 DEF AgentCalls
  <2> SUFFICES ASSUME NEW l \in Keys, call'[l] # NoOne
               PROVE  CallGood(Store', l, call'[l])
    BY DEF CallsOK
  <2>3. call'[l] = call[l]
    BY <1>0, <2>2
  <2>4. call[l] \in AgentCalls /\ CallGood(Store, l, call[l])
    BY <1>0, <2>3 DEF CallsOK
  <2>5. CASE Store' = Store
    BY <2>3, <2>4, <2>5
  <2>6. CASE AgentWrote(k, x.task, x.claim, x.kind, x.text)
    <3>1. CASE l = k
      BY <1>0, <2>1, <2>3, <2>6, <3>1, RepeatedCall
    <3>2. CASE l # k
      <4> HIDE DEF x
      <4> QED
        BY <1>0, <2>3, <2>4, <2>6, <2>a, <3>2, OthersCall
    <3> QED
      BY <3>1, <3>2
  <2> QED
    BY <2>2, <2>5, <2>6
<1>3. ASSUME NEW k \in Keys, Expire(k) PROVE CallsOK'
  BY <1>0, <1>3, CallsKept DEF Expire, Store
<1>4. ASSUME NEW k \in Keys, NEW t \in Tasks, Claim(k, t) PROVE CallsOK'
  <2>1. call' = call
    BY <1>4 DEF Claim
  <2>2. \A l \in Keys, x \in AgentCalls : CallGood(Store, l, x) => CallGood(Store', l, x)
    BY <1>0, <1>4, Claiming, ClaimedCall, StoreFields
  <2> QED
    BY <2>1, <2>2, CallsKept
<1>5. ASSUME NEW k \in Keys, NEW t \in Tasks, AgentCancel(k, t) PROVE CallsOK'
  <2>1. call' = call
    BY <1>5 DEF AgentCancel
  <2>2. \E e : Noted(Store, Store', t, e)
    BY <1>0, <1>5, AgentCanceling
  <2>3. \A l \in Keys, x \in AgentCalls : CallGood(Store, l, x) => CallGood(Store', l, x)
    BY <1>0, <2>2, NotedCall
  <2> QED
    BY <2>1, <2>3, CallsKept
<1>6. ASSUME NEW t \in Tasks, NEW k \in Keys \cup {NoOne}, NEW title \in Titles,
             task[t].state = "unmade", Commit(Make(Store, t, k, title)), call' = call
      PROVE  CallsOK'
  <2>1. Store'.rows = Store.rows /\ Store'.claim = Store.claim
    BY <1>0, <1>6, Creating DEF Made
  <2> QED
    BY <1>6, <1>s, <2>1, SameCall, CallsKept
<1>7. ASSUME NEW t \in Tasks, NEW title \in Titles,
             Edit(t, title) \/ \E k \in Keys : AgentEdit(k, t, title)
      PROVE  CallsOK'
  <2>1. call' = call
    BY <1>7 DEF Edit, AgentEdit
  <2> QED
    BY <1>0, <1>7, <2>1, Editing, NotedCall, CallsKept
<1>8. ASSUME NEW t \in Tasks, NEW kind \in {"answer", "unclaim", "cancel", "reopen"},
             task[t].state \in From("member", kind), call' = call,
             Commit(WriteEntry(Store, {t}, "member", kind, "none"))
      PROVE  CallsOK'
  BY <1>0, <1>8, Moving, MovedCall, CallsKept
<1>9. ASSUME NEW t \in Tasks, Reopen(t) PROVE CallsOK'
  <2>1. task[t].state \in From("member", "reopen")
    BY <1>9 DEF Reopen, From, Reports
  <2> QED
    BY <1>8, <1>9, <2>1 DEF Reopen
<1>10. ASSUME NEW t \in Tasks, Discard(t) PROVE CallsOK'
  <2>1. call' = call
    BY <1>10 DEF Discard
  <2> QED
    BY <1>0, <1>10, <2>1, Discarding, DeletedCall, CallsKept
<1>11. ASSUME NEW S \in SUBSET Tasks, \A t \in S : task[t].claim # NoOne,
              Commit(End(Store, S, "access_gone")), call' = call
       PROVE  CallsOK'
  BY <1>0, <1>11, EndingAccess, EndedCall, CallsKept
<1>12. ASSUME NEW K \in SUBSET Keys, Revoke(K) PROVE CallsOK'
  <2>1. UNION {HeldBy(k) : k \in K} \in SUBSET Tasks
        /\ \A t \in UNION {HeldBy(k) : k \in K} : task[t].claim # NoOne
    BY DEF HeldBy
  <2> QED
    BY <1>11, <1>12, <2>1 DEF Revoke
<1>13. ASSUME NEW u \in Users, NEW p \in Projects, LoseProject(u, p) PROVE CallsOK'
  <2> DEFINE S == {t \in Tasks : ProjectOf[t] = p /\
                             \E k \in Keys : UserOf[k] = u /\ t \in HeldBy(k)}
  <2>1. S \in SUBSET Tasks /\ \A t \in S : task[t].claim # NoOne
    BY DEF HeldBy
  <2>2. Commit(End(Store, S, "access_gone")) /\ call' = call
    BY <1>13 DEF LoseProject
  <2> HIDE DEF S
  <2> QED
    BY <1>11, <2>1, <2>2
<1>14. ASSUME NEW c \in Claims, Quieten(c) PROVE CallsOK'
  <2>1. Store'.rows = Store.rows /\ Store'.claim = Store.claim /\ call' = call
    BY <1>14, StoreFields DEF Quieten
  <2> QED
    BY <1>s, <2>1, SameCall, CallsKept
<1>t. ASSUME NEW S \in SUBSET Tasks, NEW k \in Keys, NEW x \in AgentCalls, CallGood(Store, k, x)
      PROVE  CallGood(UnclaimIdle(EndClaims(Store), S), k, x)
  <2>1. CallGood(EndClaims(Store), k, x)
    BY <1>0, <1>t, Ends, EndedCall
  <2> QED
    BY <1>0, <2>1, Ends, EndedCall
<1>15. CASE Sweep
  <2>1. PICK S \in SUBSET Tasks : Deleted(UnclaimIdle(EndClaims(Store), Tasks), Store', S)
    BY <1>0, <1>15, Sweeping
  <2>2. StoreOK(UnclaimIdle(EndClaims(Store), Tasks))
    BY <1>0, Ends
  <2>3. call' = call
    BY <1>15 DEF Sweep
  <2> QED
    BY <1>t, <2>1, <2>2, <2>3, DeletedCall, CallsKept
<1>16. CASE SweepCut
  <2>1. call' = call
    BY <1>16 DEF SweepCut
  <2> QED
    BY <1>0, <1>16, <1>t, <2>1, CutSweeping, CallsKept
<1>17. CASE UNCHANGED vars
  BY <1>0, <1>17, CallsKept DEF vars, Store
<1>18. ASSUME NEW k \in Keys, NEW t \in Tasks, NEW title \in Titles, AgentCreate(k, t, title)
       PROVE  CallsOK'
  BY <1>6, <1>18 DEF AgentCreate
<1>19. ASSUME NEW t \in Tasks, NEW title \in Titles, Create(t, title)
       PROVE  CallsOK'
  BY <1>6, <1>19 DEF Create
<1>20. ASSUME NEW t \in Tasks, NEW kind \in {"answer", "unclaim", "cancel"}, Move(t, kind)
       PROVE  CallsOK'
  BY <1>8, <1>20 DEF Move
<1> QED
  BY <1>1, <1>2, <1>3, <1>4, <1>5, <1>7, <1>9, <1>10, <1>12, <1>13, <1>14, <1>15, <1>16,
     <1>17, <1>18, <1>19, <1>20 DEF Next

LEMMA CallsInvHolds == Spec => []CallsInv
<1>1. Init => CallsOK
  BY DEF Init, CallsOK
<1>2. CallsInv /\ [Next]_vars => CallsInv'
  BY CallsInvNext, RowsInvNext, TaskInvNext DEF CallsInv, RowsInv
<1> QED
  BY <1>1, <1>2, RowsInvInit, PTL DEF Spec, CallsInv

LEMMA CallsInvWrites == CallsInv => WritesOnce
<1> SUFFICES ASSUME CallsInv, NEW k \in Keys, CallLasts(k),
                    NEW i \in CallRows(k), NEW j \in CallRows(k), i < j
             PROVE  \E a \in i..j : rows[call[k].task][a].kind = "answer"
  BY DEF WritesOnce
<1>1. CallRows(k) = RowsOfCall(Store, call[k])
  BY StoreFields DEF CallRows, RowsOfCall
<1>2. CallGood(Store, k, call[k]) /\ Store.claim[call[k].claim].end # "gone"
  BY StoreFields DEF CallsInv, CallsOK, CallLasts
<1>3. \A m, n \in RowsOfCall(Store, call[k]) : m < n =>
         \E a \in m..n : Store.rows[call[k].task][a].kind = "answer"
  BY <1>2 DEF CallGood
<1> QED
  BY <1>1, <1>3, StoreFields

LEMMA CallsInvHears == CallsInv => HearsFirst
<1> SUFFICES ASSUME CallsInv, NEW k \in Keys, CallLasts(k)
             PROVE  LET t == call[k].task
                        c == call[k].claim
                        Told(text) == /\ Outcome(k, t, c, call[k].kind, text) = "replay"
                                      /\ LastEntry(c) = call[k].row
                                      /\ claim[c].row = call[k].row
                    IN  /\ call[k].kind \in {"result", "unclaim"} =>
                              \A text \in Texts \cup {"none"} : Told(text)
                        /\ (\A i \in DOMAIN rows[t] : i > call[k].row => rows[t][i].kind = "edit")
                             => Told(call[k].text)
  BY DEF HearsFirst
<1> DEFINE x == call[k]
           t == x.task
           c == x.claim
           r == x.row
           own == {i \in DOMAIN rows[t] : rows[t][i].claim = c}
           R == RowsOfCall(Store, x)
<1>0. RowsInv /\ StoreOK(Store) /\ x \in AgentCalls
  BY DEF CallsInv, RowsInv, TaskInv, OthersOK, CallLasts
<1>1. /\ t \in Tasks /\ c \in Claims /\ r \in Nat /\ x.kind \in Reports \cup {"unclaim"}
  BY <1>0 DEF AgentCalls
<1>2. /\ claim[c].end \notin {"unused", "gone"} /\ claim[c].task = t /\ claim[c].key = k
      /\ r \in R /\ claim[c].row \in R
      /\ rows[t][r].end = EndOf("agent", x.kind, TRUE)
      /\ \A i \in R : rows[t][i].kind = x.kind /\ rows[t][i].text = x.text /\ i <= claim[c].row
  <2>1. CallGood(Store, k, x) /\ Store.claim[c].end # "gone"
    BY StoreFields DEF CallsInv, CallsOK, CallLasts
  <2> QED
    BY <2>1, StoreFields DEF CallGood, InUse
<1>3. /\ R \subseteq own /\ \A i \in R : i >= r /\ rows[t][i].agent
  BY StoreFields DEF RowsOfCall
<1>4. rows[t] \in Seq(EntryRows) /\ own \in SUBSET Nat /\ claim[c] \in ClaimRows
  <2>1. rows[t] \in Seq(EntryRows)
    BY <1>0, <1>1, Typed
  <2>2. DOMAIN rows[t] \subseteq Nat
    BY <2>1
  <2> QED
    BY <1>0, <1>1, <2>1, <2>2, Typed
<1>5. ASSUME LastOf(own) = r
      PROVE  R = {r} /\ claim[c].row = r
  <2>1. \A i \in own : i <= r
    <3>1. own # {} /\ own \in SUBSET (1..Len(rows[t])) /\ Len(rows[t]) \in Nat
      <4>1. DOMAIN rows[t] = 1..Len(rows[t]) /\ Len(rows[t]) \in Nat
        BY <1>4
      <4>2. own \subseteq DOMAIN rows[t] /\ r \in own
        BY <1>2, <1>3
      <4> QED
        BY <4>1, <4>2
    <3> HIDE DEF own
    <3>2. PICK m \in own : \A j \in own : j <= m
      BY <3>1, GreatestOf
    <3>3. LastOf(own) = m
      BY <1>4, <3>2, LastIs
    <3> QED
      BY <1>5, <3>2, <3>3
  <2>2. \A i \in R : i \in Nat /\ i <= r /\ i >= r
    BY <1>3, <1>4, <2>1
  <2>3. \A i \in R : i = r
    BY <1>1, <2>2
  <2> QED
    BY <1>2, <2>3
<1>e. ASSUME claim[c].end # "live"
      PROVE  /\ rows[t][LastOf(own)].end = claim[c].end /\ claim[c].end # "none"
             /\ \A i \in own : i # LastOf(own) => rows[t][i].end = "none"
  <2> DEFINE other == {i \in DOMAIN rows[claim[c].task] : rows[claim[c].task][i].claim = c}
  <2>1. /\ rows[claim[c].task][LastOf(other)].end = claim[c].end /\ claim[c].end # "none"
        /\ \A i \in other : i # LastOf(other) => rows[claim[c].task][i].end = "none"
    BY <1>0, <1>1, <1>2, <1>e, EndedLast
  <2>2. other = own
    BY <1>2
  <2> QED
    BY <1>2, <2>1, <2>2
<1>6. ASSUME x.kind \in {"result", "unclaim"}
      PROVE  /\ LastOf(own) = r /\ claim[c].end # "live"
             /\ <<x.kind, claim[c].end>> \in {<<"result", "done">>, <<"unclaim", "unclaimed">>}
  <2>1. rows[t][r].end # "none" /\ rows[t][r].claim = c /\ r \in DOMAIN rows[t]
    BY <1>2, <1>3, <1>6 DEF EndOf
  <2>2. claim[c].end # "live"
    <3>1. OwnRowsEnd(Store, c, t)
      BY <1>0, <1>1, <1>2, StoreFields DEF RowsInv, RowsOK, RowsEnd, InUse
    <3> QED
      BY <2>1, <3>1, StoreFields DEF OwnRowsEnd
  <2>3. LastOf(own) = r /\ rows[t][r].end = claim[c].end
    BY <1>e, <2>1, <2>2
  <2> QED
    BY <1>2, <1>6, <2>2, <2>3 DEF EndOf
<1>7. ASSUME \A i \in DOMAIN rows[t] : i > r => rows[t][i].kind = "edit"
      PROVE  LastOf(own) = r
  <2>1. ASSUME NEW i \in own PROVE i <= r
    <3>1. Names(rows[t][i])
      BY <1>0, <1>1, StoreFields, NoOnes DEF RowsInv, RowsOK, RowsNamed
    <3> QED
      BY <1>1, <1>4, <1>7, <3>1 DEF Names
  <2>2. r \in own
    BY <1>2, <1>3
  <2> HIDE DEF own
  <2> QED
    BY <1>4, <2>1, <2>2, LastIs
<1>8. ASSUME NEW text, LastOf(own) = r, LastEntry(c) = r,
             \/ claim[c].end = "live" /\ text = x.text
             \/ <<x.kind, claim[c].end>> \in {<<"result", "done">>, <<"unclaim", "unclaimed">>}
      PROVE  /\ Outcome(k, t, c, x.kind, text) = "replay"
             /\ LastEntry(c) = r /\ claim[c].row = r
  <2>1. r # 0 /\ rows[t][r].kind = x.kind /\ rows[t][r].text = x.text /\ rows[t][r].agent
    <3>1. r \in DOMAIN rows[t] /\ rows[t] \in Seq(EntryRows)
      BY <1>2, <1>3, <1>4
    <3>2. r # 0
      BY <3>1
    <3> QED
      BY <1>2, <1>3, <3>2
  <2>2. Replays(c, x.kind, text)
    BY <1>2, <1>8, <2>1 DEF Replays
  <2> QED
    BY <1>2, <1>5, <1>8, <2>2 DEF Outcome
<1>9. ASSUME x.kind \in {"result", "unclaim"}, NEW text
      PROVE  /\ Outcome(k, t, c, x.kind, text) = "replay"
             /\ LastEntry(c) = r /\ claim[c].row = r
  <2>1. LastEntry(c) = r
    BY <1>2, <1>6, <1>9 DEF LastEntry
  <2> QED
    BY <1>6, <1>8, <1>9, <2>1
<1>10. ASSUME \A i \in DOMAIN rows[t] : i > r => rows[t][i].kind = "edit"
       PROVE  /\ Outcome(k, t, c, x.kind, x.text) = "replay"
              /\ LastEntry(c) = r /\ claim[c].row = r
  <2>1. LastOf(own) = r
    BY <1>7, <1>10
  <2>2. CASE claim[c].end = "live"
    <3>1. LastEntry(c) = r
      BY <1>2, <1>10, <2>1 DEF LastEntry
    <3> QED
      BY <1>8, <2>1, <2>2, <3>1
  <2>3. CASE claim[c].end # "live"
    <3>1. rows[t][r].end = claim[c].end /\ claim[c].end # "none"
      BY <1>e, <2>1, <2>3
    <3>2. x.kind \in {"result", "unclaim"}
      BY <1>1, <1>2, <3>1 DEF EndOf, Reports
    <3> QED
      BY <1>9, <3>2
  <2> QED
    BY <2>2, <2>3
<1> QED
  BY <1>9, <1>10

\* A call made again because its answer was lost (actions.ts agentEntry(),
\* entries.ts lastEntry()) writes no second entry, unless a member answered in
\* between, and is told what it was told first: while nothing but edits came
\* since, and for a result or an unclaim whatever came since.
THEOREM RetriesHearTheFirst == Spec => []RetryAsFirst
<1>1. CallsInv => RetryAsFirst
  BY CallsInvWrites, CallsInvHears DEF RetryAsFirst
<1> QED
  BY <1>1, CallsInvHolds, PTL

----------------------------------------------------------------------------
(* What is promised of a task *)

\* ClaimsSinceReopen, of the entries s
TakenRows(s) ==
    {i \in DOMAIN s :
        /\ \A r \in {j \in DOMAIN s : s[j].kind = "reopen"} : r < i
        /\ s[i].kind = "claim"}

TakenIn(s) == Cardinality(TakenRows(s))

LEMMA TakenIs == \A t \in Tasks : ClaimsSinceReopen(t) = TakenIn(rows[t])
BY DEF ClaimsSinceReopen, Since, TakenIn, TakenRows

LEMMA TakenCounts ==
    ASSUME NEW s \in Seq(EntryRows)
    PROVE  IsFiniteSet(TakenRows(s)) /\ TakenIn(s) \in Nat
<1>1. Len(s) \in Nat /\ DOMAIN s = 1..Len(s)
  OBVIOUS
<1>2. IsFiniteSet(1..Len(s))
  BY <1>1, FS_Interval
<1>3. TakenRows(s) \subseteq 1..Len(s)
  BY <1>1 DEF TakenRows
<1> QED
  BY <1>2, <1>3, FS_Subset, FS_CardinalityType DEF TakenIn

LEMMA TakenNone == TakenIn(<<>>) = 0
<1>1. TakenRows(<<>>) = {}
  BY DEF TakenRows
<1> QED
  BY <1>1, FS_EmptySet DEF TakenIn

LEMMA TakenMore ==
    ASSUME NEW s \in Seq(EntryRows), NEW e
    PROVE  /\ e.kind \notin {"claim", "reopen"} => TakenIn(Append(s, e)) = TakenIn(s)
           /\ e.kind = "reopen" => TakenIn(Append(s, e)) = 0
           /\ e.kind = "claim" => TakenIn(Append(s, e)) = TakenIn(s) + 1
<1> DEFINE q == Append(s, e)
           n == Len(s) + 1
<1>1. /\ n \in Nat /\ DOMAIN q = DOMAIN s \cup {n} /\ q[n] = e /\ n \notin DOMAIN s
      /\ \A i \in DOMAIN s : i \in Nat /\ i < n /\ q[i] = s[i]
  BY Appends
<1> HIDE DEF q, n
<1>2. CASE e.kind \notin {"claim", "reopen"}
  <2>1. TakenRows(q) = TakenRows(s)
    BY <1>1, <1>2 DEF TakenRows
  <2> QED
    BY <1>2, <2>1 DEF TakenIn, q
<1>3. CASE e.kind = "reopen"
  <2>1. TakenRows(q) = {}
    BY <1>1, <1>3 DEF TakenRows
  <2> QED
    BY <1>3, <2>1, FS_EmptySet DEF TakenIn, q
<1>4. CASE e.kind = "claim"
  <2>1. TakenRows(q) = TakenRows(s) \cup {n} /\ n \notin TakenRows(s)
    BY <1>1, <1>4 DEF TakenRows
  <2>2. Cardinality(TakenRows(s) \cup {n}) = Cardinality(TakenRows(s)) + 1
    BY <2>1, TakenCounts, FS_AddElement
  <2> QED
    BY <1>4, <2>1, <2>2 DEF TakenIn, q
<1> QED
  BY <1>2, <1>3, <1>4

Holder(w, t) == IF w.task[t].claim = NoOne THEN NoOne ELSE w.claim[w.task[t].claim].key

\* what TaskLife sees of a task, but for who reaches it
View(w, t) == [state |-> w.task[t].state, holder |-> Holder(w, t), taken |-> TakenIn(w.rows[t])]

\* a step of a task that is no taking
Goes(l, m) ==
    \/ Life!Same(l, m) \/ Life!Opened(l, m) \/ Life!WorkedOn(l, m) \/ Life!GivenBack(l, m)
    \/ Life!Finished(l, m) \/ Life!Canceled(l, m) \/ Life!Removed(l, m)

\* whoever holds a task after held it before
HoldsOn(w, v) ==
    \A t \in Tasks : v.task[t].claim # NoOne =>
        w.task[t].claim # NoOne /\ Holder(v, t) = Holder(w, t)

LEMMA MovedHolds ==
    ASSUME NEW w, StoreOK(w), NEW S, NEW actor, NEW kind, MoveOK(w, S, actor, kind),
           NEW text, NEW v, Moved(w, v, S, actor, kind, text)
    PROVE  /\ HoldsOn(w, v)
           /\ \A t \in Tasks \ S : v.task[t] = w.task[t] /\ Holder(v, t) = Holder(w, t)
           /\ \A t \in S :
                 /\ v.task[t].state = To(kind)
                 /\ v.task[t].claim = IF EndAt(w, t, actor, kind) # "none" THEN NoOne
                                      ELSE w.task[t].claim
                 /\ v.task[t].claim = NoOne => Holder(v, t) = NoOne
                 /\ v.task[t].claim # NoOne => Holder(v, t) = Holder(w, t)
<1>1. \A t \in Tasks : w.task[t].claim \in Claims \cup {NoOne}
  BY DEF StoreOK, Stores, TaskRows
<1>2. \A c \in Claims : v.claim[c].key = w.claim[c].key
  BY MovedClaim
<1>3. ASSUME NEW t \in S
      PROVE  /\ t \in Tasks /\ v.task[t].state = To(kind)
             /\ v.task[t].claim = IF EndAt(w, t, actor, kind) # "none" THEN NoOne
                                  ELSE w.task[t].claim
  <2> DEFINE c == IF EndAt(w, t, actor, kind) # "none" THEN NoOne ELSE w.task[t].claim
  <2>1. v.task[t] = [state |-> To(kind), claim |-> c, by |-> w.task[t].by,
                     title |-> w.task[t].title]
    BY DEF Moved
  <2> HIDE DEF c
  <2>2. v.task[t].state = To(kind) /\ v.task[t].claim = c
    BY <2>1
  <2> QED
    BY <2>2 DEF c, MoveOK
<1>4. ASSUME NEW t \in Tasks, t \notin S
      PROVE  v.task[t] = w.task[t]
  BY <1>4 DEF Moved
<1>5. ASSUME NEW t \in Tasks, v.task[t].claim # NoOne
      PROVE  w.task[t].claim # NoOne /\ Holder(v, t) = Holder(w, t)
  <2>1. v.task[t].claim = w.task[t].claim
    BY <1>3, <1>4, <1>5
  <2> QED
    BY <1>1, <1>2, <1>5, <2>1 DEF Holder
<1>6. \A t \in Tasks : v.task[t].claim = NoOne => Holder(v, t) = NoOne
  BY DEF Holder
<1>7. ASSUME NEW t \in Tasks, t \notin S
      PROVE  Holder(v, t) = Holder(w, t)
  BY <1>4, <1>5, <1>7 DEF Holder
<1> QED
  BY <1>3, <1>4, <1>5, <1>6, <1>7 DEF HoldsOn

LEMMA MovedGoes ==
    ASSUME NEW w, StoreOK(w), NEW S, NEW actor, NEW kind, MoveOK(w, S, actor, kind),
           NEW text, NEW v, Moved(w, v, S, actor, kind, text), NEW t \in Tasks
    PROVE  Goes(View(w, t), View(v, t))
<1> DEFINE E == EndAt(w, t, actor, kind)
           l == View(w, t)
           m == View(v, t)
<1>1. /\ l.state = w.task[t].state /\ l.holder = Holder(w, t) /\ l.taken = TakenIn(w.rows[t])
      /\ m.state = v.task[t].state /\ m.holder = Holder(v, t) /\ m.taken = TakenIn(v.rows[t])
  BY DEF View
<1>2. CASE t \notin S
  <2>1. v.task[t] = w.task[t] /\ Holder(v, t) = Holder(w, t) /\ v.rows[t] = w.rows[t]
    <3>1. v.rows[t] = w.rows[t]
      BY <1>2 DEF Moved
    <3> QED
      BY <1>2, <3>1, MovedHolds
  <2> QED
    BY <1>1, <2>1 DEF Goes, Life!Same
<1>3. CASE t \in S
  <2>1. /\ v.task[t].state = To(kind)
        /\ v.task[t].claim = IF E # "none" THEN NoOne ELSE w.task[t].claim
        /\ v.task[t].claim = NoOne => Holder(v, t) = NoOne
        /\ v.task[t].claim # NoOne => Holder(v, t) = Holder(w, t)
    BY <1>3, MovedHolds
  <2>2. /\ kind \in EntryKinds \ {"claim", "edit"}
        /\ kind = "cancel" => w.task[t].state \in Unfinished
        /\ kind = "reopen" => w.task[t].state \in Closed
        /\ IF To(kind) \in Held THEN w.task[t].state \in Held /\ E = "none"
           ELSE w.task[t].claim # NoOne <=> E # "none"
    BY <1>3 DEF MoveOK
  <2>3. w.task[t].claim # NoOne <=> w.task[t].state \in Held
    BY DEF StoreOK, Mirrors
  <2>4. /\ kind # "reopen" => m.taken = l.taken
        /\ kind = "reopen" => m.taken = 0
    <3> DEFINE c == IF NamesClaim(actor, E # "none") THEN w.task[t].claim ELSE NoOne
               e == Entry(c, kind, text, actor = "agent", E)
    <3>1. v.rows[t] = Append(w.rows[t], e)
      BY <1>3 DEF Moved
    <3> HIDE DEF c, E
    <3>2. e.kind = kind
      BY DEF Entry
    <3>3. w.rows[t] \in Seq(EntryRows)
      BY DEF StoreOK, Stores
    <3> HIDE DEF e
    <3> QED
      BY <1>1, <2>2, <3>1, <3>2, <3>3, TakenMore
  <2>5. \/ kind \in {"progress", "question", "answer"} \/ kind = "result" \/ kind = "unclaim"
        \/ kind = "cancel" \/ kind = "reopen"
    BY <2>2 DEF EntryKinds, Reports
  <2> HIDE DEF E, l, m
  <2>6. CASE kind \in {"progress", "question", "answer"}
    <3>1. To(kind) \in Held
      BY <2>6 DEF To, Held
    <3>2. Life!WorkedOn(l, m)
      BY <1>1, <2>1, <2>2, <2>3, <2>4, <2>6, <3>1 DEF Life!WorkedOn, Life!Held, Held
    <3> QED
      BY <3>2 DEF Goes, l, m
  <2>7. CASE kind = "result"
    <3>1. To(kind) = "done" /\ E # "none"
      BY <2>7 DEF To, E, EndAt, EndOf
    <3>2. Life!Finished(l, m)
      BY <1>1, <2>1, <2>2, <2>3, <2>4, <2>7, <3>1
      DEF Life!Finished, Life!Free, Life!Held, Held
    <3> QED
      BY <3>2 DEF Goes, l, m
  <2>8. CASE kind = "unclaim"
    <3>1. To(kind) = "todo"
      BY <2>8 DEF To
    <3>2. E # "none"
      BY <1>3, <2>8 DEF MoveOK, E, EndAt, EndOf
    <3>3. Life!GivenBack(l, m)
      BY <1>1, <2>1, <2>2, <2>3, <2>4, <2>8, <3>1, <3>2
      DEF Life!GivenBack, Life!Free, Life!Held, Held
    <3> QED
      BY <3>3 DEF Goes, l, m
  <2>9. CASE kind = "cancel"
    <3>1. To(kind) = "canceled"
      BY <2>9 DEF To
    <3>2. Life!Canceled(l, m)
      BY <1>1, <2>1, <2>2, <2>3, <2>4, <2>9, <3>1
      DEF Life!Canceled, Life!Free, Life!Held, Held, Unfinished
    <3> QED
      BY <3>2 DEF Goes, l, m
  <2>10. CASE kind = "reopen"
    <3>1. To(kind) = "todo"
      BY <2>10 DEF To
    <3>2. Life!Opened(l, m)
      BY <1>1, <2>1, <2>2, <2>3, <2>4, <2>10, <3>1
      DEF Life!Opened, Life!Free, Life!Closed, Held, Closed
    <3> QED
      BY <3>2 DEF Goes, l, m
  <2> QED
    BY <2>5, <2>6, <2>7, <2>8, <2>9, <2>10
<1> QED
  BY <1>2, <1>3

\* a task not made yet, or deleted, has no entries
EmptyOK(w) ==
    \A t \in Tasks : w.task[t].state \in {"unmade", "deleted"} => w.rows[t] = <<>>

\* no task is taken, and what is written of each is in order
Steps(w, v) ==
    /\ \A t \in Tasks : Goes(View(w, t), View(v, t))
    /\ HoldsOn(w, v)
    /\ EmptyOK(w) => EmptyOK(v)

LEMMA SameSteps ==
    ASSUME NEW w, NEW v, v.task = w.task, v.rows = w.rows,
           \A t \in Tasks : Holder(v, t) = Holder(w, t)
    PROVE  Steps(w, v) /\ \A t \in Tasks : View(v, t) = View(w, t)
<1>1. \A t \in Tasks : View(v, t) = View(w, t)
  BY DEF View
<1>2. \A t \in Tasks : Goes(View(w, t), View(v, t))
  BY <1>1 DEF Goes, Life!Same
<1> QED
  BY <1>1, <1>2 DEF Steps, HoldsOn, EmptyOK

LEMMA MovedSteps ==
    ASSUME NEW w, StoreOK(w), NEW S, NEW actor, NEW kind, MoveOK(w, S, actor, kind),
           NEW text, NEW v, Moved(w, v, S, actor, kind, text)
    PROVE  Steps(w, v)
<1>1. EmptyOK(w) => EmptyOK(v)
  <2> SUFFICES ASSUME EmptyOK(w), NEW t \in Tasks, v.task[t].state \in {"unmade", "deleted"}
               PROVE  v.rows[t] = <<>>
    BY DEF EmptyOK
  <2>1. CASE t \in S
    <3>1. v.task[t].state = To(kind) /\ kind \in EntryKinds \ {"edit"}
      BY <2>1, MovedHolds DEF MoveOK
    <3>2. To(kind) \in Unfinished \cup Closed
      BY <3>1, ToStates
    <3> QED
      BY <3>1, <3>2 DEF Unfinished, Held, Closed
  <2>2. CASE t \notin S
    BY <2>2 DEF Moved, EmptyOK
  <2> QED
    BY <2>1, <2>2
<1> QED
  BY <1>1, MovedHolds, MovedGoes DEF Steps

LEMMA KeptSteps ==
    ASSUME NEW w, StoreOK(w), NEW c \in Claims, NEW v, Kept(w, v, c)
    PROVE  Steps(w, v) /\ \A t \in Tasks : View(v, t) = View(w, t)
<1>1. \A t \in Tasks : w.task[t].claim \in Claims \cup {NoOne}
  BY DEF StoreOK, Stores, TaskRows
<1>2. \A d \in Claims : v.claim[d].key = w.claim[d].key
  BY DEF Kept, StoreOK, Stores, ClaimRows
<1>3. v.task = w.task /\ v.rows = w.rows
  BY DEF Kept
<1>4. \A t \in Tasks : Holder(v, t) = Holder(w, t)
  BY <1>1, <1>2, <1>3 DEF Holder
<1> QED
  BY <1>3, <1>4, SameSteps

LEMMA WroteSteps ==
    ASSUME NEW w, StoreOK(w), NEW u, StoreOK(u), NEW v, Steps(w, u),
           Steps(u, v), \A t \in Tasks : View(v, t) = View(u, t)
    PROVE  Steps(w, v)
<1>1. \A t \in Tasks : Goes(View(w, t), View(v, t))
  BY DEF Steps
<1>2. HoldsOn(w, u) /\ HoldsOn(u, v) /\ (EmptyOK(w) => EmptyOK(v))
  BY DEF Steps
<1>3. HoldsOn(w, v)
  BY <1>2 DEF HoldsOn
<1> QED
  BY <1>1, <1>2, <1>3 DEF Steps

LEMMA NotedSteps ==
    ASSUME NEW w, StoreOK(w), NEW t \in Tasks, NEW e, NEW v, Noted(w, v, t, e),
           w.task[t].state \notin {"unmade", "deleted"},
           v.task[t].state = w.task[t].state \/
             (w.task[t].state = "todo" /\ v.task[t].state = "canceled")
    PROVE  Steps(w, v)
<1>1. /\ w.task \in [Tasks -> TaskRows] /\ w.rows \in [Tasks -> Seq(EntryRows)]
      /\ w.task[t].claim # NoOne <=> w.task[t].state \in Held
  BY DEF StoreOK, Stores, Mirrors
<1>2. \A u \in Tasks : u # t => v.task[u] = w.task[u]
  BY <1>1 DEF Noted
<1>3. /\ v.task[t].claim = w.task[t].claim /\ v.claim = w.claim
      /\ e.kind \in {"edit", "cancel"}
  BY DEF Noted
<1>4. /\ v.rows[t] = Append(w.rows[t], e)
      /\ \A u \in Tasks : u # t => v.rows[u] = w.rows[u]
  <2> DEFINE X == Seq(EntryRows)
  <2>1. w.rows \in [Tasks -> X]
    BY <1>1
  <2>2. v.rows = [w.rows EXCEPT ![t] = Append(@, e)]
    BY DEF Noted
  <2> HIDE DEF X
  <2> QED
    BY <2>1, <2>2
<1>5. \A u \in Tasks : v.task[u].claim = w.task[u].claim /\ Holder(v, u) = Holder(w, u)
  BY <1>2, <1>3 DEF Holder
<1>6. TakenIn(v.rows[t]) = TakenIn(w.rows[t])
  <2>1. w.rows[t] \in Seq(EntryRows)
    BY <1>1
  <2> QED
    BY <1>3, <1>4, <2>1, TakenMore
<1>7. ASSUME NEW u \in Tasks, u # t
      PROVE  View(v, u) = View(w, u)
  BY <1>2, <1>4, <1>5, <1>7 DEF View
<1>8. Goes(View(w, t), View(v, t))
  <2> DEFINE l == View(w, t)
             m == View(v, t)
  <2>1. /\ l.state = w.task[t].state /\ m.state = v.task[t].state
        /\ l.holder = Holder(w, t) /\ m.holder = Holder(w, t) /\ m.taken = l.taken
    BY <1>5, <1>6 DEF View
  <2>2. v.task[t].state # w.task[t].state => Holder(w, t) = NoOne
    BY <1>1 DEF Holder, Held
  <2> HIDE DEF l, m
  <2>3. Life!Same(l, m) \/ Life!Canceled(l, m)
    BY <2>1, <2>2 DEF Life!Same, Life!Canceled, Life!Free
  <2> QED
    BY <2>3 DEF Goes, l, m
<1>9. \A u \in Tasks : Goes(View(w, u), View(v, u))
  BY <1>7, <1>8 DEF Goes, Life!Same
<1>10. HoldsOn(w, v)
  BY <1>5 DEF HoldsOn
<1>11. EmptyOK(w) => EmptyOK(v)
  BY <1>2, <1>4 DEF EmptyOK
<1> QED
  BY <1>9, <1>10, <1>11 DEF Steps

LEMMA MadeSteps ==
    ASSUME NEW w, StoreOK(w), EmptyOK(w), NEW t \in Tasks, w.task[t].state = "unmade",
           NEW k, NEW title, NEW v, Made(w, v, t, k, title)
    PROVE  Steps(w, v)
<1>1. /\ w.task \in [Tasks -> TaskRows]
      /\ w.task[t].claim # NoOne <=> w.task[t].state \in Held
  BY DEF StoreOK, Stores, Mirrors
<1>2. /\ \A u \in Tasks : u # t => v.task[u] = w.task[u]
      /\ v.task[t] = [state |-> "todo", claim |-> NoOne, by |-> k, title |-> title]
      /\ v.claim = w.claim /\ v.rows = w.rows
  BY <1>1 DEF Made
<1>3. v.task[t].state = "todo" /\ v.task[t].claim = NoOne
  BY <1>2
<1>4. ASSUME NEW u \in Tasks, u # t
      PROVE  View(v, u) = View(w, u) /\ Holder(v, u) = Holder(w, u)
  BY <1>2, <1>4 DEF View, Holder
<1>5. Goes(View(w, t), View(v, t))
  <2>1. w.rows[t] = <<>>
    BY DEF EmptyOK
  <2>2. View(v, t).state = "todo" /\ View(v, t).holder = NoOne /\ View(v, t).taken = 0
    BY <1>2, <1>3, <2>1, TakenNone DEF View, Holder
  <2>3. View(w, t).state = "unmade"
    BY DEF View
  <2> QED
    BY <2>2, <2>3 DEF Goes, Life!Opened, Life!Free
<1>6. \A u \in Tasks : Goes(View(w, u), View(v, u))
  BY <1>4, <1>5 DEF Goes, Life!Same
<1>7. HoldsOn(w, v)
  BY <1>2, <1>3, <1>4 DEF HoldsOn
<1>8. EmptyOK(v)
  BY <1>2, <1>3 DEF EmptyOK
<1> QED
  BY <1>6, <1>7, <1>8 DEF Steps

LEMMA DeletedAt ==
    ASSUME NEW w, StoreOK(w), NEW S, NEW v, Deleted(w, v, S)
    PROVE  /\ HoldsOn(w, v) /\ (EmptyOK(w) => EmptyOK(v))
           /\ \A t \in Tasks \ S : View(v, t) = View(w, t)
           /\ \A t \in Tasks \cap S : w.task[t].state \notin {"unmade", "deleted"} =>
                 Goes(View(w, t), View(v, t))
<1>1. ASSUME NEW t \in Tasks, t \notin S
      PROVE  v.task[t] = w.task[t] /\ v.rows[t] = w.rows[t] /\ Holder(v, t) = Holder(w, t)
  <2>1. v.task[t] = w.task[t] /\ v.rows[t] = w.rows[t]
    BY <1>1 DEF Deleted
  <2>2. ASSUME w.task[t].claim # NoOne
        PROVE  v.claim[w.task[t].claim] = w.claim[w.task[t].claim]
    <3>1. w.task[t].claim \in Claims /\ w.claim[w.task[t].claim].task = t
      BY <2>2 DEF StoreOK, Stores, TaskRows, Mirrors
    <3> QED
      BY <1>1, <3>1 DEF Deleted
  <2> QED
    BY <2>1, <2>2 DEF Holder
<1>2. ASSUME NEW t \in Tasks, t \in S
      PROVE  /\ v.task[t].state = "deleted" /\ v.task[t].claim = NoOne /\ v.rows[t] = <<>>
             /\ Holder(v, t) = NoOne
  <2>1. v.task[t] = [state |-> "deleted", claim |-> NoOne, by |-> NoOne, title |-> NoOne]
        /\ v.rows[t] = <<>>
    BY <1>2 DEF Deleted
  <2> QED
    BY <2>1 DEF Holder
<1>3. HoldsOn(w, v)
  BY <1>1, <1>2 DEF HoldsOn
<1>4. EmptyOK(w) => EmptyOK(v)
  BY <1>1, <1>2 DEF EmptyOK
<1>5. \A t \in Tasks \ S : View(v, t) = View(w, t)
  BY <1>1 DEF View
<1>6. ASSUME NEW t \in Tasks, t \in S, w.task[t].state \notin {"unmade", "deleted"}
      PROVE  Goes(View(w, t), View(v, t))
  <2>1. w.task[t].state \in {"todo"} \cup Held \cup Closed
    BY <1>6 DEF StoreOK, Stores, TaskRows, Unfinished
  <2>2. View(w, t).state \in Life!Live
    BY <2>1 DEF View, Held, Closed, Life!Live, Life!Held, Life!Closed
  <2>3. View(v, t).state = "deleted" /\ View(v, t).holder = NoOne /\ View(v, t).taken = 0
    BY <1>2, <1>6, TakenNone DEF View
  <2> QED
    BY <2>2, <2>3 DEF Goes, Life!Removed, Life!Free
<1> QED
  BY <1>3, <1>4, <1>5, <1>6

LEMMA EndedAt ==
    ASSUME NEW w, StoreOK(w), NEW S, NEW actor, NEW v, Ended(w, v, S, actor)
    PROVE  /\ Steps(w, v)
           /\ \A t \in Tasks \ S : v.task[t] = w.task[t] /\ View(v, t) = View(w, t)
           /\ \A t \in S : /\ v.task[t].state = "todo" /\ v.task[t].claim = NoOne
                           /\ w.task[t].state \in Held
<1>0. \A t \in S : t \in Tasks /\ w.task[t].state \in Held
  BY DEF Ended, StoreOK, Mirrors
<1>1. CASE S = {} /\ v = w
  <2>1. Steps(w, v)
    BY <1>1, SameSteps
  <2> QED
    BY <1>1, <2>1
<1>2. CASE MoveOK(w, S, actor, "unclaim") /\ Moved(w, v, S, actor, "unclaim", "none")
  <2>1. Steps(w, v)
    BY <1>2, MovedSteps
  <2>2. \A t \in Tasks \ S : v.task[t] = w.task[t] /\ Holder(v, t) = Holder(w, t)
                              /\ v.rows[t] = w.rows[t]
    <3>1. \A t \in Tasks \ S : v.task[t] = w.task[t] /\ Holder(v, t) = Holder(w, t)
      BY <1>2, MovedHolds
    <3>2. \A t \in Tasks \ S : v.rows[t] = w.rows[t]
      BY <1>2 DEF Moved
    <3> QED
      BY <3>1, <3>2
  <2>3. ASSUME NEW t \in S
        PROVE  v.task[t].state = "todo" /\ v.task[t].claim = NoOne
    <3>1. To("unclaim") = "todo"
      BY DEF To
    <3>2. EndAt(w, t, actor, "unclaim") # "none"
      BY <1>2 DEF MoveOK, EndAt, EndOf
    <3>3. /\ v.task[t].state = To("unclaim")
          /\ v.task[t].claim = IF EndAt(w, t, actor, "unclaim") # "none" THEN NoOne
                               ELSE w.task[t].claim
      BY <1>2, MovedHolds
    <3> QED
      BY <3>1, <3>2, <3>3
  <2>4. \A t \in Tasks \ S : View(v, t) = View(w, t)
    BY <2>2 DEF View
  <2> QED
    BY <1>0, <2>1, <2>2, <2>3, <2>4
<1> QED
  BY <1>1, <1>2 DEF Ended

Idle(v, I) == \A t \in I : v.task[t].state = "in_progress"

\* of the tasks closed in u, S are gone from w
Discards(u, w, x, S) ==
    /\ \A t \in S : u.task[t].state \in Closed
    /\ Deleted(w, x, S) \/ (S = {} /\ x = w)

\* of what the three transactions of a sweep do, at most one is about a task
LEMMA SweptSteps ==
    ASSUME NEW u, StoreOK(u), NEW v, StoreOK(v), NEW w, StoreOK(w), NEW x,
           NEW K, Ended(u, v, K, "access_gone"),
           NEW I, Ended(v, w, I, "idle"), Idle(v, I),
           NEW S, Discards(u, w, x, S)
    PROVE  Steps(u, x)
<1>0. /\ \A t \in I : v.task[t].state = "in_progress"
      /\ \A t \in S : u.task[t].state \in Closed
      /\ Deleted(w, x, S) \/ (S = {} /\ x = w)
  BY DEF Idle, Discards
<1>1. /\ Steps(u, v)
      /\ \A t \in Tasks \ K : v.task[t] = u.task[t] /\ View(v, t) = View(u, t)
      /\ \A t \in K : v.task[t].state = "todo" /\ u.task[t].state \in Held
  BY EndedAt
<1>2. /\ Steps(v, w)
      /\ \A t \in Tasks \ I : w.task[t] = v.task[t] /\ View(w, t) = View(v, t)
      /\ \A t \in I : w.task[t].state = "todo" /\ v.task[t].state \in Held
  BY EndedAt
<1>3. /\ HoldsOn(w, x) /\ (EmptyOK(w) => EmptyOK(x))
      /\ \A t \in Tasks \ S : View(x, t) = View(w, t)
      /\ \A t \in Tasks \cap S : w.task[t].state \notin {"unmade", "deleted"} =>
            Goes(View(w, t), View(x, t))
  BY <1>0, DeletedAt DEF HoldsOn
<1>4. HoldsOn(u, x) /\ (EmptyOK(u) => EmptyOK(x))
  <2>1. HoldsOn(u, v) /\ HoldsOn(v, w) /\ HoldsOn(w, x) /\ (EmptyOK(u) => EmptyOK(x))
    BY <1>1, <1>2, <1>3 DEF Steps
  <2> QED
    BY <2>1 DEF HoldsOn
<1>5. ASSUME NEW t \in Tasks
      PROVE  Goes(View(u, t), View(x, t))
  <2>1. CASE t \in S
    <3>1. u.task[t].state \in Closed
      BY <1>0, <2>1
    <3>2. t \notin K
      BY <1>1, <3>1 DEF Held, Closed
    <3>3. t \notin I
      BY <1>0, <1>1, <1>2, <3>1, <3>2 DEF Held, Closed
    <3>4. w.task[t].state \in Closed /\ View(w, t) = View(u, t)
      BY <1>1, <1>2, <3>1, <3>2, <3>3
    <3>5. w.task[t].state \notin {"unmade", "deleted"}
      BY <3>4 DEF Closed
    <3> QED
      BY <1>3, <2>1, <3>4, <3>5
  <2>2. CASE t \notin S /\ t \in K
    <3>1. t \notin I
      BY <1>0, <1>1, <1>2, <2>2 DEF Held
    <3>2. View(x, t) = View(v, t)
      BY <1>2, <1>3, <2>2, <3>1
    <3> QED
      BY <1>1, <3>2 DEF Steps
  <2>3. CASE t \notin S /\ t \notin K
    <3>1. View(x, t) = View(w, t) /\ View(v, t) = View(u, t)
      BY <1>1, <1>3, <2>3
    <3> QED
      BY <1>2, <3>1 DEF Steps
  <2> QED
    BY <2>1, <2>2, <2>3
<1> QED
  BY <1>4, <1>5 DEF Steps

BoundOK(w) == \A t \in Tasks : TakenIn(w.rows[t]) <= MAX_CLAIMS

\* whoever holds a task may still reach it
HolderOK ==
    \A t \in Tasks : task[t].claim # NoOne =>
        LET k == Holder(Store, t)
        IN  /\ k \in Keys /\ access[k] # "revoked"
            /\ <<UserOf[k], ProjectOf[t]>> \in sees

LifeInv == TaskInv /\ EmptyOK(Store) /\ BoundOK(Store) /\ HolderOK

\* the key k takes the task t
Takes(k, t) ==
    /\ Reaches(k, ProjectOf[t]) /\ task[t].state = "todo"
    /\ ClaimsSinceReopen(t) < MAX_CLAIMS
    /\ \E c \in Claims : claim[c].end = "unused" /\ Claimed(Store, Store', k, t, c)

LEMMA AgentWroteSteps ==
    ASSUME StoreOK(Store), NEW k \in Keys, NEW t \in Tasks, NEW c \in Claims, NEW kind,
           NEW text \in Texts, AgentWrote(k, t, c, kind, text)
    PROVE  Steps(Store, Store')
<1>1. CASE /\ MoveOK(Store, {t}, "limit", "unclaim")
           /\ Moved(Store, Store', {t}, "limit", "unclaim", "none")
  BY <1>1, MovedSteps
<1>2. ASSUME MoveOK(Store, {t}, "agent", kind), NEW v,
             Moved(Store, v, {t}, "agent", kind, text), Kept(v, Store', c)
      PROVE  Steps(Store, Store')
  <2>0. StoreOK(v)
    BY <1>2, WroteOK
  <2>1. StoreOK(v) /\ Steps(Store, v)
    BY <1>2, <2>0, MovedSteps
  <2>2. Steps(v, Store') /\ \A u \in Tasks : View(Store', u) = View(v, u)
    BY <1>2, <2>1, KeptSteps
  <2> QED
    BY <2>1, <2>2, WroteSteps
<1> QED
  BY <1>1, <1>2 DEF AgentWrote

LEMMA RestSteps ==
    ASSUME Store' = Store
    PROVE  Steps(Store, Store')
BY SameSteps

LEMMA NextSteps ==
    ASSUME TaskInv, EmptyOK(Store), [Next]_vars
    PROVE  \/ Steps(Store, Store')
           \/ \E k \in Keys, t \in Tasks : Claim(k, t) /\ Takes(k, t)
<1>0. StoreOK(Store)
  BY DEF TaskInv
<1>1. ASSUME NEW k \in Keys, Call(k) PROVE Steps(Store, Store')
  BY <1>0, <1>1, Calling, AgentWroteSteps
<1>2. ASSUME NEW k \in Keys, Repeat(k) PROVE Steps(Store, Store')
  <2>1. call[k] \in AgentCalls
    BY <1>2 DEF TaskInv, OthersOK, Repeat
  <2>2. \/ Store' = Store
        \/ AgentWrote(k, call[k].task, call[k].claim, call[k].kind, call[k].text)
    BY <1>0, <1>2, <2>1, Repeating
  <2>3. call[k].task \in Tasks /\ call[k].claim \in Claims /\ call[k].text \in Texts
    BY <2>1 DEF AgentCalls
  <2> QED
    BY <1>0, <2>2, <2>3, RestSteps, AgentWroteSteps
<1>3. ASSUME NEW k \in Keys, Expire(k) PROVE Steps(Store, Store')
  BY <1>3, RestSteps DEF Expire, Store
<1>4. ASSUME NEW k \in Keys, NEW t \in Tasks, Claim(k, t) PROVE Takes(k, t)
  BY <1>0, <1>4, Claiming DEF Takes
<1>5. ASSUME NEW k \in Keys, NEW t \in Tasks, AgentCancel(k, t) PROVE Steps(Store, Store')
  BY <1>0, <1>5, AgentCanceling, NotedSteps, StoreFields
<1>6. ASSUME NEW t \in Tasks, NEW title \in Titles,
             Create(t, title) \/ \E k \in Keys : AgentCreate(k, t, title)
      PROVE  Steps(Store, Store')
  <2>1. PICK k \in Keys \cup {NoOne} :
            task[t].state = "unmade" /\ Commit(Make(Store, t, k, title))
    BY <1>6 DEF Create, AgentCreate
  <2> QED
    BY <1>0, <2>1, Creating, MadeSteps, StoreFields
<1>7. ASSUME NEW t \in Tasks, NEW title \in Titles,
             Edit(t, title) \/ \E k \in Keys : AgentEdit(k, t, title)
      PROVE  Steps(Store, Store')
  <2>1. task[t].state \notin {"unmade", "deleted"}
    BY <1>7 DEF Edit, AgentEdit, KeyTodo, Unfinished, Held
  <2> QED
    BY <1>0, <1>7, <2>1, Editing, NotedSteps, StoreFields
<1>10. ASSUME NEW t \in Tasks, Reopen(t) PROVE Steps(Store, Store')
  <2>1. task[t].state \in From("member", "reopen")
    BY <1>10 DEF Reopen, From, Reports
  <2> QED
    BY <1>0, <1>10, <2>1, Moving, MovedSteps DEF Reopen
<1>11. ASSUME NEW t \in Tasks, Discard(t) PROVE Steps(Store, Store')
  <2>1. Deleted(Store, Store', {t}) /\ Store.task[t].state \notin {"unmade", "deleted"}
    BY <1>0, <1>11, Discarding, StoreFields DEF Discard
  <2>2. /\ HoldsOn(Store, Store') /\ (EmptyOK(Store) => EmptyOK(Store'))
        /\ \A u \in Tasks \ {t} : View(Store', u) = View(Store, u)
        /\ Goes(View(Store, t), View(Store', t))
    BY <1>0, <2>1, DeletedAt
  <2>3. \A u \in Tasks : Goes(View(Store, u), View(Store', u))
    BY <2>2 DEF Goes, Life!Same
  <2> QED
    BY <2>2, <2>3 DEF Steps
<1>12. ASSUME NEW t \in Tasks, NEW kind \in {"answer", "unclaim", "cancel"}, Move(t, kind)
       PROVE  Steps(Store, Store')
  BY <1>0, <1>12, Moving, MovedSteps DEF Move
<1>13. ASSUME NEW K \in SUBSET Keys, Revoke(K) PROVE Steps(Store, Store')
  <2>1. UNION {HeldBy(k) : k \in K} \in SUBSET Tasks
        /\ \A t \in UNION {HeldBy(k) : k \in K} : task[t].claim # NoOne
    BY DEF HeldBy
  <2> QED
    BY <1>0, <1>13, <2>1, EndingAccess, EndedAt DEF Revoke
<1>14. ASSUME NEW u \in Users, NEW p \in Projects, LoseProject(u, p)
       PROVE  Steps(Store, Store')
  <2> DEFINE S == {t \in Tasks : ProjectOf[t] = p /\
                             \E k \in Keys : UserOf[k] = u /\ t \in HeldBy(k)}
  <2>1. S \in SUBSET Tasks /\ \A t \in S : task[t].claim # NoOne
    BY DEF HeldBy
  <2>2. Commit(End(Store, S, "access_gone"))
    BY <1>14 DEF LoseProject
  <2> HIDE DEF S
  <2> QED
    BY <1>0, <2>1, <2>2, EndingAccess, EndedAt
<1>15. ASSUME NEW c \in Claims, Quieten(c) PROVE Steps(Store, Store')
  <2>1. task' = task /\ claim' = claim /\ rows' = rows
    BY <1>15 DEF Quieten
  <2>2. \A t \in Tasks : Holder(Store', t) = Holder(Store, t)
    BY <2>1, StoreFields DEF Holder
  <2> QED
    BY <2>1, <2>2, StoreFields, SameSteps
<1>16. CASE Sweep \/ SweepCut
  <2>1. PICK S \in SUBSET Tasks, D \in SUBSET Tasks :
            /\ \A t \in D : task[t].state \in Closed
            /\ \/ Deleted(UnclaimIdle(EndClaims(Store), S), Store', D)
               \/ D = {} /\ Store' = UnclaimIdle(EndClaims(Store), S)
    <3>1. CASE Sweep
      <4>1. PICK D \in SUBSET Tasks :
                /\ \A t \in D : task[t].state \in Closed
                /\ Deleted(UnclaimIdle(EndClaims(Store), Tasks), Store', D)
        BY <1>0, <3>1, Sweeping
      <4> QED
        BY <4>1
    <3>2. CASE SweepCut
      <4>1. PICK S \in SUBSET Tasks : Store' = UnclaimIdle(EndClaims(Store), S)
        BY <1>0, <3>2, CutSweeping
      <4> QED
        BY <4>1
    <3> QED
      BY <1>16, <3>1, <3>2
  <2> DEFINE v == EndClaims(Store)
             w == UnclaimIdle(v, S)
             K == {t \in Tasks : \E k \in Keys : access[k] # "good" /\ t \in HeldBy(k)}
             I == {t \in S : v.task[t].state = "in_progress" /\ v.task[t].claim \in v.quiet}
  <2>2. /\ StoreOK(v) /\ Ended(Store, v, K, "access_gone")
        /\ StoreOK(w) /\ Ended(v, w, I, "idle")
    BY <1>0, Ends
  <2>3. Idle(v, I)
    BY DEF Idle
  <2>4. Discards(Store, w, Store', D)
    BY <2>1, StoreFields DEF Discards
  <2> HIDE DEF v, w, K, I
  <2>6. StoreOK(Store) /\ StoreOK(v) /\ StoreOK(w)
    BY <1>0, <2>2
  <2>7. Ended(Store, v, K, "access_gone") /\ Ended(v, w, I, "idle")
    BY <2>2
  <2> QED
    BY <2>3, <2>4, <2>6, <2>7, SweptSteps
<1>18. CASE UNCHANGED vars
  BY <1>18, RestSteps DEF vars, Store
<1> QED
  BY <1>1, <1>2, <1>3, <1>4, <1>5, <1>6, <1>7, <1>10, <1>11, <1>12, <1>13, <1>14,
     <1>15, <1>16, <1>18 DEF Next

\* keys are revoked and memberships lost for good
LEMMA NextReach ==
    ASSUME TaskInv, [Next]_vars
    PROVE  /\ \A k \in Keys : access[k] = "revoked" => access'[k] = "revoked"
           /\ sees' \subseteq sees
<1>1. ASSUME NEW k \in Keys, Expire(k)
      PROVE  /\ \A j \in Keys : access[j] = "revoked" => access'[j] = "revoked"
             /\ sees' \subseteq sees
  BY <1>1 DEF Expire, TaskInv, OthersOK
<1>2. ASSUME NEW K \in SUBSET Keys, Revoke(K)
      PROVE  /\ \A j \in Keys : access[j] = "revoked" => access'[j] = "revoked"
             /\ sees' \subseteq sees
  BY <1>2 DEF Revoke
<1>3. ASSUME NEW u \in Users, NEW p \in Projects, LoseProject(u, p)
      PROVE  access' = access /\ sees' \subseteq sees
  BY <1>3 DEF LoseProject
<1>4. \/ \E k \in Keys : Expire(k)
      \/ \E K \in SUBSET Keys : Revoke(K)
      \/ \E u \in Users, p \in Projects : LoseProject(u, p)
      \/ access' = access /\ sees' = sees
  BY DEF Next, vars, Call, Repeat, Claim, AgentCancel, AgentCreate, AgentEdit, Create, Edit,
         Reopen, Discard, Move, Quieten, Sweep, SweepCut
<1> QED
  BY <1>1, <1>2, <1>3, <1>4

HoldsClaim(w, v, k, t, c) ==
    /\ Holder(v, t) = k /\ Holder(w, t) = NoOne
    /\ v.task[t].state = "in_progress" /\ v.task[t].claim = c
    /\ \A u \in Tasks : u # t => v.task[u] = w.task[u] /\ Holder(v, u) = Holder(w, u)
    /\ v.rows[t] = Append(w.rows[t], Entry(c, "claim", "none", TRUE, "none"))
    /\ \A u \in Tasks : u # t => v.rows[u] = w.rows[u]

LEMMA ClaimedHolders ==
    ASSUME NEW w, StoreOK(w), NEW k \in Keys, NEW t \in Tasks, NEW c \in Claims,
           w.task[t].state = "todo", w.claim[c].end = "unused",
           NEW v, Claimed(w, v, k, t, c)
    PROVE  HoldsClaim(w, v, k, t, c)
<1>1. /\ w.task \in [Tasks -> TaskRows] /\ w.claim \in [Claims -> ClaimRows]
      /\ w.rows \in [Tasks -> Seq(EntryRows)]
  BY DEF StoreOK, Stores
<1>2. /\ v.task[t].state = "in_progress" /\ v.task[t].claim = c
      /\ \A u \in Tasks : u # t => v.task[u] = w.task[u]
  BY <1>1 DEF Claimed
<1>3. /\ v.claim[c].key = k
      /\ \A d \in Claims : d # c => v.claim[d] = w.claim[d]
  BY <1>1 DEF Claimed
<1>4. /\ v.rows[t] = Append(w.rows[t], Entry(c, "claim", "none", TRUE, "none"))
      /\ \A u \in Tasks : u # t => v.rows[u] = w.rows[u]
  <2> DEFINE X == Seq(EntryRows)
             e == Entry(c, "claim", "none", TRUE, "none")
  <2>1. w.rows \in [Tasks -> X]
    BY <1>1
  <2>2. v.rows = [w.rows EXCEPT ![t] = Append(@, e)]
    BY DEF Claimed
  <2> HIDE DEF X, e
  <2>3. v.rows[t] = Append(w.rows[t], e) /\ \A u \in Tasks : u # t => v.rows[u] = w.rows[u]
    BY <2>1, <2>2
  <2> QED
    BY <2>3 DEF e
<1>5. ASSUME NEW u \in Tasks, u # t
      PROVE  Holder(v, u) = Holder(w, u)
  <2>1. CASE w.task[u].claim = NoOne
    BY <1>2, <1>5, <2>1 DEF Holder
  <2>2. CASE w.task[u].claim # NoOne
    <3>1. w.task[u].claim \in Claims /\ w.claim[w.task[u].claim].end = "live"
      BY <2>2 DEF StoreOK, Stores, TaskRows, Mirrors
    <3>2. w.task[u].claim # c
      BY <3>1
    <3> QED
      BY <1>2, <1>3, <1>5, <3>1, <3>2 DEF Holder
  <2> QED
    BY <2>1, <2>2
<1>6. Holder(v, t) = k
  BY <1>2, <1>3, NoOnes DEF Holder
<1>7. Holder(w, t) = NoOne
  BY DEF Holder, StoreOK, Mirrors, Held
<1> QED
  BY <1>2, <1>4, <1>5, <1>6, <1>7 DEF HoldsClaim

LEMMA TakesAll ==
    ASSUME TaskInv, NEW k \in Keys, NEW t \in Tasks, Takes(k, t)
    PROVE  /\ Holder(Store', t) = k /\ Holder(Store, t) = NoOne
           /\ Store.task[t].state = "todo" /\ Store'.task[t].state = "in_progress"
           /\ TakenIn(Store.rows[t]) < MAX_CLAIMS
           /\ TakenIn(Store'.rows[t]) = TakenIn(Store.rows[t]) + 1
           /\ \A u \in Tasks : u # t =>
                 /\ Store'.task[u] = Store.task[u] /\ Holder(Store', u) = Holder(Store, u)
                 /\ Store'.rows[u] = Store.rows[u]
<1>1. PICK c \in Claims : claim[c].end = "unused" /\ Claimed(Store, Store', k, t, c)
  BY DEF Takes
<1>2. StoreOK(Store) /\ Store.task[t].state = "todo" /\ Store.claim[c].end = "unused"
  BY <1>1, StoreFields DEF TaskInv, Takes
<1>3. /\ Holder(Store', t) = k /\ Holder(Store, t) = NoOne
      /\ Store'.task[t].state = "in_progress" /\ Store'.task[t].claim = c
      /\ \A u \in Tasks : u # t => /\ Store'.task[u] = Store.task[u]
                                   /\ Holder(Store', u) = Holder(Store, u)
      /\ Store'.rows[t] = Append(Store.rows[t], Entry(c, "claim", "none", TRUE, "none"))
      /\ \A u \in Tasks : u # t => Store'.rows[u] = Store.rows[u]
  <2>1. HoldsClaim(Store, Store', k, t, c)
    BY <1>1, <1>2, ClaimedHolders
  <2> QED
    BY <2>1 DEF HoldsClaim
<1>4. TakenIn(Store.rows[t]) < MAX_CLAIMS
  BY TakenIs, StoreFields DEF Takes
<1>5. TakenIn(Store'.rows[t]) = TakenIn(Store.rows[t]) + 1
  <2> DEFINE e == Entry(c, "claim", "none", TRUE, "none")
  <2>1. Store.rows[t] \in Seq(EntryRows) /\ e.kind = "claim"
    BY <1>2 DEF StoreOK, Stores, Entry
  <2>2. Store'.rows[t] = Append(Store.rows[t], e)
    BY <1>3
  <2> HIDE DEF e
  <2> QED
    BY <2>1, <2>2, TakenMore
<1> QED
  BY <1>2, <1>3, <1>4, <1>5

LEMMA NextHolders ==
    ASSUME LifeInv, [Next]_vars
    PROVE  HolderOK'
<1> SUFFICES ASSUME NEW t \in Tasks, task'[t].claim # NoOne
             PROVE  LET k == Holder(Store', t)
                    IN  /\ k \in Keys /\ access'[k] # "revoked"
                        /\ <<UserOf[k], ProjectOf[t]>> \in sees'
  BY DEF HolderOK
<1>0. StoreOK(Store) /\ OthersOK
  BY DEF LifeInv, TaskInv
<1>1. \/ Steps(Store, Store')
      \/ \E k \in Keys, u \in Tasks : Claim(k, u) /\ Takes(k, u)
  BY NextSteps DEF LifeInv
<1>2. ASSUME NEW k \in Keys, NEW u \in Tasks, Claim(k, u), Takes(k, u)
      PROVE  /\ Holder(Store', t) \in Keys /\ access'[Holder(Store', t)] # "revoked"
             /\ <<UserOf[Holder(Store', t)], ProjectOf[t]>> \in sees'
  <2>1. access' = access /\ sees' = sees
    BY <1>2 DEF Claim
  <2>2. CASE t = u
    <3>1. Holder(Store', t) = k
      BY <1>2, <2>2, TakesAll DEF LifeInv
    <3> QED
      BY <1>2, <2>1, <2>2, <3>1 DEF Takes, Reaches
  <2>3. CASE t # u
    <3>1. Holder(Store', t) = Holder(Store, t) /\ task'[t] = task[t]
      BY <1>2, <2>3, TakesAll, StoreFields DEF LifeInv
    <3> QED
      BY <2>1, <3>1 DEF LifeInv, HolderOK
  <2> QED
    BY <2>2, <2>3
<1>3. ASSUME Steps(Store, Store')
      PROVE  /\ Holder(Store', t) \in Keys /\ access'[Holder(Store', t)] # "revoked"
             /\ <<UserOf[Holder(Store', t)], ProjectOf[t]>> \in sees'
  <2> DEFINE k == Holder(Store, t)
  <2>1. task[t].claim # NoOne /\ Holder(Store', t) = k
    BY <1>3, StoreFields DEF Steps, HoldsOn
  <2>2. k \in Keys /\ access[k] # "revoked" /\ <<UserOf[k], ProjectOf[t]>> \in sees
    BY <2>1 DEF LifeInv, HolderOK
  <2>3. t \in HeldBy(k)
    BY <2>1, StoreFields DEF HeldBy, Holder
  <2> HIDE DEF k
  <2>4. ASSUME NEW K \in SUBSET Keys, Revoke(K)
        PROVE  access'[k] # "revoked" /\ sees' = sees
    <3> DEFINE S == UNION {HeldBy(j) : j \in K}
    <3>1. S \in SUBSET Tasks /\ \A u \in S : task[u].claim # NoOne
      BY DEF HeldBy
    <3>2. Commit(End(Store, S, "access_gone"))
      BY <2>4 DEF Revoke
    <3>3. k \in K => t \in S
      BY <2>3
    <3> HIDE DEF S
    <3>4. t \notin S
      BY <1>0, <3>1, <3>2, EndingAccess, EndedAt, StoreFields
    <3> QED
      BY <2>2, <2>4, <3>3, <3>4 DEF Revoke
  <2>5. ASSUME NEW u \in Users, NEW p \in Projects, LoseProject(u, p)
        PROVE  access' = access /\ <<UserOf[k], ProjectOf[t]>> \in sees'
    <3> DEFINE S == {s \in Tasks : ProjectOf[s] = p /\
                             \E j \in Keys : UserOf[j] = u /\ s \in HeldBy(j)}
    <3>1. S \in SUBSET Tasks /\ \A s \in S : task[s].claim # NoOne
      BY DEF HeldBy
    <3>2. Commit(End(Store, S, "access_gone"))
      BY <2>5 DEF LoseProject
    <3>3. UserOf[k] = u /\ ProjectOf[t] = p => t \in S
      BY <2>2, <2>3
    <3> HIDE DEF S
    <3>4. t \notin S
      BY <1>0, <3>1, <3>2, EndingAccess, EndedAt, StoreFields
    <3>5. sees' = sees \ {<<u, p>>} /\ access' = access
      BY <2>5 DEF LoseProject
    <3> QED
      BY <2>2, <3>3, <3>4, <3>5
  <2>6. ASSUME NEW j \in Keys, Expire(j)
        PROVE  access'[k] # "revoked" /\ sees' = sees
    BY <1>0, <2>2, <2>6 DEF Expire, OthersOK
  <2>7. \/ \E j \in Keys : Expire(j)
        \/ \E K \in SUBSET Keys : Revoke(K)
        \/ \E u \in Users, p \in Projects : LoseProject(u, p)
        \/ access' = access /\ sees' = sees
    BY DEF Next, vars, Call, Repeat, Claim, AgentCancel, AgentCreate, AgentEdit, Create, Edit,
           Reopen, Discard, Move, Quieten, Sweep, SweepCut
  <2> QED
    BY <2>1, <2>2, <2>4, <2>5, <2>6, <2>7
<1> QED
  BY <1>1, <1>2, <1>3

LEMMA GoesCounts ==
    ASSUME NEW l, NEW m, Goes(l, m)
    PROVE  m.taken = l.taken \/ m.taken = 0
BY DEF Goes, Life!Same, Life!Opened, Life!WorkedOn, Life!GivenBack, Life!Finished,
       Life!Canceled, Life!Removed

LEMMA LifeInvInit == Init => LifeInv
<1> SUFFICES ASSUME Init PROVE EmptyOK(Store) /\ BoundOK(Store) /\ HolderOK
  BY TaskInvInit DEF LifeInv
<1>1. \A t \in Tasks : Store.rows[t] = <<>> /\ task[t].claim = NoOne
  BY StoreFields DEF Init
<1> QED
  BY <1>1, TakenNone DEF EmptyOK, BoundOK, HolderOK

LEMMA LifeInvNext == LifeInv /\ [Next]_vars => LifeInv'
<1> SUFFICES ASSUME LifeInv, [Next]_vars PROVE LifeInv'
  OBVIOUS
<1>0. TaskInv /\ TaskInv' /\ HolderOK'
  BY TaskInvNext, NextHolders DEF LifeInv
<1>1. ASSUME Steps(Store, Store')
      PROVE  EmptyOK(Store') /\ BoundOK(Store')
  <2>1. EmptyOK(Store')
    BY <1>1 DEF Steps, LifeInv
  <2>2. ASSUME NEW t \in Tasks
        PROVE  TakenIn(Store'.rows[t]) <= MAX_CLAIMS
    <3>1. Goes(View(Store, t), View(Store', t))
      BY <1>1 DEF Steps
    <3>2. View(Store', t).taken = View(Store, t).taken \/ View(Store', t).taken = 0
      BY <3>1, GoesCounts
    <3>3. TakenIn(Store.rows[t]) <= MAX_CLAIMS
      BY DEF LifeInv, BoundOK
    <3> QED
      BY <3>2, <3>3 DEF View
  <2> QED
    BY <2>1, <2>2 DEF BoundOK
<1>2. ASSUME NEW k \in Keys, NEW t \in Tasks, Takes(k, t)
      PROVE  EmptyOK(Store') /\ BoundOK(Store')
  <2>1. /\ Store'.task[t].state = "in_progress"
        /\ TakenIn(Store.rows[t]) < MAX_CLAIMS
        /\ TakenIn(Store'.rows[t]) = TakenIn(Store.rows[t]) + 1
        /\ \A u \in Tasks : u # t =>
              Store'.task[u] = Store.task[u] /\ Store'.rows[u] = Store.rows[u]
    BY <1>0, <1>2, TakesAll
  <2>2. EmptyOK(Store')
    BY <2>1 DEF LifeInv, EmptyOK
  <2>3. TakenIn(Store.rows[t]) \in Nat
    <3>1. Store.rows[t] \in Seq(EntryRows)
      BY <1>0, Typed, StoreFields DEF TaskInv
    <3> QED
      BY <3>1, TakenCounts
  <2>4. TakenIn(Store'.rows[t]) <= MAX_CLAIMS
    BY <2>1, <2>3
  <2>5. BoundOK(Store')
    BY <2>1, <2>4 DEF LifeInv, BoundOK
  <2> QED
    BY <2>2, <2>5
<1>3. EmptyOK(Store') /\ BoundOK(Store')
  BY <1>0, <1>1, <1>2, NextSteps DEF LifeInv
<1> QED
  BY <1>0, <1>3 DEF LifeInv

LEMMA LifeInvHolds == Spec => []LifeInv
BY LifeInvInit, LifeInvNext, PTL DEF Spec

\* what TaskLife sees of the tasks
ReachOf(t) == {k \in Keys : access[k] # "revoked" /\ <<UserOf[k], ProjectOf[t]>> \in sees}

LifeOf ==
    [t \in Tasks |->
        [state |-> task[t].state, holder |-> Holder(Store, t),
         taken |-> TakenIn(rows[t]), reach |-> ReachOf(t)]]

LifeMapped ==
    LifeOf = [t \in Tasks |->
        [state  |-> task[t].state,
         holder |-> IF task[t].claim = NoOne THEN NoOne ELSE claim[task[t].claim].key,
         taken  |-> ClaimsSinceReopen(t),
         reach  |-> {k \in Keys : /\ access[k] # "revoked"
                                  /\ <<UserOf[k], ProjectOf[t]>> \in sees}]]

LEMMA LifeIs == LifeMapped
BY TakenIs, StoreFields DEF LifeMapped, LifeOf, Holder, ReachOf

LifeTypes == LifeOf \in [Tasks -> Life!Lives]

LEMMA LifeTyped == LifeInv => LifeTypes
<1> SUFFICES ASSUME LifeInv, NEW t \in Tasks
             PROVE  [state |-> task[t].state, holder |-> Holder(Store, t),
                     taken |-> TakenIn(rows[t]), reach |-> ReachOf(t)] \in Life!Lives
  BY DEF LifeTypes, LifeOf
<1>1. task[t] \in TaskRows /\ rows[t] \in Seq(EntryRows)
  BY Typed DEF LifeInv, TaskInv
<1>2. task[t].state \in Life!Live \cup {"unmade", "deleted"}
  BY <1>1 DEF TaskRows, Unfinished, Held, Closed, Life!Live, Life!Held, Life!Closed
<1>3. Holder(Store, t) \in Keys \cup {NoOne}
  BY StoreFields DEF LifeInv, HolderOK, Holder
<1>4. TakenIn(rows[t]) \in 0..MAX_CLAIMS
  BY <1>1, TakenCounts, StoreFields DEF LifeInv, BoundOK
<1>5. ReachOf(t) \in SUBSET Keys
  BY DEF ReachOf
<1> QED
  BY <1>2, <1>3, <1>4, <1>5 DEF Life!Lives

LEMMA LifeSteps ==
    ASSUME LifeInv, LifeInv', [Next]_vars, NEW t \in Tasks
    PROVE  Life!LifeStep(LifeOf[t], LifeOf'[t])
<1> DEFINE l == LifeOf[t]
           m == LifeOf'[t]
<1>1. /\ l.state = task[t].state /\ l.holder = Holder(Store, t)
      /\ l.taken = TakenIn(rows[t]) /\ l.reach = ReachOf(t)
      /\ m.state = task'[t].state /\ m.holder = Holder(Store', t)
      /\ m.taken = TakenIn(rows'[t]) /\ m.reach = ReachOf(t)'
  BY DEF LifeOf
<1> HIDE DEF l, m
<1>2. m.reach \subseteq l.reach
  BY <1>1, NextReach DEF LifeInv, ReachOf
<1>3. m.holder \in m.reach \cup {NoOne}
  <2>1. CASE task'[t].claim = NoOne
    BY <1>1, <2>1, StoreFields DEF Holder
  <2>2. CASE task'[t].claim # NoOne
    <3>1. /\ Holder(Store', t) \in Keys /\ access'[Holder(Store', t)] # "revoked"
          /\ <<UserOf[Holder(Store', t)], ProjectOf[t]>> \in sees'
      BY <2>2 DEF LifeInv, HolderOK
    <3> QED
      BY <1>1, <3>1 DEF ReachOf
  <2> QED
    BY <2>1, <2>2
<1>4. ASSUME Goes(View(Store, t), View(Store', t))
      PROVE  Goes(l, m)
  <2> DEFINE x == View(Store, t)
             y == View(Store', t)
  <2>1. /\ x.state = l.state /\ x.holder = l.holder /\ x.taken = l.taken
        /\ y.state = m.state /\ y.holder = m.holder /\ y.taken = m.taken
    BY <1>1, StoreFields DEF View
  <2> HIDE DEF x, y
  <2>2. Goes(x, y)
    BY <1>4 DEF x, y
  <2> QED
    BY <2>1, <2>2 DEF Goes, Life!Same, Life!Opened, Life!WorkedOn, Life!GivenBack,
         Life!Finished, Life!Canceled, Life!Removed, Life!Free
<1>5. ASSUME NEW k \in Keys, NEW u \in Tasks, Claim(k, u), Takes(k, u)
      PROVE  Goes(l, m) \/ Life!Taken(l, m)
  <2>1. CASE u = t
    <3>1. /\ m.holder = k /\ l.state = "todo" /\ m.state = "in_progress"
          /\ m.taken = l.taken + 1
      BY <1>1, <1>5, <2>1, TakesAll, StoreFields DEF LifeInv
    <3>2. k \in l.reach
      BY <1>1, <1>5, <2>1 DEF Takes, Reaches, ReachOf
    <3> QED
      BY <3>1, <3>2 DEF Life!Taken
  <2>2. CASE u # t
    <3>1. m.state = l.state /\ m.holder = l.holder /\ m.taken = l.taken
      BY <1>1, <1>5, <2>2, TakesAll, StoreFields DEF LifeInv
    <3> QED
      BY <3>1 DEF Goes, Life!Same
  <2> QED
    BY <2>1, <2>2
<1>6. Goes(l, m) \/ Life!Taken(l, m)
  BY <1>4, <1>5, NextSteps DEF LifeInv, Steps
<1>7. Life!LifeStep(l, m)
  BY <1>2, <1>3, <1>6 DEF Life!LifeStep, Goes
<1> QED
  BY <1>7 DEF l, m

LEMMA LifeStarts == Init => Life!LifeInit
<1> SUFFICES ASSUME Init PROVE Life!LifeInit
  OBVIOUS
<1>1. LifeOf \in [Tasks -> Life!Lives]
  BY LifeInvInit, LifeTyped DEF LifeTypes
<1>2. \A t \in Tasks : LifeOf[t] \in Life!Lives
  BY <1>1
<1>3. \A t \in Tasks :
        LifeOf[t].state = "unmade" /\ LifeOf[t].holder = NoOne /\ LifeOf[t].taken = 0
  BY StoreFields, TakenNone DEF Init, LifeOf, Holder
<1>4. LifeOf = [t \in Tasks |-> LifeOf[t]]
  BY DEF LifeOf
<1>5. LifeOf \in [Tasks -> {l \in Life!Lives :
                              l.state = "unmade" /\ l.holder = NoOne /\ l.taken = 0}]
  BY <1>2, <1>3, <1>4
<1> QED
  BY <1>5, LifeIs DEF LifeMapped, Life!LifeInit

LEMMA LifeNexts == LifeMapped' /\ (LifeInv' => LifeTypes')
BY LifeIs, LifeTyped, PTL

LEMMA LifeMoves == LifeInv /\ LifeInv' /\ [Next]_vars => Life!LifeNext
<1> SUFFICES ASSUME LifeInv, LifeInv', [Next]_vars PROVE Life!LifeNext
  OBVIOUS
<1>1. LifeOf' \in [Tasks -> Life!Lives]
  BY LifeNexts DEF LifeTypes
<1>2. \A t \in Tasks : Life!LifeStep(LifeOf[t], LifeOf'[t])
  BY LifeSteps
<1> QED
  BY <1>1, <1>2, LifeIs, LifeNexts DEF LifeMapped, Life!LifeNext

\* What a task's page and the agents rely on (actions.ts claim(), agentEntry(),
\* writes.ts, sweeps.ts, rules.ts): a task is worked on by one key at a time,
\* which took it while it waited for one, no more often than the bound since
\* it was last opened, and which keeps it no longer than its access lasts.
THEOREM LivesKeepThePromise == Spec => LivesAsPromised
<1>1. LifeInv /\ LifeInv' /\ [Next]_vars => Life!LifeNext
  BY LifeMoves
<1> QED
  BY <1>1, LifeStarts, LifeInvHolds, PTL DEF Spec, LivesAsPromised, Life!Life
=============================================================================
