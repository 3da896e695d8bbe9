--------------------------- MODULE SendEndProofs ---------------------------
(***************************************************************************)
(* Proofs about SendEnd, for any number of calls, faults and rounds and    *)
(* any set of sends.  The invariant is one of a world, the record the      *)
(* operators of the model map: Live while the send's end is not written,   *)
(* Closed once it is.  A lemma per operator says that it leaves a live     *)
(* world live, or closed, and keeps what no step takes back (Keeps).       *)
(***************************************************************************)
EXTENDS SendEnd, TLAPS, FiniteSetTheorems, SequenceTheorems

\* where a send may be, within a turn too
AllPlaces == Places \cup {"over"}
AllSends == Sends(AllPlaces)
Asks == [Phases -> SUBSET Causes]

\* the worlds an operator may map
Worlds == [s : AllSends, d : Durable, f : 0..MaxFaults, a : Asks]

----------------------------------------------------------------------------
(* The invariant of a world *)

\* the rounds a phase may begin past the bound
Slack(p) == IF p = "main" THEN 0 ELSE IF p = "attention" THEN 1 ELSE 2

\* the current round is one of the replies, which stay within the bound
RoundsOK(w) ==
    /\ Len(w.d.reply) \in 1..MaxRounds + Slack(w.s.phase)
    /\ w.s.round <= Len(w.d.reply)
    /\ w.s.at = "calls" /\ w.s.phase = "main" => Len(w.d.reply) < MaxRounds

\* an open call is one whose row streams, of the phase under way; a reply
\* that streams is the current round's
RowsOK(w) ==
    /\ \A i \in DOMAIN w.d.reply : w.d.reply[i] = "streaming" => i = w.s.round
    /\ \A c \in Calls : w.d.row[c] = "streaming" <=> c \in w.s.open
    /\ \A c \in Calls : w.d.row[c] = "none" => w.s.settled[c] = "none"
    /\ \A c \in Calls : w.s.settled[c] = "ok" => w.d.row[c] = "done" \/ c \in w.s.open
    /\ \A c \in w.s.open : PhaseOf[c] = w.s.phase

\* what a phase was cut by came up in it; a phase that is over with calls
\* open has a cause for each
CutsOK(w) ==
    /\ w.s.cutBy # "none" => w.s.phase # "main" /\ w.s.cutBy \in w.a[w.s.phase]
    /\ w.s.cut => w.s.phase # "main" /\ w.s.cutBy # "none"
    /\ w.s.phase # "main" => w.s.cause # "none"
    /\ w.s.at \in {"over", "pause"} =>
          /\ w.s.cause # "none"
          /\ w.s.phase = "main" /\ w.s.cause = "finish" => w.s.open = {}
          /\ w.s.phase # "main" /\ w.s.cutBy = "none" /\ w.s.open # {} =>
                "failure" \in w.a[w.s.phase]

\* a call whose tool runs, or that the attention step has yet to run
Waiting(s, c) ==
    \/ c \in s.running
    \/ s.phase = "attention" /\ s.settled[c] = "none"

\* what each place a send awaits at may hold
StageOK(w) ==
    /\ w.s.at = "round" => w.s.open = {}
    /\ w.s.at = "calls" =>
          /\ w.s.round = 0
          /\ w.s.running \subseteq w.s.open
          /\ w.s.deferred => w.s.phase = "main"
          /\ w.s.broken => w.s.phase = "memory"
    /\ w.s.at \in {"round", "calls", "over"} => w.s.attempts = 0
    /\ w.s.at = "pause" => w.s.attempts < FINALIZE_ATTEMPTS
    /\ w.s.at \in {"round", "calls"} /\ w.s.phase = "main" => w.s.cause # "finish"

\* the row of a call that let go is closed, unless the round's rows wait
WaitingOK(w) ==
    w.s.at = "calls" /\ ~Aborted(w.s) /\ ~w.s.deferred /\ ~w.s.broken =>
        \A c \in w.s.open : Waiting(w.s, c)

Stopping == {"stop", "shutdown"}

\* a stopped row names what came up in its call's phase, or the send's cause
ToldOK(w) ==
    \A c \in Calls : w.d.row[c] = "stopped" =>
        \/ w.d.why[c] \in {"unrun", "restart"}
        \/ w.d.why[c] \in w.a[PhaseOf[c]]
        \/ w.d.why[c] = w.s.cause /\ w.s.cause # "none"

\* a Stop or a shutdown is remembered, whatever phase it found
StopsOK(w) ==
    (\E p \in Phases : w.a[p] \cap Stopping # {}) =>
        w.s.interrupted \/ w.s.cause \in Stopping

\* a world whose end is not written
Sound(w) ==
    /\ w \in Worlds
    /\ w.d.end = "running" /\ w.d.alert = "same" /\ w.s.terminal = "none"
    /\ RoundsOK(w) /\ RowsOK(w) /\ CutsOK(w) /\ StageOK(w) /\ ToldOK(w) /\ StopsOK(w)

\* a sound world at rest, or between two phases
Live(w) == Sound(w) /\ WaitingOK(w)

\* rows of which none streams
Silent(d) ==
    /\ \A i \in DOMAIN d.reply : d.reply[i] = "ended"
    /\ \A c \in Calls : d.row[c] # "streaming"

\* a world whose end is written
Closed(w) ==
    /\ w \in Worlds
    /\ w.s.at = "released"
    /\ w.d.end = w.s.cause /\ w.s.cause # "none"
    /\ Len(w.d.reply) \in 1..MaxRounds + 2 /\ w.s.round <= Len(w.d.reply)
    /\ Silent(w.d)
    /\ \A c \in Calls : w.s.settled[c] = "ok" => w.d.row[c] = "done"
    /\ ToldOK(w)
    /\ w.d.alert = "close" => \A p \in Phases : w.a[p] \cap Stopping = {}

\* where an action may leave the send
Rest(w) == w.s.at # "over" /\ (Live(w) \/ Closed(w))

\* the rows as the next process's repair leaves them
Repaired(w) ==
    /\ w \in Worlds
    /\ w.s.at # "over"
    /\ w.d.end # "running"
    /\ Len(w.d.reply) \in 1..MaxRounds + 2 /\ w.s.round <= Len(w.d.reply)
    /\ Silent(w.d)
    /\ w.d.end # "restart" =>
          \A c \in Calls : w.s.settled[c] = "ok" => w.d.row[c] = "done"
    /\ ToldOK(w)
    /\ w.d.alert = "close" => \A p \in Phases : w.a[p] \cap Stopping = {}

\* what no step takes back: a cause, a row that ended
Keeps(w, v) ==
    /\ w.s.cause # "none" => v.s.cause = w.s.cause
    /\ v.d.end \in {"running", v.s.cause}
    /\ \A c \in Calls : w.d.row[c] \in {"done", "stopped"} =>
          v.d.row[c] = w.d.row[c] /\ v.d.why[c] = w.d.why[c]

\* where a phase leaves the world of the turn it began in
Midway(w, v) == Live(v) /\ v.s.at \in {"round", "calls", "over"} /\ Keeps(w, v)

\* the invariant: a world at rest, or repaired
SendInv ==
    /\ proc \in {"up", "closing", "down", "repaired"}
    /\ IF proc = "repaired" THEN Repaired(World) ELSE Rest(World)

----------------------------------------------------------------------------
(* What each operator does to the parts of a world *)

\* a cause noted changes nothing else
LEMMA AskedIs ==
    ASSUME NEW w \in Worlds, NEW cause \in Causes
    PROVE  /\ Asked(w, cause) \in Worlds
           /\ Asked(w, cause).s = w.s /\ Asked(w, cause).d = w.d
           /\ Asked(w, cause).f = w.f
           /\ Asked(w, cause).a = [w.a EXCEPT ![w.s.phase] = @ \cup {cause}]
<1>1. w.a \in Asks /\ w.s \in AllSends
  BY DEF Worlds
<1>2. [w.a EXCEPT ![w.s.phase] = @ \cup {cause}] \in Asks
  BY <1>1 DEF Asks, AllSends, Sends
<1> QED BY <1>1, <1>2 DEF Asked, Worlds

\* a transaction that threw leaves its count
LEMMA ThrownIs ==
    ASSUME NEW w \in Worlds, NEW v \in Thrown(w)
    PROVE  /\ v \in Worlds /\ v.s = w.s /\ v.d = w.d /\ v.a = w.a
           /\ w.f < MaxFaults
<1>1. w.f \in 0..MaxFaults
  BY DEF Worlds
<1>2. w.f < MaxFaults /\ v = [w EXCEPT !.f = @ + 1]
  BY DEF Thrown
<1>3. w.f + 1 \in 0..MaxFaults
  BY <1>1, <1>2, SendEndAssumption
<1> QED BY <1>2, <1>3 DEF Worlds

\* a row set to a value of its kind
LEMMA ReplyTyped ==
    ASSUME NEW d \in Durable, NEW i \in Nat
    PROVE  /\ [d EXCEPT !.reply[i] = "ended"] \in Durable
           /\ [d EXCEPT !.reply = Append(@, "streaming")] \in Durable
<1>1. d.reply \in Seq({"streaming", "ended"})
  BY DEF Durable
<1>2. [d.reply EXCEPT ![i] = "ended"] \in Seq({"streaming", "ended"})
  <2>1. CASE i \in 1..Len(d.reply)
    BY <1>1, <2>1, ExceptSeq
  <2>2. CASE i \notin DOMAIN d.reply
    <3> DEFINE r == d.reply
    <3>1. r \in Seq({"streaming", "ended"}) /\ i \notin DOMAIN r
      BY <1>1, <2>2
    <3>2. [r EXCEPT ![i] = "ended"] = r
      <4> HIDE DEF r
      <4> QED BY <3>1
    <3> QED BY <3>1, <3>2
  <2> QED BY <1>1, <2>1, <2>2
<1>3. Append(d.reply, "streaming") \in Seq({"streaming", "ended"})
  BY <1>1
<1> HIDE DEF Durable
<1> DEFINE r1 == [d.reply EXCEPT ![i] = "ended"]
           r2 == Append(d.reply, "streaming")
<1>4. [d EXCEPT !.reply = r1] \in Durable /\ [d EXCEPT !.reply = r2] \in Durable
  <2> r1 \in Seq({"streaming", "ended"}) /\ r2 \in Seq({"streaming", "ended"})
    BY <1>2, <1>3
  <2> HIDE DEF r1, r2
  <2> QED BY DEF Durable
<1> QED BY <1>4

\* a reply that ends is the only one to change
LEMMA ReplyEnds ==
    ASSUME NEW r \in Seq({"streaming", "ended"}), NEW i \in Nat
    PROVE  /\ Len([r EXCEPT ![i] = "ended"]) = Len(r)
           /\ DOMAIN [r EXCEPT ![i] = "ended"] = DOMAIN r
           /\ \A j \in DOMAIN r :
                [r EXCEPT ![i] = "ended"][j] = IF j = i THEN "ended" ELSE r[j]
<1>1. CASE i \in 1..Len(r)
  BY <1>1, ExceptSeq
<1>2. CASE i \notin DOMAIN r
  <2> [r EXCEPT ![i] = "ended"] = r
    BY <1>2
  <2> QED BY <1>2
<1> QED BY <1>1, <1>2

\* finishReply() changes the current round's reply
LEMMA EndReplyIs ==
    ASSUME NEW w \in Worlds
    PROVE  /\ EndReply(w) \in Worlds
           /\ EndReply(w).s = w.s /\ EndReply(w).f = w.f /\ EndReply(w).a = w.a
           /\ EndReply(w).d = IF w.s.round = 0 THEN w.d
                              ELSE [w.d EXCEPT !.reply[w.s.round] = "ended"]
<1>1. w.d \in Durable /\ w.s.round \in Nat
  BY SendEndAssumption DEF Worlds, AllSends, Sends
<1>2. [w.d EXCEPT !.reply[w.s.round] = "ended"] \in Durable
  BY <1>1, ReplyTyped
<1> QED BY <1>1, <1>2 DEF EndReply, Worlds

\* a next request adds a reply and is the current round
LEMMA NextRoundIs ==
    ASSUME NEW w \in Worlds
    PROVE  /\ NextRound(w).s = [w.s EXCEPT !.round = Len(w.d.reply) + 1, !.at = "round"]
           /\ NextRound(w).d = [w.d EXCEPT !.reply = Append(@, "streaming")]
           /\ NextRound(w).f = w.f /\ NextRound(w).a = w.a
           /\ Len(w.d.reply) < MaxRounds + 2 => NextRound(w) \in Worlds
<1> DEFINE n == Len(w.d.reply) + 1
<1>1. w.d \in Durable /\ w.s \in AllSends /\ w.d.reply \in Seq({"streaming", "ended"})
  BY DEF Worlds, Durable
<1>2. [w.d EXCEPT !.reply = Append(@, "streaming")] \in Durable
  BY <1>1, ReplyTyped
<1>3. ASSUME Len(w.d.reply) < MaxRounds + 2
      PROVE  [w.s EXCEPT !.round = n, !.at = "round"] \in AllSends
  <2>1. n \in 0..MaxRounds + 2 /\ "round" \in AllPlaces
    BY <1>1, <1>3, SendEndAssumption DEF AllPlaces, Places
  <2> HIDE DEF n
  <2> QED BY <1>1, <2>1 DEF AllSends, Sends
<1> QED BY <1>1, <1>2, <1>3 DEF NextRound, Worlds

Marks == {"streaming", "done", "stopped"}
Whys == Causes \cup {"none", "unrun", "restart"}

\* v is w with the rows of S set
Marked(w, v, status, S, why) ==
    /\ v \in Worlds /\ v.s = w.s /\ v.f = w.f /\ v.a = w.a
    /\ v.d.reply = w.d.reply /\ v.d.end = w.d.end /\ v.d.alert = w.d.alert
    /\ \A c \in Calls : v.d.row[c] = IF c \in S THEN status ELSE w.d.row[c]
    /\ \A c \in Calls : v.d.why[c] = IF c \in S THEN why[c] ELSE w.d.why[c]

\* rows set are those of S
LEMMA RowsIs ==
    ASSUME NEW w \in Worlds, NEW status \in Marks, NEW S \in SUBSET Calls,
           NEW why \in [S -> Whys], NEW v, v = Rows(w, status, why)
    PROVE  Marked(w, v, status, S, why)
<1> DEFINE r == [c \in Calls |-> IF c \in S THEN status ELSE w.d.row[c]]
           y == [c \in Calls |-> IF c \in S THEN why[c] ELSE w.d.why[c]]
<1>1. w.d \in Durable /\ DOMAIN why = S
  BY DEF Worlds
<1>2. r \in [Calls -> {"none", "streaming", "done", "stopped"}]
  BY <1>1 DEF Durable, Marks
<1>3. y \in [Calls -> Whys]
  BY <1>1 DEF Durable, Whys
<1>4. [w.d EXCEPT !.row = r, !.why = y] \in Durable
  <2> HIDE DEF r, y
  <2> QED BY <1>1, <1>2, <1>3 DEF Durable, Whys
<1>5. v = [w EXCEPT !.d.row = r, !.d.why = y]
  BY <1>1 DEF Rows
<1>6. /\ \A c \in Calls : r[c] = IF c \in S THEN status ELSE w.d.row[c]
      /\ \A c \in Calls : y[c] = IF c \in S THEN why[c] ELSE w.d.why[c]
  OBVIOUS
<1> HIDE DEF r, y
<1>7. v \in Worlds
  BY <1>1, <1>4, <1>5 DEF Worlds
<1>8. v.s = w.s /\ v.f = w.f /\ v.a = w.a /\ v.d = [w.d EXCEPT !.row = r, !.why = y]
  BY <1>5 DEF Worlds
<1>9. /\ v.d.reply = w.d.reply /\ v.d.end = w.d.end /\ v.d.alert = w.d.alert
      /\ v.d.row = r /\ v.d.why = y
  BY <1>1, <1>8 DEF Durable
<1> QED BY <1>6, <1>7, <1>8, <1>9 DEF Marked

----------------------------------------------------------------------------
(* What keeps a live world live *)

Quiet(d) == \A i \in DOMAIN d.reply : d.reply[i] # "streaming"

\* a world told from a live one by its faults alone
LEMMA SameLive ==
    ASSUME NEW w, Sound(w), NEW v \in Worlds, v.s = w.s, v.d = w.d, v.a = w.a
    PROVE  Sound(v) /\ (Live(w) => Live(v))
BY DEF Live, Sound, RoundsOK, RowsOK, CutsOK, StageOK, WaitingOK, ToldOK, StopsOK

\* a world whose transaction threw is as live as before
LEMMA ThrownLive ==
    ASSUME NEW w, Sound(w), NEW v \in Thrown(w)
    PROVE  /\ Sound(v) /\ (Live(w) => Live(v))
           /\ v.s = w.s /\ v.d = w.d /\ v.a = w.a
BY SameLive, ThrownIs DEF Sound

\* asked grows only
LEMMA AskedLive ==
    ASSUME NEW w, Sound(w), NEW cause \in Causes,
           cause \in Stopping => w.s.interrupted \/ w.s.cause \in Stopping
    PROVE  Sound(Asked(w, cause)) /\ (Live(w) => Live(Asked(w, cause)))
<1> w \in Worlds BY DEF Live, Sound
<1> DEFINE v == Asked(w, cause)
<1>1. /\ v \in Worlds /\ v.s = w.s /\ v.d = w.d
      /\ v.a = [w.a EXCEPT ![w.s.phase] = @ \cup {cause}]
  BY AskedIs
<1>2. w.a \in Asks /\ w.s.phase \in Phases /\ PhaseOf \in [Calls -> Phases]
  BY SendEndAssumption DEF Worlds, AllSends, Sends
<1>3. \A p \in Phases : w.a[p] \subseteq v.a[p] /\ v.a[p] \subseteq w.a[p] \cup {cause}
  BY <1>1, <1>2 DEF Asks
<1> HIDE DEF v
<1>4. RoundsOK(v) /\ RowsOK(v) /\ StageOK(v) /\ (WaitingOK(w) => WaitingOK(v))
  BY <1>1 DEF Live, Sound, RoundsOK, RowsOK, StageOK, WaitingOK
<1>5. CutsOK(v)
  BY <1>1, <1>2, <1>3 DEF Live, Sound, CutsOK
<1>6. ToldOK(v)
  BY <1>1, <1>2, <1>3 DEF Live, Sound, ToldOK
<1>7. StopsOK(v)
  BY <1>1, <1>2, <1>3 DEF Live, Sound, StopsOK
<1> QED BY <1>1, <1>4, <1>5, <1>6, <1>7 DEF Live, Sound, v

\* the current round's reply ends, and none streams
LEMMA EndReplyLive ==
    ASSUME NEW w, Live(w)
    PROVE  /\ Live(EndReply(w)) /\ Quiet(EndReply(w).d)
           /\ EndReply(w).s = w.s /\ EndReply(w).a = w.a /\ EndReply(w).f = w.f
           /\ Len(EndReply(w).d.reply) = Len(w.d.reply)
           /\ DOMAIN EndReply(w).d.reply = DOMAIN w.d.reply
           /\ EndReply(w).d.row = w.d.row /\ EndReply(w).d.why = w.d.why
           /\ EndReply(w).d.end = w.d.end /\ EndReply(w).d.alert = w.d.alert
<1> w \in Worlds BY DEF Live, Sound
<1> DEFINE v == EndReply(w)
<1>1. /\ v \in Worlds /\ v.s = w.s /\ v.f = w.f /\ v.a = w.a
      /\ v.d = IF w.s.round = 0 THEN w.d ELSE [w.d EXCEPT !.reply[w.s.round] = "ended"]
  BY EndReplyIs
<1>2. /\ w.d \in Durable /\ w.d.reply \in Seq({"streaming", "ended"})
      /\ w.s.round \in Nat
  BY SendEndAssumption DEF Worlds, Durable, AllSends, Sends
<1>3. /\ v.d.reply = IF w.s.round = 0 THEN w.d.reply
                     ELSE [w.d.reply EXCEPT ![w.s.round] = "ended"]
      /\ v.d.row = w.d.row /\ v.d.why = w.d.why
      /\ v.d.end = w.d.end /\ v.d.alert = w.d.alert
  BY <1>1, <1>2 DEF Durable
<1>4. /\ Len(v.d.reply) = Len(w.d.reply) /\ DOMAIN v.d.reply = DOMAIN w.d.reply
      /\ \A j \in DOMAIN w.d.reply :
            v.d.reply[j] = IF j = w.s.round THEN "ended" ELSE w.d.reply[j]
  <2>1. CASE w.s.round = 0
    <3> \A j \in DOMAIN w.d.reply : j # 0
      BY <1>2
    <3> QED BY <1>3, <2>1
  <2>2. CASE w.s.round # 0
    BY <1>2, <1>3, <2>2, ReplyEnds
  <2> QED BY <2>1, <2>2
<1> HIDE DEF v
<1>5. Quiet(v.d) /\ RowsOK(v)
  BY <1>1, <1>3, <1>4 DEF Live, Sound, RowsOK, Quiet
<1>6. RoundsOK(v) /\ StageOK(v) /\ WaitingOK(v) /\ CutsOK(v)
  BY <1>1, <1>4 DEF Live, Sound, RoundsOK, StageOK, WaitingOK, CutsOK
<1>7. ToldOK(v) /\ StopsOK(v)
  BY <1>1, <1>3 DEF Live, Sound, ToldOK, StopsOK
<1> QED BY <1>1, <1>3, <1>4, <1>5, <1>6, <1>7 DEF Live, Sound, v

\* a request of the phase w is in, over no open call and no reply that streams
LEMMA NextRoundLive ==
    ASSUME NEW w, Live(w), w.s.open = {}, Quiet(w.d),
           Len(w.d.reply) < MaxRounds + Slack(w.s.phase), w.s.attempts = 0,
           w.s.phase = "main" => w.s.cause # "finish"
    PROVE  /\ Live(NextRound(w)) /\ NextRound(w).s.at = "round"
           /\ NextRound(w).s.cause = w.s.cause
           /\ NextRound(w).d.row = w.d.row /\ NextRound(w).d.why = w.d.why
<1> w \in Worlds BY DEF Live, Sound
<1> DEFINE v == NextRound(w)
<1>0. /\ Len(w.d.reply) \in Nat /\ Slack(w.s.phase) \in 0..2
      /\ MaxRounds \in Nat /\ w.d.reply \in Seq({"streaming", "ended"})
  BY SendEndAssumption DEF Worlds, Durable, Slack
<1>a. Len(w.d.reply) < MaxRounds + 2
  BY <1>0
<1>1. /\ v.s = [w.s EXCEPT !.round = Len(w.d.reply) + 1, !.at = "round"]
      /\ v.d = [w.d EXCEPT !.reply = Append(@, "streaming")]
      /\ v.f = w.f /\ v.a = w.a /\ v \in Worlds
  BY <1>a, NextRoundIs
<1> HIDE DEF v
<1>2. /\ v.d.reply = Append(w.d.reply, "streaming")
      /\ v.d.row = w.d.row /\ v.d.why = w.d.why
      /\ v.d.end = w.d.end /\ v.d.alert = w.d.alert
  BY <1>1 DEF Worlds, Durable
<1>3. Len(v.d.reply) = Len(w.d.reply) + 1
  BY <1>0, <1>2
<1>4. /\ v.s.round = Len(w.d.reply) + 1 /\ v.s.at = "round"
      /\ v.s.phase = w.s.phase /\ v.s.cause = w.s.cause /\ v.s.open = w.s.open
      /\ v.s.settled = w.s.settled /\ v.s.cut = w.s.cut /\ v.s.cutBy = w.s.cutBy
      /\ v.s.attempts = w.s.attempts /\ v.s.interrupted = w.s.interrupted
      /\ v.s.terminal = w.s.terminal
  BY <1>1 DEF Worlds, AllSends, Sends
<1>5. RoundsOK(v)
  BY <1>0, <1>3, <1>4 DEF RoundsOK
<1>6. RowsOK(v)
  <2>1. \A i \in DOMAIN v.d.reply : v.d.reply[i] = "streaming" => i = v.s.round
    BY <1>0, <1>2, <1>4 DEF Quiet
  <2> QED BY <1>2, <1>4, <2>1 DEF Live, Sound, RowsOK
<1>7. CutsOK(v)
  BY <1>1, <1>4 DEF Live, Sound, CutsOK
<1>8. StageOK(v) /\ WaitingOK(v)
  BY <1>4 DEF StageOK, WaitingOK
<1>9. ToldOK(v) /\ StopsOK(v)
  BY <1>1, <1>2, <1>4 DEF Live, Sound, ToldOK, StopsOK
<1> QED BY <1>1, <1>2, <1>4, <1>5, <1>6, <1>7, <1>8, <1>9 DEF Live, Sound, v

----------------------------------------------------------------------------
(* A phase that is over *)

\* what two steps keep, both together keep
LEMMA KeepsTrans ==
    ASSUME NEW u, NEW w, NEW v, Keeps(u, w), Keeps(w, v)
    PROVE  Keeps(u, v)
BY DEF Keeps

\* rows that stay are kept
LEMMA KeepsSame ==
    ASSUME NEW w, NEW v, w.d.end = "running", v.d.row = w.d.row, v.d.why = w.d.why,
           v.d.end = w.d.end, w.s.cause # "none" => v.s.cause = w.s.cause
    PROVE  Keeps(w, v)
BY DEF Keeps

Unmoved(s, t) ==
    /\ t.phase = s.phase /\ t.round = s.round /\ t.open = s.open
    /\ t.settled = s.settled /\ t.cut = s.cut /\ t.cutBy = s.cutBy
    /\ t.attempts = s.attempts /\ t.interrupted = s.interrupted
    /\ t.terminal = s.terminal

\* a phase that ends with the calls it may leave open
LEMMA OverLive ==
    ASSUME NEW w, Sound(w), w.s.at \in {"round", "calls"},
           NEW v \in Worlds, v.d = w.d, v.a = w.a, Unmoved(w.s, v.s), v.s.at = "over",
           v.s.cause # "none", w.s.cause # "none" => v.s.cause = w.s.cause,
           w.s.phase = "main" /\ v.s.cause = "finish" => w.s.open = {},
           w.s.phase # "main" /\ w.s.cutBy = "none" /\ w.s.open # {} =>
              "failure" \in w.a[w.s.phase]
    PROVE  Midway(w, v)
<1>1. RoundsOK(v) /\ RowsOK(v)
  BY DEF Live, Sound, RoundsOK, RowsOK, Unmoved
<1>4. CutsOK(v)
  BY DEF Live, Sound, CutsOK, Unmoved
<1>2. StageOK(v) /\ WaitingOK(v)
  BY DEF Live, Sound, StageOK, WaitingOK, Unmoved
<1>5. ToldOK(v) /\ StopsOK(v)
  <2>1. ToldOK(w) /\ StopsOK(w)
    BY DEF Live, Sound
  <2>2. w.s.cause \in Stopping => v.s.cause = w.s.cause
    BY DEF Stopping
  <2>3. StopsOK(v)
    BY <2>1, <2>2 DEF StopsOK, Unmoved
  <2> QED BY <2>1, <2>3 DEF ToldOK
<1>3. Keeps(w, v)
  BY KeepsSame DEF Live, Sound
<1> QED BY <1>1, <1>2, <1>3, <1>4, <1>5 DEF Live, Sound, Unmoved, Midway

\* a phase that is over changes where the send is
LEMMA OverIs ==
    ASSUME NEW w \in Worlds, NEW v \in Over(w)
    PROVE  /\ v \in Worlds /\ v.d = w.d /\ v.a = w.a /\ v.f = w.f
           /\ Unmoved(w.s, v.s) /\ v.s.at = "over" /\ v.s.cause = w.s.cause
<1>1. v = [w EXCEPT !.s.at = "over"]
  BY DEF Over
<1>2. w.s \in AllSends /\ "over" \in AllPlaces
  BY DEF Worlds, AllPlaces
<1>3. [w.s EXCEPT !.at = "over"] \in AllSends
  BY <1>2 DEF AllSends, Sends
<1>4. v.s = [w.s EXCEPT !.at = "over"] /\ v.d = w.d /\ v.a = w.a /\ v.f = w.f
  BY <1>1 DEF Worlds
<1>5. v \in Worlds
  BY <1>1, <1>3 DEF Worlds
<1> QED BY <1>2, <1>4, <1>5 DEF AllSends, Sends, Unmoved

\* a step that is over changes what was said too
LEMMA StepOverIs ==
    ASSUME NEW w \in Worlds, NEW failed \in BOOLEAN, NEW v \in StepOver(w, failed)
    PROVE  /\ v \in Worlds /\ v.d = w.d /\ v.a = w.a /\ v.f = w.f
           /\ Unmoved(w.s, v.s) /\ v.s.at = "over" /\ v.s.cause = w.s.cause
<1> DEFINE b == w.s.said /\ ~failed /\ ~w.s.cut
           x == [w EXCEPT !.s.said = b]
<1>1. v \in Over(x)
  BY DEF StepOver
<1>2. w.s \in AllSends /\ b \in BOOLEAN
  BY DEF Worlds, AllSends, Sends
<1> HIDE DEF b
<1>3. [w.s EXCEPT !.said = b] \in AllSends
  BY <1>2 DEF AllSends, Sends
<1>4. x.s = [w.s EXCEPT !.said = b] /\ x.d = w.d /\ x.a = w.a /\ x.f = w.f
  BY DEF Worlds
<1>5. x \in Worlds
  BY <1>3 DEF Worlds
<1>6. Unmoved(w.s, x.s) /\ x.s.cause = w.s.cause
  BY <1>2, <1>4 DEF AllSends, Sends, Unmoved
<1> HIDE DEF x
<1> QED BY <1>1, <1>4, <1>5, <1>6, OverIs DEF Unmoved

\* a claim sets a cause where there was none
LEMMA ClaimIs ==
    ASSUME NEW w \in Worlds, NEW cause \in Causes
    PROVE  /\ Claim(w, cause) \in Worlds
           /\ Claim(w, cause).d = w.d /\ Claim(w, cause).f = w.f
           /\ Claim(w, cause).a = Asked(w, cause).a
           /\ Claim(w, cause).s = IF w.s.cause # "none" THEN w.s
                                  ELSE [w.s EXCEPT !.cause = cause]
           /\ Unmoved(w.s, Claim(w, cause).s)
           /\ Claim(w, cause).s.at = w.s.at
           /\ Claim(w, cause).s.cause = IF w.s.cause # "none" THEN w.s.cause ELSE cause
<1>1. /\ Asked(w, cause) \in Worlds /\ w.s \in AllSends
      /\ Asked(w, cause).s = w.s /\ Asked(w, cause).d = w.d /\ Asked(w, cause).f = w.f
  BY AskedIs DEF Worlds
<1>2. CASE w.s.cause # "none"
  BY <1>1, <1>2 DEF Claim, Unmoved
<1>3. CASE w.s.cause = "none"
  <2> DEFINE x == Asked(w, cause)
  <2>1. Claim(w, cause) = [x EXCEPT !.s.cause = cause]
    BY <1>3 DEF Claim
  <2>2. [w.s EXCEPT !.cause = cause] \in AllSends
    BY <1>1 DEF AllSends, Sends
  <2> HIDE DEF x
  <2>3. x \in Worlds /\ x.s = w.s /\ x.d = w.d /\ x.f = w.f
    BY <1>1 DEF x
  <2>4. [x EXCEPT !.s.cause = cause] \in Worlds
    BY <2>2, <2>3 DEF Worlds
  <2>5. /\ [x EXCEPT !.s.cause = cause].s = [w.s EXCEPT !.cause = cause]
        /\ [x EXCEPT !.s.cause = cause].d = w.d /\ [x EXCEPT !.s.cause = cause].f = w.f
        /\ [x EXCEPT !.s.cause = cause].a = x.a
    BY <2>3 DEF Worlds
  <2>6. /\ Unmoved(w.s, [w.s EXCEPT !.cause = cause])
        /\ [w.s EXCEPT !.cause = cause].at = w.s.at
        /\ [w.s EXCEPT !.cause = cause].cause = cause
    BY <1>1 DEF AllSends, Sends, Unmoved
  <2> QED BY <1>3, <2>1, <2>4, <2>5, <2>6 DEF x
<1> QED BY <1>2, <1>3

\* The phase ends: what it leaves open was cut, or failed and said so.
LEMMA LeaveMidway ==
    ASSUME NEW w, Sound(w), w.s.at \in {"round", "calls"}, NEW failed \in BOOLEAN,
           \/ failed
           \/ w.s.open = {}
           \/ w.s.phase = "main" /\ w.s.cause # "none"
           \/ w.s.phase # "main" /\ w.s.cut,
           NEW v \in Leave(w, failed)
    PROVE  Midway(w, v)
<1> w \in Worlds BY DEF Live, Sound
<1>0. w.s.phase \in Phases /\ w.a \in Asks /\ "failure" \in Causes /\ "finish" \in Causes
  BY DEF Worlds, AllSends, Sends, Causes
<1>1. CASE w.s.phase = "main" /\ w.s.cause # "none"
  <2>1. v \in Over(w)
    BY <1>1 DEF Leave
  <2>2. w.s.cause # "finish"
    BY <1>1 DEF Live, Sound, StageOK, WaitingOK
  <2> QED BY <1>1, <2>1, <2>2, OverIs, OverLive
<1>2. CASE w.s.phase = "main" /\ w.s.cause = "none"
  <2> DEFINE k == IF failed THEN "failure" ELSE "finish"
             x == Claim(w, k)
             y == Asked(w, k)
  <2>1. v \in Over(x) /\ k \in Causes /\ k # "none"
    BY <1>0, <1>2 DEF Leave
  <2>2. /\ x \in Worlds /\ x.d = w.d /\ x.a = y.a /\ Unmoved(w.s, x.s)
        /\ x.s.at = w.s.at /\ x.s.cause = k
    BY <1>2, <2>1, ClaimIs
  <2>3. Sound(y) /\ y.s = w.s /\ y.d = w.d
    BY <2>1, AskedLive, AskedIs DEF Stopping
  <2>4. k = "finish" => w.s.open = {}
    BY <1>2
  <2> HIDE DEF k, x, y
  <2>5. /\ v \in Worlds /\ v.d = y.d /\ v.a = y.a /\ Unmoved(y.s, v.s)
        /\ v.s.at = "over" /\ v.s.cause = k
    BY <2>1, <2>2, <2>3, OverIs DEF Unmoved
  <2>6. Midway(y, v)
    BY <1>2, <2>1, <2>3, <2>4, <2>5, OverLive
  <2>7. Keeps(w, v)
    BY <1>2, <2>3, <2>6 DEF Midway, Keeps
  <2> QED BY <2>6, <2>7 DEF Midway
<1>3. CASE w.s.phase # "main"
  <2> DEFINE x == IF failed /\ (w.s.phase = "memory" \/ ~w.s.cut)
                  THEN Asked(w, "failure") ELSE w
  <2>0. w.s.phase \in {"attention", "memory"}
    BY <1>0, <1>3 DEF Phases
  <2>1. v \in Over(x) \/ v \in StepOver(x, failed)
    BY <2>0, <1>3 DEF Leave
  <2>2. Sound(x) /\ x.s = w.s /\ x.d = w.d
    BY <1>0, AskedLive, AskedIs DEF Stopping
  <2>3. w.s.cut => w.s.cutBy # "none"
    BY DEF Live, Sound, CutsOK
  <2>4. failed /\ ~w.s.cut => "failure" \in x.a[w.s.phase]
    <3> SUFFICES ASSUME failed, ~w.s.cut
                 PROVE  "failure" \in x.a[w.s.phase]
      OBVIOUS
    <3> x = Asked(w, "failure")
      OBVIOUS
    <3> HIDE DEF x
    <3> x.a = [w.a EXCEPT ![w.s.phase] = @ \cup {"failure"}]
      BY <1>0, AskedIs
    <3> QED BY <1>0 DEF Asks
  <2>5. x.s.cause # "none"
    BY <1>3, <2>2 DEF Live, Sound, CutsOK
  <2> HIDE DEF x
  <2>6. /\ v \in Worlds /\ v.d = x.d /\ v.a = x.a /\ Unmoved(x.s, v.s)
        /\ v.s.at = "over" /\ v.s.cause = x.s.cause
    BY <2>1, <2>2, OverIs, StepOverIs DEF Live, Sound
  <2>7. Midway(x, v)
    BY <1>3, <2>2, <2>3, <2>4, <2>5, <2>6, OverLive
  <2> QED BY <2>2, <2>7 DEF Midway, Keeps
<1> QED BY <1>1, <1>2, <1>3

----------------------------------------------------------------------------
(* The open calls cut *)

\* what cutOpenTools() leaves of w
Cuts(w, v) ==
    /\ v \in Worlds
    /\ /\ v.s.at = w.s.at /\ v.s.phase = w.s.phase /\ v.s.cause = w.s.cause
       /\ v.s.round = w.s.round /\ v.s.open = w.s.open /\ v.s.cut = w.s.cut
       /\ v.s.cutBy = w.s.cutBy /\ v.s.attempts = w.s.attempts
       /\ v.s.interrupted = w.s.interrupted /\ v.s.terminal = w.s.terminal
    /\ v.d.reply = w.d.reply /\ v.d.end = w.d.end /\ v.d.alert = w.d.alert
    /\ \A c \in Calls \ w.s.open :
          /\ v.d.row[c] = w.d.row[c] /\ v.d.why[c] = w.d.why[c]
          /\ v.s.settled[c] = w.s.settled[c]
    /\ \A c \in w.s.open :
          /\ v.d.row[c] \in {"done", "stopped"}
          /\ v.s.settled[c] = "ok" => v.d.row[c] = "done"
          /\ v.d.row[c] = "stopped" =>
                v.d.why[c] \in w.a[PhaseOf[c]] \cup {w.s.cause}
    /\ \A p \in Phases : w.a[p] \subseteq v.a[p] /\ v.a[p] \subseteq w.a[p] \cup {"failure"}

\* what a cut row names is true
LEMMA CutTextTrue ==
    ASSUME NEW w, Live(w), w.s.at \in {"over", "pause"}, NEW c \in w.s.open
    PROVE  /\ CutText(w.s, c) \in Causes
           /\ CutText(w.s, c) \in w.a[PhaseOf[c]] \cup {w.s.cause}
<1>1. /\ w.s.cause \in Causes /\ PhaseOf[c] = w.s.phase
      /\ w.s.cutBy \in {"none", "stop", "shutdown", "deadline"}
  BY DEF Live, Sound, CutsOK, RowsOK, Worlds, AllSends, Sends
<1>2. /\ w.s.cutBy # "none" => w.s.cutBy \in w.a[w.s.phase]
      /\ w.s.phase = "main" => w.s.cause # "finish"
      /\ w.s.phase # "main" /\ w.s.cutBy = "none" => "failure" \in w.a[w.s.phase]
  BY DEF Live, Sound, CutsOK
<1> QED BY <1>1, <1>2 DEF CutText, Causes

\* completions lost are told as failures of their phases
LEMMA LostIs ==
    ASSUME NEW w \in Worlds, NEW lost \in SUBSET Calls, w.f + Cardinality(lost) <= MaxFaults,
           NEW x, x = Lose(w, lost)
    PROVE  /\ x \in Worlds /\ x.d = w.d
           /\ x.s = [w.s EXCEPT !.settled =
                        [c \in Calls |-> IF c \in lost THEN "lost" ELSE w.s.settled[c]]]
           /\ \A p \in Phases : w.a[p] \subseteq x.a[p] /\ x.a[p] \subseteq w.a[p] \cup {"failure"}
<1> DEFINE n == w.f + Cardinality(lost)
           t == [c \in Calls |-> IF c \in lost THEN "lost" ELSE w.s.settled[c]]
           a == [p \in Phases |-> IF lost \cap CallsOf(p) = {}
                                  THEN w.a[p] ELSE w.a[p] \cup {"failure"}]
<1>1. w.s \in AllSends /\ w.a \in Asks /\ w.f \in Nat
  BY SendEndAssumption DEF Worlds
<1>2. n \in 0..MaxFaults
  <2>1. IsFiniteSet(lost)
    BY SendEndAssumption, FS_Subset
  <2>2. Cardinality(lost) \in Nat
    BY <2>1, FS_CardinalityType
  <2> QED BY <1>1, <2>2, SendEndAssumption
<1>3. t \in [Calls -> {"none", "ok", "interrupted", "lost"}]
  BY <1>1 DEF AllSends, Sends
<1>4. a \in Asks
  BY <1>1 DEF Asks, Causes
<1>5. \A p \in Phases : w.a[p] \subseteq a[p] /\ a[p] \subseteq w.a[p] \cup {"failure"}
  OBVIOUS
<1>6. x = [w EXCEPT !.f = n, !.s.settled = t, !.a = a]
  BY DEF Worlds, Lose
<1> HIDE DEF n, t, a
<1>7. [w.s EXCEPT !.settled = t] \in AllSends
  BY <1>1, <1>3 DEF AllSends, Sends
<1>8. x.s = [w.s EXCEPT !.settled = t] /\ x.d = w.d /\ x.a = a
  BY <1>6 DEF Worlds
<1>9. x \in Worlds
  BY <1>2, <1>4, <1>6, <1>7 DEF Worlds
<1> QED BY <1>5, <1>8, <1>9 DEF t

\* cutOpenTools() stops or stores every open call
LEMMA CutCuts ==
    ASSUME NEW w, Live(w), w.s.at \in {"over", "pause"}, NEW v \in CutOpenTools(w)
    PROVE  Cuts(w, v)
<1> w \in Worlds BY DEF Live, Sound
<1> DEFINE ends == {c \in w.s.open : w.s.settled[c] = "ok"}
<1>1. PICK lost \in SUBSET ends :
         /\ w.f + Cardinality(lost) <= MaxFaults
         /\ v = Rows(Rows(Lose(w, lost), "done", Named(ends \ lost, "none")),
                     "stopped",
                     [c \in (w.s.open \ ends) \cup lost |-> CutText(w.s, c)])
  BY DEF CutOpenTools
<1> DEFINE x == Lose(w, lost)
           S == ends \ lost
           T == (w.s.open \ ends) \cup lost
           why == [c \in T |-> CutText(w.s, c)]
           none == Named(S, "none")
           y == Rows(x, "done", none)
           t == [c \in Calls |-> IF c \in lost THEN "lost" ELSE w.s.settled[c]]
<1>2. v = Rows(y, "stopped", why)
  BY <1>1
<1>3. w.s \in AllSends /\ w.d \in Durable /\ w.s.open \in SUBSET Calls
  BY DEF Worlds, AllSends, Sends
<1>4. /\ lost \in SUBSET Calls /\ S \in SUBSET Calls /\ T \in SUBSET Calls
      /\ S \cup T = w.s.open /\ S \cap T = {}
      /\ \A c \in S : w.s.settled[c] = "ok"
      /\ \A c \in T : t[c] # "ok"
      /\ \A c \in Calls \ w.s.open : t[c] = w.s.settled[c]
  BY <1>1, <1>3
<1>5. /\ x \in Worlds /\ x.d = w.d /\ x.s = [w.s EXCEPT !.settled = t]
      /\ \A p \in Phases : w.a[p] \subseteq x.a[p] /\ x.a[p] \subseteq w.a[p] \cup {"failure"}
  <2> HIDE DEF x
  <2>1. x = Lose(w, lost)
    BY DEF x
  <2> QED BY <1>1, <1>4, <2>1, LostIs
<1>6. none \in [S -> Whys] /\ "done" \in Marks /\ "stopped" \in Marks
  BY DEF Named, Whys, Marks
<1>7. \A c \in T : /\ CutText(w.s, c) \in Causes
                   /\ CutText(w.s, c) \in w.a[PhaseOf[c]] \cup {w.s.cause}
  BY <1>4, CutTextTrue
<1>8. why \in [T -> Whys]
  BY <1>7 DEF Whys
<1> HIDE DEF S, T, t, x, none
<1>9. /\ y \in Worlds /\ y.s = x.s /\ y.a = x.a
      /\ y.d.reply = w.d.reply /\ y.d.end = w.d.end /\ y.d.alert = w.d.alert
      /\ \A c \in Calls : y.d.row[c] = IF c \in S THEN "done" ELSE w.d.row[c]
      /\ \A c \in Calls : y.d.why[c] = IF c \in S THEN none[c] ELSE w.d.why[c]
  <2> HIDE DEF y
  <2>1. y = Rows(x, "done", none)
    BY DEF y
  <2>2. S \in SUBSET Calls
    BY <1>4
  <2>3. x \in Worlds /\ x.d = w.d
    BY <1>5
  <2>4. Marked(x, y, "done", S, none)
    BY <1>6, <2>1, <2>2, <2>3, RowsIs
  <2> QED BY <2>3, <2>4 DEF Marked
<1>a. \A c \in T : why[c] = CutText(w.s, c)
  OBVIOUS
<1> HIDE DEF y, why
<1>10. /\ v \in Worlds /\ v.s = x.s /\ v.a = x.a
       /\ v.d.reply = w.d.reply /\ v.d.end = w.d.end /\ v.d.alert = w.d.alert
       /\ \A c \in Calls : v.d.row[c] = IF c \in T THEN "stopped" ELSE y.d.row[c]
       /\ \A c \in Calls : v.d.why[c] = IF c \in T THEN why[c] ELSE y.d.why[c]
  <2>1. T \in SUBSET Calls
    BY <1>4
  <2>2. y \in Worlds
    BY <1>9
  <2>3. Marked(y, v, "stopped", T, why)
    BY <1>2, <1>6, <1>8, <2>1, <2>2, RowsIs
  <2> QED BY <1>9, <2>3 DEF Marked
<1>11. /\ v.d.reply = w.d.reply /\ v.d.end = w.d.end /\ v.d.alert = w.d.alert
       /\ \A c \in Calls : v.d.row[c] = IF c \in T THEN "stopped"
                                        ELSE IF c \in S THEN "done" ELSE w.d.row[c]
       /\ \A c \in Calls \ (S \cup T) : v.d.why[c] = w.d.why[c]
       /\ \A c \in T : v.d.why[c] = CutText(w.s, c)
  BY <1>4, <1>9, <1>a, <1>10
<1>12. /\ v.s.at = w.s.at /\ v.s.phase = w.s.phase /\ v.s.cause = w.s.cause
       /\ v.s.round = w.s.round /\ v.s.open = w.s.open /\ v.s.cut = w.s.cut
       /\ v.s.cutBy = w.s.cutBy /\ v.s.attempts = w.s.attempts
       /\ v.s.interrupted = w.s.interrupted /\ v.s.terminal = w.s.terminal
       /\ v.s.settled = t
  BY <1>3, <1>5, <1>10 DEF AllSends, Sends
<1>13. \A c \in Calls \ w.s.open :
          /\ v.d.row[c] = w.d.row[c] /\ v.d.why[c] = w.d.why[c]
          /\ v.s.settled[c] = w.s.settled[c]
  BY <1>4, <1>11, <1>12
<1>14. \A c \in w.s.open :
          /\ v.d.row[c] \in {"done", "stopped"}
          /\ v.s.settled[c] = "ok" => v.d.row[c] = "done"
          /\ v.d.row[c] = "stopped" =>
                v.d.why[c] \in w.a[PhaseOf[c]] \cup {w.s.cause}
  BY <1>3, <1>4, <1>7, <1>11, <1>12
<1> QED BY <1>5, <1>10, <1>11, <1>12, <1>13, <1>14 DEF Cuts

----------------------------------------------------------------------------
(* The end written, or tried *)

\* openTools cleared, and nothing else
LEMMA EmptiedIs ==
    ASSUME NEW v \in Worlds, NEW x, x = Emptied(v)
    PROVE  /\ x \in Worlds /\ x.d = v.d /\ x.a = v.a /\ x.f = v.f
           /\ x.s.open = {}
           /\ /\ x.s.at = v.s.at /\ x.s.phase = v.s.phase /\ x.s.cause = v.s.cause
              /\ x.s.round = v.s.round /\ x.s.settled = v.s.settled
              /\ x.s.cut = v.s.cut /\ x.s.cutBy = v.s.cutBy
              /\ x.s.attempts = v.s.attempts /\ x.s.interrupted = v.s.interrupted
              /\ x.s.terminal = v.s.terminal
<1>1. v.s \in AllSends /\ {} \in SUBSET Calls
  BY DEF Worlds
<1>2. [v.s EXCEPT !.open = {}] \in AllSends
  BY <1>1 DEF AllSends, Sends
<1>3. x \in Worlds
  BY <1>2 DEF Worlds, Emptied
<1>4. x.s = [v.s EXCEPT !.open = {}] /\ x.d = v.d /\ x.a = v.a /\ x.f = v.f
  BY DEF Worlds, Emptied
<1> QED BY <1>1, <1>3, <1>4 DEF AllSends, Sends

\* what stopped rows name stands as asked grows
LEMMA CutsTold ==
    ASSUME NEW w, Live(w), w.s.cause # "none", NEW v, Cuts(w, v)
    PROVE  /\ ToldOK(v) /\ StopsOK(v)
           /\ \A c \in Calls : v.s.settled[c] = "ok" => v.d.row[c] = "done"
           /\ \A c \in Calls : v.d.row[c] # "streaming"
           /\ \A c \in Calls : w.d.row[c] \in {"done", "stopped"} =>
                 v.d.row[c] = w.d.row[c] /\ v.d.why[c] = w.d.why[c]
<1>1. PhaseOf \in [Calls -> Phases]
  BY SendEndAssumption
<1>2. /\ \A c \in Calls : w.d.row[c] = "streaming" <=> c \in w.s.open
      /\ \A c \in Calls : w.s.settled[c] = "ok" => w.d.row[c] = "done" \/ c \in w.s.open
      /\ \A c \in w.s.open : c \in Calls
  BY DEF Live, Sound, RowsOK, Worlds, AllSends, Sends
<1>3. ToldOK(v)
  <2> SUFFICES ASSUME NEW c \in Calls, v.d.row[c] = "stopped"
               PROVE  \/ v.d.why[c] \in {"unrun", "restart"}
                      \/ v.d.why[c] \in v.a[PhaseOf[c]]
                      \/ v.d.why[c] = v.s.cause /\ v.s.cause # "none"
    BY DEF ToldOK
  <2>0. PhaseOf[c] \in Phases
    BY <1>1
  <2>1. CASE c \in w.s.open
    BY <2>0, <2>1 DEF Cuts
  <2>2. CASE c \notin w.s.open
    BY <2>0, <2>2 DEF Cuts, Live, Sound, ToldOK
  <2> QED BY <2>1, <2>2
<1>4. StopsOK(v)
  <2>1. \A p \in Phases : v.a[p] \cap Stopping = w.a[p] \cap Stopping
    BY DEF Cuts, Stopping
  <2> QED BY <2>1 DEF Live, Sound, StopsOK, Cuts
<1>5. \A c \in Calls : v.s.settled[c] = "ok" => v.d.row[c] = "done"
  BY <1>2 DEF Cuts
<1>6. \A c \in Calls : v.d.row[c] # "streaming"
  BY <1>2 DEF Cuts
<1>7. \A c \in Calls : w.d.row[c] \in {"done", "stopped"} =>
         v.d.row[c] = w.d.row[c] /\ v.d.why[c] = w.d.why[c]
  BY <1>2 DEF Cuts
<1> QED BY <1>3, <1>4, <1>5, <1>6, <1>7

\* openTools forgotten once their rows are closed
LEMMA EmptiedLive ==
    ASSUME NEW w, Live(w), w.s.at = "over", NEW v, Cuts(w, v),
           NEW x, x = Emptied(v)
    PROVE  /\ Live(x) /\ Keeps(w, x)
           /\ x.s.open = {} /\ x.s.at = "over" /\ x.s.phase = w.s.phase
           /\ x.s.cause = w.s.cause
<1>1. v \in Worlds /\ v.s.at = "over" /\ w.s.cause # "none"
  BY DEF Cuts, Live, Sound, CutsOK
<1>2. /\ x \in Worlds /\ x.d = v.d /\ x.a = v.a
      /\ x.s.open = {}
      /\ x.s.at = "over" /\ x.s.phase = w.s.phase /\ x.s.cause = w.s.cause
      /\ x.s.round = w.s.round /\ x.s.settled = v.s.settled
      /\ x.s.cut = w.s.cut /\ x.s.cutBy = w.s.cutBy
      /\ x.s.attempts = w.s.attempts /\ x.s.interrupted = w.s.interrupted
      /\ x.s.terminal = w.s.terminal
  <2>1. /\ x \in Worlds /\ x.d = v.d /\ x.a = v.a
        /\ x.s.open = {}
        /\ /\ x.s.at = v.s.at /\ x.s.phase = v.s.phase /\ x.s.cause = v.s.cause
           /\ x.s.round = v.s.round /\ x.s.settled = v.s.settled
           /\ x.s.cut = v.s.cut /\ x.s.cutBy = v.s.cutBy
           /\ x.s.attempts = v.s.attempts /\ x.s.interrupted = v.s.interrupted
           /\ x.s.terminal = v.s.terminal
    BY <1>1, EmptiedIs
  <2> QED BY <2>1 DEF Cuts
<1>3. /\ ToldOK(v) /\ StopsOK(v)
      /\ \A c \in Calls : v.s.settled[c] = "ok" => v.d.row[c] = "done"
      /\ \A c \in Calls : v.d.row[c] # "streaming"
      /\ \A c \in Calls : w.d.row[c] \in {"done", "stopped"} =>
            v.d.row[c] = w.d.row[c] /\ v.d.why[c] = w.d.why[c]
  BY <1>1, CutsTold
<1>4. v.d.reply = w.d.reply /\ v.d.end = w.d.end /\ v.d.alert = w.d.alert
  BY DEF Cuts
<1>5. RoundsOK(x)
  BY <1>2, <1>4 DEF Live, Sound, RoundsOK
<1>6. RowsOK(x)
  <2>1. \A c \in Calls : v.d.row[c] = "none" => v.s.settled[c] = "none"
    <3> SUFFICES ASSUME NEW c \in Calls, v.d.row[c] = "none"
                 PROVE  v.s.settled[c] = "none"
      OBVIOUS
    <3>1. c \notin w.s.open
      BY DEF Cuts
    <3>2. w.d.row[c] = "none" /\ v.s.settled[c] = w.s.settled[c]
      BY <3>1 DEF Cuts
    <3> QED BY <3>2 DEF Live, Sound, RowsOK
  <2>2. \A i \in DOMAIN w.d.reply : w.d.reply[i] = "streaming" => i = w.s.round
    BY DEF Live, Sound, RowsOK
  <2>3. \A i \in DOMAIN x.d.reply : x.d.reply[i] = "streaming" => i = x.s.round
    BY <1>2, <1>4, <2>2
  <2>4. \A c \in Calls : x.d.row[c] = "streaming" <=> c \in x.s.open
    BY <1>2, <1>3
  <2>5. \A c \in Calls : x.d.row[c] = "none" => x.s.settled[c] = "none"
    BY <1>2, <2>1
  <2>6. \A c \in Calls : x.s.settled[c] = "ok" => x.d.row[c] = "done" \/ c \in x.s.open
    BY <1>2, <1>3
  <2>7. \A c \in x.s.open : PhaseOf[c] = x.s.phase
    BY <1>2
  <2> QED BY <2>3, <2>4, <2>5, <2>6, <2>7 DEF RowsOK
<1>7. CutsOK(x)
  <2>1. w.s.phase \in Phases /\ \A p \in Phases : w.a[p] \subseteq v.a[p]
    BY DEF Cuts, Live, Sound, Worlds, AllSends, Sends
  <2> QED BY <1>2, <2>1 DEF Live, Sound, CutsOK
<1>8. StageOK(x) /\ WaitingOK(x)
  BY <1>2 DEF Live, Sound, StageOK, WaitingOK
<1>9. ToldOK(x) /\ StopsOK(x)
  <2>1. v.s.cause = x.s.cause /\ v.s.interrupted = x.s.interrupted
    BY <1>2 DEF Cuts
  <2> QED BY <1>2, <1>3, <2>1 DEF ToldOK, StopsOK
<1>10. Keeps(w, x)
  BY <1>2, <1>3, <1>4 DEF Keeps, Live, Sound
<1> QED BY <1>2, <1>4, <1>5, <1>6, <1>7, <1>8, <1>9, <1>10 DEF Live, Sound

\* the end as the world has it
LEMMA EndedIs ==
    ASSUME NEW v \in Worlds, v.s.cause # "none", NEW x, x = Ended(v)
    PROVE  /\ x \in Worlds /\ x.a = v.a
           /\ x.s.at = "released" /\ x.s.cause = v.s.cause
           /\ x.s.round = v.s.round /\ x.s.settled = v.s.settled
           /\ x.d.reply = EndReply(v).d.reply /\ x.d.row = v.d.row /\ x.d.why = v.d.why
           /\ x.d.end = v.s.cause /\ x.d.alert = AlertChange(v.s)
<1> DEFINE e == EndReply(v)
           k == v.s.cause
           al == AlertChange(v.s)
<1>1. /\ e \in Worlds /\ e.s = v.s /\ e.a = v.a
      /\ e.d = IF v.s.round = 0 THEN v.d ELSE [v.d EXCEPT !.reply[v.s.round] = "ended"]
  BY EndReplyIs
<1>2. v.d \in Durable /\ e.d \in Durable /\ v.s \in AllSends
  BY <1>1 DEF Worlds
<1>3. e.d.row = v.d.row /\ e.d.why = v.d.why
  BY <1>1, <1>2 DEF Durable
<1>4. k \in Causes /\ al \in {"same", "open", "close"}
  BY <1>2 DEF AllSends, Sends, AlertChange
<1>5. /\ x = [e EXCEPT !.d.end = k, !.d.alert = al, !.s.terminal = k, !.s.open = {},
                       !.s.at = "released"]
  BY DEF Ended, Release
<1> HIDE DEF e, al, k
<1>6. [e.d EXCEPT !.end = k, !.alert = al] \in Durable
  BY <1>2, <1>4 DEF Durable
<1>7. "released" \in AllPlaces
  BY DEF AllPlaces, Places
<1>8. [v.s EXCEPT !.terminal = k, !.open = {}, !.at = "released"] \in AllSends
  BY <1>2, <1>4, <1>7 DEF AllSends, Sends
<1>a. [e.s EXCEPT !.terminal = k, !.open = {}, !.at = "released"] \in AllSends
  BY <1>1, <1>8
<1>9. x \in Worlds
  BY <1>1, <1>5, <1>6, <1>a DEF Worlds
<1>10. /\ x.s = [v.s EXCEPT !.terminal = k, !.open = {}, !.at = "released"]
       /\ x.d = [e.d EXCEPT !.end = k, !.alert = al] /\ x.a = v.a
  BY <1>1, <1>5 DEF Worlds
<1>11. /\ x.s.at = "released" /\ x.s.cause = v.s.cause
       /\ x.s.round = v.s.round /\ x.s.settled = v.s.settled
  BY <1>2, <1>10 DEF AllSends, Sends
<1>12. /\ x.d.reply = e.d.reply /\ x.d.row = e.d.row /\ x.d.why = e.d.why
       /\ x.d.end = k /\ x.d.alert = al
  BY <1>2, <1>10 DEF Durable
<1> QED BY <1>3, <1>9, <1>10, <1>11, <1>12 DEF e, k, al

\* The end in one commit: every row closed, the cause the send's own.
LEMMA EndedClosed ==
    ASSUME NEW w, Live(w), w.s.at \in {"over", "pause"}, NEW v, Cuts(w, v)
    PROVE  Rest(Ended(v)) /\ Keeps(w, Ended(v))
<1> DEFINE x == Ended(v)
<1>1. w.s.cause # "none" /\ v.s.cause = w.s.cause /\ v \in Worlds
  BY DEF Live, Sound, CutsOK, Cuts
<1>2. /\ x \in Worlds /\ x.a = v.a
      /\ x.s.at = "released" /\ x.s.cause = v.s.cause
      /\ x.s.round = v.s.round /\ x.s.settled = v.s.settled
      /\ x.d.reply = EndReply(v).d.reply /\ x.d.row = v.d.row /\ x.d.why = v.d.why
      /\ x.d.end = v.s.cause /\ x.d.alert = AlertChange(v.s)
  BY <1>1, EndedIs
<1>3. /\ ToldOK(v) /\ StopsOK(v)
      /\ \A c \in Calls : v.s.settled[c] = "ok" => v.d.row[c] = "done"
      /\ \A c \in Calls : v.d.row[c] # "streaming"
      /\ \A c \in Calls : w.d.row[c] \in {"done", "stopped"} =>
            v.d.row[c] = w.d.row[c] /\ v.d.why[c] = w.d.why[c]
  BY <1>1, CutsTold
<1> HIDE DEF x
<1>4. EndReply(v).d.reply = EndReply(w).d.reply
  <2>1. w \in Worlds /\ v.s.round = w.s.round /\ v.d.reply = w.d.reply
    BY DEF Live, Sound, Cuts
  <2>2. /\ v.d \in Durable /\ w.d \in Durable
        /\ EndReply(v).d = IF v.s.round = 0 THEN v.d ELSE [v.d EXCEPT !.reply[v.s.round] = "ended"]
        /\ EndReply(w).d = IF w.s.round = 0 THEN w.d ELSE [w.d EXCEPT !.reply[w.s.round] = "ended"]
    BY <1>1, <2>1, EndReplyIs DEF Worlds
  <2> QED BY <2>1, <2>2 DEF Durable
<1>5. /\ Quiet(EndReply(w).d) /\ Len(x.d.reply) = Len(w.d.reply)
      /\ x.s.round = w.s.round /\ x.d.reply = EndReply(w).d.reply
  BY <1>2, <1>4, EndReplyLive DEF Cuts
<1>6. \A i \in DOMAIN x.d.reply : x.d.reply[i] = "ended"
  <2>1. x.d.reply \in Seq({"streaming", "ended"})
    BY <1>2 DEF Worlds, Durable
  <2>2. \A i \in DOMAIN x.d.reply : x.d.reply[i] # "streaming"
    BY <1>5 DEF Quiet
  <2>3. \A i \in DOMAIN x.d.reply : x.d.reply[i] \in {"streaming", "ended"}
    BY <2>1
  <2> QED BY <2>2, <2>3
<1>7. Len(x.d.reply) \in 1..MaxRounds + 2 /\ x.s.round <= Len(x.d.reply)
  <2>1. /\ Len(w.d.reply) \in 1..MaxRounds + Slack(w.s.phase)
        /\ w.s.round <= Len(w.d.reply)
    BY DEF Live, Sound, RoundsOK
  <2> QED BY <1>5, <2>1, SendEndAssumption DEF Slack
<1>8. ToldOK(x)
  BY <1>2, <1>3 DEF ToldOK
<1>9. x.d.alert = "close" => \A p \in Phases : x.a[p] \cap Stopping = {}
  <2>1. x.d.alert = "close" => v.s.cause = "finish" /\ ~v.s.interrupted
    BY <1>2 DEF AlertChange, RunMark
  <2> QED BY <1>2, <1>3, <2>1 DEF StopsOK, Stopping
<1>10. Closed(x)
  BY <1>1, <1>2, <1>3, <1>6, <1>7, <1>8, <1>9 DEF Closed, Silent
<1>11. Keeps(w, x)
  BY <1>1, <1>2, <1>3 DEF Keeps
<1> QED BY <1>2, <1>10, <1>11 DEF Rest, x

\* a try that failed leaves the send at its pause, or released
LEMMA FailedRest ==
    ASSUME NEW w, Live(w), w.s.at \in {"over", "pause"}, NEW v \in Thrown(w)
    PROVE  Rest(Failed(v)) /\ Keeps(w, Failed(v))
<1> DEFINE n == v.s.attempts + 1
           at == IF n < FINALIZE_ATTEMPTS THEN "pause" ELSE "released"
           x == Failed(v)
<1>1. Live(v) /\ v.s = w.s /\ v.d = w.d /\ v.a = w.a
  BY ThrownLive DEF Live
<1>2. v \in Worlds /\ v.s \in AllSends /\ v.s.attempts \in 0..FINALIZE_ATTEMPTS
  BY <1>1 DEF Live, Sound, Worlds, AllSends, Sends
<1>3. v.s.attempts < FINALIZE_ATTEMPTS
  BY <1>1 DEF Live, Sound, StageOK, FINALIZE_ATTEMPTS
<1>4. n \in 0..FINALIZE_ATTEMPTS /\ at \in AllPlaces
  BY <1>2, <1>3 DEF FINALIZE_ATTEMPTS, AllPlaces, Places
<1>5. x = [v EXCEPT !.s.attempts = n, !.s.at = at]
  BY DEF Failed
<1>6. at \in {"pause", "released"} /\ (at = "pause" => n < FINALIZE_ATTEMPTS)
  OBVIOUS
<1> HIDE DEF n, at, x
<1>7. [v.s EXCEPT !.attempts = n, !.at = at] \in AllSends
  BY <1>2, <1>4 DEF AllSends, Sends
<1>8. x \in Worlds
  BY <1>2, <1>5, <1>7 DEF Worlds
<1>9. x.s = [v.s EXCEPT !.attempts = n, !.at = at] /\ x.d = v.d /\ x.a = v.a
  BY <1>2, <1>5 DEF Worlds
<1>10. /\ x.s.at = at /\ x.s.attempts = n /\ x.s.phase = v.s.phase
       /\ x.s.round = v.s.round /\ x.s.open = v.s.open
       /\ x.s.settled = v.s.settled /\ x.s.cut = v.s.cut /\ x.s.cutBy = v.s.cutBy
       /\ x.s.interrupted = v.s.interrupted /\ x.s.terminal = v.s.terminal
       /\ x.s.cause = v.s.cause
  BY <1>2, <1>9 DEF AllSends, Sends
<1>11. RoundsOK(x) /\ RowsOK(x)
  BY <1>1, <1>6, <1>9, <1>10 DEF Live, Sound, RoundsOK, RowsOK
<1>12. CutsOK(x)
  BY <1>1, <1>9, <1>10 DEF Live, Sound, CutsOK
<1>13. StageOK(x) /\ WaitingOK(x)
  BY <1>6, <1>10 DEF StageOK, WaitingOK
<1>14. ToldOK(x) /\ StopsOK(x)
  BY <1>1, <1>9, <1>10 DEF Live, Sound, ToldOK, StopsOK
<1>15. Live(x)
  BY <1>1, <1>8, <1>9, <1>10, <1>11, <1>12, <1>13, <1>14 DEF Live, Sound
<1>16. Keeps(w, x)
  <2> w.d.end = "running"
    BY DEF Live, Sound
  <2> QED BY <1>1, <1>9, <1>10 DEF Keeps
<1> QED BY <1>6, <1>10, <1>15, <1>16 DEF Rest, x

\* one try of finalize() leaves the send at rest
LEMMA FinalizeRest ==
    ASSUME NEW w, Live(w), w.s.at \in {"over", "pause"}, NEW v \in Finalize(w)
    PROVE  Rest(v) /\ Keeps(w, v)
<1>1. CASE \E u \in CutOpenTools(w) : v = Ended(u)
  BY <1>1, CutCuts, EndedClosed
<1>2. CASE \E u \in Thrown(w) : v = Failed(u)
  BY <1>2, FailedRest
<1> QED BY <1>1, <1>2 DEF Finalize

----------------------------------------------------------------------------
(* The phases after the answer *)

\* y is w where phase p begins: nothing cut it yet
Begins(w, p, y) ==
    /\ y \in Worlds /\ y.d = w.d /\ y.a = w.a
    /\ y.s.phase = p /\ y.s.cutBy = "none" /\ ~y.s.cut
    /\ y.s.at = w.s.at /\ y.s.cause = w.s.cause /\ y.s.round = w.s.round
    /\ y.s.open = w.s.open /\ y.s.settled = w.s.settled
    /\ y.s.attempts = w.s.attempts /\ y.s.interrupted = w.s.interrupted
    /\ y.s.terminal = w.s.terminal

\* the memory phase begins with no cut of its own
LEMMA MemoryBegins ==
    ASSUME NEW w \in Worlds, NEW y,
           y = [w EXCEPT !.s.phase = "memory", !.s.cutBy = "none", !.s.cut = FALSE]
    PROVE  Begins(w, "memory", y)
<1> DEFINE no == FALSE
           t == [w.s EXCEPT !.phase = "memory", !.cutBy = "none", !.cut = no]
<1>1. w.s \in AllSends /\ "memory" \in Phases /\ 1 \in 0..ATTENTION_ROUNDS
  BY DEF Worlds, Phases, ATTENTION_ROUNDS
<1>2. no \in BOOLEAN /\ ~no
  OBVIOUS
<1>3. y.s = t /\ y.d = w.d /\ y.a = w.a
  BY DEF Worlds
<1> HIDE DEF no
<1>4. t \in AllSends
  BY <1>1, <1>2 DEF AllSends, Sends
<1>5. /\ t.phase = "memory" /\ t.cutBy = "none" /\ t.cut = no
      /\ t.at = w.s.at /\ t.cause = w.s.cause /\ t.round = w.s.round
      /\ t.open = w.s.open /\ t.settled = w.s.settled
      /\ t.attempts = w.s.attempts /\ t.interrupted = w.s.interrupted
      /\ t.terminal = w.s.terminal
  BY <1>1 DEF AllSends, Sends
<1>6. y = [w EXCEPT !.s = t]
  BY DEF Worlds, no
<1> HIDE DEF t
<1>7. y \in Worlds
  BY <1>4, <1>6 DEF Worlds
<1> QED BY <1>2, <1>3, <1>5, <1>7 DEF Begins

\* the attention step begins with no cut of its own
LEMMA StepBegins ==
    ASSUME NEW w \in Worlds, NEW y,
           y = [w EXCEPT !.s.phase = "attention", !.s.cutBy = "none", !.s.cut = FALSE,
                         !.s.stepped = 1]
    PROVE  Begins(w, "attention", y)
<1> DEFINE no == FALSE
           t == [w.s EXCEPT !.phase = "attention", !.cutBy = "none", !.cut = no, !.stepped = 1]
<1>1. w.s \in AllSends /\ "attention" \in Phases /\ 1 \in 0..ATTENTION_ROUNDS
  BY DEF Worlds, Phases, ATTENTION_ROUNDS
<1>2. no \in BOOLEAN /\ ~no
  OBVIOUS
<1>3. y.s = t /\ y.d = w.d /\ y.a = w.a
  BY DEF Worlds
<1> HIDE DEF no
<1>4. t \in AllSends
  BY <1>1, <1>2 DEF AllSends, Sends
<1>5. /\ t.phase = "attention" /\ t.cutBy = "none" /\ t.cut = no
      /\ t.at = w.s.at /\ t.cause = w.s.cause /\ t.round = w.s.round
      /\ t.open = w.s.open /\ t.settled = w.s.settled
      /\ t.attempts = w.s.attempts /\ t.interrupted = w.s.interrupted
      /\ t.terminal = w.s.terminal
  BY <1>1 DEF AllSends, Sends
<1>6. y = [w EXCEPT !.s = t]
  BY DEF Worlds, no
<1> HIDE DEF t
<1>7. y \in Worlds
  BY <1>4, <1>6 DEF Worlds
<1> QED BY <1>2, <1>3, <1>5, <1>7 DEF Begins

\* the phase's first request, over a phase that left nothing open
LEMMA BegunRest ==
    ASSUME NEW w, Live(w), w.s.at = "over", w.s.open = {},
           NEW p \in {"attention", "memory"}, Slack(w.s.phase) < Slack(p),
           NEW y, Begins(EndReply(w), p, y)
    PROVE  Rest(NextRound(y)) /\ Keeps(w, NextRound(y))
<1> DEFINE e == EndReply(w)
<1>1. /\ Live(e) /\ Quiet(e.d) /\ e.s = w.s /\ e.a = w.a
      /\ Len(e.d.reply) = Len(w.d.reply)
      /\ e.d.row = w.d.row /\ e.d.why = w.d.why
      /\ e.d.end = w.d.end /\ e.d.alert = w.d.alert
  BY EndReplyLive
<1> HIDE DEF e
<1>2. /\ y \in Worlds /\ y.d = e.d /\ y.a = e.a
      /\ y.s.phase = p /\ y.s.cutBy = "none" /\ ~y.s.cut
      /\ y.s.at = "over" /\ y.s.cause = w.s.cause /\ y.s.round = w.s.round
      /\ y.s.open = {} /\ y.s.settled = w.s.settled
      /\ y.s.attempts = w.s.attempts /\ y.s.interrupted = w.s.interrupted
      /\ y.s.terminal = w.s.terminal
  BY <1>1 DEF Begins, e
<1>3. w.s.cause # "none" /\ w.s.attempts = 0
  BY DEF Live, Sound, CutsOK, StageOK, WaitingOK
<1>4. Len(y.d.reply) < MaxRounds + Slack(p) /\ RoundsOK(y)
  <2>1. /\ Len(w.d.reply) \in 1..MaxRounds + Slack(w.s.phase)
        /\ w.s.round <= Len(w.d.reply)
    BY DEF Live, Sound, RoundsOK
  <2>2. Slack(w.s.phase) \in 0..2 /\ Slack(p) \in 0..2 /\ MaxRounds \in Nat
    BY SendEndAssumption DEF Slack
  <2>3. Len(y.d.reply) = Len(w.d.reply)
    BY <1>1, <1>2
  <2>4. Len(w.d.reply) \in 1..MaxRounds + Slack(p) /\ Len(w.d.reply) < MaxRounds + Slack(p)
    BY <2>1, <2>2
  <2> QED BY <1>2, <2>1, <2>3, <2>4 DEF RoundsOK
<1>5. RowsOK(y)
  BY <1>1, <1>2 DEF Live, Sound, RowsOK
<1>6. CutsOK(y)
  BY <1>2, <1>3 DEF CutsOK
<1>7. StageOK(y) /\ WaitingOK(y)
  BY <1>2, <1>3 DEF StageOK, WaitingOK
<1>8. ToldOK(y) /\ StopsOK(y)
  BY <1>1, <1>2 DEF Live, Sound, ToldOK, StopsOK
<1>9. Live(y)
  BY <1>1, <1>2, <1>4, <1>5, <1>6, <1>7, <1>8 DEF Live, Sound
<1>10. /\ Live(NextRound(y)) /\ NextRound(y).s.at = "round"
       /\ NextRound(y).s.cause = y.s.cause
       /\ NextRound(y).d.row = y.d.row /\ NextRound(y).d.why = y.d.why
  <2>1. Quiet(y.d) /\ y.s.attempts = 0 /\ y.s.phase # "main"
    BY <1>1, <1>2, <1>3
  <2> QED BY <1>2, <1>4, <1>9, <2>1, NextRoundLive
<1>11. Keeps(w, NextRound(y))
  BY <1>1, <1>2, <1>10 DEF Keeps, Live, Sound
<1> QED BY <1>10, <1>11 DEF Rest

\* a start that failed leaves the phase over, and told
LEMMA AskedOver ==
    ASSUME NEW w, Live(w), w.s.at = "over", NEW v \in Thrown(w)
    PROVE  /\ Live(Asked(v, "failure")) /\ Asked(v, "failure").s = w.s
           /\ Keeps(w, Asked(v, "failure"))
<1>1. Live(v) /\ v.s = w.s /\ v.d = w.d /\ v.a = w.a
  BY ThrownLive DEF Live
<1>2. "failure" \in Causes /\ "failure" \notin Stopping /\ v \in Worlds
  BY <1>1 DEF Causes, Stopping, Live, Sound
<1>3. Live(Asked(v, "failure")) /\ Asked(v, "failure").s = w.s /\ Asked(v, "failure").d = w.d
  <2> Sound(v)
    BY <1>1 DEF Live
  <2> QED BY <1>1, <1>2, AskedLive, AskedIs
<1> QED BY <1>3 DEF Keeps, Live, Sound

\* the end of a send whose phase failed to start
LEMMA AskedFinalizeRest ==
    ASSUME NEW w, Live(w), w.s.at = "over", NEW v \in Thrown(w),
           NEW x \in Finalize(Asked(v, "failure"))
    PROVE  Rest(x) /\ Keeps(w, x)
<1> DEFINE y == Asked(v, "failure")
<1>1. Live(y) /\ y.s = w.s /\ Keeps(w, y)
  BY AskedOver
<1> HIDE DEF y
<1>2. x \in Finalize(y)
  BY DEF y
<1>3. Rest(x) /\ Keeps(y, x)
  BY <1>1, <1>2, FinalizeRest
<1> QED BY <1>1, <1>3, KeepsTrans

\* memoryPhase() up to its first request
LEMMA StartMemoryRest ==
    ASSUME NEW w, Live(w), w.s.at = "over", w.s.open = {}, w.s.phase # "memory",
           NEW x \in StartMemory(w)
    PROVE  Rest(x) /\ Keeps(w, x)
<1> DEFINE e == EndReply(w)
           y == [e EXCEPT !.s.phase = "memory", !.s.cutBy = "none", !.s.cut = FALSE]
<1>1. CASE x = NextRound(y)
  <2>1. e \in Worlds
    BY EndReplyIs DEF Live, Sound
  <2>2. Begins(e, "memory", y)
    <3> HIDE DEF e
    <3> QED BY <2>1, MemoryBegins
  <2>3. Slack(w.s.phase) < Slack("memory")
    BY DEF Slack, Live, Sound, Worlds, AllSends, Sends, Phases
  <2> HIDE DEF y
  <2> QED BY <1>1, <2>2, <2>3, BegunRest
<1>2. CASE \E v \in Thrown(w) : x \in Finalize(Asked(v, "failure"))
  BY <1>2, AskedFinalizeRest
<1> QED BY <1>1, <1>2 DEF StartMemory

\* the main round's tools stopped, then the phase
LEMMA EnterMemoryRest ==
    ASSUME NEW w, Live(w), w.s.at = "over", w.s.phase # "memory", NEW x \in EnterMemory(w)
    PROVE  Rest(x) /\ Keeps(w, x)
<1>1. CASE w.s.open = {} /\ x \in StartMemory(w)
  BY <1>1, StartMemoryRest
<1>2. CASE \E v \in CutOpenTools(w) : x \in StartMemory(Emptied(v))
  <2>1. PICK v \in CutOpenTools(w) : x \in StartMemory(Emptied(v))
    BY <1>2
  <2> DEFINE y == Emptied(v)
  <2>2. Cuts(w, v)
    BY CutCuts
  <2>3. /\ Live(y) /\ Keeps(w, y) /\ y.s.open = {} /\ y.s.at = "over"
        /\ y.s.phase = w.s.phase
    BY <2>2, EmptiedLive
  <2> HIDE DEF y
  <2>4. x \in StartMemory(y)
    BY <2>1 DEF y
  <2>5. Rest(x) /\ Keeps(y, x)
    BY <2>3, <2>4, StartMemoryRest
  <2> QED BY <2>3, <2>5, KeepsTrans
<1>3. CASE \E v \in Thrown(w) : x \in Finalize(Asked(v, "failure"))
  BY <1>3, AskedFinalizeRest
<1>4. x \in IF w.s.open = {} THEN StartMemory(w)
            ELSE (UNION {StartMemory(Emptied(v)) : v \in CutOpenTools(w)})
                   \cup UNION {Finalize(Asked(v, "failure")) : v \in Thrown(w)}
  BY DEF EnterMemory
<1> QED BY <1>1, <1>2, <1>3, <1>4

\* what follows the attention step, or its absence
LEMMA AfterStepRest ==
    ASSUME NEW w, Live(w), w.s.at = "over", w.s.phase # "memory", NEW x \in AfterStep(w)
    PROVE  Rest(x) /\ Keeps(w, x)
BY EnterMemoryRest, FinalizeRest DEF AfterStep

\* the attention step up to its first request
LEMMA StartStepRest ==
    ASSUME NEW w, Live(w), w.s.at = "over", w.s.phase = "main", w.s.cause = "finish",
           NEW x \in StartStep(w)
    PROVE  Rest(x) /\ Keeps(w, x)
<1> DEFINE e == EndReply(w)
           y == [e EXCEPT !.s.phase = "attention", !.s.cutBy = "none", !.s.cut = FALSE,
                          !.s.stepped = 1]
<1>1. CASE x = NextRound(y)
  <2>1. e \in Worlds
    BY EndReplyIs DEF Live, Sound
  <2>2. Begins(e, "attention", y)
    <3> HIDE DEF e
    <3> QED BY <2>1, StepBegins
  <2>3. Slack(w.s.phase) < Slack("attention") /\ w.s.open = {}
    BY DEF Slack, Live, Sound, CutsOK
  <2> HIDE DEF y
  <2> QED BY <1>1, <2>2, <2>3, BegunRest
<1>2. CASE \E v \in Thrown(w) : x \in AfterStep(Asked(v, "failure"))
  <2>1. PICK v \in Thrown(w) : x \in AfterStep(Asked(v, "failure"))
    BY <1>2
  <2> DEFINE z == Asked(v, "failure")
  <2>2. Live(z) /\ z.s = w.s /\ Keeps(w, z)
    BY AskedOver
  <2> HIDE DEF z
  <2>3. x \in AfterStep(z)
    BY <2>1 DEF z
  <2>4. Rest(x) /\ Keeps(z, x)
    BY <2>2, <2>3, AfterStepRest
  <2> QED BY <2>2, <2>4, KeepsTrans
<1> QED BY <1>1, <1>2 DEF StartStep

\* endSend() leaves the send in its next phase, in a pause or ended.
LEMMA EndSendRest ==
    ASSUME NEW w, Live(w), w.s.at = "over", NEW x \in EndSend(w)
    PROVE  Rest(x) /\ Keeps(w, x)
<1>1. CASE w.s.phase = "main" /\ HasAttentionStep(w.s)
  BY <1>1, StartStepRest DEF EndSend, HasAttentionStep
<1>2. CASE ~(w.s.phase = "main" /\ HasAttentionStep(w.s)) /\ w.s.phase # "memory"
  BY <1>2, AfterStepRest DEF EndSend
<1>3. CASE w.s.phase = "memory"
  BY <1>3, FinalizeRest DEF EndSend
<1> QED BY <1>1, <1>2, <1>3

\* a turn ends at rest, wherever its phases take it
LEMMA TurnRest ==
    ASSUME NEW w, NEW W, \A v \in W : Midway(w, v), NEW x \in Turn(W)
    PROVE  Rest(x) /\ Keeps(w, x)
<1>1. PICK v \in W : x \in (IF v.s.at = "over" THEN EndSend(v) ELSE {v})
  BY DEF Turn
<1>2. Midway(w, v)
  OBVIOUS
<1>3. CASE v.s.at = "over"
  <2>1. Rest(x) /\ Keeps(v, x)
    BY <1>1, <1>2, <1>3, EndSendRest DEF Midway
  <2> QED BY <1>2, <2>1, KeepsTrans DEF Midway
<1>4. CASE v.s.at # "over"
  BY <1>1, <1>2, <1>4 DEF Midway, Rest
<1> QED BY <1>3, <1>4

----------------------------------------------------------------------------
(* A round that ends *)

\* y differs from w in what the invariant says nothing of
Alike(w, y) ==
    /\ y \in Worlds /\ y.d = w.d /\ y.a = w.a
    /\ y.s.at = w.s.at /\ y.s.phase = w.s.phase /\ y.s.cause = w.s.cause
    /\ y.s.round = w.s.round /\ y.s.open = w.s.open /\ y.s.running = w.s.running
    /\ y.s.settled = w.s.settled /\ y.s.deferred = w.s.deferred
    /\ y.s.broken = w.s.broken /\ y.s.cut = w.s.cut /\ y.s.cutBy = w.s.cutBy
    /\ y.s.attempts = w.s.attempts /\ y.s.interrupted = w.s.interrupted
    /\ y.s.terminal = w.s.terminal

\* a world told by its marks alone is as live
LEMMA AlikeLive ==
    ASSUME NEW w, Live(w), NEW y, Alike(w, y)
    PROVE  Live(y)
<1>1. RoundsOK(y) /\ RowsOK(y)
  BY DEF Live, Sound, RoundsOK, RowsOK, Alike
<1>2. CutsOK(y) /\ StageOK(y)
  BY DEF Live, Sound, CutsOK, StageOK, Alike
<1>3. WaitingOK(y)
  BY DEF Live, Sound, WaitingOK, Waiting, Aborted, Alike
<1>4. ToldOK(y) /\ StopsOK(y)
  BY DEF Live, Sound, ToldOK, StopsOK, Alike
<1> QED BY <1>1, <1>2, <1>3, <1>4 DEF Live, Sound, Alike

\* a summary asked for is a mark
LEMMA SummaryAlike ==
    ASSUME NEW w \in Worlds, NEW y, y = [w EXCEPT !.s.summarizing = TRUE]
    PROVE  Alike(w, y)
<1> DEFINE yes == TRUE
           t == [w.s EXCEPT !.summarizing = yes]
<1>1. w.s \in AllSends /\ yes \in BOOLEAN
  BY DEF Worlds
<1>2. y.s = t /\ y.d = w.d /\ y.a = w.a /\ y = [w EXCEPT !.s = t]
  BY DEF Worlds
<1> HIDE DEF yes
<1>3. t \in AllSends
  BY <1>1 DEF AllSends, Sends
<1>4. /\ t.at = w.s.at /\ t.phase = w.s.phase /\ t.cause = w.s.cause
      /\ t.round = w.s.round /\ t.open = w.s.open /\ t.running = w.s.running
      /\ t.settled = w.s.settled /\ t.deferred = w.s.deferred
      /\ t.broken = w.s.broken /\ t.cut = w.s.cut /\ t.cutBy = w.s.cutBy
      /\ t.attempts = w.s.attempts /\ t.interrupted = w.s.interrupted
      /\ t.terminal = w.s.terminal
  BY <1>1 DEF AllSends, Sends
<1> HIDE DEF t
<1>5. y \in Worlds
  BY <1>2, <1>3 DEF Worlds
<1> QED BY <1>2, <1>4, <1>5 DEF Alike

\* a limit met is a mark
LEMMA LimitedAlike ==
    ASSUME NEW w \in Worlds, NEW b \in BOOLEAN, NEW y, y = [w EXCEPT !.s.limited = @ \/ b]
    PROVE  Alike(w, y)
<1> DEFINE yes == w.s.limited \/ b
           t == [w.s EXCEPT !.limited = yes]
<1>1. w.s \in AllSends /\ yes \in BOOLEAN
  BY DEF Worlds
<1>2. y.s = t /\ y.d = w.d /\ y.a = w.a /\ y = [w EXCEPT !.s = t]
  BY DEF Worlds
<1> HIDE DEF yes
<1>3. t \in AllSends
  BY <1>1 DEF AllSends, Sends
<1>4. /\ t.at = w.s.at /\ t.phase = w.s.phase /\ t.cause = w.s.cause
      /\ t.round = w.s.round /\ t.open = w.s.open /\ t.running = w.s.running
      /\ t.settled = w.s.settled /\ t.deferred = w.s.deferred
      /\ t.broken = w.s.broken /\ t.cut = w.s.cut /\ t.cutBy = w.s.cutBy
      /\ t.attempts = w.s.attempts /\ t.interrupted = w.s.interrupted
      /\ t.terminal = w.s.terminal
  BY <1>1 DEF AllSends, Sends
<1> HIDE DEF t
<1>5. y \in Worlds
  BY <1>2, <1>3 DEF Worlds
<1> QED BY <1>2, <1>4, <1>5 DEF Alike

\* a round of the step counted is a mark
LEMMA SteppedAlike ==
    ASSUME NEW w \in Worlds, w.s.stepped # ATTENTION_ROUNDS,
           NEW y, y = [w EXCEPT !.s.stepped = @ + 1]
    PROVE  Alike(w, y)
<1> DEFINE n == w.s.stepped + 1
           t == [w.s EXCEPT !.stepped = n]
<1>1. w.s \in AllSends /\ n \in 0..ATTENTION_ROUNDS
  BY DEF Worlds, AllSends, Sends, ATTENTION_ROUNDS
<1>2. y.s = t /\ y.d = w.d /\ y.a = w.a /\ y = [w EXCEPT !.s = t]
  BY DEF Worlds
<1> HIDE DEF n
<1>3. t \in AllSends
  BY <1>1 DEF AllSends, Sends
<1>4. /\ t.at = w.s.at /\ t.phase = w.s.phase /\ t.cause = w.s.cause
      /\ t.round = w.s.round /\ t.open = w.s.open /\ t.running = w.s.running
      /\ t.settled = w.s.settled /\ t.deferred = w.s.deferred
      /\ t.broken = w.s.broken /\ t.cut = w.s.cut /\ t.cutBy = w.s.cutBy
      /\ t.attempts = w.s.attempts /\ t.interrupted = w.s.interrupted
      /\ t.terminal = w.s.terminal
  BY <1>1 DEF AllSends, Sends
<1> HIDE DEF t
<1>5. y \in Worlds
  BY <1>2, <1>3 DEF Worlds
<1> QED BY <1>2, <1>4, <1>5 DEF Alike

\* the phase left by a write that failed, wherever it was
LEMMA ThrewMidway ==
    ASSUME NEW w, Sound(w), w.s.at \in {"round", "calls"}, NEW v \in Threw(w)
    PROVE  Midway(w, v)
<1>1. PICK u \in Thrown(w) : v \in Leave(u, TRUE)
  BY DEF Threw
<1>2. Sound(u) /\ u.s = w.s /\ u.d = w.d
  BY ThrownLive
<1>3. Midway(u, v)
  BY <1>1, <1>2, LeaveMidway
<1> QED BY <1>2, <1>3 DEF Midway, Keeps

\* room for one more round of the phase
Room(w) == Len(w.d.reply) < MaxRounds + Slack(w.s.phase)

\* a round below the bound has room in every phase
LEMMA RoomToo ==
    ASSUME NEW w \in Worlds, MayRound(w)
    PROVE  Room(w)
<1> Len(w.d.reply) \in Nat /\ MaxRounds \in Nat /\ Slack(w.s.phase) \in Nat
  BY SendEndAssumption DEF Worlds, Durable, Slack
<1> QED BY DEF MayRound, Room

\* a next request, over no open call
LEMMA NextMidway ==
    ASSUME NEW w, Live(w), w.s.at \in {"round", "calls"}, w.s.open = {}, Quiet(w.d), Room(w)
    PROVE  Midway(w, NextRound(w))
<1>1. w.s.attempts = 0 /\ (w.s.phase = "main" => w.s.cause # "finish")
  BY DEF Live, Sound, StageOK
<1>2. /\ Live(NextRound(w)) /\ NextRound(w).s.at = "round"
      /\ NextRound(w).s.cause = w.s.cause
      /\ NextRound(w).d.row = w.d.row /\ NextRound(w).d.why = w.d.why
  BY <1>1, NextRoundLive DEF Room
<1> QED BY <1>2 DEF Midway, Keeps, Live, Sound

\* a next request, or its transaction that threw
LEMMA AgainMidway ==
    ASSUME NEW w, Live(w), w.s.at \in {"round", "calls"}, w.s.open = {}, Quiet(w.d), Room(w),
           NEW v \in Again(w)
    PROVE  Midway(w, v)
BY NextMidway, ThrewMidway DEF Again, Live

\* a path that begins alike keeps what the world had
LEMMA AlikeKeeps ==
    ASSUME NEW w, Live(w), NEW y, y.s.cause = w.s.cause, y.d.row = w.d.row, y.d.why = w.d.why,
           NEW v, Midway(y, v)
    PROVE  Midway(w, v)
BY DEF Midway, Keeps

\* text and no calls
LEMMA AnswerMidway ==
    ASSUME NEW w, Live(w), w.s.at = "round", NEW v \in AnswerRound(w)
    PROVE  Midway(w, v)
<1> DEFINE e == EndReply(w)
<1>1. /\ Live(e) /\ Quiet(e.d) /\ e.s = w.s /\ e.a = w.a
      /\ Len(e.d.reply) = Len(w.d.reply)
      /\ e.d.row = w.d.row /\ e.d.why = w.d.why
  BY EndReplyLive
<1>2. w.s.open = {} /\ e \in Worlds /\ Sound(w) /\ w \in Worlds
  BY <1>1 DEF Live, Sound, StageOK
<1>3. ASSUME v \in Leave(w, FALSE) PROVE Midway(w, v)
  BY <1>2, <1>3, LeaveMidway
<1>4. ASSUME v \in Threw(w) PROVE Midway(w, v)
  BY <1>2, <1>4, ThrewMidway
<1>5. ASSUME MayRound(w), NEW y, Alike(e, y), v \in Again(y) PROVE Midway(w, v)
  <2>1. Live(y)
    BY <1>1, <1>5, AlikeLive
  <2>2. /\ y.s.at = "round" /\ y.s.open = {} /\ Quiet(y.d) /\ Room(y)
        /\ y.s.cause = w.s.cause /\ y.d.row = w.d.row /\ y.d.why = w.d.why
    <3>1. y.d = e.d /\ y.s.phase = w.s.phase
      BY <1>1, <1>5 DEF Alike
    <3>2. Room(w)
      BY <1>2, <1>5, RoomToo
    <3>3. Room(y)
      BY <1>1, <3>1, <3>2 DEF Room
    <3> QED BY <1>1, <1>2, <1>5, <3>1, <3>3 DEF Alike
  <2>3. Midway(y, v)
    BY <1>5, <2>1, <2>2, AgainMidway
  <2> QED BY <2>2, <2>3, AlikeKeeps
<1> DEFINE y1 == [e EXCEPT !.s.summarizing = TRUE]
           y2 == [e EXCEPT !.s.stepped = @ + 1]
<1>6. /\ Alike(e, y1)
      /\ w.s.stepped < ATTENTION_ROUNDS => Alike(e, y2)
  <2> HIDE DEF e
  <2>1. w.s.stepped < ATTENTION_ROUNDS => e.s.stepped # ATTENTION_ROUNDS
    BY <1>1, <1>2 DEF Worlds, AllSends, Sends, ATTENTION_ROUNDS
  <2> QED BY <1>2, <2>1, SummaryAlike, SteppedAlike
<1>7. \/ v \in Leave(w, FALSE)
      \/ v \in Threw(w)
      \/ MayRound(w) /\ v = NextRound(y1)
      \/ MayRound(w) /\ w.s.stepped < ATTENTION_ROUNDS /\ v \in Again(y2)
  BY DEF AnswerRound
<1>8. v = NextRound(y1) => v \in Again(y1)
  BY DEF Again
<1> HIDE DEF y1, y2, e
<1> QED BY <1>3, <1>4, <1>5, <1>6, <1>7, <1>8

\* one word for every call is a word for each
LEMMA NamedWhy ==
    ASSUME NEW S, NEW word \in Whys
    PROVE  Named(S, word) \in [S -> Whys] /\ \A c \in S : Named(S, word)[c] = word
BY DEF Named

\* the calls of the phase that were never made
Unmade(w) == {c \in CallsOf(w.s.phase) : w.d.row[c] = "none"}

\* y is r with the calls of S open and those of R begun
Launched(r, y, S, R, D) ==
    /\ y \in Worlds /\ y.d = r.d /\ y.a = r.a
    /\ y.s.round = 0 /\ y.s.at = "calls" /\ y.s.open = S /\ y.s.running = R
    /\ (y.s.deferred <=> D) /\ ~y.s.broken
    /\ y.s.phase = r.s.phase /\ y.s.cause = r.s.cause
    /\ y.s.settled = r.s.settled /\ y.s.cut = r.s.cut /\ y.s.cutBy = r.s.cutBy
    /\ y.s.attempts = r.s.attempts /\ y.s.interrupted = r.s.interrupted
    /\ y.s.terminal = r.s.terminal

\* the calls of a round as they start
LEMMA LaunchedIs ==
    ASSUME NEW r \in Worlds, NEW S \in SUBSET Calls, NEW R \in SUBSET Calls,
           NEW D \in BOOLEAN, NEW y,
           y = [r EXCEPT !.s.round = 0, !.s.at = "calls", !.s.open = S, !.s.running = R,
                         !.s.deferred = D, !.s.broken = FALSE]
    PROVE  Launched(r, y, S, R, D)
<1> DEFINE no == FALSE
           t == [r.s EXCEPT !.round = 0, !.at = "calls", !.open = S, !.running = R,
                            !.deferred = D, !.broken = no]
<1>1. /\ r.s \in AllSends /\ no \in BOOLEAN /\ ~no
      /\ 0 \in 0..MaxRounds + 2 /\ "calls" \in AllPlaces
  BY SendEndAssumption DEF Worlds, AllPlaces, Places
<1>2. y.s = t /\ y.d = r.d /\ y.a = r.a /\ y = [r EXCEPT !.s = t]
  BY DEF Worlds
<1> HIDE DEF no
<1>3. t \in AllSends
  BY <1>1 DEF AllSends, Sends
<1>4. /\ t.round = 0 /\ t.at = "calls" /\ t.open = S /\ t.running = R
      /\ t.deferred = D /\ t.broken = no
      /\ t.phase = r.s.phase /\ t.cause = r.s.cause
      /\ t.settled = r.s.settled /\ t.cut = r.s.cut /\ t.cutBy = r.s.cutBy
      /\ t.attempts = r.s.attempts /\ t.interrupted = r.s.interrupted
      /\ t.terminal = r.s.terminal
  BY <1>1 DEF AllSends, Sends
<1> HIDE DEF t
<1>5. y \in Worlds
  BY <1>2, <1>3 DEF Worlds
<1> QED BY <1>1, <1>2, <1>4, <1>5 DEF Launched

\* calls that run
LEMMA LaunchMidway ==
    ASSUME NEW w, Live(w), w.s.at = "round", MayRound(w),
           NEW S, S = Unmade(w), S # {}, NEW b \in BOOLEAN, NEW v \in LaunchCalls(w, S, b)
    PROVE  Midway(w, v)
<1> DEFINE e == EndReply(w)
           none == Named(S, "none")
           r == Rows(e, "streaming", none)
           R == IF w.s.phase = "attention" THEN {CHOOSE c \in S : TRUE} ELSE S
           D == b /\ w.s.phase = "main"
           y == [r EXCEPT !.s.round = 0, !.s.at = "calls", !.s.open = S, !.s.running = R,
                          !.s.deferred = D, !.s.broken = FALSE]
<1>1. /\ Live(e) /\ Quiet(e.d) /\ e.s = w.s /\ e.a = w.a
      /\ Len(e.d.reply) = Len(w.d.reply) /\ DOMAIN e.d.reply = DOMAIN w.d.reply
      /\ e.d.row = w.d.row /\ e.d.why = w.d.why
      /\ e.d.end = w.d.end /\ e.d.alert = w.d.alert
  BY EndReplyLive
<1>2. CASE v \in Threw(w)
  BY <1>2, ThrewMidway DEF Live
<1>3. CASE v = y
  <2>1. /\ S \in SUBSET Calls
        /\ \A c \in S : w.d.row[c] = "none" /\ PhaseOf[c] = w.s.phase
    BY DEF Unmade, CallsOf
  <2>2. R \in SUBSET S /\ R # {} /\ (w.s.phase # "attention" => R = S)
    OBVIOUS
  <2>3. D \in BOOLEAN /\ (D => w.s.phase = "main")
    OBVIOUS
  <2>4. none \in [S -> Whys] /\ "streaming" \in Marks /\ e \in Worlds
    BY <1>1, NamedWhy DEF Whys, Marks, Live, Sound
  <2> HIDE DEF R, D, none, e
  <2>5. Marked(e, r, "streaming", S, none)
    <3> HIDE DEF r
    <3>1. r = Rows(e, "streaming", none)
      BY DEF r
    <3> QED BY <2>1, <2>4, <3>1, RowsIs
  <2> HIDE DEF r
  <2>6. Launched(r, y, S, R, D)
    <3>1. r \in Worlds /\ R \in SUBSET Calls
      BY <2>1, <2>2, <2>5 DEF Marked
    <3> HIDE DEF y
    <3>2. y = [r EXCEPT !.s.round = 0, !.s.at = "calls", !.s.open = S, !.s.running = R,
                        !.s.deferred = D, !.s.broken = FALSE]
      BY DEF y
    <3> QED BY <2>1, <2>3, <3>1, <3>2, LaunchedIs
  <2> HIDE DEF y
  <2>7. /\ r.s = w.s /\ y.a = w.a /\ y.d.reply = e.d.reply
        /\ y.d.end = w.d.end /\ y.d.alert = w.d.alert
        /\ \A c \in Calls : y.d.row[c] = IF c \in S THEN "streaming" ELSE w.d.row[c]
        /\ \A c \in Calls \ S : y.d.why[c] = w.d.why[c]
    BY <1>1, <2>5, <2>6 DEF Marked, Launched
  <2>8. w.s.open = {} /\ w.s.attempts = 0 /\ (w.s.phase = "main" => w.s.cause # "finish")
    BY DEF Live, Sound, StageOK
  <2>9. RoundsOK(y)
    <3>1. Len(w.d.reply) \in 1..MaxRounds + Slack(w.s.phase) /\ Len(y.d.reply) = Len(w.d.reply)
      BY <1>1, <2>7 DEF Live, Sound, RoundsOK
    <3>2. Len(w.d.reply) < MaxRounds /\ 0 <= Len(w.d.reply)
      BY <3>1, SendEndAssumption DEF MayRound, Slack
    <3> QED BY <2>6, <2>7, <3>1, <3>2 DEF RoundsOK, Launched
  <2>10. RowsOK(y)
    <3>1. \A i \in DOMAIN y.d.reply : y.d.reply[i] # "streaming"
      BY <1>1, <2>7 DEF Quiet
    <3>2. \A c \in Calls : w.d.row[c] # "streaming"
      BY <2>8 DEF Live, Sound, RowsOK
    <3>3. \A c \in Calls : w.d.row[c] = "none" => w.s.settled[c] = "none"
      BY DEF Live, Sound, RowsOK
    <3>4. \A c \in Calls : w.s.settled[c] = "ok" => w.d.row[c] = "done"
      BY <2>8 DEF Live, Sound, RowsOK
    <3> QED BY <2>1, <2>6, <2>7, <3>1, <3>2, <3>3, <3>4 DEF RowsOK, Launched
  <2>11. CutsOK(y)
    BY <2>6, <2>7 DEF Live, Sound, CutsOK, Launched
  <2>12. StageOK(y)
    BY <2>2, <2>3, <2>6, <2>7, <2>8 DEF StageOK, Launched
  <2>13. WaitingOK(y)
    <3>1. \A c \in S : w.s.settled[c] = "none"
      BY <2>1 DEF Live, Sound, RowsOK
    <3> QED BY <2>2, <2>6, <2>7, <3>1 DEF WaitingOK, Waiting, Launched
  <2>14. ToldOK(y) /\ StopsOK(y)
    BY <2>6, <2>7 DEF Live, Sound, ToldOK, StopsOK, Launched
  <2>15. Live(y)
    BY <2>6, <2>7, <2>9, <2>10, <2>11, <2>12, <2>13, <2>14 DEF Live, Sound, Launched
  <2>16. Keeps(w, y)
    BY <2>1, <2>6, <2>7 DEF Keeps, Live, Sound, Launched
  <2> QED BY <1>3, <2>6, <2>15, <2>16 DEF Midway, Launched
<1> QED
  <2> LaunchCalls(w, S, b) = {y} \cup Threw(w)
    BY <1>1 DEF LaunchCalls
  <2> HIDE DEF y
  <2> QED BY <1>2, <1>3

\* the reply of a round that is over, and its calls recorded as not run
LEMMA RefusedLive ==
    ASSUME NEW w, Live(w), w.s.at = "round", NEW S, S = Unmade(w),
           NEW r, r = Rows(EndReply(w), "stopped", Named(S, "unrun"))
    PROVE  /\ Live(r) /\ Quiet(r.d) /\ r.s = w.s /\ Keeps(w, r)
           /\ Len(r.d.reply) = Len(w.d.reply)
<1> DEFINE e == EndReply(w)
           unrun == Named(S, "unrun")
<1>1. /\ Live(e) /\ Quiet(e.d) /\ e.s = w.s /\ e.a = w.a
      /\ Len(e.d.reply) = Len(w.d.reply) /\ DOMAIN e.d.reply = DOMAIN w.d.reply
      /\ e.d.row = w.d.row /\ e.d.why = w.d.why
      /\ e.d.end = w.d.end /\ e.d.alert = w.d.alert
  BY EndReplyLive
<1>2. /\ S \in SUBSET Calls
      /\ \A c \in S : w.d.row[c] = "none"
  BY DEF Unmade, CallsOf
<1>3. /\ unrun \in [S -> Whys] /\ "stopped" \in Marks /\ e \in Worlds
      /\ \A c \in S : unrun[c] = "unrun"
  BY <1>1, NamedWhy DEF Whys, Marks, Live, Sound
<1> HIDE DEF unrun, e
<1>4. Marked(e, r, "stopped", S, unrun)
  <2> r = Rows(e, "stopped", unrun)
    BY DEF e, unrun
  <2> QED BY <1>2, <1>3, RowsIs
<1>5. /\ r \in Worlds /\ r.s = w.s /\ r.a = w.a /\ r.d.reply = e.d.reply
      /\ r.d.end = w.d.end /\ r.d.alert = w.d.alert
      /\ \A c \in Calls : r.d.row[c] = IF c \in S THEN "stopped" ELSE w.d.row[c]
      /\ \A c \in Calls \ S : r.d.why[c] = w.d.why[c]
      /\ \A c \in S : r.d.why[c] = "unrun"
  BY <1>1, <1>2, <1>3, <1>4 DEF Marked
<1>6. RoundsOK(r)
  BY <1>1, <1>5 DEF Live, Sound, RoundsOK
<1>7. RowsOK(r)
  <2>1. \A i \in DOMAIN r.d.reply : r.d.reply[i] # "streaming"
    BY <1>1, <1>5 DEF Quiet
  <2>2. w.s.open = {}
    BY DEF Live, Sound, StageOK
  <2>3. \A c \in Calls : w.d.row[c] # "streaming"
    BY <2>2 DEF Live, Sound, RowsOK
  <2>4. \A c \in Calls : w.d.row[c] = "none" => w.s.settled[c] = "none"
    BY DEF Live, Sound, RowsOK
  <2>5. \A c \in Calls : w.s.settled[c] = "ok" => w.d.row[c] = "done"
    BY <2>2 DEF Live, Sound, RowsOK
  <2> QED BY <1>2, <1>5, <2>1, <2>2, <2>3, <2>4, <2>5 DEF RowsOK
<1>8. CutsOK(r) /\ StageOK(r) /\ WaitingOK(r)
  BY <1>5 DEF Live, Sound, CutsOK, StageOK, WaitingOK
<1>9. ToldOK(r) /\ StopsOK(r)
  BY <1>2, <1>5 DEF Live, Sound, ToldOK, StopsOK
<1>10. Keeps(w, r)
  BY <1>2, <1>5 DEF Keeps, Live, Sound
<1> QED BY <1>1, <1>5, <1>6, <1>7, <1>8, <1>9, <1>10 DEF Live, Sound, Quiet

\* a round that is none any more
LEMMA UnroundIs ==
    ASSUME NEW w, Live(w), w.s.at = "round", Quiet(w.d), NEW y, y = [w EXCEPT !.s.round = 0]
    PROVE  /\ Live(y) /\ y.d = w.d /\ y.s.at = "round" /\ y.s.phase = w.s.phase
           /\ y.s.cause = w.s.cause /\ y.s.open = w.s.open
<1> DEFINE t == [w.s EXCEPT !.round = 0]
<1>1. w.s \in AllSends /\ 0 \in 0..MaxRounds + 2 /\ w \in Worlds
  BY SendEndAssumption DEF Live, Sound, Worlds
<1>2. y.s = t /\ y.d = w.d /\ y.a = w.a /\ y = [w EXCEPT !.s = t]
  BY <1>1 DEF Worlds
<1>3. t \in AllSends
  BY <1>1 DEF AllSends, Sends
<1>4. /\ t.round = 0 /\ t.at = w.s.at /\ t.phase = w.s.phase /\ t.cause = w.s.cause
      /\ t.open = w.s.open /\ t.running = w.s.running
      /\ t.settled = w.s.settled /\ t.cut = w.s.cut /\ t.cutBy = w.s.cutBy
      /\ t.attempts = w.s.attempts /\ t.interrupted = w.s.interrupted
      /\ t.terminal = w.s.terminal
  BY <1>1 DEF AllSends, Sends
<1> HIDE DEF t
<1>5. y \in Worlds
  BY <1>1, <1>2, <1>3 DEF Worlds
<1>6. RoundsOK(y)
  <2> Len(w.d.reply) >= 0
    BY <1>1 DEF Worlds, Durable
  <2> QED BY <1>2, <1>4 DEF Live, Sound, RoundsOK
<1>7. RowsOK(y)
  BY <1>2, <1>4 DEF Live, Sound, RowsOK, Quiet
<1>8. CutsOK(y) /\ StageOK(y) /\ WaitingOK(y)
  BY <1>2, <1>4 DEF Live, Sound, CutsOK, StageOK, WaitingOK
<1>9. ToldOK(y) /\ StopsOK(y)
  BY <1>2, <1>4 DEF Live, Sound, ToldOK, StopsOK
<1> QED BY <1>2, <1>4, <1>5, <1>6, <1>7, <1>8, <1>9 DEF Live, Sound

\* calls recorded not run
LEMMA RefuseMidway ==
    ASSUME NEW w, Live(w), w.s.at = "round", MayRound(w),
           NEW S, S = Unmade(w), NEW b \in BOOLEAN, NEW v \in RefuseCalls(w, S, b)
    PROVE  Midway(w, v)
<1> DEFINE r == Rows(EndReply(w), "stopped", Named(S, "unrun"))
           x == [r EXCEPT !.s.limited = @ \/ b]
           y == [x EXCEPT !.s.round = 0]
<1>1. /\ Live(r) /\ Quiet(r.d) /\ r.s = w.s /\ Keeps(w, r)
      /\ Len(r.d.reply) = Len(w.d.reply)
  <2> HIDE DEF r
  <2> r = Rows(EndReply(w), "stopped", Named(S, "unrun"))
    BY DEF r
  <2> QED BY RefusedLive
<1>2. w.s.open = {} /\ w \in Worlds /\ Sound(w)
  BY DEF Live, Sound, StageOK
<1>3. Alike(r, x)
  <2> HIDE DEF r
  <2> r \in Worlds
    BY <1>1 DEF Live, Sound
  <2> QED BY LimitedAlike
<1> HIDE DEF r
<1>4. /\ Live(x) /\ x.s.at = "round" /\ x.s.open = {} /\ Quiet(x.d) /\ Room(x)
      /\ x.d = r.d /\ x.s.cause = w.s.cause
  <2>1. Live(x)
    BY <1>1, <1>3, AlikeLive
  <2>2. /\ x.d = r.d /\ x.s.phase = w.s.phase /\ x.s.at = "round"
        /\ x.s.open = {} /\ x.s.cause = w.s.cause
    BY <1>1, <1>2, <1>3 DEF Alike
  <2>3. Room(x)
    BY <1>1, <1>2, <2>2, RoomToo DEF Room
  <2> QED BY <1>1, <2>1, <2>2, <2>3
<1> HIDE DEF x
<1>5. CASE v \in Threw(w)
  BY <1>2, <1>5, ThrewMidway
<1>6. CASE v = NextRound(x)
  <2>1. Midway(x, v)
    BY <1>4, <1>6, NextMidway
  <2> QED BY <1>1, <1>4, <2>1 DEF Midway, Keeps
<1>7. CASE v \in Leave(y, FALSE)
  <2>1. /\ Live(y) /\ y.d = x.d /\ y.s.at = "round" /\ y.s.cause = x.s.cause
        /\ y.s.open = {}
    BY <1>4, UnroundIs
  <2> HIDE DEF y
  <2>2. Midway(y, v)
    BY <1>7, <2>1, LeaveMidway DEF Live
  <2> QED BY <1>1, <1>4, <2>1, <2>2 DEF Midway, Keeps
<1> QED
  <2>1. \/ v \in Threw(w)
        \/ v = NextRound(x)
        \/ v \in Leave(y, FALSE)
    BY DEF RefuseCalls, x, r
  <2> HIDE DEF y
  <2> QED BY <1>5, <1>6, <1>7, <2>1

\* Whatever a stream ends with, its round leaves the send sound.
LEMMA RoundMidway ==
    ASSUME NEW w, Live(w), w.s.at = "round", NEW v \in RoundOutcomes(w)
    PROVE  Midway(w, v)
<1> DEFINE S == Unmade(w)
<1>1. w.s.open = {} /\ Sound(w)
  BY DEF Live, Sound, StageOK
<1>2. ASSUME NEW failed \in BOOLEAN, v \in Leave(w, failed) PROVE Midway(w, v)
  BY <1>1, <1>2, LeaveMidway
<1>3. \/ v \in Leave(w, FALSE)
      \/ v \in Leave(w, TRUE)
      \/ v \in AnswerRound(w)
      \/ /\ S # {} /\ MayRound(w)
         /\ \E b \in BOOLEAN : \/ v \in LaunchCalls(w, S, b)
                               \/ v \in RefuseCalls(w, S, b /\ w.s.phase = "main")
  BY DEF RoundOutcomes, Unmade
<1>4. ASSUME NEW b \in BOOLEAN
      PROVE  (b /\ w.s.phase = "main") \in BOOLEAN
  OBVIOUS
<1> HIDE DEF S
<1> S = Unmade(w)
  BY DEF S
<1> QED BY <1>2, <1>3, <1>4, AnswerMidway, LaunchMidway, RefuseMidway

----------------------------------------------------------------------------
(* Calls that let go *)

\* y is w with the results of S in their rows
StoredAs(w, y, S) ==
    /\ y \in Worlds /\ y.a = w.a /\ y.f = w.f
    /\ y.s.open = w.s.open \ S
    /\ /\ y.s.at = w.s.at /\ y.s.phase = w.s.phase /\ y.s.cause = w.s.cause
       /\ y.s.round = w.s.round /\ y.s.running = w.s.running
       /\ y.s.settled = w.s.settled /\ y.s.deferred = w.s.deferred
       /\ y.s.broken = w.s.broken /\ y.s.cut = w.s.cut /\ y.s.cutBy = w.s.cutBy
       /\ y.s.attempts = w.s.attempts /\ y.s.interrupted = w.s.interrupted
       /\ y.s.terminal = w.s.terminal
    /\ y.d.reply = w.d.reply /\ y.d.end = w.d.end /\ y.d.alert = w.d.alert
    /\ \A c \in Calls : y.d.row[c] = IF c \in S THEN "done" ELSE w.d.row[c]
    /\ \A c \in Calls \ S : y.d.why[c] = w.d.why[c]

\* results stored leave the other rows
LEMMA StoredIs ==
    ASSUME NEW w \in Worlds, NEW S \in SUBSET w.s.open, NEW y, y = Stored(w, S)
    PROVE  StoredAs(w, y, S)
<1> DEFINE none == Named(S, "none")
           r == Rows(w, "done", none)
           t == [w.s EXCEPT !.open = @ \ S]
<1>1. w.s \in AllSends /\ w.s.open \in SUBSET Calls /\ S \in SUBSET Calls
  BY DEF Worlds, AllSends, Sends
<1>2. none \in [S -> Whys] /\ "done" \in Marks
  BY NamedWhy DEF Whys, Marks
<1> HIDE DEF none
<1>3. Marked(w, r, "done", S, none)
  <2> HIDE DEF r
  <2> r = Rows(w, "done", none)
    BY DEF r
  <2> QED BY <1>1, <1>2, RowsIs
<1>4. y = [r EXCEPT !.s.open = @ \ S]
  BY DEF Stored, none
<1> HIDE DEF r
<1>5. r \in Worlds /\ r.s = w.s
  BY <1>3 DEF Marked
<1>6. y.s = t /\ y.d = r.d /\ y.a = r.a /\ y.f = r.f /\ y = [r EXCEPT !.s = t]
  BY <1>4, <1>5 DEF Worlds
<1>7. t \in AllSends
  BY <1>1 DEF AllSends, Sends
<1>8. /\ t.open = w.s.open \ S
      /\ t.at = w.s.at /\ t.phase = w.s.phase /\ t.cause = w.s.cause
      /\ t.round = w.s.round /\ t.running = w.s.running
      /\ t.settled = w.s.settled /\ t.deferred = w.s.deferred
      /\ t.broken = w.s.broken /\ t.cut = w.s.cut /\ t.cutBy = w.s.cutBy
      /\ t.attempts = w.s.attempts /\ t.interrupted = w.s.interrupted
      /\ t.terminal = w.s.terminal
  BY <1>1 DEF AllSends, Sends
<1> HIDE DEF t
<1>9. y \in Worlds
  BY <1>5, <1>6, <1>7 DEF Worlds
<1> QED BY <1>3, <1>6, <1>8, <1>9 DEF StoredAs, Marked

\* results stored, of calls whose tools let go
LEMMA StoredSound ==
    ASSUME NEW w, Sound(w), w.s.at = "calls", NEW S \in SUBSET w.s.open,
           S \cap w.s.running = {}, NEW y, y = Stored(w, S)
    PROVE  /\ Sound(y) /\ Keeps(w, y)
           /\ StoredAs(w, y, S)
<1>1. w \in Worlds /\ w.s.open \in SUBSET Calls
  BY DEF Sound, Worlds, AllSends, Sends
<1>2. StoredAs(w, y, S)
  BY <1>1, StoredIs
<1>3. RoundsOK(y)
  BY <1>2 DEF StoredAs, Sound, RoundsOK
<1>4. RowsOK(y)
  <2>1. \A i \in DOMAIN y.d.reply : y.d.reply[i] = "streaming" => i = y.s.round
    BY <1>2 DEF StoredAs, Sound, RowsOK
  <2>2. \A c \in Calls : y.d.row[c] = "streaming" <=> c \in y.s.open
    BY <1>2 DEF StoredAs, Sound, RowsOK
  <2>3. \A c \in Calls : y.d.row[c] = "none" => y.s.settled[c] = "none"
    BY <1>2 DEF StoredAs, Sound, RowsOK
  <2>4. \A c \in Calls : y.s.settled[c] = "ok" => y.d.row[c] = "done" \/ c \in y.s.open
    BY <1>2 DEF StoredAs, Sound, RowsOK
  <2>5. \A c \in y.s.open : PhaseOf[c] = y.s.phase
    BY <1>2 DEF StoredAs, Sound, RowsOK
  <2> QED BY <2>1, <2>2, <2>3, <2>4, <2>5 DEF RowsOK
<1>5. CutsOK(y)
  BY <1>2 DEF StoredAs, Sound, CutsOK
<1>6. StageOK(y)
  BY <1>2 DEF StoredAs, Sound, StageOK
<1>7. ToldOK(y) /\ StopsOK(y)
  BY <1>2 DEF StoredAs, Sound, ToldOK, StopsOK
<1>8. \A c \in S : w.d.row[c] = "streaming"
  BY <1>1 DEF Sound, RowsOK
<1>9. Keeps(w, y)
  BY <1>1, <1>2, <1>8 DEF StoredAs, Keeps, Sound
<1> QED BY <1>2, <1>3, <1>4, <1>5, <1>6, <1>7, <1>9 DEF Sound, StoredAs

\* no reply streams while calls are out
LEMMA QuietCalls ==
    ASSUME NEW w, Sound(w), w.s.at = "calls"
    PROVE  Quiet(w.d)
<1>1. w.s.round = 0 /\ w.d.reply \in Seq({"streaming", "ended"})
  BY DEF Sound, StageOK, Worlds, Durable
<1>2. \A i \in DOMAIN w.d.reply : i # 0
  BY <1>1
<1> QED BY <1>1, <1>2 DEF Sound, RowsOK, Quiet

\* calls of a main round are out below the bound
LEMMA MainRoom ==
    ASSUME NEW w, Sound(w), w.s.at = "calls", w.s.phase = "main"
    PROVE  Room(w)
<1>1. Len(w.d.reply) < MaxRounds
  BY DEF Sound, RoundsOK
<1> QED BY <1>1, SendEndAssumption DEF Room, Slack

\* a path whose first part keeps what the world had
LEMMA MidwayTrans ==
    ASSUME NEW u, NEW w, NEW v, Keeps(u, w), Midway(w, v)
    PROVE  Midway(u, v)
BY KeepsTrans DEF Midway

\* the tools of a main round all let go
LEMMA MainOverMidway ==
    ASSUME NEW w, Live(w), w.s.at = "calls", w.s.running = {}, w.s.phase = "main",
           NEW v \in MainCallsOver(w)
    PROVE  Midway(w, v)
<1>0. Sound(w) /\ WaitingOK(w) /\ Quiet(w.d) /\ Room(w)
  BY QuietCalls, MainRoom DEF Live
<1>1. CASE w.s.cause # "none"
  <2>1. v \in Leave(w, FALSE)
    BY <1>1 DEF MainCallsOver, Leave
  <2> QED BY <1>0, <1>1, <2>1, LeaveMidway
<1>2. CASE w.s.cause = "none" /\ w.s.deferred
  <2>1. ASSUME NEW S \in SUBSET w.s.open, NEW y, y = Stored(w, S)
        PROVE  /\ Sound(y) /\ Keeps(w, y) /\ StoredAs(w, y, S)
    BY <1>0, <2>1, StoredSound
  <2>2. ASSUME NEW full \in BOOLEAN,
               v \in Again([Stored(w, w.s.open) EXCEPT !.s.limited = @ \/ full])
        PROVE  Midway(w, v)
    <3> DEFINE y == Stored(w, w.s.open)
               x == [y EXCEPT !.s.limited = @ \/ full]
    <3>1. Sound(y) /\ Keeps(w, y) /\ StoredAs(w, y, w.s.open)
      BY <2>1
    <3>2. v \in Again(x)
      BY <2>2
    <3> HIDE DEF y
    <3>3. /\ Live(y) /\ y \in Worlds /\ y.s.open = {} /\ y.s.at = "calls"
          /\ Quiet(y.d) /\ Room(y)
      BY <1>0, <3>1 DEF StoredAs, Live, Sound, WaitingOK, Quiet, Room
    <3>4. Alike(y, x)
      BY <3>3, LimitedAlike
    <3> HIDE DEF x
    <3>5. Live(x) /\ x.s.open = {} /\ x.s.at = "calls" /\ Quiet(x.d) /\ Room(x)
      BY <3>3, <3>4, AlikeLive DEF Alike, Room
    <3>6. Midway(x, v)
      BY <3>2, <3>5, AgainMidway
    <3>7. Midway(y, v)
      BY <3>3, <3>4, <3>6, AlikeKeeps DEF Alike
    <3> QED BY <3>1, <3>7, MidwayTrans
  <2>3. ASSUME NEW S \in SUBSET w.s.open, v \in Threw(Stored(w, S)) PROVE Midway(w, v)
    <3> DEFINE y == Stored(w, S)
    <3>1. Sound(y) /\ Keeps(w, y) /\ StoredAs(w, y, S)
      BY <2>1
    <3>3. v \in Threw(y)
      BY <2>3
    <3> HIDE DEF y
    <3>2. y.s.at = "calls"
      BY <3>1 DEF StoredAs
    <3>4. Midway(y, v)
      BY <3>1, <3>2, <3>3, ThrewMidway
    <3> QED BY <3>1, <3>4, MidwayTrans
  <2> QED BY <1>2, <2>2, <2>3 DEF MainCallsOver
<1>3. CASE w.s.cause = "none" /\ ~w.s.deferred
  <2>1. w.s.open = {}
    BY <1>0, <1>3 DEF WaitingOK, Waiting, Aborted, Sound, StageOK
  <2>2. v \in Again(w)
    BY <1>3 DEF MainCallsOver
  <2> QED BY <1>0, <2>1, <2>2, AgainMidway
<1> QED BY <1>1, <1>2, <1>3

\* the tools of a memory round all let go
LEMMA MemoryOverMidway ==
    ASSUME NEW w, Live(w), w.s.at = "calls", w.s.running = {}, w.s.phase = "memory",
           NEW v \in MemoryCallsOver(w)
    PROVE  Midway(w, v)
<1>0. /\ Sound(w) /\ WaitingOK(w) /\ Quiet(w.d) /\ w \in Worlds
      /\ ~w.s.deferred
  BY QuietCalls DEF Live, Sound, StageOK
<1>1. Aborted(w.s) = w.s.cut
  BY DEF Aborted
<1>2. w.s.broken \/ w.s.cut \/ w.s.open = {}
  BY <1>0, <1>1 DEF WaitingOK, Waiting
<1>3. \/ w.s.broken /\ v \in Leave(w, TRUE)
      \/ ~w.s.broken /\ v \in Leave(w, FALSE)
      \/ ~w.s.broken /\ ~w.s.cut /\ MayRound(w) /\ v \in Again(w)
  BY <1>1 DEF MemoryCallsOver
<1>4. CASE v \in Leave(w, TRUE)
  BY <1>0, <1>4, LeaveMidway
<1>5. CASE ~w.s.broken /\ v \in Leave(w, FALSE)
  BY <1>0, <1>2, <1>5, LeaveMidway
<1>6. CASE ~w.s.broken /\ ~w.s.cut /\ MayRound(w) /\ v \in Again(w)
  BY <1>0, <1>2, <1>6, RoomToo, AgainMidway
<1> QED BY <1>3, <1>4, <1>5, <1>6

\* a request opened after the abort of its step, which ends it at once
LEMMA LateMidway ==
    ASSUME NEW w, Live(w), w.s.at = "calls", w.s.phase = "attention", w.s.cut, MayRound(w),
           NEW y, Alike(w, y), NEW v \in Leave(NextRound(y), FALSE)
    PROVE  Midway(w, v)
<1> DEFINE n == NextRound(y)
<1>1. /\ Live(y) /\ Sound(y) /\ y \in Worlds /\ Quiet(y.d)
      /\ y.s.at = "calls" /\ y.s.phase = "attention" /\ y.s.cut
  <2>1. Live(y)
    BY AlikeLive
  <2> QED BY <2>1, QuietCalls DEF Alike, Live, Sound
<1>2. /\ Len(y.d.reply) < MaxRounds /\ MaxRounds \in Nat
      /\ y.d.reply \in Seq({"streaming", "ended"}) /\ Len(y.d.reply) \in Nat
  BY <1>1, SendEndAssumption DEF MayRound, Alike, Worlds, Durable
<1>3. Len(y.d.reply) < MaxRounds + 2
  BY <1>2
<1>4. /\ n.s = [y.s EXCEPT !.round = Len(y.d.reply) + 1, !.at = "round"]
      /\ n.d = [y.d EXCEPT !.reply = Append(@, "streaming")]
      /\ n.a = y.a /\ n \in Worlds
  BY <1>1, <1>3, NextRoundIs
<1> HIDE DEF n
<1>5. /\ n.s.round = Len(y.d.reply) + 1 /\ n.s.phase = y.s.phase
      /\ n.s.cause = y.s.cause /\ n.s.open = y.s.open /\ n.s.settled = y.s.settled
      /\ n.s.cut = y.s.cut /\ n.s.cutBy = y.s.cutBy /\ n.s.attempts = y.s.attempts
      /\ n.s.interrupted = y.s.interrupted /\ n.s.terminal = y.s.terminal
  <2> DEFINE m == Len(y.d.reply) + 1
  <2>1. n.s = [y.s EXCEPT !.round = m, !.at = "round"]
    BY <1>4
  <2>2. y.s \in AllSends
    BY <1>1 DEF Worlds
  <2> HIDE DEF m
  <2>3. /\ n.s.round = m /\ n.s.phase = y.s.phase
        /\ n.s.cause = y.s.cause /\ n.s.open = y.s.open /\ n.s.settled = y.s.settled
        /\ n.s.cut = y.s.cut /\ n.s.cutBy = y.s.cutBy /\ n.s.attempts = y.s.attempts
        /\ n.s.interrupted = y.s.interrupted /\ n.s.terminal = y.s.terminal
    BY <2>1, <2>2 DEF AllSends, Sends
  <2> QED BY <2>3 DEF m
<1>6. /\ n.d.reply = Append(y.d.reply, "streaming")
      /\ n.d.row = y.d.row /\ n.d.why = y.d.why
      /\ n.d.end = y.d.end /\ n.d.alert = y.d.alert
  BY <1>1, <1>4 DEF Worlds, Durable
<1>7. v \in StepOver(n, FALSE)
  <2> v \in Leave(n, FALSE)
    BY DEF n
  <2> n.s.phase = "attention"
    BY <1>1, <1>5
  <2> QED BY DEF Leave
<1>8. /\ v \in Worlds /\ v.d = n.d /\ v.a = n.a /\ Unmoved(n.s, v.s)
      /\ v.s.at = "over" /\ v.s.cause = n.s.cause
  BY <1>4, <1>7, StepOverIs
<1>9. /\ v.d.reply = Append(y.d.reply, "streaming")
      /\ v.d.row = y.d.row /\ v.d.why = y.d.why
      /\ v.d.end = y.d.end /\ v.d.alert = y.d.alert /\ v.a = y.a
      /\ v.s.round = Len(y.d.reply) + 1 /\ v.s.phase = y.s.phase
      /\ v.s.cause = y.s.cause /\ v.s.open = y.s.open /\ v.s.settled = y.s.settled
      /\ v.s.cut = y.s.cut /\ v.s.cutBy = y.s.cutBy /\ v.s.attempts = y.s.attempts
      /\ v.s.interrupted = y.s.interrupted /\ v.s.terminal = y.s.terminal
  BY <1>1, <1>4, <1>5, <1>6, <1>8 DEF Unmoved
<1>10. RoundsOK(v)
  <2>1. Len(v.d.reply) = Len(y.d.reply) + 1
    BY <1>2, <1>9
  <2> QED BY <1>1, <1>2, <1>8, <1>9, <2>1 DEF RoundsOK, Slack
<1>11. RowsOK(v)
  <2>1. \A i \in DOMAIN v.d.reply : v.d.reply[i] = "streaming" => i = v.s.round
    BY <1>1, <1>2, <1>9 DEF Quiet
  <2> QED BY <1>1, <1>9, <2>1 DEF Sound, RowsOK
<1>12. CutsOK(v)
  BY <1>1, <1>8, <1>9 DEF Sound, CutsOK
<1>13. StageOK(v) /\ WaitingOK(v)
  BY <1>1, <1>8, <1>9 DEF Sound, StageOK, WaitingOK
<1>14. ToldOK(v) /\ StopsOK(v)
  BY <1>1, <1>9 DEF Sound, ToldOK, StopsOK
<1>15. Live(v)
  BY <1>1, <1>8, <1>9, <1>10, <1>11, <1>12, <1>13, <1>14 DEF Live, Sound
<1>16. Keeps(y, v)
  BY <1>1, <1>9 DEF Keeps, Sound
<1>17. Keeps(w, v)
  BY <1>16 DEF Keeps, Alike
<1> QED BY <1>8, <1>15, <1>17 DEF Midway

\* y is w with the calls of R running
RunsAs(w, y, R) ==
    /\ y \in Worlds /\ y.d = w.d /\ y.a = w.a /\ y.s.running = R
    /\ y.s.at = w.s.at /\ y.s.phase = w.s.phase /\ y.s.cause = w.s.cause
    /\ y.s.round = w.s.round /\ y.s.open = w.s.open
    /\ y.s.settled = w.s.settled /\ y.s.deferred = w.s.deferred
    /\ y.s.broken = w.s.broken /\ y.s.cut = w.s.cut /\ y.s.cutBy = w.s.cutBy
    /\ y.s.attempts = w.s.attempts /\ y.s.interrupted = w.s.interrupted
    /\ y.s.terminal = w.s.terminal

\* other calls running, and nothing else
LEMMA RunsIs ==
    ASSUME NEW w \in Worlds, NEW R \in SUBSET Calls, NEW y, y = [w EXCEPT !.s.running = R]
    PROVE  RunsAs(w, y, R)
<1> DEFINE t == [w.s EXCEPT !.running = R]
<1>1. w.s \in AllSends
  BY DEF Worlds
<1>2. y.s = t /\ y.d = w.d /\ y.a = w.a /\ y = [w EXCEPT !.s = t]
  BY DEF Worlds
<1>3. t \in AllSends
  BY <1>1 DEF AllSends, Sends
<1>4. /\ t.at = w.s.at /\ t.phase = w.s.phase /\ t.cause = w.s.cause
      /\ t.round = w.s.round /\ t.open = w.s.open /\ t.running = R
      /\ t.settled = w.s.settled /\ t.deferred = w.s.deferred
      /\ t.broken = w.s.broken /\ t.cut = w.s.cut /\ t.cutBy = w.s.cutBy
      /\ t.attempts = w.s.attempts /\ t.interrupted = w.s.interrupted
      /\ t.terminal = w.s.terminal
  BY <1>1 DEF AllSends, Sends
<1> HIDE DEF t
<1>5. y \in Worlds
  BY <1>2, <1>3 DEF Worlds
<1> QED BY <1>2, <1>4, <1>5 DEF RunsAs

\* the step's call let go
LEMMA StepOverMidway ==
    ASSUME NEW w, Live(w), w.s.at = "calls", w.s.running = {}, w.s.phase = "attention",
           NEW v \in StepCallsOver(w)
    PROVE  Midway(w, v)
<1> DEFINE left == {c \in w.s.open : w.s.settled[c] = "none"}
           R == {CHOOSE c \in left : TRUE}
           y == [w EXCEPT !.s.stepped = @ + 1]
<1>0. /\ Sound(w) /\ WaitingOK(w) /\ Quiet(w.d) /\ w \in Worlds
      /\ ~w.s.deferred /\ ~w.s.broken /\ w.s.open \in SUBSET Calls
  <2> w.s.phase # "main" /\ w.s.phase # "memory"
    OBVIOUS
  <2> QED BY QuietCalls DEF Live, Sound, StageOK, Worlds, AllSends, Sends
<1>1. Aborted(w.s) = w.s.cut
  BY DEF Aborted
<1>2. w.s.cut \/ w.s.open \subseteq left
  BY <1>0, <1>1 DEF WaitingOK, Waiting
<1>3. w.s.stepped # ATTENTION_ROUNDS => Alike(w, y)
  BY <1>0, SteppedAlike
<1>4. \/ ~w.s.cut /\ left # {} /\ v = [w EXCEPT !.s.running = R]
      \/ (w.s.cut \/ left = {}) /\ v \in Leave(w, FALSE)
      \/ v \in Threw(w)
      \/ /\ w.s.stepped # ATTENTION_ROUNDS /\ MayRound(w) /\ w.s.cut
         /\ v \in Leave(NextRound(y), FALSE)
      \/ /\ w.s.stepped # ATTENTION_ROUNDS /\ MayRound(w) /\ ~w.s.cut /\ left = {}
         /\ v = NextRound(y)
  <2>1. CASE ~w.s.cut /\ left # {}
    BY <1>1, <2>1 DEF StepCallsOver
  <2>2. CASE w.s.cut \/ left = {}
    <3>1. ~(~Aborted(w.s) /\ left # {})
      BY <1>1, <2>2
    <3>2. CASE w.s.stepped = ATTENTION_ROUNDS \/ w.s.said \/ ~MayRound(w)
      BY <2>2, <3>1, <3>2 DEF StepCallsOver
    <3>3. CASE ~(w.s.stepped = ATTENTION_ROUNDS \/ w.s.said \/ ~MayRound(w))
      <4>1. v \in Leave(w, FALSE) \cup Threw(w)
              \cup UNION {IF Aborted(w.s) THEN Leave(u, FALSE) ELSE {u} : u \in {NextRound(y)}}
        BY <3>1, <3>3 DEF StepCallsOver
      <4> HIDE DEF y, left
      <4> QED BY <1>1, <2>2, <3>3, <4>1
    <3> QED BY <3>2, <3>3
  <2> QED BY <2>1, <2>2
<1> HIDE DEF y
<1>5. CASE ~w.s.cut /\ left # {} /\ v = [w EXCEPT !.s.running = R]
  <2>1. R \in SUBSET w.s.open
    BY <1>5
  <2> HIDE DEF R
  <2>2. RunsAs(w, v, R)
    <3> R \in SUBSET Calls
      BY <1>0, <2>1
    <3> QED BY <1>0, <1>5, RunsIs
  <2>3. RoundsOK(v) /\ RowsOK(v)
    BY <1>0, <2>2 DEF RunsAs, Sound, RoundsOK, RowsOK
  <2>4. CutsOK(v)
    BY <1>0, <2>2 DEF RunsAs, Sound, CutsOK
  <2>5. StageOK(v)
    BY <1>0, <2>1, <2>2 DEF RunsAs, Sound, StageOK
  <2>6. WaitingOK(v)
    BY <1>2, <1>5, <2>2 DEF RunsAs, WaitingOK, Waiting
  <2>7. ToldOK(v) /\ StopsOK(v)
    BY <1>0, <2>2 DEF RunsAs, Sound, ToldOK, StopsOK
  <2>8. Keeps(w, v)
    BY <1>0, <2>2 DEF RunsAs, Keeps, Sound
  <2> QED BY <1>0, <2>2, <2>3, <2>4, <2>5, <2>6, <2>7, <2>8 DEF RunsAs, Live, Sound, Midway
<1>6. CASE (w.s.cut \/ left = {}) /\ v \in Leave(w, FALSE)
  BY <1>0, <1>2, <1>6, LeaveMidway
<1>7. CASE v \in Threw(w)
  BY <1>0, <1>7, ThrewMidway
<1>8. CASE /\ w.s.stepped # ATTENTION_ROUNDS /\ MayRound(w) /\ w.s.cut
           /\ v \in Leave(NextRound(y), FALSE)
  BY <1>3, <1>8, LateMidway
<1>9. CASE /\ w.s.stepped # ATTENTION_ROUNDS /\ MayRound(w) /\ ~w.s.cut /\ left = {}
           /\ v = NextRound(y)
  <2>1. Live(y)
    BY <1>3, <1>9, AlikeLive
  <2>2. /\ y.s.at = "calls" /\ y.s.open = {} /\ Quiet(y.d) /\ Room(y)
        /\ y.s.cause = w.s.cause /\ y.d.row = w.d.row /\ y.d.why = w.d.why
    <3>1. Room(w)
      BY <1>0, <1>9, RoomToo
    <3> QED BY <1>0, <1>2, <1>3, <1>9, <3>1 DEF Alike, Room
  <2>3. Midway(y, v)
    BY <1>9, <2>1, <2>2, NextMidway
  <2> QED BY <2>2, <2>3, AlikeKeeps
<1> QED BY <1>4, <1>5, <1>6, <1>7, <1>8, <1>9

\* calls out, or all let go
LEMMA CallsOverMidway ==
    ASSUME NEW w, Live(w), w.s.at = "calls", NEW v \in CallsOver(w)
    PROVE  Midway(w, v)
<1>1. CASE w.s.running # {}
  BY <1>1 DEF CallsOver, Midway, Keeps, Live, Sound
<1>2. CASE w.s.running = {}
  <2>1. w.s.phase \in {"main", "attention", "memory"}
    BY DEF Live, Sound, Worlds, AllSends, Sends, Phases
  <2>2. CASE w.s.phase = "main"
    BY <1>2, <2>2, MainOverMidway DEF CallsOver
  <2>3. CASE w.s.phase = "attention"
    BY <1>2, <2>3, StepOverMidway DEF CallsOver
  <2>4. CASE w.s.phase = "memory"
    BY <1>2, <2>4, MemoryOverMidway DEF CallsOver
  <2> QED BY <2>1, <2>2, <2>3, <2>4
<1> QED BY <1>1, <1>2

----------------------------------------------------------------------------
(* A cause that comes, a tool that lets go *)

\* y is w with its cause set
ClaimedAs(w, y, cause) ==
    /\ y \in Worlds /\ y.d = w.d
    /\ y.a = [w.a EXCEPT ![w.s.phase] = @ \cup {cause}]
    /\ y.s.cause = cause
    /\ /\ y.s.at = w.s.at /\ y.s.phase = w.s.phase /\ y.s.round = w.s.round
       /\ y.s.open = w.s.open /\ y.s.running = w.s.running
       /\ y.s.settled = w.s.settled /\ y.s.deferred = w.s.deferred
       /\ y.s.broken = w.s.broken /\ y.s.cut = w.s.cut /\ y.s.cutBy = w.s.cutBy
       /\ y.s.attempts = w.s.attempts /\ y.s.interrupted = w.s.interrupted
       /\ y.s.terminal = w.s.terminal

\* a first cause as the world has it
LEMMA ClaimedIs ==
    ASSUME NEW w \in Worlds, NEW cause \in Causes, w.s.cause = "none",
           NEW y, y = Claim(w, cause)
    PROVE  ClaimedAs(w, y, cause)
<1> DEFINE t == [w.s EXCEPT !.cause = cause]
<1>1. w.s \in AllSends
  BY DEF Worlds
<1>2. y \in Worlds /\ y.d = w.d /\ y.s = t /\ y.a = Asked(w, cause).a
  BY ClaimIs
<1>3. y.a = [w.a EXCEPT ![w.s.phase] = @ \cup {cause}]
  BY <1>2, AskedIs
<1>4. /\ t.cause = cause
      /\ t.at = w.s.at /\ t.phase = w.s.phase /\ t.round = w.s.round
      /\ t.open = w.s.open /\ t.running = w.s.running
      /\ t.settled = w.s.settled /\ t.deferred = w.s.deferred
      /\ t.broken = w.s.broken /\ t.cut = w.s.cut /\ t.cutBy = w.s.cutBy
      /\ t.attempts = w.s.attempts /\ t.interrupted = w.s.interrupted
      /\ t.terminal = w.s.terminal
  BY <1>1 DEF AllSends, Sends
<1> HIDE DEF t
<1> QED BY <1>2, <1>3, <1>4 DEF ClaimedAs

\* a cause of the deadline's or of a write that failed
LEMMA ClaimLive ==
    ASSUME NEW w, Sound(w), NEW cause \in {"deadline", "failure"}, w.s.cause = "none",
           w.s.at # "over", NEW y, y = Claim(w, cause)
    PROVE  /\ Sound(y) /\ (WaitingOK(w) \/ w.s.phase = "main" => Live(y))
           /\ Keeps(w, y) /\ y.s.at = w.s.at
<1>1. w \in Worlds /\ cause \in Causes
  BY DEF Sound, Causes
<1>2. ClaimedAs(w, y, cause)
  BY <1>1, ClaimedIs
<1>3. /\ w.a \in Asks /\ w.s.phase \in Phases /\ PhaseOf \in [Calls -> Phases]
      /\ cause \notin Stopping /\ cause # "none" /\ cause # "finish"
  BY <1>1, SendEndAssumption DEF Worlds, AllSends, Sends, Stopping
<1>4. \A p \in Phases : w.a[p] \subseteq y.a[p] /\ y.a[p] \subseteq w.a[p] \cup {cause}
  BY <1>2, <1>3 DEF ClaimedAs, Asks
<1>5. RoundsOK(y) /\ RowsOK(y)
  BY <1>2 DEF ClaimedAs, Sound, RoundsOK, RowsOK
<1>6. CutsOK(y)
  BY <1>2, <1>3, <1>4 DEF ClaimedAs, Sound, CutsOK
<1>7. StageOK(y)
  BY <1>2, <1>3 DEF ClaimedAs, Sound, StageOK
<1>8. ToldOK(y)
  BY <1>2, <1>3, <1>4 DEF ClaimedAs, Sound, ToldOK
<1>9. StopsOK(y)
  BY <1>2, <1>3, <1>4 DEF ClaimedAs, Sound, StopsOK, Stopping
<1>10. WaitingOK(w) \/ w.s.phase = "main" => WaitingOK(y)
  BY <1>2, <1>3 DEF ClaimedAs, WaitingOK, Waiting, Aborted
<1>11. Keeps(w, y)
  BY <1>2 DEF ClaimedAs, Keeps, Sound
<1>12. Sound(y)
  BY <1>2, <1>5, <1>6, <1>7, <1>8, <1>9 DEF ClaimedAs, Sound
<1> QED BY <1>2, <1>10, <1>11, <1>12 DEF ClaimedAs, Live

\* y is w without c among the calls that run
LetsGoAs(w, y, c) ==
    /\ y \in Worlds /\ y.d = w.d /\ y.a = w.a
    /\ y.s.running = w.s.running \ {c} /\ y.s.settled[c] \in {"ok", "interrupted"}
    /\ \A b \in Calls : b # c => y.s.settled[b] = w.s.settled[b]
    /\ /\ y.s.at = w.s.at /\ y.s.phase = w.s.phase /\ y.s.cause = w.s.cause
       /\ y.s.round = w.s.round /\ y.s.open = w.s.open
       /\ y.s.deferred = w.s.deferred
       /\ y.s.broken = w.s.broken /\ y.s.cut = w.s.cut /\ y.s.cutBy = w.s.cutBy
       /\ y.s.attempts = w.s.attempts /\ y.s.interrupted = w.s.interrupted
       /\ y.s.terminal = w.s.terminal

\* a tool that lets go as the world has it
LEMMA LetsGoIs ==
    ASSUME NEW w \in Worlds, NEW c \in Calls, NEW end \in {"ok", "interrupted"},
           NEW said \in BOOLEAN, NEW y,
           y = [w EXCEPT !.s.running = @ \ {c}, !.s.settled[c] = end, !.s.said = @ \/ said]
    PROVE  LetsGoAs(w, y, c)
<1> DEFINE b == w.s.said \/ said
           R == w.s.running \ {c}
           Z == [w.s.settled EXCEPT ![c] = end]
           t == [w.s EXCEPT !.running = R, !.settled = Z, !.said = b]
<1>1. w.s \in AllSends
  BY DEF Worlds
<1>2. y = [w EXCEPT !.s = t]
  BY DEF Worlds
<1>3. /\ R \in SUBSET Calls
      /\ Z \in [Calls -> {"none", "ok", "interrupted", "lost"}]
      /\ Z[c] = end /\ \A x \in Calls : x # c => Z[x] = w.s.settled[x]
  BY <1>1 DEF AllSends, Sends
<1>4. b \in BOOLEAN
  OBVIOUS
<1> HIDE DEF b, Z
<1>5. t \in AllSends
  BY <1>1, <1>3, <1>4 DEF AllSends, Sends
<1>6. /\ t.running = R /\ t.settled = Z
      /\ t.at = w.s.at /\ t.phase = w.s.phase /\ t.cause = w.s.cause
      /\ t.round = w.s.round /\ t.open = w.s.open /\ t.deferred = w.s.deferred
      /\ t.broken = w.s.broken /\ t.cut = w.s.cut /\ t.cutBy = w.s.cutBy
      /\ t.attempts = w.s.attempts /\ t.interrupted = w.s.interrupted
      /\ t.terminal = w.s.terminal
  BY <1>1 DEF AllSends, Sends
<1> HIDE DEF t
<1>7. y \in Worlds /\ y.s = t /\ y.d = w.d /\ y.a = w.a
  BY <1>2, <1>5 DEF Worlds
<1> QED BY <1>3, <1>6, <1>7 DEF LetsGoAs

\* a tool that lets go leaves its row to be written
LEMMA LetsGoSound ==
    ASSUME NEW w, Live(w), w.s.at = "calls", NEW c \in w.s.running, NEW y, LetsGoAs(w, y, c)
    PROVE  /\ Sound(y) /\ Keeps(w, y) /\ c \in y.s.open
           /\ ~Aborted(y.s) /\ ~y.s.deferred /\ ~y.s.broken =>
                  \A b \in y.s.open \ {c} : Waiting(y.s, b)
<1>1. /\ w \in Worlds /\ w.s.open \in SUBSET Calls /\ w.s.running \subseteq w.s.open
      /\ Sound(w)
  BY DEF Live, Sound, StageOK, Worlds, AllSends, Sends
<1>2. RoundsOK(y)
  BY <1>1 DEF LetsGoAs, Sound, RoundsOK
<1>3. RowsOK(y)
  <2>1. w.d.row[c] = "streaming" /\ c \in Calls
    BY <1>1 DEF Sound, RowsOK
  <2>2. \A x \in Calls : y.d.row[x] = "none" => y.s.settled[x] = "none"
    BY <1>1, <2>1 DEF LetsGoAs, Sound, RowsOK
  <2>3. \A x \in Calls : y.s.settled[x] = "ok" => y.d.row[x] = "done" \/ x \in y.s.open
    BY <1>1, <2>1 DEF LetsGoAs, Sound, RowsOK
  <2> QED BY <1>1, <2>2, <2>3 DEF LetsGoAs, Sound, RowsOK
<1>4. CutsOK(y)
  BY <1>1 DEF LetsGoAs, Sound, CutsOK
<1>5. StageOK(y)
  BY <1>1 DEF LetsGoAs, Sound, StageOK
<1>6. ToldOK(y) /\ StopsOK(y)
  BY <1>1 DEF LetsGoAs, Sound, ToldOK, StopsOK
<1>7. Keeps(w, y)
  BY <1>1 DEF LetsGoAs, Keeps, Sound
<1>8. Aborted(y.s) = Aborted(w.s)
  BY DEF LetsGoAs, Aborted
<1>9. ASSUME ~Aborted(y.s), ~y.s.deferred, ~y.s.broken, NEW b \in y.s.open \ {c}
      PROVE  Waiting(y.s, b)
  <2>1. Waiting(w.s, b)
    BY <1>8, <1>9 DEF LetsGoAs, Live, WaitingOK
  <2> QED BY <1>1, <1>9, <2>1 DEF LetsGoAs, Waiting
<1>10. Sound(y)
  BY <1>1, <1>2, <1>3, <1>4, <1>5, <1>6 DEF LetsGoAs, Sound
<1> QED BY <1>1, <1>7, <1>9, <1>10 DEF LetsGoAs

\* y is w with the round's failure noted
BrokenAs(w, y) ==
    /\ y \in Worlds /\ y.d = w.d /\ y.a = w.a /\ y.s.broken
    /\ y.s.at = w.s.at /\ y.s.phase = w.s.phase /\ y.s.cause = w.s.cause
    /\ y.s.round = w.s.round /\ y.s.open = w.s.open /\ y.s.running = w.s.running
    /\ y.s.settled = w.s.settled /\ y.s.deferred = w.s.deferred
    /\ y.s.cut = w.s.cut /\ y.s.cutBy = w.s.cutBy
    /\ y.s.attempts = w.s.attempts /\ y.s.interrupted = w.s.interrupted
    /\ y.s.terminal = w.s.terminal

\* a failed write noted, and nothing else
LEMMA BrokenIs ==
    ASSUME NEW w \in Worlds, NEW y, y = [w EXCEPT !.s.broken = TRUE]
    PROVE  BrokenAs(w, y)
<1> DEFINE yes == TRUE
           t == [w.s EXCEPT !.broken = yes]
<1>1. w.s \in AllSends /\ yes \in BOOLEAN /\ yes
  BY DEF Worlds
<1>2. y = [w EXCEPT !.s = t]
  BY DEF Worlds
<1> HIDE DEF yes
<1>3. t \in AllSends
  BY <1>1 DEF AllSends, Sends
<1>4. t.broken = yes
  BY <1>1 DEF AllSends, Sends
<1>5. /\ t.at = w.s.at /\ t.phase = w.s.phase /\ t.cause = w.s.cause
      /\ t.round = w.s.round /\ t.open = w.s.open /\ t.running = w.s.running
      /\ t.settled = w.s.settled /\ t.deferred = w.s.deferred
      /\ t.cut = w.s.cut /\ t.cutBy = w.s.cutBy
      /\ t.attempts = w.s.attempts /\ t.interrupted = w.s.interrupted
      /\ t.terminal = w.s.terminal
  BY <1>1 DEF AllSends, Sends
<1> HIDE DEF t
<1>6. y \in Worlds /\ y.s = t /\ y.d = w.d /\ y.a = w.a
  BY <1>2, <1>3 DEF Worlds
<1>7. y.s.broken
  BY <1>1, <1>4, <1>6
<1> QED BY <1>5, <1>6, <1>7 DEF BrokenAs

\* a memory round that failed waits for its tools
LEMMA BrokenLive ==
    ASSUME NEW w, Sound(w), w.s.at = "calls", w.s.phase = "memory", NEW y, BrokenAs(w, y)
    PROVE  Live(y) /\ Keeps(w, y)
<1>1. RoundsOK(y) /\ RowsOK(y)
  BY DEF BrokenAs, Sound, RoundsOK, RowsOK
<1>2. CutsOK(y)
  BY DEF BrokenAs, Sound, CutsOK
<1>3. StageOK(y) /\ WaitingOK(y)
  BY DEF BrokenAs, Sound, StageOK, WaitingOK
<1>4. ToldOK(y) /\ StopsOK(y)
  BY DEF BrokenAs, Sound, ToldOK, StopsOK
<1>5. Keeps(w, y)
  BY DEF BrokenAs, Keeps, Sound
<1> QED BY <1>1, <1>2, <1>3, <1>4, <1>5 DEF BrokenAs, Live, Sound

\* where a tool that let go leaves the turn: its result stored, lost with
\* a write that failed, or kept for later
LEMMA StoreMidway ==
    ASSUME NEW w, Live(w), w.s.at = "calls", NEW c \in w.s.running, NEW y, LetsGoAs(w, y, c),
           NEW v \in Store(y, c)
    PROVE  Midway(w, v)
<1>0. /\ Sound(y) /\ Keeps(w, y) /\ c \in y.s.open /\ y.s.at = "calls"
      /\ c \notin y.s.running
      /\ ~Aborted(y.s) /\ ~y.s.deferred /\ ~y.s.broken =>
             \A b \in y.s.open \ {c} : Waiting(y.s, b)
  BY LetsGoSound DEF LetsGoAs
<1>1. CASE Aborted(y.s) \/ y.s.deferred
  <2>1. Live(y)
    BY <1>0, <1>1 DEF Live, WaitingOK
  <2>2. v \in CallsOver(y)
    BY <1>1 DEF Store
  <2>3. Midway(y, v)
    BY <1>0, <2>1, <2>2, CallsOverMidway
  <2> QED BY <1>0, <2>3, MidwayTrans
<1>2. CASE ~Aborted(y.s) /\ ~y.s.deferred
  <2>1. \/ v \in CallsOver(Stored(y, {c}))
        \/ \E x \in Thrown(y) :
              v \in CASE x.s.phase = "main"   -> CallsOver(Claim(x, "failure"))
                      [] x.s.phase = "memory" -> CallsOver([x EXCEPT !.s.broken = TRUE])
                      [] OTHER                -> Leave(x, TRUE)
    BY <1>2 DEF Store
  <2>2. CASE v \in CallsOver(Stored(y, {c}))
    <3> DEFINE x == Stored(y, {c})
    <3>1. Sound(x) /\ Keeps(y, x) /\ StoredAs(y, x, {c})
      <4>1. {c} \in SUBSET y.s.open /\ {c} \cap y.s.running = {}
        BY <1>0
      <4> QED BY <1>0, <4>1, StoredSound
    <3>2. v \in CallsOver(x)
      BY <2>2
    <3> HIDE DEF x
    <3>3. Live(x) /\ x.s.at = "calls"
      <4>1. WaitingOK(x)
        BY <1>0, <1>2, <3>1 DEF StoredAs, WaitingOK, Waiting, Aborted
      <4> QED BY <1>0, <3>1, <4>1 DEF StoredAs, Live
    <3>4. Midway(x, v)
      BY <3>2, <3>3, CallsOverMidway
    <3> QED BY <1>0, <3>1, <3>4, MidwayTrans
  <2>3. ASSUME NEW x \in Thrown(y),
               v \in CASE x.s.phase = "main"   -> CallsOver(Claim(x, "failure"))
                       [] x.s.phase = "memory" -> CallsOver([x EXCEPT !.s.broken = TRUE])
                       [] OTHER                -> Leave(x, TRUE)
        PROVE  Midway(w, v)
    <3>1. /\ Sound(x) /\ x.s = y.s /\ x.d = y.d /\ x.a = y.a
          /\ x \in Worlds /\ x.s.at = "calls" /\ x.s.phase \in Phases
      <4>1. Sound(x) /\ x.s = y.s /\ x.d = y.d /\ x.a = y.a
        BY <1>0, ThrownLive
      <4> QED BY <1>0, <4>1 DEF Sound, Worlds, AllSends, Sends
    <3>2. Keeps(y, x)
      BY <1>0, <3>1, KeepsSame DEF Sound
    <3>3. Midway(x, v)
      <4>1. CASE x.s.phase = "main"
        <5> DEFINE z == Claim(x, "failure")
        <5>1. v \in CallsOver(z)
          BY <2>3, <4>1
        <5>2. x.s.cause = "none"
          BY <1>2, <3>1, <4>1 DEF Aborted
        <5>3. Live(z) /\ Keeps(x, z) /\ z.s.at = "calls"
          BY <3>1, <4>1, <5>2, ClaimLive
        <5> HIDE DEF z
        <5>4. Midway(z, v)
          BY <5>1, <5>3, CallsOverMidway
        <5> QED BY <5>3, <5>4, MidwayTrans
      <4>2. CASE x.s.phase = "memory"
        <5> DEFINE z == [x EXCEPT !.s.broken = TRUE]
        <5>1. v \in CallsOver(z)
          BY <2>3, <4>2
        <5>2. BrokenAs(x, z)
          BY <3>1, BrokenIs
        <5> HIDE DEF z
        <5>3. Live(z) /\ Keeps(x, z) /\ z.s.at = "calls"
          BY <3>1, <4>2, <5>2, BrokenLive DEF BrokenAs
        <5>4. Midway(z, v)
          BY <5>1, <5>3, CallsOverMidway
        <5> QED BY <5>3, <5>4, MidwayTrans
      <4>3. CASE x.s.phase \notin {"main", "memory"}
        <5>1. v \in Leave(x, TRUE)
          BY <2>3, <4>3
        <5> QED BY <3>1, <5>1, LeaveMidway
      <4> QED BY <4>1, <4>2, <4>3
    <3>4. Midway(y, v)
      BY <3>2, <3>3, MidwayTrans
    <3> QED BY <1>0, <3>4, MidwayTrans
  <2> QED BY <2>1, <2>2, <2>3
<1> QED BY <1>1, <1>2

----------------------------------------------------------------------------
(* Actions *)

\* what a step leaves of the send, at its next await or its end
Leads(w, v) == Rest(v) /\ Keeps(w, v)

\* the world after a step is the one the step chose
LEMMA BecomeWorld ==
    ASSUME NEW w \in Worlds, Become(w)
    PROVE  World' = w
BY DEF Become, World, Worlds

\* a step to a world at rest
LEMMA LeadsOn ==
    ASSUME NEW w, Leads(World, w), Become(w)
    PROVE  Rest(World)' /\ Keeps(World, World')
<1>1. w \in Worlds
  BY DEF Leads, Rest, Live, Closed, Sound
<1>2. World' = w
  BY <1>1, BecomeWorld
<1> QED BY <1>2 DEF Leads, Rest, Live, Closed, Sound, RoundsOK, RowsOK, CutsOK,
                    StageOK, WaitingOK, Waiting, ToldOK, StopsOK, Silent

\* a send's first await
LEMMA InitRest ==
    ASSUME Init
    PROVE  SendInv
<1> PICK steps \in Kinds :
       send = [steps |-> steps, at |-> "round", phase |-> "main",
               cause |-> "none", round |-> 1, open |-> {}, running |-> {},
               settled |-> [c \in Calls |-> "none"], summarizing |-> FALSE,
               deferred |-> FALSE, broken |-> FALSE, limited |-> FALSE, ending |-> FALSE,
               cut |-> FALSE, interrupted |-> FALSE, cutBy |-> "none",
               said |-> FALSE, stepped |-> 0, attempts |-> 0,
               terminal |-> "none"]
  BY DEF Init
<1> DEFINE w == World
<1>1. MaxRounds \in Nat \ {0} /\ MaxFaults \in Nat /\ PhaseOf \in [Calls -> Phases]
  BY SendEndAssumption
<1>2. w.s \in AllSends
  BY <1>1 DEF World, AllSends, Sends, AllPlaces, Places, Phases, ATTENTION_ROUNDS,
              FINALIZE_ATTEMPTS
<1>3. /\ w.d.reply = <<"streaming">> /\ w.d.row = [c \in Calls |-> "none"]
      /\ w.d.end = "running" /\ w.d.alert = "same"
      /\ w.d \in Durable
  BY DEF Init, World, Durable
<1>4. w.a = [p \in Phases |-> {}] /\ w.a \in Asks /\ w.f \in 0..MaxFaults
  BY <1>1 DEF Init, World, Asks
<1>5. w \in Worlds
  BY <1>2, <1>3, <1>4 DEF World, Worlds
<1>6. /\ w.s.at = "round" /\ w.s.phase = "main" /\ w.s.cause = "none"
      /\ w.s.round = 1 /\ w.s.open = {} /\ w.s.running = {}
      /\ w.s.settled = [c \in Calls |-> "none"] /\ ~w.s.deferred /\ ~w.s.broken
      /\ ~w.s.cut /\ ~w.s.interrupted /\ w.s.cutBy = "none"
      /\ w.s.attempts = 0 /\ w.s.terminal = "none"
  BY DEF World
<1>7. proc = "up"
  BY DEF Init
<1> HIDE DEF w
<1>8. RoundsOK(w) /\ RowsOK(w)
  BY <1>1, <1>3, <1>6 DEF RoundsOK, RowsOK, Slack
<1>9. CutsOK(w) /\ StageOK(w) /\ WaitingOK(w)
  BY <1>6 DEF CutsOK, StageOK, WaitingOK
<1>10. ToldOK(w) /\ StopsOK(w)
  BY <1>3, <1>4 DEF ToldOK, StopsOK
<1>11. Rest(w)
  BY <1>3, <1>5, <1>6, <1>8, <1>9, <1>10 DEF Rest, Live, Sound
<1> QED BY <1>7, <1>11 DEF SendInv, w

\* a send that is not released is one that still runs
LEMMA RestLive ==
    ASSUME Rest(World), send.at # "released"
    PROVE  Live(World) /\ World.s = send /\ World.d = db
BY DEF Rest, Closed, World

\* a stream that ends
LEMMA RoundEndsLeads ==
    ASSUME Rest(World), RoundEnds
    PROVE  Rest(World)' /\ Keeps(World, World')
<1>1. Live(World) /\ World.s.at = "round"
  BY RestLive DEF RoundEnds
<1>2. PICK w \in Turn(RoundOutcomes(World)) : Become(w)
  BY DEF RoundEnds
<1> DEFINE u == World
<1>3. \A v \in RoundOutcomes(u) : Midway(u, v)
  BY <1>1, RoundMidway
<1>4. w \in Turn(RoundOutcomes(u))
  BY <1>2
<1> HIDE DEF u
<1>5. Leads(u, w)
  BY <1>3, <1>4, TurnRest DEF Leads
<1> QED BY <1>2, <1>5, LeadsOn DEF u

\* a tool that lets go
LEMMA ToolEndsLeads ==
    ASSUME Rest(World), NEW c \in Calls, ToolEnds(c)
    PROVE  Rest(World)' /\ Keeps(World, World')
<1>1. Live(World) /\ World.s.at = "calls" /\ c \in World.s.running
  BY RestLive DEF ToolEnds
<1>2. PICK end \in {"ok", "interrupted"}, said \in BOOLEAN :
         \E w \in Turn(Store([World EXCEPT !.s.running = @ \ {c},
                                           !.s.settled[c] = end,
                                           !.s.said = @ \/ said], c)) : Become(w)
  BY DEF ToolEnds
<1> DEFINE u == World
           y == [u EXCEPT !.s.running = @ \ {c}, !.s.settled[c] = end, !.s.said = @ \/ said]
<1>3. PICK w \in Turn(Store(y, c)) : Become(w)
  BY <1>2
<1>4. u \in Worlds /\ Live(u) /\ u.s.at = "calls" /\ c \in u.s.running
  BY <1>1 DEF Live, Sound
<1> HIDE DEF u
<1>5. LetsGoAs(u, y, c)
  BY <1>4, LetsGoIs
<1> HIDE DEF y
<1>6. \A v \in Store(y, c) : Midway(u, v)
  BY <1>4, <1>5, StoreMidway
<1>7. Leads(u, w)
  BY <1>3, <1>6, TurnRest DEF Leads
<1> QED BY <1>3, <1>7, LeadsOn DEF u

\* finalize() tried again
LEMMA RetryLeads ==
    ASSUME Rest(World), Retry
    PROVE  Rest(World)' /\ Keeps(World, World')
<1>1. Live(World) /\ World.s.at = "pause"
  BY RestLive DEF Retry
<1>2. PICK w \in Finalize(World) : Become(w)
  BY DEF Retry
<1>3. Leads(World, w)
  BY <1>1, <1>2, FinalizeRest DEF Leads
<1> QED BY <1>2, <1>3, LeadsOn

\* the send's deadline
LEMMA DeadlineLeads ==
    ASSUME Rest(World), Deadline
    PROVE  Rest(World)' /\ Keeps(World, World')
<1>1. Live(World) /\ World.s.at # "over" /\ World.s.cause = "none"
  BY RestLive DEF Deadline, Rest
<1> DEFINE y == Claim(World, "deadline")
<1>2. Live(y) /\ Keeps(World, y) /\ y.s.at = World.s.at
  BY <1>1, ClaimLive DEF Live
<1>3. Leads(World, y)
  BY <1>1, <1>2 DEF Leads, Rest
<1>4. Become(y)
  BY DEF Deadline
<1> HIDE DEF y
<1> QED BY <1>3, <1>4, LeadsOn

\* y is w with its phase cut and a word of it, and with a stop's marks
CutAs(w, y, cause) ==
    /\ y \in Worlds /\ y.d = w.d
    /\ y.a = [w.a EXCEPT ![w.s.phase] = @ \cup {cause}]
    /\ y.s.cutBy = w.s.cutBy \/ (w.s.cutBy = "none" /\ y.s.cutBy = cause /\ w.s.phase # "main")
    /\ w.s.cut => y.s.cut
    /\ y.s.cut => w.s.phase # "main" /\ y.s.cutBy # "none"
    /\ y.s.cause = w.s.cause \/ (w.s.cause = "none" /\ y.s.cause = cause /\ cause # "finish")
    /\ w.s.interrupted => y.s.interrupted
    /\ cause \in Stopping => y.s.interrupted \/ y.s.cause \in Stopping
    /\ /\ y.s.at = w.s.at /\ y.s.phase = w.s.phase /\ y.s.round = w.s.round
       /\ y.s.open = w.s.open /\ y.s.running = w.s.running
       /\ y.s.settled = w.s.settled /\ y.s.deferred = w.s.deferred
       /\ y.s.broken = w.s.broken /\ y.s.attempts = w.s.attempts
       /\ y.s.terminal = w.s.terminal

\* a phase that is cut is as live as before
LEMMA CutLive ==
    ASSUME NEW w, Live(w), NEW cause \in Causes, NEW y, CutAs(w, y, cause)
    PROVE  Live(y) /\ Keeps(w, y)
<1>1. w \in Worlds /\ Sound(w) /\ WaitingOK(w)
  BY DEF Live, Sound
<1>2. /\ w.a \in Asks /\ w.s.phase \in Phases /\ PhaseOf \in [Calls -> Phases]
      /\ cause # "none"
  BY <1>1, SendEndAssumption DEF Worlds, AllSends, Sends, Causes
<1>3. \A p \in Phases : w.a[p] \subseteq y.a[p] /\ y.a[p] \subseteq w.a[p] \cup {cause}
  BY <1>2 DEF CutAs, Asks
<1>4. cause \in y.a[w.s.phase]
  BY <1>2 DEF CutAs, Asks
<1>5. RoundsOK(y) /\ RowsOK(y)
  BY <1>1 DEF CutAs, Sound, RoundsOK, RowsOK
<1>6. CutsOK(y)
  <2>1. y.s.cutBy # "none" => y.s.phase # "main" /\ y.s.cutBy \in y.a[y.s.phase]
    BY <1>1, <1>2, <1>3, <1>4 DEF CutAs, Sound, CutsOK
  <2>2. y.s.cut => y.s.phase # "main" /\ y.s.cutBy # "none"
    BY DEF CutAs
  <2>3. y.s.phase # "main" => y.s.cause # "none"
    BY <1>1, <1>2 DEF CutAs, Sound, CutsOK
  <2>4. y.s.at \in {"over", "pause"} =>
          /\ y.s.cause # "none"
          /\ y.s.phase = "main" /\ y.s.cause = "finish" => y.s.open = {}
          /\ y.s.phase # "main" /\ y.s.cutBy = "none" /\ y.s.open # {} =>
                "failure" \in y.a[y.s.phase]
    BY <1>1, <1>2, <1>3 DEF CutAs, Sound, CutsOK
  <2> QED BY <2>1, <2>2, <2>3, <2>4 DEF CutsOK
<1>7. StageOK(y)
  BY <1>1, <1>2 DEF CutAs, Sound, StageOK
<1>8. WaitingOK(y)
  BY <1>1, <1>2 DEF CutAs, WaitingOK, Waiting, Aborted
<1>9. ToldOK(y)
  BY <1>1, <1>2, <1>3 DEF CutAs, Sound, ToldOK
<1>10. StopsOK(y)
  <2>1. CASE cause \in Stopping
    BY <2>1 DEF CutAs, StopsOK
  <2>2. CASE cause \notin Stopping
    <3>1. (\E p \in Phases : y.a[p] \cap Stopping # {}) =>
             (\E p \in Phases : w.a[p] \cap Stopping # {})
      BY <1>3, <2>2
    <3> QED BY <1>1, <3>1 DEF CutAs, Sound, StopsOK, Stopping
  <2> QED BY <2>1, <2>2
<1>11. Keeps(w, y)
  BY <1>1 DEF CutAs, Keeps, Sound
<1> QED BY <1>1, <1>5, <1>6, <1>7, <1>8, <1>9, <1>10, <1>11 DEF CutAs, Live, Sound

\* a step that cuts
LEMMA CutLeads ==
    ASSUME Rest(World), send.at # "released", NEW cause \in Causes, NEW y,
           CutAs(World, y, cause), Become(y)
    PROVE  Rest(World)' /\ Keeps(World, World')
<1>1. Live(World) /\ World.s.at # "over"
  BY RestLive DEF Rest
<1>2. Live(y) /\ Keeps(World, y)
  BY <1>1, CutLive
<1>3. y.s.at # "over"
  BY <1>1 DEF CutAs
<1> QED BY <1>2, <1>3, LeadsOn DEF Leads, Rest

\* a phase's window
LEMMA WindowLeads ==
    ASSUME Rest(World), Window
    PROVE  Rest(World)' /\ Keeps(World, World')
<1> DEFINE w == World
           yes == TRUE
           by == IF w.s.cutBy = "none" THEN "deadline" ELSE w.s.cutBy
           z == Asked(w, "deadline")
           t == [w.s EXCEPT !.cut = yes, !.cutBy = by]
           y == [z EXCEPT !.s = t]
<1>1. /\ Live(w) /\ w \in Worlds /\ "deadline" \in Causes /\ w.s \in AllSends
      /\ w.s.phase # "main" /\ yes \in BOOLEAN /\ yes /\ send.at # "released"
  BY RestLive DEF Window, Live, Sound, Worlds, Causes
<1>2. /\ z \in Worlds /\ z.s = w.s /\ z.d = w.d
      /\ z.a = [w.a EXCEPT ![w.s.phase] = @ \cup {"deadline"}]
  BY <1>1, AskedIs
<1>3. by \in {"none", "stop", "shutdown", "deadline"} /\ by # "none"
  BY <1>1 DEF AllSends, Sends
<1>4. Become(y)
  <2>1. Become([Asked(World, "deadline") EXCEPT
                  !.s.cut = TRUE,
                  !.s.cutBy = IF @ = "none" THEN "deadline" ELSE @])
    BY DEF Window
  <2>2. [Asked(World, "deadline") EXCEPT
                  !.s.cut = TRUE,
                  !.s.cutBy = IF @ = "none" THEN "deadline" ELSE @] = y
    <3> HIDE DEF w, z
    <3>1. [z EXCEPT !.s.cut = TRUE, !.s.cutBy = IF @ = "none" THEN "deadline" ELSE @] = y
      BY <1>1, <1>2 DEF Worlds, AllSends, Sends
    <3> QED BY <3>1 DEF z, w
  <2> QED BY <2>1, <2>2
<1> HIDE DEF w, z, yes
<1>5. t \in AllSends
  BY <1>1, <1>3 DEF AllSends, Sends
<1>6. /\ t.cut = yes /\ t.cutBy = by
      /\ t.at = w.s.at /\ t.phase = w.s.phase /\ t.cause = w.s.cause
      /\ t.round = w.s.round /\ t.open = w.s.open /\ t.running = w.s.running
      /\ t.settled = w.s.settled /\ t.deferred = w.s.deferred
      /\ t.broken = w.s.broken /\ t.attempts = w.s.attempts
      /\ t.interrupted = w.s.interrupted /\ t.terminal = w.s.terminal
  BY <1>1 DEF AllSends, Sends
<1> HIDE DEF t
<1>7. y \in Worlds /\ y.s = t /\ y.d = w.d /\ y.a = z.a
  BY <1>2, <1>5 DEF Worlds
<1>8. CutAs(w, y, "deadline")
  <2>1. y.s.cutBy = w.s.cutBy \/ (w.s.cutBy = "none" /\ y.s.cutBy = "deadline" /\ w.s.phase # "main")
    BY <1>1, <1>6, <1>7
  <2>2. w.s.cut => y.s.cut
    BY <1>1, <1>6, <1>7
  <2>3. y.s.cut => w.s.phase # "main" /\ y.s.cutBy # "none"
    BY <1>1, <1>3, <1>6, <1>7
  <2>4. w.s.interrupted => y.s.interrupted
    BY <1>6, <1>7
  <2>5. "deadline" \notin Stopping
    BY DEF Stopping
  <2> QED BY <1>2, <1>6, <1>7, <2>1, <2>2, <2>3, <2>4, <2>5 DEF CutAs
<1> QED BY <1>1, <1>4, <1>8, CutLeads DEF w

\* terminate() cuts the phase under way and claims
LEMMA TerminateIs ==
    ASSUME NEW w, Live(w), NEW cause \in Stopping, NEW y, y = Terminate(w, cause)
    PROVE  CutAs(w, y, cause)
<1> DEFINE late == w.s.cause # "none" /\ w.s.terminal = "none"
           int == w.s.interrupted \/ late
           by == IF late /\ w.s.phase # "main" /\ w.s.cutBy = "none" THEN cause ELSE w.s.cutBy
           yes == TRUE
           cut == w.s.cut \/ (w.s.phase # "main" /\ w.s.at \in {"round", "calls"})
           t == [w.s EXCEPT !.interrupted = int, !.cutBy = by, !.ending = yes, !.cut = cut]
           x == [w EXCEPT !.s = t]
<1>1. /\ w \in Worlds /\ w.s \in AllSends /\ w.s.terminal = "none"
      /\ cause \in Causes /\ cause # "none" /\ cause # "finish" /\ Sound(w)
  BY DEF Live, Sound, Worlds, Causes, Stopping
<1>2. y = Claim(x, cause)
  <2>1. [w EXCEPT
            !.s.interrupted = @ \/ late,
            !.s.cutBy = IF late /\ w.s.phase # "main" /\ @ = "none" THEN cause ELSE @,
            !.s.ending = TRUE,
            !.s.cut = @ \/ (w.s.phase # "main" /\ w.s.at \in {"round", "calls"})] = x
    BY <1>1 DEF Worlds, AllSends, Sends
  <2> QED BY <2>1 DEF Terminate
<1>3. int \in BOOLEAN /\ cut \in BOOLEAN /\ yes \in BOOLEAN
  <2>1. w.s.interrupted \in BOOLEAN /\ w.s.cut \in BOOLEAN
    BY <1>1 DEF AllSends, Sends
  <2> QED BY <2>1
<1>4. by \in {"none", "stop", "shutdown", "deadline"}
  BY <1>1 DEF AllSends, Sends, Stopping
<1>5. late = (w.s.cause # "none")
  BY <1>1
<1>6. /\ w.s.interrupted => int
      /\ w.s.cause # "none" => int
      /\ w.s.cut => cut
      /\ cut => w.s.phase # "main"
      /\ w.s.phase # "main" => by # "none"
      /\ by = w.s.cutBy \/ (w.s.cutBy = "none" /\ by = cause /\ w.s.phase # "main")
  <2>1. w.s.phase # "main" => late
    BY <1>1, <1>5 DEF Sound, CutsOK
  <2>2. w.s.cut => w.s.phase # "main"
    BY <1>1 DEF Sound, CutsOK
  <2> QED BY <1>1, <1>5, <2>1, <2>2
<1> HIDE DEF int, by, yes, cut, late
<1>7. t \in AllSends
  BY <1>1, <1>3, <1>4 DEF AllSends, Sends
<1>8. /\ t.interrupted = int /\ t.cutBy = by /\ t.cut = cut
      /\ t.at = w.s.at /\ t.phase = w.s.phase /\ t.cause = w.s.cause
      /\ t.round = w.s.round /\ t.open = w.s.open /\ t.running = w.s.running
      /\ t.settled = w.s.settled /\ t.deferred = w.s.deferred
      /\ t.broken = w.s.broken /\ t.attempts = w.s.attempts
      /\ t.terminal = w.s.terminal
  BY <1>1, <1>3 DEF AllSends, Sends
<1> HIDE DEF t
<1>9. x \in Worlds /\ x.s = t /\ x.d = w.d /\ x.a = w.a
  BY <1>1, <1>7 DEF Worlds
<1> HIDE DEF x
<1>10. /\ y \in Worlds /\ y.d = w.d
       /\ y.a = [w.a EXCEPT ![w.s.phase] = @ \cup {cause}]
       /\ y.s = IF t.cause # "none" THEN t ELSE [t EXCEPT !.cause = cause]
  <2>1. Asked(x, cause).a = [w.a EXCEPT ![w.s.phase] = @ \cup {cause}]
    BY <1>1, <1>8, <1>9, AskedIs
  <2> QED BY <1>1, <1>2, <1>9, <2>1, ClaimIs
<1>11. /\ y.s.interrupted = int /\ y.s.cutBy = by /\ y.s.cut = cut
       /\ y.s.at = w.s.at /\ y.s.phase = w.s.phase
       /\ y.s.round = w.s.round /\ y.s.open = w.s.open /\ y.s.running = w.s.running
       /\ y.s.settled = w.s.settled /\ y.s.deferred = w.s.deferred
       /\ y.s.broken = w.s.broken /\ y.s.attempts = w.s.attempts
       /\ y.s.terminal = w.s.terminal
       /\ y.s.cause = IF w.s.cause # "none" THEN w.s.cause ELSE cause
  <2>1. CASE t.cause # "none"
    BY <1>8, <1>10, <2>1
  <2>2. CASE t.cause = "none"
    <3>1. y.s = [t EXCEPT !.cause = cause]
      BY <1>10, <2>2
    <3>2. /\ y.s.cause = cause
          /\ y.s.interrupted = t.interrupted /\ y.s.cutBy = t.cutBy /\ y.s.cut = t.cut
          /\ y.s.at = t.at /\ y.s.phase = t.phase
          /\ y.s.round = t.round /\ y.s.open = t.open /\ y.s.running = t.running
          /\ y.s.settled = t.settled /\ y.s.deferred = t.deferred
          /\ y.s.broken = t.broken /\ y.s.attempts = t.attempts
          /\ y.s.terminal = t.terminal
      BY <1>7, <3>1 DEF AllSends, Sends
    <3> QED BY <1>8, <2>2, <3>2
  <2> QED BY <2>1, <2>2
<1>12. w.s.cut => y.s.cut
  BY <1>6, <1>11
<1>13. y.s.cut => w.s.phase # "main" /\ y.s.cutBy # "none"
  BY <1>6, <1>11
<1>14. w.s.interrupted => y.s.interrupted
  BY <1>6, <1>11
<1>15. y.s.interrupted \/ y.s.cause \in Stopping
  BY <1>6, <1>11
<1>16. y.s.cutBy = w.s.cutBy \/ (w.s.cutBy = "none" /\ y.s.cutBy = cause /\ w.s.phase # "main")
  BY <1>6, <1>11
<1> QED BY <1>1, <1>10, <1>11, <1>12, <1>13, <1>14, <1>15, <1>16 DEF CutAs

\* a Stop or a shutdown
LEMMA TerminateLeads ==
    ASSUME Rest(World), send.at # "released", NEW cause \in Stopping,
           Become(Terminate(World, cause))
    PROVE  Rest(World)' /\ Keeps(World, World')
<1> DEFINE y == Terminate(World, cause)
<1>1. CutAs(World, y, cause)
  BY RestLive, TerminateIs
<1>2. Become(y) /\ cause \in Causes
  BY DEF Stopping, Causes
<1> HIDE DEF y
<1> QED BY <1>1, <1>2, CutLeads
----------------------------------------------------------------------------
(* The process *)

\* a step that leaves the send alone
LEMMA SameRest ==
    ASSUME Rest(World), UNCHANGED <<send, db, faults, asked>>
    PROVE  Rest(World)' /\ World' = World
<1>1. World' = World
  BY DEF World
<1> QED BY <1>1 DEF Rest, Live, Closed, Sound, RoundsOK, RowsOK, CutsOK,
                    StageOK, WaitingOK, Waiting, ToldOK, StopsOK, Silent

\* the repair: nothing streams, an end that was written stays as it is
LEMMA RepairIs ==
    ASSUME NEW d \in Durable, NEW r, r = RepairRows(d)
    PROVE  /\ r \in Durable
           /\ r.end = IF d.end = "running" THEN "restart" ELSE d.end
           /\ r.alert = d.alert /\ Len(r.reply) = Len(d.reply)
           /\ Silent(r)
           /\ \A c \in Calls :
                 /\ r.row[c] = IF d.row[c] = "streaming" THEN "stopped" ELSE d.row[c]
                 /\ r.why[c] = IF d.row[c] = "streaming" THEN "restart" ELSE d.why[c]
           /\ d.end # "running" /\ Silent(d) => r = d
<1> DEFINE reply == [i \in DOMAIN d.reply |-> "ended"]
           row == [c \in Calls |-> IF d.row[c] = "streaming" THEN "stopped" ELSE d.row[c]]
           why == [c \in Calls |-> IF d.row[c] = "streaming" THEN "restart" ELSE d.why[c]]
           end == IF d.end = "running" THEN "restart" ELSE d.end
<1>1. /\ d.reply \in Seq({"streaming", "ended"})
      /\ d.row \in [Calls -> {"none", "streaming", "done", "stopped"}]
      /\ d.why \in [Calls -> Causes \cup {"none", "unrun", "restart"}]
      /\ d.end \in Causes \cup {"running", "restart"}
  BY DEF Durable
<1>2. /\ reply \in Seq({"streaming", "ended"}) /\ Len(reply) = Len(d.reply)
      /\ DOMAIN reply = DOMAIN d.reply
  <2>1. DOMAIN d.reply = 1..Len(d.reply) /\ Len(d.reply) \in Nat
    BY <1>1
  <2>2. reply \in [1..Len(d.reply) -> {"streaming", "ended"}]
    BY <2>1
  <2> HIDE DEF reply
  <2> QED BY <2>1, <2>2, SeqDef, IsASeq
<1>3. /\ row \in [Calls -> {"none", "streaming", "done", "stopped"}]
      /\ why \in [Calls -> Causes \cup {"none", "unrun", "restart"}]
      /\ end \in Causes \cup {"running", "restart"}
  BY <1>1
<1>4. r = [d EXCEPT !.end = end, !.reply = reply, !.row = row, !.why = why]
  BY DEF RepairRows
<1>5. /\ \A i \in DOMAIN reply : reply[i] = "ended"
      /\ \A c \in Calls :
            /\ row[c] = IF d.row[c] = "streaming" THEN "stopped" ELSE d.row[c]
            /\ why[c] = IF d.row[c] = "streaming" THEN "restart" ELSE d.why[c]
  OBVIOUS
<1>6. ASSUME d.end # "running", Silent(d)
      PROVE  end = d.end /\ reply = d.reply /\ row = d.row /\ why = d.why
  <2>1. row = d.row /\ why = d.why
    BY <1>1, <1>6 DEF Silent
  <2>2. reply = d.reply
    BY <1>1, <1>6 DEF Silent
  <2> QED BY <1>6, <2>1, <2>2
<1> HIDE DEF end, reply, row, why
<1>7. /\ r \in Durable /\ r.end = end /\ r.reply = reply /\ r.row = row /\ r.why = why
      /\ r.alert = d.alert
  BY <1>2, <1>3, <1>4 DEF Durable
<1>8. Silent(r)
  <2> \A c \in Calls : row[c] # "streaming"
    BY <1>5
  <2> QED BY <1>5, <1>7 DEF Silent
<1>9. d.end # "running" /\ Silent(d) => r = d
  BY <1>6, <1>7 DEF Durable
<1> QED BY <1>2, <1>5, <1>7, <1>8, <1>9 DEF end

\* the repair of a process that died
LEMMA RestartLeads ==
    ASSUME Rest(World), Restart
    PROVE  /\ Repaired(World)'
           /\ db.end # "running" => db' = db
           /\ db'.end # db.end => db'.end = "restart"
           /\ \A c \in Calls : db.row[c] \in {"done", "stopped"} =>
                 db'.row[c] = db.row[c] /\ db'.why[c] = db.why[c]
<1> DEFINE w == World
           r == RepairRows(db)
           y == [w EXCEPT !.d = r]
<1>1. /\ w \in Worlds /\ db \in Durable /\ w.d = db /\ w.s = send /\ w.a = asked
      /\ w.f = faults
  BY DEF Rest, Live, Closed, Sound, World, Worlds
<1>2. /\ r \in Durable
      /\ r.end = IF db.end = "running" THEN "restart" ELSE db.end
      /\ r.alert = db.alert /\ Len(r.reply) = Len(db.reply)
      /\ Silent(r)
      /\ \A c \in Calls :
            /\ r.row[c] = IF db.row[c] = "streaming" THEN "stopped" ELSE db.row[c]
            /\ r.why[c] = IF db.row[c] = "streaming" THEN "restart" ELSE db.why[c]
      /\ db.end # "running" /\ Silent(db) => r = db
  BY <1>1, RepairIs
<1>3. /\ send' = send /\ db' = r /\ faults' = faults /\ asked' = asked
  BY DEF Restart
<1>4. /\ w.s.at # "over" /\ (Live(w) \/ Closed(w))
  BY DEF Rest
<1> HIDE DEF r
<1>5. World' = y
  BY <1>1, <1>3 DEF World
<1> HIDE DEF w
<1>6. y \in Worlds /\ y.s = w.s /\ y.a = w.a /\ y.d = r
  BY <1>1, <1>2 DEF Worlds
<1> HIDE DEF y
<1>7. /\ Len(w.d.reply) \in 1..MaxRounds + 2 /\ w.s.round <= Len(w.d.reply)
      /\ ToldOK(w)
  <2>1. CASE Live(w)
    <3>1. Slack(w.s.phase) \in 0..2 /\ MaxRounds \in Nat
      BY SendEndAssumption DEF Slack
    <3>2. w.d.reply \in Seq({"streaming", "ended"})
      BY <1>1 DEF Durable
    <3> QED BY <2>1, <3>1, <3>2 DEF Live, Sound, RoundsOK
  <2>2. CASE Closed(w)
    BY <2>2 DEF Closed
  <2> QED BY <1>4, <2>1, <2>2
<1>8. ToldOK(y)
  BY <1>1, <1>2, <1>6, <1>7 DEF ToldOK
<1>9. Repaired(y)
  <2>1. CASE Live(w)
    <3>1. db.end = "running" /\ db.alert = "same"
      BY <1>1, <2>1 DEF Live, Sound
    <3> QED BY <1>1, <1>2, <1>4, <1>6, <1>7, <1>8, <3>1 DEF Repaired
  <2>2. CASE Closed(w)
    <3>1. /\ db.end = w.s.cause /\ Silent(db)
          /\ \A c \in Calls : w.s.settled[c] = "ok" => db.row[c] = "done"
          /\ db.alert = "close" => \A p \in Phases : w.a[p] \cap Stopping = {}
          /\ db.end # "running"
      BY <1>1, <2>2 DEF Closed, Worlds, AllSends, Sends, Causes
    <3> QED BY <1>1, <1>2, <1>4, <1>6, <1>7, <1>8, <3>1 DEF Repaired
  <2> QED BY <1>4, <2>1, <2>2
<1>10. Repaired(World)'
  BY <1>5, <1>9 DEF Repaired, ToldOK, Silent
<1>11. db.end # "running" => db' = db
  <2>1. CASE Live(w)
    BY <1>1, <2>1 DEF Live, Sound
  <2>2. CASE Closed(w)
    BY <1>1, <1>2, <1>3, <2>2 DEF Closed
  <2> QED BY <1>4, <2>1, <2>2
<1> QED BY <1>2, <1>3, <1>10, <1>11

----------------------------------------------------------------------------
(* The theorems *)

\* what FirstCauseStands says of one step
Stands ==
    /\ send.cause # "none" => send'.cause = send.cause
    /\ db.end # "running" => db' = db
    /\ db'.end # db.end => db'.end \in {send'.cause, "restart"}
    /\ \A c \in Calls : db.row[c] \in {"done", "stopped"} =>
          db'.row[c] = db.row[c] /\ db'.why[c] = db.why[c]

\* what a running send's step keeps
LEMMA LiveStands ==
    ASSUME Rest(World), send.at # "released", Keeps(World, World')
    PROVE  Stands
<1>1. db.end = "running"
  BY RestLive DEF Live, Sound
<1> QED BY <1>1 DEF Keeps, Stands, World

\* a step that leaves the send alone keeps all of it
LEMMA SameStands ==
    ASSUME UNCHANGED <<send, db>>
    PROVE  Stands
BY DEF Stands

\* every action keeps the invariant
LEMMA SendStep ==
    ASSUME SendInv, [Next]_vars
    PROVE  SendInv' /\ Stands
<1>1. CASE RoundEnds
  <2>1. Rest(World) /\ proc # "repaired" /\ proc' = proc /\ send.at # "released"
    BY <1>1 DEF SendInv, RoundEnds, Up
  <2> QED BY <1>1, <2>1, RoundEndsLeads, LiveStands DEF SendInv
<1>2. ASSUME NEW c \in Calls, ToolEnds(c) PROVE SendInv' /\ Stands
  <2>1. Rest(World) /\ proc # "repaired" /\ proc' = proc /\ send.at # "released"
    BY <1>2 DEF SendInv, ToolEnds, Up
  <2> QED BY <1>2, <2>1, ToolEndsLeads, LiveStands DEF SendInv
<1>3. CASE Retry
  <2>1. Rest(World) /\ proc # "repaired" /\ proc' = proc /\ send.at # "released"
    BY <1>3 DEF SendInv, Retry, Up
  <2> QED BY <1>3, <2>1, RetryLeads, LiveStands DEF SendInv
<1>4. CASE Deadline
  <2>1. Rest(World) /\ proc # "repaired" /\ proc' = proc /\ send.at # "released"
    BY <1>4 DEF SendInv, Deadline, Up
  <2> QED BY <1>4, <2>1, DeadlineLeads, LiveStands DEF SendInv
<1>5. CASE Window
  <2>1. Rest(World) /\ proc # "repaired" /\ proc' = proc /\ send.at # "released"
    BY <1>5 DEF SendInv, Window, Up
  <2> QED BY <1>5, <2>1, WindowLeads, LiveStands DEF SendInv
<1>6. CASE Stop
  <2>1. Rest(World) /\ proc # "repaired" /\ proc' = proc /\ send.at # "released"
    BY <1>6 DEF SendInv, Stop, Up
  <2>2. Become(Terminate(World, "stop")) /\ "stop" \in Stopping
    BY <1>6 DEF Stop, Stopping
  <2> QED BY <2>1, <2>2, TerminateLeads, LiveStands DEF SendInv
<1>7. CASE Shutdown
  <2>1. Rest(World) /\ proc = "up" /\ proc' = "closing"
    BY <1>7 DEF SendInv, Shutdown
  <2>2. CASE send.at = "released"
    <3>1. UNCHANGED <<send, db, faults, asked>>
      BY <1>7, <2>2 DEF Shutdown
    <3> QED BY <2>1, <3>1, SameRest, SameStands DEF SendInv
  <2>3. CASE send.at # "released"
    <3>1. Become(Terminate(World, "shutdown")) /\ "shutdown" \in Stopping
      BY <1>7, <2>3 DEF Shutdown, Stopping
    <3> QED BY <2>1, <2>3, <3>1, TerminateLeads, LiveStands DEF SendInv
  <2> QED BY <2>2, <2>3
<1>8. CASE Down
  <2>1. /\ Rest(World) /\ proc' = "down" /\ UNCHANGED <<send, db, faults, asked>>
    BY <1>8 DEF SendInv, Down, Up
  <2> QED BY <2>1, SameRest, SameStands DEF SendInv
<1>9. CASE Restart
  <2>1. Rest(World) /\ proc' = "repaired" /\ send' = send
    BY <1>9 DEF SendInv, Restart
  <2>2. /\ Repaired(World)'
        /\ db.end # "running" => db' = db
        /\ db'.end # db.end => db'.end = "restart"
        /\ \A c \in Calls : db.row[c] \in {"done", "stopped"} =>
              db'.row[c] = db.row[c] /\ db'.why[c] = db.why[c]
    BY <1>9, <2>1, RestartLeads
  <2> QED BY <2>1, <2>2 DEF SendInv, Stands
<1>10. CASE UNCHANGED vars
  <2>1. proc' = proc /\ UNCHANGED <<send, db, faults, asked>>
    BY <1>10 DEF vars
  <2>2. CASE proc = "repaired"
    <3>1. World' = World
      BY <2>1 DEF World
    <3> QED BY <2>1, <2>2, <3>1, SameStands DEF SendInv, Repaired, ToldOK, Silent
  <2>3. CASE proc # "repaired"
    <3>1. Rest(World)
      BY <2>3 DEF SendInv
    <3> QED BY <2>1, <2>3, <3>1, SameRest, SameStands DEF SendInv
  <2> QED BY <2>2, <2>3
<1> QED BY <1>1, <1>2, <1>3, <1>4, <1>5, <1>6, <1>7, <1>8, <1>9, <1>10 DEF Next

\* The invariant of a send: what is true of its rows, its calls and its
\* causes at every await, at its end, and after the repair.
THEOREM SendInvariant == Spec => []SendInv
<1>1. Init => SendInv
  BY InitRest
<1>2. SendInv /\ [Next]_vars => SendInv'
  BY SendStep
<1> QED BY <1>1, <1>2, PTL DEF Spec

\* what the invariant says of the variables
LEMMA InvSays ==
    ASSUME SendInv
    PROVE  /\ World \in Worlds /\ World.s = send /\ World.d = db /\ World.a = asked
           /\ World.f = faults
           /\ send.at # "over"
           /\ Len(db.reply) \in 1..MaxRounds + 2 /\ send.round <= Len(db.reply)
           /\ ToldOK(World)
           /\ db.end # "running" => Silent(db)
           /\ db.end \notin {"running", "restart"} =>
                 \A c \in Calls : send.settled[c] = "ok" => db.row[c] = "done"
           /\ db.alert = "close" => \A p \in Phases : asked[p] \cap Stopping = {}
<1> DEFINE w == World
<1>1. w.s = send /\ w.d = db /\ w.a = asked /\ w.f = faults
  BY DEF World
<1>2. Live(w) \/ Closed(w) \/ Repaired(w)
  BY DEF SendInv, Rest
<1>3. w.s.at # "over"
  BY DEF SendInv, Rest, Repaired
<1> HIDE DEF w
<1>4. CASE Live(w)
  <2>1. w \in Worlds /\ w.d.end = "running" /\ w.d.alert = "same" /\ ToldOK(w)
    BY <1>4 DEF Live, Sound
  <2>2. Len(w.d.reply) \in 1..MaxRounds + 2 /\ w.s.round <= Len(w.d.reply)
    <3>1. Slack(w.s.phase) \in 0..2 /\ MaxRounds \in Nat
      BY SendEndAssumption DEF Slack
    <3>2. w.d.reply \in Seq({"streaming", "ended"})
      BY <2>1 DEF Worlds, Durable
    <3> QED BY <1>4, <3>1, <3>2 DEF Live, Sound, RoundsOK
  <2> QED BY <1>1, <1>3, <2>1, <2>2 DEF w
<1>5. CASE Closed(w)
  BY <1>1, <1>3, <1>5 DEF Closed, w
<1>6. CASE Repaired(w)
  BY <1>1, <1>3, <1>6 DEF Repaired, w
<1> QED BY <1>2, <1>4, <1>5, <1>6

\* The types: no round past the bound a phase may begin at, and no send
\* that awaits within a turn.
THEOREM SendTyped == Spec => []TypeOK
<1>1. ASSUME SendInv PROVE TypeOK
  <2>1. /\ send \in AllSends /\ db \in Durable /\ faults \in 0..MaxFaults
        /\ asked \in [Phases -> SUBSET Causes]
    BY <1>1, InvSays DEF Worlds, Asks
  <2>2. send \in Sends(Places)
    <3>1. send.at # "over"
      BY <1>1, InvSays
    <3> QED BY <2>1, <3>1 DEF AllSends, Sends, AllPlaces
  <2>3. proc \in {"up", "closing", "down", "repaired"}
    BY <1>1 DEF SendInv
  <2> QED BY <1>1, <2>1, <2>2, <2>3, InvSays DEF TypeOK
<1> QED BY <1>1, SendInvariant, PTL

\* An ended send leaves no reply and no tool row that streams: not
\* cutOpenTools() and finalize() whatever they were called from, nor
\* repairRows().
THEOREM NothingLeftStreaming == Spec => []NothingStreams
<1>1. SendInv => NothingStreams
  BY InvSays DEF NothingStreams, Silent
<1> QED BY <1>1, SendInvariant, PTL

\* A tool that reported its end has it in its row once the send ended,
\* unless the write of that row failed by itself.
THEOREM CompletionsKept == Spec => []CompletionKept
<1>1. SendInv => CompletionKept
  BY InvSays DEF CompletionKept
<1> QED BY <1>1, SendInvariant, PTL

\* A stopped row names a cause that came up in the phase of its call, or
\* the send's own: what cutText() tells the model is true.
THEOREM CutsNamed == Spec => []CutNamed
<1>1. SendInv => CutNamed
  BY InvSays DEF CutNamed, ToldOK
<1> QED BY <1>1, SendInvariant, PTL

\* No alert is closed by the end of a run that a Stop or a shutdown
\* reached in any of its phases.
THEOREM StopKeepsAlerts == Spec => []StopClosesNoAlert
<1>1. SendInv => StopClosesNoAlert
  BY InvSays DEF StopClosesNoAlert, Stopping
<1> QED BY <1>1, SendInvariant, PTL

\* The first cause stands, an ended send's rows are final, and a row that
\* ended before its send does not change with the send's end.
THEOREM FirstCauseHolds == Spec => FirstCauseStands
<1>1. SendInv /\ [Next]_vars =>
        [ /\ send.cause # "none" => send'.cause = send.cause
          /\ db.end # "running" => db' = db
          /\ db'.end # db.end => db'.end \in {send'.cause, "restart"}
          /\ \A c \in Calls : db.row[c] \in {"done", "stopped"} =>
                db'.row[c] = db.row[c] /\ db'.why[c] = db.why[c] ]_vars
  BY SendStep DEF Stands
<1> QED BY <1>1, SendInvariant, PTL DEF Spec, FirstCauseStands
=============================================================================
