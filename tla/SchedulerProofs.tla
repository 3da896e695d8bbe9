--------------------------- MODULE SchedulerProofs ---------------------------
(***************************************************************************)
(* Proofs about Scheduler, for every number of rows, projects, places and  *)
(* minutes, and every budget of changes.                                   *)
(***************************************************************************)
EXTENDS Scheduler, FiniteSetTheorems, SequenceTheorems, WellFoundedInduction, TLAPS

\* a round of e minutes ends in the next e minutes
LEMMA Rounds ==
    ASSUME NEW e \in Nat \ {0}, NEW x \in Nat
    PROVE  \E z \in Nat : z > x /\ z <= x + e /\ z % e = 0
<1> DEFINE y == x % e
<1>1. (x - y + e) % e = 0
  OBVIOUS
<1>2. y \in 0..(e - 1)
  OBVIOUS
<1> HIDE DEF y
<1>3. x - y + e \in Nat /\ x - y + e > x /\ x - y + e <= x + e
  BY <1>2
<1> QED
  BY <1>1, <1>3

USE SchedulerAssumption

----------------------------------------------------------------------------
(* Occurrences *)

\* a set of numbers with a bound has a greatest one
LEMMA GreatestIs ==
    ASSUME NEW n \in Nat, NEW S \in SUBSET (0..n), S # {}
    PROVE  Max(S) \in S /\ \A j \in S : j <= Max(S)
<1> DEFINE D == {d \in Nat : \A j \in S : j <= d}
<1>1. n \in D
  OBVIOUS
<1>2. PICK d \in D : \A e \in D : <<e, d>> \notin OpToRel(<, Nat)
  <2> HIDE DEF D
  <2>1. D \in SUBSET Nat
    BY DEF D
  <2> QED
    BY <1>1, <2>1, NatLessThanWellFounded, WFMin
<1>3. d \in S
  <2> SUFFICES ASSUME d \notin S PROVE FALSE
    OBVIOUS
  <2>1. PICK i \in S : TRUE
    OBVIOUS
  <2>2. i \in Nat /\ i <= d /\ d \in Nat
    OBVIOUS
  <2>3. i # d
    OBVIOUS
  <2>4. d - 1 \in Nat /\ d - 1 < d
    BY <2>2, <2>3
  <2>5. \A j \in S : j <= d - 1
    BY <2>2
  <2>6. d - 1 \in D
    BY <2>4, <2>5
  <2> HIDE DEF D
  <2>7. ~(d - 1 < d)
    BY <1>2, <2>2, <2>4, <2>6 DEF OpToRel
  <2> QED
    BY <2>4, <2>7
<1>4. \A j \in S : j <= d
  OBVIOUS
<1> HIDE DEF D
<1>5. \E m \in S : \A j \in S : m >= j
  BY <1>3, <1>4
<1>6. Max(S) \in S /\ \A j \in S : Max(S) >= j
  BY <1>5 DEF Max
<1> QED
  BY <1>6

LEMMA LeastIs ==
    ASSUME NEW S \in SUBSET Nat, S # {}
    PROVE  Min(S) \in S /\ \A j \in S : Min(S) <= j
<1>1. PICK d \in S : \A e \in S : <<e, d>> \notin OpToRel(<, Nat)
  BY NatLessThanWellFounded, WFMin
<1>2. \A e \in S : d <= e
  <2>1. ASSUME NEW e \in S PROVE ~(e < d)
    <3>1. e \in Nat /\ d \in Nat
      OBVIOUS
    <3> QED
      BY <1>1, <3>1 DEF OpToRel
  <2> QED
    BY <2>1
<1>3. \E m \in S : \A j \in S : m =< j
  BY <1>2
<1>4. Min(S) \in S /\ \A j \in S : Min(S) =< j
  BY <1>3 DEF Min
<1> QED
  BY <1>4

\* a finite set of numbers has a bound
LEMMA Bounded ==
    ASSUME NEW S \in SUBSET Nat, IsFiniteSet(S)
    PROVE  \E b \in Nat : \A s \in S : s <= b
<1>1. PICK n \in Nat : ExistsSurjection(1..n, S)
  BY FS_NatSurjection
<1>2. PICK f \in Surjection(1..n, S) : TRUE
  BY <1>1 DEF ExistsSurjection
<1>3. f \in [1..n -> S] /\ \A s \in S : \E i \in 1..n : f[i] = s
  BY <1>2 DEF Surjection
\* the values f has not taken in d steps from the end are no more than n
<1> DEFINE D == {d \in 0..n : \E b \in Nat : \A i \in 1..n : i > d => f[i] <= b}
<1>4. n \in D
  <2>1. \A i \in 1..n : i > n => f[i] <= 0
    OBVIOUS
  <2> QED
    BY <2>1
<1>5. PICK d \in D : \A e \in D : <<e, d>> \notin OpToRel(<, Nat)
  <2> HIDE DEF D
  <2>1. D \in SUBSET Nat
    BY DEF D
  <2> QED
    BY <1>4, <2>1, NatLessThanWellFounded, WFMin
<1>6. d = 0
  <2> SUFFICES ASSUME d # 0 PROVE FALSE
    OBVIOUS
  <2>1. PICK b \in Nat : \A i \in 1..n : i > d => f[i] <= b
    OBVIOUS
  <2>2. d \in 1..n /\ d - 1 \in 0..n /\ d - 1 < d /\ d \in Nat /\ d - 1 \in Nat
    OBVIOUS
  <2>3. f[d] \in Nat
    BY <1>3, <2>2
  <2> DEFINE c == IF b < f[d] THEN f[d] ELSE b
  <2>4. c \in Nat /\ b <= c /\ f[d] <= c
    BY <2>1, <2>3
  <2> HIDE DEF c
  <2>5. ASSUME NEW i \in 1..n, i > d - 1
        PROVE  f[i] <= c
    <3>1. CASE i = d
      BY <2>4, <3>1
    <3>2. CASE i # d
      <4>1. i > d
        BY <2>2, <2>5, <3>2
      <4>2. f[i] <= b /\ f[i] \in Nat
        BY <1>3, <2>1, <4>1
      <4> QED
        BY <2>1, <2>4, <4>2
    <3> QED
      BY <3>1, <3>2
  <2>6. d - 1 \in D
    BY <2>2, <2>4, <2>5
  <2> HIDE DEF D
  <2>7. ~(d - 1 < d)
    BY <1>5, <2>2, <2>6 DEF OpToRel
  <2> QED
    BY <2>2, <2>7
<1>7. PICK b \in Nat : \A i \in 1..n : i > 0 => f[i] <= b
  BY <1>6
<1>8. \A s \in S : s <= b
  BY <1>3, <1>7
<1> QED
  BY <1>8

\* how far Times goes past the clock
Span == Max({First[r] : r \in Rows} \cup {Every[r] : r \in Rows})

LEMMA Spans ==
    ASSUME NEW r \in Rows
    PROVE  Span \in Nat /\ First[r] <= Span /\ Every[r] <= Span
<1> DEFINE F == {First[q] : q \in Rows}
           E == {Every[q] : q \in Rows}
<1>1. IsFiniteSet(F)
  <2>1. First \in Surjection(Rows, F)
    BY DEF Surjection
  <2> HIDE DEF F
  <2> QED
    BY <2>1, FS_Surjection
<1>2. IsFiniteSet(E)
  <2>1. Every \in Surjection(Rows, E)
    BY DEF Surjection
  <2> HIDE DEF E
  <2> QED
    BY <2>1, FS_Surjection
<1>3. F \cup E \in SUBSET Nat /\ First[r] \in F \cup E /\ Every[r] \in F \cup E
  OBVIOUS
<1>4. Span = Max(F \cup E)
  BY DEF Span
<1> HIDE DEF F, E
<1>5. IsFiniteSet(F \cup E)
  BY <1>1, <1>2, FS_Union
<1>6. PICK n \in Nat : \A s \in F \cup E : s <= n
  BY <1>3, <1>5, Bounded
<1>7. F \cup E \in SUBSET (0..n)
  BY <1>3, <1>6
<1>8. Max(F \cup E) \in F \cup E /\ \A j \in F \cup E : j <= Max(F \cup E)
  BY <1>3, <1>7, GreatestIs
<1> QED
  BY <1>3, <1>4, <1>8

LEMMA TimesIs == Times = 0..(MaxTime + Span)
BY DEF Times, Span

LEMMA TimesHold ==
    ASSUME NEW r \in Rows
    PROVE  Times \subseteq Nat /\ 0..MaxTime \subseteq Times
BY Spans, TimesIs

\* every row has an occurrence to come, within Times
LEMMA NextFireOK ==
    ASSUME NEW r \in Rows, NEW t \in 0..MaxTime
    PROVE  NextFire(r, t) \in Occurrences(r) /\ NextFire(r, t) \in Times /\ NextFire(r, t) > t
<1>1. First[r] \in Nat \ {0} /\ Every[r] \in Nat \ {0} /\ t \in Nat
  OBVIOUS
<1>2. Span \in Nat /\ First[r] <= Span /\ Every[r] <= Span /\ Times = 0..(MaxTime + Span)
  BY Spans, TimesIs
<1>3. \E n \in Occurrences(r) : n > t
  <2>1. CASE t < First[r]
    <3>1. (First[r] - First[r]) % Every[r] = 0
      BY <1>1
    <3>2. First[r] \in Times
      BY <1>1, <1>2
    <3> QED
      BY <1>1, <2>1, <3>1, <3>2 DEF Occurrences
  <2>2. CASE t >= First[r]
    <3>1. t - First[r] \in Nat
      BY <1>1, <2>2
    <3>2. PICK z \in Nat : z > t - First[r] /\ z <= t - First[r] + Every[r] /\ z % Every[r] = 0
      BY <1>1, <3>1, Rounds
    <3> DEFINE n == First[r] + z
    <3>3. n \in Nat /\ n > t /\ n <= t + Every[r] /\ n >= First[r] /\ n - First[r] = z
      BY <1>1, <3>2
    <3> HIDE DEF n
    <3>4. n \in Times
      BY <1>1, <1>2, <3>3
    <3>5. n \in Occurrences(r)
      BY <3>2, <3>3, <3>4 DEF Occurrences
    <3> QED
      BY <3>3, <3>5
  <2> QED
    BY <1>1, <2>1, <2>2
<1>4. {n \in Occurrences(r) : n > t} \in SUBSET Nat /\ {n \in Occurrences(r) : n > t} # {}
  BY <1>2, <1>3 DEF Occurrences
<1>5. NextFire(r, t) \in {n \in Occurrences(r) : n > t}
  BY <1>4, LeastIs DEF NextFire
<1> QED
  BY <1>5 DEF Occurrences

LEMMA NewestPastOK ==
    ASSUME NEW r \in Rows, NEW t \in 0..MaxTime, NEW n \in Occurrences(r), n <= t
    PROVE  NewestPast(r, t) \in Times /\ NewestPast(r, t) >= n /\ NewestPast(r, t) <= t
<1>1. t \in Nat /\ Times \subseteq Nat
  BY TimesHold
<1>2. {m \in Occurrences(r) : m <= t} \in SUBSET (0..t) /\ n \in {m \in Occurrences(r) : m <= t}
  <2>1. Occurrences(r) \subseteq Nat
    BY <1>1 DEF Occurrences
  <2> QED
    BY <1>1, <2>1
<1>3. /\ NewestPast(r, t) \in {m \in Occurrences(r) : m <= t}
      /\ \A j \in {m \in Occurrences(r) : m <= t} : j <= NewestPast(r, t)
  BY <1>1, <1>2, GreatestIs DEF NewestPast
<1>4. NewestPast(r, t) \in Times /\ NewestPast(r, t) <= t /\ n <= NewestPast(r, t)
  BY <1>2, <1>3 DEF Occurrences
<1> QED
  BY <1>1, <1>2, <1>4 DEF Occurrences

----------------------------------------------------------------------------
(* What a step does to a row *)

Items == [id : Rows, was : Records]

Flights == [url : Urls, rev : 0..Budget, due : Times, saved : {None} \cup Answer]

Asked == [url : Urls, rev : 0..Budget]

Seen == [answer : Answer, rev : 0..Budget]

\* the types, but for the places others hold
TypesOK ==
    /\ clock \in 0..MaxTime
    /\ row \in [Rows -> Records]
    /\ out \subseteq Users
    /\ page \in 0..Budget
    /\ phase \in {"up", "draining", "down"}
    /\ flying \in [Rows -> {None} \cup Flights]
    /\ ready \in [Rows -> {None} \cup Held]
    /\ asked \in [Rows -> {None} \cup Asked]
    /\ seen \in [Rows -> {None} \cup Seen]
    /\ cut \subseteq Rows
    /\ full \subseteq Projects \cup {"process"}
    /\ loop \in {"begin", "firing", "yield", "asleep", "late", "off"}
    /\ list \in Seq(Items)
    /\ passAt \in 0..MaxTime
    /\ moved \in BOOLEAN
    /\ settled \in [Rows -> {Off} \cup Times]
    /\ told \in [Rows -> SUBSET Answer]
    /\ spent \in 0..Budget /\ page <= spent
    /\ \A r \in Rows : row[r].rev <= spent

\* the row x becomes y, and what was settled of it s becomes v
Settled(r, x, y, s, v) ==
    /\ v = s \/ (v = x.next /\ x.next # Off /\ x.next <= clock)
    /\ \/ y.next = x.next /\ v = s
       \/ y.next = Off \/ y.next > clock
       \/ (v = x.next /\ x.next # Off /\ x.next <= clock /\ y.next > v)

\* an edit moves the revision, and the validators are those of the URL
Edited(r, x, y) ==
    \/ y.rev = x.rev /\ y.url = x.url /\ y.saved = x.saved
    \/ y.rev = x.rev + 1 /\ y.saved = (IF y.url = x.url THEN x.saved ELSE None)

Ends(r, x, y) ==
    /\ y.rev = x.rev /\ y.url = x.url
    /\ seen[r] # None /\ seen[r].rev = x.rev
    /\ y.saved = seen[r].answer /\ y.saved \in told'[r]

Goes(r, x, y, s, v) ==
    /\ y \in Records /\ v \in {Off} \cup Times
    /\ y.rev <= spent'
    /\ Settled(r, x, y, s, v)
    /\ Edited(r, x, y) \/ Ends(r, x, y)

RowGoes(r) == Goes(r, row[r], row'[r], settled[r], settled'[r])

RowsGo ==
    /\ row' = [r \in Rows |-> row'[r]] /\ settled' = [r \in Rows |-> settled'[r]]
    /\ \A r \in Rows : RowGoes(r)

\* the ranges of a record's fields
Nexts == {Off} \cup Times
Onces == {"armed", "last", "earlier"}
Lasts == {"none", "running", "done", "cut"}

LEMMA RecordIs ==
    ASSUME NEW x \in Records
    PROVE  x = [next |-> x.next, url |-> x.url, rev |-> x.rev, owner |-> x.owner,
                last |-> x.last, once |-> x.once, saved |-> x.saved, deferred |-> x.deferred]
BY DEF Records

Moved(x, n, d) == [x EXCEPT !.next = n, !.deferred = d]

LEMMA MovedIs ==
    ASSUME NEW x \in Records, NEW n, NEW d, NEW y, y = Moved(x, n, d)
    PROVE  y = [next |-> n, url |-> x.url, rev |-> x.rev, owner |-> x.owner,
               last |-> x.last, once |-> x.once, saved |-> x.saved, deferred |-> d]
BY DEF Moved, Records

\* a record whose next and deferred are set is a record
LEMMA Moving ==
    ASSUME NEW x \in Records, NEW n \in Nexts, NEW d \in Nexts
    PROVE  LET y == Moved(x, n, d)
           IN  /\ y \in Records /\ y.next = n /\ y.url = x.url /\ y.rev = x.rev
               /\ y.saved = x.saved /\ y.last = x.last /\ y.once = x.once
<1> DEFINE y == Moved(x, n, d)
<1>1. y = [next |-> n, url |-> x.url, rev |-> x.rev, owner |-> x.owner,
           last |-> x.last, once |-> x.once, saved |-> x.saved, deferred |-> d]
  BY MovedIs
<1>2. /\ x.url \in Urls \cup {NoUrl} /\ x.rev \in 0..Budget /\ x.owner \in Users
      /\ x.last \in {"none", "running", "done", "cut"}
      /\ x.once \in {"armed", "last", "earlier"} /\ x.saved \in {None} \cup Answer
  BY DEF Records
<1> HIDE DEF y
<1>3. /\ y \in Records /\ y.next = n /\ y.url = x.url /\ y.rev = x.rev
      /\ y.saved = x.saved /\ y.last = x.last /\ y.once = x.once
  BY <1>1, <1>2 DEF Records, Nexts
<1> QED
  BY <1>3 DEF y

LEMMA RowRests ==
    ASSUME TypesOK, spent' \in Int, spent <= spent', NEW r \in Rows,
           row'[r] = row[r], settled'[r] = settled[r]
    PROVE  RowGoes(r)
<1>1. row[r] \in Records /\ settled[r] \in {Off} \cup Times /\ row[r].rev <= spent
  BY DEF TypesOK
<1>2. row[r].rev \in Int /\ spent \in Int
  BY <1>1 DEF Records, TypesOK
<1>3. row[r].rev <= spent'
  BY <1>1, <1>2
<1> QED
  BY <1>1, <1>3 DEF RowGoes, Goes, Settled, Edited

LEMMA RowsRest ==
    ASSUME TypesOK, spent' \in Int, spent <= spent', row' = row, settled' = settled
    PROVE  RowsGo
<1>1. \A r \in Rows : RowGoes(r)
  BY RowRests
<1> QED
  BY <1>1 DEF RowsGo, TypesOK

\* one row changes
LEMMA OneGoes ==
    ASSUME TypesOK, spent' \in Int, spent <= spent', NEW r \in Rows, NEW y, NEW v,
           Goes(r, row[r], y, settled[r], v),
           row' = [row EXCEPT ![r] = y], settled' = [settled EXCEPT ![r] = v]
    PROVE  RowsGo
<1>1. /\ row'[r] = y /\ settled'[r] = v
      /\ row' = [q \in Rows |-> row'[q]] /\ settled' = [q \in Rows |-> settled'[q]]
      /\ \A q \in Rows : q # r => row'[q] = row[q] /\ settled'[q] = settled[q]
  BY DEF TypesOK
<1>2. ASSUME NEW q \in Rows PROVE RowGoes(q)
  <2>1. CASE q = r
    BY <1>1, <2>1 DEF RowGoes
  <2>2. CASE q # r
    BY <1>1, <2>2, RowRests
  <2> QED
    BY <2>1, <2>2
<1> QED
  BY <1>1, <1>2 DEF RowsGo

LEMMA Later ==
    ASSUME TypesOK, NEW r \in Rows
    PROVE  /\ NextFire(r, clock) \in Times /\ NextFire(r, clock) > clock
           /\ row[r] \in Records /\ settled[r] \in {Off} \cup Times
           /\ row[r].rev <= spent /\ row[r].rev \in Nat /\ spent \in Nat /\ clock \in Nat
           /\ row[r].next \in {Off} \cup Times /\ Times \subseteq Nat
           /\ Off \notin Nat
<1>1. clock \in 0..MaxTime /\ row[r] \in Records
  BY DEF TypesOK
<1>2. row[r].rev \in Nat /\ row[r].next \in {Off} \cup Times
  BY <1>1 DEF Records
<1>3. spent \in Nat
  BY DEF TypesOK
<1>4. settled[r] \in {Off} \cup Times /\ row[r].rev <= spent
  BY DEF TypesOK
<1> QED
  BY <1>1, <1>2, <1>3, <1>4, NextFireOK, TimesHold DEF Off

LEMMA RevsHold ==
    ASSUME TypesOK, spent' \in Int, spent <= spent', NEW r \in Rows
    PROVE  row[r].rev <= spent'
BY Later

LEMMA Deferring ==
    ASSUME NEW r, NEW x \in Records, NEW t
    PROVE  LET y == Deferred(r, x, t)
           IN  /\ y \in Records /\ y.next = x.next /\ y.url = x.url /\ y.rev = x.rev
               /\ y.last = x.last /\ y.saved = x.saved /\ y.once = x.once
<1> DEFINE y == [x EXCEPT !.deferred = x.next]
<1>1. y = [next |-> x.next, url |-> x.url, rev |-> x.rev, owner |-> x.owner,
           last |-> x.last, once |-> x.once, saved |-> x.saved, deferred |-> x.next]
  BY DEF Records
<1>2. Deferred(r, x, t) \in {x, y}
  BY DEF Deferred
<1> HIDE DEF y
<1>3. /\ y \in Records /\ y.next = x.next /\ y.url = x.url /\ y.rev = x.rev
      /\ y.last = x.last /\ y.saved = x.saved /\ y.once = x.once
  BY <1>1 DEF Records
<1> QED
  BY <1>2, <1>3

LEMMA DefersGoes ==
    ASSUME TypesOK, spent' \in Int, spent <= spent', NEW r \in Rows
    PROVE  Goes(r, row[r], Deferred(r, row[r], clock), settled[r], settled[r])
<1> DEFINE y == Deferred(r, row[r], clock)
<1>0. row[r] \in Records
  BY Later
<1>1. /\ y \in Records /\ y.next = row[r].next /\ y.url = row[r].url /\ y.rev = row[r].rev
      /\ y.last = row[r].last /\ y.saved = row[r].saved
  BY <1>0, Deferring
<1> HIDE DEF y
<1>2. y.rev <= spent'
  BY <1>1, RevsHold
<1>3. Goes(r, row[r], y, settled[r], settled[r])
  BY <1>1, <1>2, Later DEF Goes, Settled, Edited
<1> QED
  BY <1>3 DEF y

LEMMA PassDrainsGo ==
    ASSUME TypesOK, PassDrains
    PROVE  RowsGo
<1>1. row' = [r \in Rows |-> Deferred(r, row[r], clock)] /\ settled' = settled /\ spent' = spent
  BY DEF PassDrains, worldVars
<1>2. spent' \in Int /\ spent <= spent'
  BY <1>1 DEF TypesOK
<1>3. ASSUME NEW r \in Rows PROVE RowGoes(r)
  <2>1. row'[r] = Deferred(r, row[r], clock) /\ settled'[r] = settled[r]
    BY <1>1
  <2> QED
    BY <1>2, <2>1, DefersGoes DEF RowGoes
<1> QED
  BY <1>1, <1>3 DEF RowsGo, TypesOK

LEMMA Replacing ==
    ASSUME TypesOK, NEW r \in Rows
    PROVE  /\ Replaced(r) \in Records
           /\ Replaced(r).rev = row[r].rev /\ Replaced(r).url = row[r].url
           /\ Replaced(r).saved = row[r].saved /\ Replaced(r).last = row[r].last
           /\ IF Missed(r) THEN /\ Due(r) /\ Replaced(r).next > row[r].next
                                /\ Replaced(r).next <= clock /\ Replaced(r).next \in Times
              ELSE Replaced(r) = row[r]
<1>1. CASE ~Missed(r)
  BY <1>1, Later DEF Replaced
<1>2. CASE Missed(r)
  <2> DEFINE x == row[r]
             n == NewestPast(r, clock)
             y == [x EXCEPT !.next = n, !.deferred = Off]
  <2>1. Due(r) /\ x.next # Off /\ x.next <= clock /\ NextFire(r, x.next) <= clock
    BY <1>2 DEF Missed, Due
  <2>2. x.next \in Times /\ x \in Records /\ clock \in 0..MaxTime
    BY <2>1, Later DEF TypesOK
  <2>3. x.next \in Nat /\ clock \in Nat /\ x.next \in 0..MaxTime
    <3> HIDE DEF x
    <3>1. x.next \in Nat /\ clock \in Nat
      BY <2>2, TimesHold
    <3> QED
      BY <2>1, <2>2, <3>1
  <2>4. NextFire(r, x.next) \in Occurrences(r) /\ NextFire(r, x.next) \in Times
        /\ NextFire(r, x.next) > x.next
    BY <2>3, NextFireOK
  <2>5. n \in Times /\ n >= NextFire(r, x.next) /\ n <= clock
    BY <2>1, <2>2, <2>4, NewestPastOK
  <2>6. n > x.next
    <3> DEFINE m == NextFire(r, x.next)
    <3>1. m \in Nat /\ n \in Nat /\ n >= m /\ m > x.next
      BY <2>4, <2>5, TimesHold
    <3> HIDE DEF n, x, m
    <3> QED
      BY <2>3, <3>1
  <2> HIDE DEF n, x
  <2>7. /\ y \in Records /\ y.next = n /\ y.url = x.url /\ y.rev = x.rev
        /\ y.saved = x.saved /\ y.last = x.last
    <3>1. y = Moved(x, n, Off)
      BY DEF Moved
    <3>2. Off \in Nexts /\ n \in Nexts
      BY <2>5 DEF Nexts
    <3> HIDE DEF y
    <3> QED
      BY <2>2, <3>1, <3>2, Moving
  <2>8. y = Replaced(r)
    BY <1>2 DEF Replaced, y, x, n
  <2> HIDE DEF y
  <2> QED
    BY <1>2, <2>1, <2>5, <2>6, <2>7, <2>8 DEF x
<1> QED
  BY <1>1, <1>2

LEMMA PassBeginsGo ==
    ASSUME TypesOK, PassBegins
    PROVE  RowsGo
<1>1. /\ row' = [r \in Rows |-> Replaced(r)] /\ spent' = spent
      /\ settled' = [r \in Rows |-> IF Missed(r) THEN row[r].next ELSE settled[r]]
  BY DEF PassBegins, worldVars
<1>2. ASSUME NEW r \in Rows PROVE RowGoes(r)
  <2>1. row'[r] = Replaced(r) /\ settled'[r] = IF Missed(r) THEN row[r].next ELSE settled[r]
    BY <1>1
  <2>2. Replaced(r).rev <= spent'
    BY <1>1, Replacing, Later
  <2>3. CASE Missed(r)
    BY <2>1, <2>2, <2>3, Replacing, Later DEF RowGoes, Goes, Settled, Edited, Due
  <2>4. CASE ~Missed(r)
    BY <2>1, <2>2, <2>4, Replacing, Later DEF RowGoes, Goes, Settled, Edited
  <2> QED
    BY <2>3, <2>4
<1> QED
  BY <1>1, <1>2 DEF RowsGo

\* the row l.id is one of those the pass read
LEMMA Heads ==
    ASSUME TypesOK, list # <<>>
    PROVE  /\ Head(list) \in Items /\ Head(list).id \in Rows /\ Head(list).was \in Records
           /\ Tail(list) \in Seq(Items)
<1>1. list \in Seq(Items)
  BY DEF TypesOK
<1>2. Head(list) \in Items /\ Tail(list) \in Seq(Items)
  BY <1>1, HeadTailProperties
<1> QED
  BY <1>2 DEF Items

LEMMA DefersGo ==
    ASSUME TypesOK, NEW l \in Items, Defers(l)
    PROVE  RowsGo
<1>1. /\ row' = [row EXCEPT ![l.id] = Deferred(l.id, row[l.id], clock)]
      /\ settled' = settled /\ spent' = spent /\ l.id \in Rows
  BY DEF Defers, Items
<1>2. spent' \in Int /\ spent <= spent'
  BY <1>1 DEF TypesOK
<1>3. settled' = [settled EXCEPT ![l.id] = settled[l.id]]
  BY <1>1 DEF TypesOK
<1> QED
  BY <1>1, <1>2, <1>3, DefersGoes, OneGoes

LEMMA SettlesGo ==
    ASSUME TypesOK, NEW l \in Items, Settles(l)
    PROVE  RowsGo
<1> DEFINE r == l.id
           x == row[r]
           n == IF Due(r) THEN NextFire(r, clock) ELSE x.next
           d == IF ready[r].result = "failed" THEN Off ELSE x.deferred
           v == IF Due(r) THEN x.next ELSE settled[r]
           y == [x EXCEPT !.next = n, !.deferred = d]
<1>0. r \in Rows /\ spent' = spent /\ spent' \in Int /\ spent <= spent'
  BY DEF Settles, Items, TypesOK
<1>1. CASE row' = row /\ settled' = settled
  BY <1>0, <1>1, RowsRest
<1>2. CASE /\ row' = [row EXCEPT ![r].next = n, ![r].deferred = d]
           /\ settled' = [settled EXCEPT ![r] = v]
  <2>0. x \in Records
    BY <1>0, Later
  <2>1. n \in {Off} \cup Times /\ d \in {Off} \cup Times /\ v \in {Off} \cup Times
    BY <1>0, <2>0, Later DEF Records
  <2>2. row' = [row EXCEPT ![r] = y]
    BY <1>0, <1>2 DEF TypesOK
  <2>3. (n = x.next /\ v = settled[r]) \/ (n > clock /\ Due(r) /\ v = x.next)
    BY <1>0, Later
  <2>4. x.rev <= spent'
    BY <1>0, Later
  <2> HIDE DEF n, d, x, v
  <2>6. /\ y \in Records /\ y.next = n /\ y.rev = x.rev /\ y.url = x.url /\ y.saved = x.saved
    <3>1. y = Moved(x, n, d)
      BY DEF Moved
    <3>2. n \in Nexts /\ d \in Nexts
      BY <2>1 DEF Nexts
    <3> HIDE DEF y
    <3> QED
      BY <2>0, <3>1, <3>2, Moving
  <2> HIDE DEF y
  <2>7. Goes(r, x, y, settled[r], v)
    BY <2>1, <2>3, <2>4, <2>6 DEF Goes, Settled, Edited, Due, x
  <2> QED
    BY <1>0, <1>2, <2>2, <2>7, OneGoes DEF x
<1> QED
  BY <1>1, <1>2 DEF Settles, tableVars

----------------------------------------------------------------------------
(* Starts, skips and failures *)

Begun(x, n, o) == [x EXCEPT !.next = n, !.once = o, !.last = "running", !.deferred = Off]

LEMMA BegunIs ==
    ASSUME NEW x \in Records, NEW n, NEW o, NEW y, y = Begun(x, n, o)
    PROVE  y = [next |-> n, url |-> x.url, rev |-> x.rev, owner |-> x.owner, 
                last |-> "running", once |-> o, saved |-> x.saved, deferred |-> Off]
BY DEF Begun, Records

\* a row whose run began
LEMMA BegunTyped ==
    ASSUME NEW x \in Records,
           NEW n \in Nexts,
           NEW o \in Onces
    PROVE  LET y == Begun(x, n, o)
           IN  /\ y \in Records
               /\ y.next = n
               /\ y.url = x.url
               /\ y.rev = x.rev
               /\ y.last = "running"
               /\ y.once = o
               /\ y.saved = x.saved
<1> DEFINE y == Begun(x, n, o)
<1>1. y = [next |-> n, url |-> x.url, rev |-> x.rev, owner |-> x.owner, 
           last |-> "running", once |-> o, saved |-> x.saved, deferred |-> Off]
  BY BegunIs
<1>2. /\ x.url \in Urls \cup {NoUrl}
      /\ x.rev \in 0..Budget
      /\ x.owner \in Users
      /\ x.saved \in {None} \cup Answer
  BY DEF Records
<1> HIDE DEF y
<1>3. /\ y \in Records
      /\ y.next = n
      /\ y.url = x.url
      /\ y.rev = x.rev
      /\ y.last = "running"
      /\ y.once = o
      /\ y.saved = x.saved
  BY <1>1, <1>2 DEF Records, Nexts, Onces, Lasts
<1> QED
  BY <1>3 DEF y

LEMMA StartsGo ==
    ASSUME TypesOK, spent' \in Int, spent <= spent', NEW r \in Rows, NEW source, NEW held,
           Starts(r, source, held)
    PROVE  RowsGo /\ row'[r].last = "running" /\ \A q \in Rows : q # r => row'[q] = row[q]
<1> DEFINE x == row[r]
           n == IF ~TakesDue(r, source) THEN x.next
                ELSE IF r \in Once THEN Off ELSE NextFire(r, clock)
           o == IF r \in Once /\ TakesDue(r, source) THEN "last"
                ELSE IF x.once = "last" /\ ~(source = "restart" /\ x.next = Off) THEN "earlier"
                ELSE x.once
           v == IF Due(r) THEN x.next ELSE settled[r]
           y == StartedRow(r, source)
<1>1. x \in Records
  BY Later
<1>2. n \in Nexts /\ v \in Nexts
  BY Later DEF Nexts
<1>3. o \in Onces
  BY <1>1 DEF Records, Onces
<1>4. y = Begun(x, n, o)
  BY DEF StartedRow, Begun
<1>5. row' = [row EXCEPT ![r] = y] /\ settled' = [settled EXCEPT ![r] = v]
  BY DEF Starts
<1>6. \/ n = x.next /\ v = settled[r]
      \/ n = Off \/ n > clock
  BY Later DEF TakesDue
<1>7. x.rev <= spent'
  BY RevsHold
<1> HIDE DEF n, o, x, y
<1>8. /\ y \in Records /\ y.next = n /\ y.rev = x.rev /\ y.url = x.url /\ y.saved = x.saved
      /\ y.last = "running"
  BY <1>1, <1>2, <1>3, <1>4, BegunTyped
<1>9. Goes(r, x, y, settled[r], v)
  BY <1>2, <1>6, <1>7, <1>8 DEF Goes, Settled, Edited, Due, Nexts, x
<1>10. RowsGo
  BY <1>5, <1>9, OneGoes DEF x
<1>11. row'[r] = y /\ \A q \in Rows : q # r => row'[q] = row[q]
  BY <1>5 DEF TypesOK
<1> QED
  BY <1>8, <1>10, <1>11

LEMMA FireRunsGo ==
    ASSUME TypesOK, NEW l \in Items, FireRuns(l)
    PROVE  RowsGo /\ row'[l.id].last = "running"
<1>1. l.id \in Rows /\ spent' = spent /\ Starts(l.id, Source(l.id), Taken(l))
  BY DEF FireRuns, Items
<1>2. spent' \in Int /\ spent <= spent'
  BY <1>1 DEF TypesOK
<1> QED
  BY <1>1, <1>2, StartsGo

LEMMA ManualGoes ==
    ASSUME TypesOK, spent' \in Int, spent <= spent', NEW r \in Rows, NEW held, Manual(r, held)
    PROVE  RowsGo
<1>1. CASE Starts(r, "manual", held)
  BY <1>1, StartsGo
<1>2. CASE row' = row /\ settled' = settled
  BY <1>2, RowsRest
<1> QED
  BY <1>1, <1>2 DEF Manual, tableVars

LEMMA Spending ==
    ASSUME TypesOK, NEW kind, Spend(kind)
    PROVE  /\ spent \in Nat /\ spent' = spent + 1 /\ spent' \in 0..Budget
           /\ spent' \in Int /\ spent <= spent'
<1>1. spent \in 0..Budget
  BY DEF TypesOK
<1> QED
  BY <1>1 DEF Spend

LEMMA RunNowGoes ==
    ASSUME TypesOK, NEW r \in Rows, RunNow(r)
    PROVE  RowsGo
<1>1. spent' \in Int /\ spent <= spent'
  BY Spending DEF RunNow
<1> QED
  BY <1>1, ManualGoes DEF RunNow

LEMMA AnswersNowGo ==
    ASSUME TypesOK, NEW r \in Rows, AnswersNow(r)
    PROVE  RowsGo
<1>1. spent' \in Int /\ spent <= spent'
  BY DEF AnswersNow, worldVars, TypesOK
<1>2. CASE row' = row /\ settled' = settled
  BY <1>1, <1>2, RowsRest
<1>3. ASSUME NEW held, Manual(r, held) PROVE RowsGo
  BY <1>1, <1>3, ManualGoes
<1> QED
  BY <1>2, <1>3 DEF AnswersNow, tableVars

\* a fire moved, or not, and settled what was due
LEMMA MovedGoes ==
    ASSUME TypesOK, spent' \in Int, spent <= spent', NEW r \in Rows, NEW n, NEW v,
           NEW d \in Nexts,
           \/ n = row[r].next /\ v = settled[r]
           \/ n = NextFire(r, clock) /\ v = (IF Due(r) THEN row[r].next ELSE settled[r]),
           row' = [row EXCEPT ![r] = Moved(row[r], n, d)],
           settled' = [settled EXCEPT ![r] = v]
    PROVE  RowsGo
<1> DEFINE x == row[r]
           y == Moved(x, n, d)
<1>1. x \in Records /\ n \in Nexts /\ v \in Nexts
  BY Later DEF Nexts
<1>2. \/ n = x.next /\ v = settled[r]
      \/ n > clock /\ v = IF Due(r) THEN x.next ELSE settled[r]
  BY Later
<1>3. x.rev <= spent'
  BY RevsHold
<1> HIDE DEF x, y
<1>4. /\ y \in Records /\ y.next = n /\ y.rev = x.rev /\ y.url = x.url /\ y.saved = x.saved
  BY <1>1, Moving DEF y
<1>5. Goes(r, x, y, settled[r], v)
  BY <1>1, <1>2, <1>3, <1>4 DEF Goes, Settled, Edited, Due, Nexts, x
<1> QED
  BY <1>5, OneGoes DEF x, y

LEMMA FireSkipsGo ==
    ASSUME TypesOK, NEW l \in Items, FireSkips(l)
    PROVE  RowsGo
<1> DEFINE r == l.id
           n == IF TakesDue(r, Source(r)) THEN NextFire(r, clock) ELSE row[r].next
           v == IF Due(r) THEN row[r].next ELSE settled[r]
<1>1. r \in Rows /\ spent' = spent /\ spent' \in Int /\ spent <= spent'
  BY DEF FireSkips, Items, TypesOK
<1>2. row' = [row EXCEPT ![r] = Moved(row[r], n, Off)]
  BY DEF FireSkips, SkippedRow, Moved
<1>3. settled' = [settled EXCEPT ![r] = v]
  BY DEF FireSkips
<1>4. (n = row[r].next /\ v = settled[r]) \/ n = NextFire(r, clock)
  BY DEF TakesDue
<1> HIDE DEF n
<1>5. Off \in Nexts
  BY DEF Nexts
<1> QED
  BY <1>1, <1>2, <1>3, <1>4, <1>5, MovedGoes

\* an attempt that could run a row not listed is of a due row
LEMMA RunsDue ==
    ASSUME NEW l, Verdict(l) \in {"run", "skip", "wait"}, l.id \notin cut
    PROVE  Due(l.id)
BY DEF Verdict, Source

LEMMA FireFailsGo ==
    ASSUME TypesOK, NEW l \in Items, FireFails(l)
    PROVE  RowsGo
<1> DEFINE r == l.id
           n == NextFire(r, clock)
<1>1. r \in Rows /\ spent' \in Int /\ spent <= spent'
  BY DEF FireFails, Items, TypesOK
<1>2. CASE r \in cut
  BY <1>1, <1>2, RowsRest DEF FireFails, tableVars
<1>3. CASE r \notin cut
  <2>1. Due(r)
    BY <1>3, RunsDue DEF FireFails
  <2>2. row' = [row EXCEPT ![r].next = n, ![r].deferred = Off]
        /\ settled' = [settled EXCEPT ![r] = row[r].next]
    BY <1>3 DEF FireFails
  <2> HIDE DEF n
  <2>3. row' = [row EXCEPT ![r] = Moved(row[r], n, Off)]
    BY <1>1, <2>2 DEF Moved, TypesOK
  <2>4. row[r].next = IF Due(r) THEN row[r].next ELSE settled[r]
    BY <2>1
  <2>5. Off \in Nexts
    BY DEF Nexts
  <2> QED
    BY <1>1, <2>2, <2>3, <2>4, <2>5, MovedGoes DEF n
<1> QED
  BY <1>2, <1>3

----------------------------------------------------------------------------
(* Ends, edits and the end of the process *)

Ended(x, z, s) == [x EXCEPT !.last = z, !.saved = s]

LEMMA EndedIs ==
    ASSUME NEW x \in Records, NEW z, NEW s, NEW y, y = Ended(x, z, s)
    PROVE  y = [next |-> x.next, url |-> x.url, rev |-> x.rev, owner |-> x.owner, 
                last |-> z, once |-> x.once, saved |-> s, deferred |-> x.deferred]
BY DEF Ended, Records

\* a row whose run ended
LEMMA EndedTyped ==
    ASSUME NEW x \in Records,
           NEW z \in Lasts,
           NEW s \in {None} \cup Answer
    PROVE  LET y == Ended(x, z, s)
           IN  /\ y \in Records
               /\ y.next = x.next
               /\ y.url = x.url
               /\ y.rev = x.rev
               /\ y.last = z
               /\ y.once = x.once
               /\ y.saved = s
<1> DEFINE y == Ended(x, z, s)
<1>1. y = [next |-> x.next, url |-> x.url, rev |-> x.rev, owner |-> x.owner, 
           last |-> z, once |-> x.once, saved |-> s, deferred |-> x.deferred]
  BY EndedIs
<1>2. /\ x.next \in {Off} \cup Times
      /\ x.url \in Urls \cup {NoUrl}
      /\ x.rev \in 0..Budget
      /\ x.owner \in Users
      /\ x.once \in {"armed", "last", "earlier"}
      /\ x.deferred \in {Off} \cup Times
  BY DEF Records
<1> HIDE DEF y
<1>3. /\ y \in Records
      /\ y.next = x.next
      /\ y.url = x.url
      /\ y.rev = x.rev
      /\ y.last = z
      /\ y.once = x.once
      /\ y.saved = s
  BY <1>1, <1>2 DEF Records, Nexts, Onces, Lasts
<1> QED
  BY <1>3 DEF y

EditedRow(x, u, url, s, n) == [x EXCEPT !.rev = x.rev + 1, !.owner = u, !.url = url, !.saved = s, !.next = n]

LEMMA EditedRowIs ==
    ASSUME NEW x \in Records, NEW u, NEW url, NEW s, NEW n, NEW y, y = EditedRow(x, u, url, s, n)
    PROVE  y = [next |-> n, url |-> url, rev |-> x.rev + 1, owner |-> u, 
                last |-> x.last, once |-> x.once, saved |-> s, deferred |-> x.deferred]
BY DEF EditedRow, Records

\* a saved row
LEMMA EditedRowTyped ==
    ASSUME NEW x \in Records,
           NEW u \in Users,
           NEW url \in Urls \cup {NoUrl},
           NEW s \in {None} \cup Answer,
           NEW n \in Nexts,
           x.rev + 1 \in 0..Budget
    PROVE  LET y == EditedRow(x, u, url, s, n)
           IN  /\ y \in Records
               /\ y.next = n
               /\ y.url = url
               /\ y.rev = x.rev + 1
               /\ y.last = x.last
               /\ y.once = x.once
               /\ y.saved = s
<1> DEFINE y == EditedRow(x, u, url, s, n)
<1>1. y = [next |-> n, url |-> url, rev |-> x.rev + 1, owner |-> u, 
           last |-> x.last, once |-> x.once, saved |-> s, deferred |-> x.deferred]
  BY EditedRowIs
<1>2. /\ x.last \in {"none", "running", "done", "cut"}
      /\ x.once \in {"armed", "last", "earlier"}
      /\ x.deferred \in {Off} \cup Times
  BY DEF Records
<1> HIDE DEF y
<1>3. /\ y \in Records
      /\ y.next = n
      /\ y.url = url
      /\ y.rev = x.rev + 1
      /\ y.last = x.last
      /\ y.once = x.once
      /\ y.saved = s
  BY <1>1, <1>2 DEF Records, Nexts, Onces, Lasts
<1> QED
  BY <1>3 DEF y

SuspendedRow(x, n, o) == [x EXCEPT !.next = n, !.once = o]

LEMMA SuspendedRowIs ==
    ASSUME NEW x \in Records, NEW n, NEW o, NEW y, y = SuspendedRow(x, n, o)
    PROVE  y = [next |-> n, url |-> x.url, rev |-> x.rev, owner |-> x.owner, 
                last |-> x.last, once |-> o, saved |-> x.saved, deferred |-> x.deferred]
BY DEF SuspendedRow, Records

\* a row suspended or resumed
LEMMA SuspendedRowTyped ==
    ASSUME NEW x \in Records,
           NEW n \in Nexts,
           NEW o \in Onces
    PROVE  LET y == SuspendedRow(x, n, o)
           IN  /\ y \in Records
               /\ y.next = n
               /\ y.url = x.url
               /\ y.rev = x.rev
               /\ y.last = x.last
               /\ y.once = o
               /\ y.saved = x.saved
<1> DEFINE y == SuspendedRow(x, n, o)
<1>1. y = [next |-> n, url |-> x.url, rev |-> x.rev, owner |-> x.owner, 
           last |-> x.last, once |-> o, saved |-> x.saved, deferred |-> x.deferred]
  BY SuspendedRowIs
<1>2. /\ x.url \in Urls \cup {NoUrl}
      /\ x.rev \in 0..Budget
      /\ x.owner \in Users
      /\ x.last \in {"none", "running", "done", "cut"}
      /\ x.saved \in {None} \cup Answer
      /\ x.deferred \in {Off} \cup Times
  BY DEF Records
<1> HIDE DEF y
<1>3. /\ y \in Records
      /\ y.next = n
      /\ y.url = x.url
      /\ y.rev = x.rev
      /\ y.last = x.last
      /\ y.once = o
      /\ y.saved = x.saved
  BY <1>1, <1>2 DEF Records, Nexts, Onces, Lasts
<1> QED
  BY <1>3 DEF y

CutRow(x) == [x EXCEPT !.last = "cut"]

LEMMA CutRowIs ==
    ASSUME NEW x \in Records, NEW y, y = CutRow(x)
    PROVE  y = [next |-> x.next, url |-> x.url, rev |-> x.rev, owner |-> x.owner, 
                last |-> "cut", once |-> x.once, saved |-> x.saved, deferred |-> x.deferred]
BY DEF CutRow, Records

\* a row whose run was cut
LEMMA CutRowTyped ==
    ASSUME NEW x \in Records
    PROVE  LET y == CutRow(x)
           IN  /\ y \in Records
               /\ y.next = x.next
               /\ y.url = x.url
               /\ y.rev = x.rev
               /\ y.last = "cut"
               /\ y.once = x.once
               /\ y.saved = x.saved
<1> DEFINE y == CutRow(x)
<1>1. y = [next |-> x.next, url |-> x.url, rev |-> x.rev, owner |-> x.owner, 
           last |-> "cut", once |-> x.once, saved |-> x.saved, deferred |-> x.deferred]
  BY CutRowIs
<1>2. /\ x.next \in {Off} \cup Times
      /\ x.url \in Urls \cup {NoUrl}
      /\ x.rev \in 0..Budget
      /\ x.owner \in Users
      /\ x.once \in {"armed", "last", "earlier"}
      /\ x.saved \in {None} \cup Answer
      /\ x.deferred \in {Off} \cup Times
  BY DEF Records
<1> HIDE DEF y
<1>3. /\ y \in Records
      /\ y.next = x.next
      /\ y.url = x.url
      /\ y.rev = x.rev
      /\ y.last = "cut"
      /\ y.once = x.once
      /\ y.saved = x.saved
  BY <1>1, <1>2 DEF Records, Nexts, Onces, Lasts
<1> QED
  BY <1>3 DEF y

LEMMA RunEndsGo ==
    ASSUME TypesOK, NEW r \in Rows, NEW how \in {"done", "interrupted", "cut"}, RunEnds(r, how)
    PROVE  RowsGo
<1> DEFINE x == row[r]
           keeps == seen[r] # None /\ how = "done"
           z == IF how = "cut" THEN "cut" ELSE "done"
           s == IF keeps THEN Saved(r, seen[r]) ELSE x.saved
           y == Ended(x, z, s)
<1>1. spent' = spent /\ settled' = settled /\ spent' \in Int /\ spent <= spent'
  BY DEF RunEnds, TypesOK
<1>2. row' = [row EXCEPT ![r] = y]
  BY DEF RunEnds, Ended
<1>3. keeps => told'[r] = told[r] \cup {seen[r].answer}
  BY DEF RunEnds, TypesOK
<1>4. x \in Records /\ z \in Lasts
  BY Later DEF Lasts
<1>5. keeps => seen[r] \in Seen
  BY DEF TypesOK
<1>6. s \in {None} \cup Answer
  BY <1>4, <1>5 DEF Saved, Seen, Records
<1>7. \/ s = x.saved
      \/ seen[r] # None /\ seen[r].rev = x.rev /\ s = seen[r].answer /\ s \in told'[r]
  <2>1. CASE keeps /\ seen[r].rev = x.rev
    <3>1. s = seen[r].answer
      BY <2>1 DEF Saved
    <3> HIDE DEF s, x
    <3> QED
      BY <1>3, <2>1, <3>1
  <2>2. CASE ~(keeps /\ seen[r].rev = x.rev)
    BY <2>2 DEF Saved
  <2> QED
    BY <2>1, <2>2
<1>8. x.rev <= spent'
  BY <1>1, RevsHold
<1>9. settled[r] \in {Off} \cup Times /\ settled' = [settled EXCEPT ![r] = settled[r]]
  BY <1>1 DEF TypesOK
<1> HIDE DEF x, z, s, y
<1>10. /\ y \in Records /\ y.next = x.next /\ y.rev = x.rev /\ y.url = x.url /\ y.saved = s
  BY <1>4, <1>6, EndedTyped DEF y
<1>11. Edited(r, x, y) \/ Ends(r, x, y)
  BY <1>7, <1>10 DEF Edited, Ends
<1>12. Goes(r, x, y, settled[r], settled[r])
  BY <1>8, <1>9, <1>10, <1>11 DEF Goes, Settled
<1> QED
  BY <1>1, <1>2, <1>9, <1>12, OneGoes DEF x

LEMMA SavesGo ==
    ASSUME TypesOK, NEW r \in Rows, NEW u \in Users, NEW url \in Urls \cup {NoUrl}, NEW next,
           NEW kind, Spend(kind), Save(r, u, url, next),
           next = row[r].next \/ next = NextFire(r, clock)
    PROVE  RowsGo
<1> DEFINE x == row[r]
           s == IF url # x.url THEN None ELSE x.saved
           y == EditedRow(x, u, url, s, next)
<1>1. spent' = spent + 1 /\ spent' \in 0..Budget /\ spent' \in Int /\ spent <= spent'
  BY Spending
<1>2. row' = [row EXCEPT ![r] = y] /\ settled' = settled
  BY DEF Save, EditedRow
<1>3. x \in Records /\ next \in Nexts /\ x.rev \in Nat /\ x.rev <= spent /\ spent \in Nat
  BY Later DEF Nexts
<1>4. s \in {None} \cup Answer
  BY <1>3 DEF Records
<1>5. x.rev + 1 \in 0..Budget /\ x.rev + 1 <= spent'
  BY <1>1, <1>3
<1>6. settled[r] \in {Off} \cup Times /\ settled' = [settled EXCEPT ![r] = settled[r]]
  BY <1>2 DEF TypesOK
<1>7. next = x.next \/ next > clock
  BY Later
<1> HIDE DEF x, s, y
<1>8. /\ y \in Records /\ y.next = next /\ y.rev = x.rev + 1 /\ y.url = url /\ y.saved = s
  BY <1>3, <1>4, <1>5, EditedRowTyped DEF y
<1>9. Edited(r, x, y)
  BY <1>8 DEF Edited, s
<1>10. Goes(r, x, y, settled[r], settled[r])
  BY <1>5, <1>6, <1>7, <1>8, <1>9 DEF Goes, Settled
<1> QED
  BY <1>1, <1>2, <1>6, <1>10, OneGoes DEF x

LEMMA EditsGo ==
    ASSUME TypesOK, NEW r \in Rows, NEW u \in Users,
           \/ EditField(r, u) \/ EditSchedule(r, u)
           \/ \E url \in Urls \cup {NoUrl} : EditUrl(r, u, url)
    PROVE  RowsGo
<1>1. row[r].url \in Urls \cup {NoUrl}
  BY Later DEF Records
<1>2. CASE EditField(r, u)
  BY <1>1, <1>2, SavesGo DEF EditField
<1>3. CASE EditSchedule(r, u)
  BY <1>1, <1>3, SavesGo DEF EditSchedule
<1>4. ASSUME NEW url \in Urls \cup {NoUrl}, EditUrl(r, u, url) PROVE RowsGo
  BY <1>4, SavesGo DEF EditUrl
<1> QED
  BY <1>2, <1>3, <1>4

LEMMA SuspendGoes ==
    ASSUME TypesOK, NEW r \in Rows, Suspend(r)
    PROVE  RowsGo
<1> DEFINE x == row[r]
           n == IF x.next # Off THEN Off ELSE NextFire(r, clock)
           o == IF x.next = Off THEN "armed" ELSE x.once
           y == SuspendedRow(x, n, o)
<1>1. spent' \in Int /\ spent <= spent'
  BY Spending DEF Suspend
<1>2. row' = [row EXCEPT ![r] = y] /\ settled' = settled
  BY DEF Suspend, SuspendedRow
<1>3. x \in Records /\ n \in Nexts /\ (n = Off \/ n > clock)
  BY Later DEF Nexts
<1>4. o \in Onces
  BY <1>3 DEF Records, Onces
<1>5. x.rev <= spent'
  BY <1>1, RevsHold
<1>6. settled[r] \in {Off} \cup Times /\ settled' = [settled EXCEPT ![r] = settled[r]]
  BY <1>2 DEF TypesOK
<1> HIDE DEF x, n, o, y
<1>7. /\ y \in Records /\ y.next = n /\ y.rev = x.rev /\ y.url = x.url /\ y.saved = x.saved
  BY <1>3, <1>4, SuspendedRowTyped DEF y
<1>8. Goes(r, x, y, settled[r], settled[r])
  BY <1>3, <1>5, <1>6, <1>7 DEF Goes, Settled, Edited
<1> QED
  BY <1>1, <1>2, <1>6, <1>8, OneGoes DEF x

LEMMA HaltGoes ==
    ASSUME TypesOK, Halt
    PROVE  RowsGo
<1>1. spent' \in Int /\ spent <= spent'
  BY Spending DEF Halt
<1>2. /\ row' = [r \in Rows |-> IF Running(r) THEN CutRow(row[r]) ELSE row[r]]
      /\ settled' = settled
  BY DEF Halt, CutRow
<1>3. ASSUME NEW r \in Rows PROVE RowGoes(r)
  <2> DEFINE x == row[r]
             y == CutRow(x)
  <2>1. row'[r] \in {x, y} /\ settled'[r] = settled[r]
    BY <1>2
  <2>2. CASE row'[r] = x
    BY <1>1, <2>1, <2>2, RowRests
  <2>3. CASE row'[r] = y
    <3>1. x \in Records /\ settled[r] \in {Off} \cup Times
      BY Later
    <3>2. x.rev <= spent'
      BY <1>1, RevsHold
    <3> HIDE DEF x, y
    <3>3. /\ y \in Records /\ y.next = x.next /\ y.rev = x.rev /\ y.url = x.url
          /\ y.saved = x.saved
      BY <3>1, CutRowTyped DEF y
    <3>4. Goes(r, x, y, settled[r], settled[r])
      BY <3>1, <3>2, <3>3 DEF Goes, Settled, Edited
    <3> QED
      BY <2>1, <2>3, <3>4 DEF RowGoes, x
  <2> QED
    BY <2>1, <2>2, <2>3
<1>4. settled' = [r \in Rows |-> settled'[r]]
  BY <1>2 DEF TypesOK
<1> QED
  BY <1>2, <1>3, <1>4 DEF RowsGo

----------------------------------------------------------------------------
(* Types *)

WorldOK ==
    /\ clock \in 0..MaxTime
    /\ out \subseteq Users
    /\ page \in 0..Budget
    /\ phase \in {"up", "draining", "down"}
    /\ spent \in 0..Budget /\ page <= spent

ChecksOK ==
    /\ flying \in [Rows -> {None} \cup Flights]
    /\ ready \in [Rows -> {None} \cup Held]
    /\ asked \in [Rows -> {None} \cup Asked]
    /\ seen \in [Rows -> {None} \cup Seen]
    /\ cut \subseteq Rows
    /\ told \in [Rows -> SUBSET Answer]

LoopOK ==
    /\ full \subseteq Projects \cup {"process"}
    /\ loop \in {"begin", "firing", "yield", "asleep", "late", "off"}
    /\ list \in Seq(Items)
    /\ passAt \in 0..MaxTime
    /\ moved \in BOOLEAN

LEMMA TypesAre ==
    TypesOK <=> /\ WorldOK /\ ChecksOK /\ LoopOK
                /\ row \in [Rows -> Records] /\ settled \in [Rows -> {Off} \cup Times]
                /\ \A r \in Rows : row[r].rev <= spent
BY DEF TypesOK, WorldOK, ChecksOK, LoopOK

LEMMA Typed ==
    ASSUME RowsGo, WorldOK', ChecksOK', LoopOK'
    PROVE  TypesOK'
<1>1. row' \in [Rows -> Records] /\ settled' \in [Rows -> {Off} \cup Times]
  BY DEF RowsGo, RowGoes, Goes
<1>2. \A r \in Rows : row'[r].rev <= spent'
  BY DEF RowsGo, RowGoes, Goes
<1> QED
  BY <1>1, <1>2 DEF TypesOK, WorldOK, ChecksOK, LoopOK

LEMMA WorldGoes ==
    ASSUME TypesOK, Next \/ UNCHANGED vars
    PROVE  WorldOK' /\ spent' \in Int /\ spent <= spent' /\ clock <= clock'
<1> SUFFICES WorldOK' /\ spent <= spent' /\ clock <= clock'
  BY DEF WorldOK
<1>0. WorldOK
  BY TypesAre
<1>1. ASSUME NEW l \in Items, PassesOver(l) PROVE WorldOK' /\ spent <= spent' /\ clock <= clock'
  BY <1>0, <1>1 DEF WorldOK, PassesOver, Firing
<1>2. ASSUME NEW l \in Items, Defers(l) PROVE WorldOK' /\ spent <= spent' /\ clock <= clock'
  BY <1>0, <1>2 DEF WorldOK, Defers, FiresNow, Firing
<1>3. ASSUME NEW l \in Items, Asks(l) PROVE WorldOK' /\ spent <= spent' /\ clock <= clock'
  BY <1>0, <1>3 DEF WorldOK, Asks, FiresNow, Firing
<1>4. ASSUME NEW l \in Items, Settles(l) PROVE WorldOK' /\ spent <= spent' /\ clock <= clock'
  BY <1>0, <1>4 DEF WorldOK, Settles, FiresNow, Firing
<1>5. ASSUME NEW l \in Items, FireRuns(l) PROVE WorldOK' /\ spent <= spent' /\ clock <= clock'
  BY <1>0, <1>5 DEF WorldOK, FireRuns, Attempts, FiresNow, Firing
<1>6. ASSUME NEW l \in Items, FireSkips(l) PROVE WorldOK' /\ spent <= spent' /\ clock <= clock'
  BY <1>0, <1>6 DEF WorldOK, FireSkips, Attempts, FiresNow, Firing
<1>7. ASSUME NEW l \in Items, FireWaits(l) PROVE WorldOK' /\ spent <= spent' /\ clock <= clock'
  BY <1>0, <1>7 DEF WorldOK, FireWaits, Attempts, FiresNow, Firing
<1>8. ASSUME NEW l \in Items, FireLeaves(l) PROVE WorldOK' /\ spent <= spent' /\ clock <= clock'
  BY <1>0, <1>8 DEF WorldOK, FireLeaves, Attempts, FiresNow, Firing
<1>9. ASSUME NEW l \in Items, FireFails(l) PROVE WorldOK' /\ spent <= spent' /\ clock <= clock'
  BY <1>0, <1>9 DEF WorldOK, FireFails, Attempts, FiresNow, Firing
<1>10. CASE PassDrains
  BY <1>0, <1>10 DEF WorldOK, PassDrains, worldVars
<1>11. CASE PassBegins
  BY <1>0, <1>11 DEF WorldOK, PassBegins, worldVars
<1>12. CASE PassEnds
  BY <1>0, <1>12 DEF WorldOK, PassEnds, worldVars
<1>13. CASE Rings
  BY <1>0, <1>13 DEF WorldOK, Rings, worldVars
<1>14. CASE Tick
  BY <1>0, <1>14 DEF WorldOK, Tick
<1>15. ASSUME NEW r \in Rows, Answers(r) PROVE WorldOK' /\ spent <= spent' /\ clock <= clock'
  BY <1>0, <1>15 DEF WorldOK, Answers, worldVars
<1>16. ASSUME NEW r \in Rows, RunNow(r) PROVE WorldOK' /\ spent <= spent' /\ clock <= clock'
  <2>0. Spend("run now")
    BY <1>16 DEF RunNow
  <2>a. spent \in Nat /\ spent' = spent + 1 /\ spent' \in 0..Budget /\ spent <= spent'
    BY <2>0, Spending
  <2>b. page \in Nat /\ page <= spent
    BY <1>0 DEF WorldOK
  <2>1. spent' \in 0..Budget /\ spent <= spent' /\ page <= spent'
    BY <2>a, <2>b
  <2>2. clock' = clock /\ page' = page /\ out' = out /\ phase' = phase
    BY <1>16 DEF RunNow
  <2> QED
    BY <1>0, <2>1, <2>2 DEF WorldOK
<1>17. ASSUME NEW r \in Rows, AskNow(r) PROVE WorldOK' /\ spent <= spent' /\ clock <= clock'
  <2>0. Spend("run now")
    BY <1>17 DEF AskNow
  <2>a. spent \in Nat /\ spent' = spent + 1 /\ spent' \in 0..Budget /\ spent <= spent'
    BY <2>0, Spending
  <2>b. page \in Nat /\ page <= spent
    BY <1>0 DEF WorldOK
  <2>1. spent' \in 0..Budget /\ spent <= spent' /\ page <= spent'
    BY <2>a, <2>b
  <2>2. clock' = clock /\ page' = page /\ out' = out /\ phase' = phase
    BY <1>17 DEF AskNow
  <2> QED
    BY <1>0, <2>1, <2>2 DEF WorldOK
<1>18. ASSUME NEW r \in Rows, AnswersNow(r) PROVE WorldOK' /\ spent <= spent' /\ clock <= clock'
  BY <1>0, <1>18 DEF WorldOK, AnswersNow, worldVars
<1>19. ASSUME NEW r \in Rows, Suspend(r) PROVE WorldOK' /\ spent <= spent' /\ clock <= clock'
  BY <1>0, <1>19 DEF WorldOK, Suspend, Spend
<1>20. ASSUME NEW r \in Rows, NEW how \in {"done", "interrupted", "cut"}, RunEnds(r, how)
       PROVE WorldOK' /\ spent <= spent' /\ clock <= clock'
  BY <1>0, <1>20 DEF WorldOK, RunEnds
<1>21. ASSUME NEW r \in Rows, NEW u \in Users,
                 \/ EditField(r, u) \/ EditSchedule(r, u)
                 \/ \E url \in Urls \cup {NoUrl} : EditUrl(r, u, url)
       PROVE WorldOK' /\ spent <= spent' /\ clock <= clock'
  <2>1. spent' \in 0..Budget /\ spent <= spent' /\ page <= spent'
    BY <1>0, <1>21, Spending DEF WorldOK, EditField, EditSchedule, EditUrl
  <2>2. clock' = clock /\ page' = page /\ out' = out /\ phase' = phase
    BY <1>21 DEF EditField, EditSchedule, EditUrl, Save
  <2> QED
    BY <1>0, <2>1, <2>2 DEF WorldOK
<1>22. ASSUME NEW p \in Projects, TakePlace(p) PROVE WorldOK' /\ spent <= spent' /\ clock <= clock'
  BY <1>0, <1>22 DEF WorldOK, TakePlace, Spend
<1>23. ASSUME NEW p \in Projects, FreePlace(p) PROVE WorldOK' /\ spent <= spent' /\ clock <= clock'
  BY <1>0, <1>23 DEF WorldOK, FreePlace
<1>24. ASSUME NEW u \in Users, LoseOwner(u) PROVE WorldOK' /\ spent <= spent' /\ clock <= clock'
  BY <1>0, <1>24 DEF WorldOK, LoseOwner, Spend
<1>25. CASE PageMoves
  BY <1>0, <1>25 DEF WorldOK, PageMoves, Spend
<1>26. CASE Drain
  BY <1>0, <1>26 DEF WorldOK, Drain
<1>27. CASE Halt
  BY <1>0, <1>27 DEF WorldOK, Halt, Spend
<1>28. CASE Boot
  BY <1>0, <1>28 DEF WorldOK, Boot
<1>29. CASE UNCHANGED vars
  BY <1>0, <1>29 DEF WorldOK, vars, worldVars
<1> QED
  BY <1>1, <1>2, <1>3, <1>4, <1>5, <1>6, <1>7, <1>8, <1>9, <1>10, <1>11, <1>12, <1>13, <1>14,
     <1>15, <1>16, <1>17, <1>18, <1>19, <1>20, <1>21, <1>22, <1>23, <1>24, <1>25, <1>26, <1>27,
     <1>28, <1>29, Heads
  DEF Next, LoopStep, Fire

LEMMA RowsGoOn ==
    ASSUME TypesOK, Next \/ UNCHANGED vars
    PROVE  RowsGo
<1>0. spent' \in Int /\ spent <= spent'
  BY WorldGoes
<1>1. ASSUME NEW l \in Items, PassesOver(l) PROVE RowsGo
  BY <1>0, <1>1, RowsRest DEF PassesOver, tableVars
<1>2. ASSUME NEW l \in Items, Defers(l) PROVE RowsGo
  BY <1>2, DefersGo
<1>3. ASSUME NEW l \in Items, Asks(l) PROVE RowsGo
  BY <1>0, <1>3, RowsRest DEF Asks, tableVars
<1>4. ASSUME NEW l \in Items, Settles(l) PROVE RowsGo
  BY <1>4, SettlesGo
<1>5. ASSUME NEW l \in Items, FireRuns(l) PROVE RowsGo
  BY <1>5, FireRunsGo
<1>6. ASSUME NEW l \in Items, FireSkips(l) PROVE RowsGo
  BY <1>6, FireSkipsGo
<1>7. ASSUME NEW l \in Items, FireWaits(l) PROVE RowsGo
  BY <1>0, <1>7, RowsRest DEF FireWaits, tableVars
<1>8. ASSUME NEW l \in Items, FireLeaves(l) PROVE RowsGo
  BY <1>0, <1>8, RowsRest DEF FireLeaves, tableVars
<1>9. ASSUME NEW l \in Items, FireFails(l) PROVE RowsGo
  BY <1>9, FireFailsGo
<1>10. CASE PassDrains
  BY <1>10, PassDrainsGo
<1>11. CASE PassBegins
  BY <1>11, PassBeginsGo
<1>12. CASE PassEnds
  BY <1>0, <1>12, RowsRest DEF PassEnds, tableVars
<1>13. CASE Rings
  BY <1>0, <1>13, RowsRest DEF Rings, tableVars
<1>14. CASE Tick
  BY <1>0, <1>14, RowsRest DEF Tick, tableVars
<1>15. ASSUME NEW r \in Rows, Answers(r) PROVE RowsGo
  BY <1>0, <1>15, RowsRest DEF Answers, tableVars
<1>16. ASSUME NEW r \in Rows, RunNow(r) PROVE RowsGo
  BY <1>16, RunNowGoes
<1>17. ASSUME NEW r \in Rows, AskNow(r) PROVE RowsGo
  BY <1>0, <1>17, RowsRest DEF AskNow, tableVars
<1>18. ASSUME NEW r \in Rows, AnswersNow(r) PROVE RowsGo
  BY <1>18, AnswersNowGo
<1>19. ASSUME NEW r \in Rows, Suspend(r) PROVE RowsGo
  BY <1>19, SuspendGoes
<1>20. ASSUME NEW r \in Rows, NEW how \in {"done", "interrupted", "cut"}, RunEnds(r, how)
       PROVE RowsGo
  BY <1>20, RunEndsGo
<1>21. ASSUME NEW r \in Rows, NEW u \in Users,
                 \/ EditField(r, u) \/ EditSchedule(r, u)
                 \/ \E url \in Urls \cup {NoUrl} : EditUrl(r, u, url)
       PROVE RowsGo
  BY <1>21, EditsGo
<1>22. ASSUME NEW p \in Projects, TakePlace(p) PROVE RowsGo
  BY <1>0, <1>22, RowsRest DEF TakePlace, tableVars
<1>23. ASSUME NEW p \in Projects, FreePlace(p) PROVE RowsGo
  BY <1>0, <1>23, RowsRest DEF FreePlace, tableVars
<1>24. ASSUME NEW u \in Users, LoseOwner(u) PROVE RowsGo
  BY <1>0, <1>24, RowsRest DEF LoseOwner, tableVars
<1>25. CASE PageMoves
  BY <1>0, <1>25, RowsRest DEF PageMoves, tableVars
<1>26. CASE Drain
  BY <1>0, <1>26, RowsRest DEF Drain, tableVars
<1>27. CASE Halt
  BY <1>27, HaltGoes
<1>28. CASE Boot
  BY <1>0, <1>28, RowsRest DEF Boot, tableVars
<1>29. CASE UNCHANGED vars
  BY <1>0, <1>29, RowsRest DEF vars, tableVars
<1> QED
  BY <1>1, <1>2, <1>3, <1>4, <1>5, <1>6, <1>7, <1>8, <1>9, <1>10, <1>11, <1>12, <1>13, <1>14,
     <1>15, <1>16, <1>17, <1>18, <1>19, <1>20, <1>21, <1>22, <1>23, <1>24, <1>25, <1>26, <1>27,
     <1>28, <1>29, Heads
  DEF Next, LoopStep, Fire

LEMMA Scheduled ==
    ASSUME TypesOK, NEW r \in Rows, NEW rec \in Records, NEW source, DueOf(r, rec, source) # Off
    PROVE  DueOf(r, rec, source) \in Times
<1>1. 0 \in Times
  BY Spans, TimesIs
<1>2. rec.next \in {Off} \cup Times
  BY DEF Records
<1> QED
  BY <1>1, <1>2 DEF DueOf, ListedAt

LEMMA StartsSeen ==
    ASSUME ChecksOK, NEW r \in Rows, NEW source, NEW held, Starts(r, source, held),
           held # None => /\ held.url \in Urls /\ held.rev \in 0..Budget
                          /\ held.version \in 0..Budget
    PROVE  seen' \in [Rows -> {None} \cup Seen]
<1> DEFINE v == IF held = None THEN None
                ELSE [answer |-> [url |-> held.url, version |-> held.version], rev |-> held.rev]
<1>1. v \in {None} \cup Seen
  BY DEF Seen, Answer
<1>2. seen' = [seen EXCEPT ![r] = v]
  BY DEF Starts
<1> HIDE DEF v
<1> QED
  BY <1>1, <1>2 DEF ChecksOK

LEMMA ManualSeen ==
    ASSUME ChecksOK, NEW r \in Rows, NEW held, Manual(r, held),
           held # None => /\ held.url \in Urls /\ held.rev \in 0..Budget
                          /\ held.version \in 0..Budget
    PROVE  seen' \in [Rows -> {None} \cup Seen]
BY StartsSeen DEF Manual, ChecksOK

LEMMA ChecksGo ==
    ASSUME TypesOK, Next \/ UNCHANGED vars
    PROVE  ChecksOK'
<1>0. ChecksOK
  BY TypesAre
<1>1. ASSUME NEW l \in Items, PassesOver(l) PROVE ChecksOK'
  BY <1>0, <1>1 DEF ChecksOK, PassesOver, Firing
<1>2. ASSUME NEW l \in Items, Defers(l) PROVE ChecksOK'
  BY <1>0, <1>2 DEF ChecksOK, Defers, FiresNow, Firing
<1>3. ASSUME NEW l \in Items, Asks(l) PROVE ChecksOK'
  <2> DEFINE r == l.id
             f == [url |-> l.was.url, rev |-> l.was.rev, due |-> DueOf(r, l.was, Source(r)),
                   saved |-> row[r].saved]
  <2>1. r \in Rows /\ l.was \in Records /\ row[r] \in Records
    BY Later DEF Items
  <2>2. CASE flying[r] # None
    BY <1>0, <1>3, <2>2 DEF ChecksOK, Asks, FiresNow, Firing
  <2>3. CASE flying[r] = None
    <3>1. DueOf(r, l.was, Source(r)) \in Times
      BY <1>3, <2>1, <2>3, Scheduled DEF Asks
    <3>2. l.was.url \in Urls
      BY <1>3, <2>1 DEF Asks, Checked, Records
    <3>3. l.was.rev \in 0..Budget /\ row[r].saved \in {None} \cup Answer
      BY <2>1 DEF Records
    <3>4. f \in Flights
      BY <3>1, <3>2, <3>3 DEF Flights
    <3>5. flying' = [flying EXCEPT ![r] = f]
      BY <1>3, <2>3 DEF Asks
    <3> HIDE DEF f
    <3>6. flying' \in [Rows -> {None} \cup Flights]
      BY <1>0, <3>4, <3>5 DEF ChecksOK
    <3> QED
      BY <1>0, <1>3, <3>6 DEF ChecksOK, Asks, FiresNow, Firing
  <2> QED
    BY <2>2, <2>3
<1>4. ASSUME NEW l \in Items, Settles(l) PROVE ChecksOK'
  BY <1>0, <1>4 DEF ChecksOK, Settles, FiresNow, Firing
<1>5. ASSUME NEW l \in Items, FireRuns(l) PROVE ChecksOK'
  <2>1. /\ l.id \in Rows /\ Starts(l.id, Source(l.id), Taken(l)) /\ Taken(l) \in {None} \cup Held
    BY <1>0, <1>5 DEF FireRuns, Taken, Items, ChecksOK
  <2>2. seen' \in [Rows -> {None} \cup Seen]
    BY <1>0, <2>1, StartsSeen DEF Held
  <2> QED
    BY <1>0, <1>5, <2>2 DEF ChecksOK, FireRuns, Attempts, FiresNow, Firing, Unlist
<1>6. ASSUME NEW l \in Items, FireSkips(l) PROVE ChecksOK'
  BY <1>0, <1>6 DEF ChecksOK, FireSkips, Attempts, FiresNow, Firing, Unlist
<1>7. ASSUME NEW l \in Items, FireWaits(l) PROVE ChecksOK'
  BY <1>0, <1>7 DEF ChecksOK, FireWaits, Attempts, FiresNow, Firing
<1>8. ASSUME NEW l \in Items, FireLeaves(l) PROVE ChecksOK'
  BY <1>0, <1>8 DEF ChecksOK, FireLeaves, Attempts, FiresNow, Firing, Unlist
<1>9. ASSUME NEW l \in Items, FireFails(l) PROVE ChecksOK'
  BY <1>0, <1>9 DEF ChecksOK, FireFails, Attempts, FiresNow, Firing
<1>10. CASE PassDrains
  BY <1>0, <1>10 DEF ChecksOK, PassDrains, checkVars
<1>11. CASE PassBegins
  BY <1>0, <1>11 DEF ChecksOK, PassBegins
<1>12. CASE PassEnds
  BY <1>0, <1>12 DEF ChecksOK, PassEnds, checkVars
<1>13. CASE Rings
  BY <1>0, <1>13 DEF ChecksOK, Rings, checkVars
<1>14. CASE Tick
  BY <1>0, <1>14 DEF ChecksOK, Tick, checkVars
<1>15. ASSUME NEW r \in Rows, Answers(r) PROVE ChecksOK'
  <2>1. PICK result \in {"failed", "quiet", "new"} :
          ready' = [ready EXCEPT ![r] =
              [result |-> result, url |-> flying[r].url, rev |-> flying[r].rev,
               due |-> flying[r].due, version |-> page]]
    BY <1>15 DEF Answers, Results
  <2>2. flying[r] \in Flights /\ page \in 0..Budget
    BY <1>0, <1>15, TypesAre DEF Answers, ChecksOK, WorldOK
  <2> DEFINE h == [result |-> result, url |-> flying[r].url, rev |-> flying[r].rev,
                   due |-> flying[r].due, version |-> page]
  <2>3. h \in Held
    BY <2>1, <2>2 DEF Held, Flights
  <2>4. ready' = [ready EXCEPT ![r] = h]
    BY <2>1
  <2> HIDE DEF h
  <2>5. ready' \in [Rows -> {None} \cup Held]
    BY <1>0, <2>3, <2>4 DEF ChecksOK
  <2> QED
    BY <1>0, <1>15, <2>5 DEF ChecksOK, Answers
<1>16. ASSUME NEW r \in Rows, RunNow(r) PROVE ChecksOK'
  <2>1. seen' \in [Rows -> {None} \cup Seen]
    BY <1>0, <1>16, ManualSeen DEF RunNow
  <2> QED
    BY <1>0, <1>16, <2>1 DEF ChecksOK, RunNow
<1>17. ASSUME NEW r \in Rows, AskNow(r) PROVE ChecksOK'
  <2>1. row[r].url \in Urls /\ row[r].rev \in 0..Budget
    BY <1>17, Later DEF AskNow, Records
  <2>2. [url |-> row[r].url, rev |-> row[r].rev] \in Asked
    BY <2>1 DEF Asked
  <2> QED
    BY <1>0, <1>17, <2>2 DEF ChecksOK, AskNow
<1>18. ASSUME NEW r \in Rows, AnswersNow(r) PROVE ChecksOK'
  <2> DEFINE h == [url |-> asked[r].url, rev |-> asked[r].rev, version |-> page]
  <2>1. asked[r] \in Asked /\ page \in 0..Budget
    BY <1>0, <1>18, TypesAre DEF AnswersNow, ChecksOK, WorldOK
  <2>2. h.url \in Urls /\ h.rev \in 0..Budget /\ h.version \in 0..Budget
    BY <2>1 DEF Asked
  <2> HIDE DEF h
  <2>3. seen' = seen \/ Manual(r, None) \/ Manual(r, h)
    BY <1>18 DEF AnswersNow, h
  <2>4. seen' \in [Rows -> {None} \cup Seen]
    BY <1>0, <2>2, <2>3, ManualSeen DEF ChecksOK
  <2> QED
    BY <1>0, <1>18, <2>4 DEF ChecksOK, AnswersNow
<1>19. ASSUME NEW r \in Rows, Suspend(r) PROVE ChecksOK'
  BY <1>0, <1>19 DEF ChecksOK, Suspend, checkVars
<1>20. ASSUME NEW r \in Rows, NEW how \in {"done", "interrupted", "cut"}, RunEnds(r, how)
       PROVE ChecksOK'
  <2>1. seen[r] # None => seen[r].answer \in Answer
    BY <1>0 DEF ChecksOK, Seen
  <2>2. told' \in [Rows -> SUBSET Answer]
    BY <1>0, <2>1, <1>20 DEF ChecksOK, RunEnds
  <2> QED
    BY <1>0, <1>20, <2>2 DEF ChecksOK, RunEnds
<1>21. ASSUME NEW r \in Rows, NEW u \in Users,
                 \/ EditField(r, u) \/ EditSchedule(r, u)
                 \/ \E url \in Urls \cup {NoUrl} : EditUrl(r, u, url)
       PROVE ChecksOK'
  BY <1>0, <1>21 DEF ChecksOK, EditField, EditSchedule, EditUrl, Save, checkVars
<1>22. ASSUME NEW p \in Projects, TakePlace(p) PROVE ChecksOK'
  BY <1>0, <1>22 DEF ChecksOK, TakePlace, checkVars
<1>23. ASSUME NEW p \in Projects, FreePlace(p) PROVE ChecksOK'
  BY <1>0, <1>23 DEF ChecksOK, FreePlace, checkVars
<1>24. ASSUME NEW u \in Users, LoseOwner(u) PROVE ChecksOK'
  BY <1>0, <1>24 DEF ChecksOK, LoseOwner, checkVars
<1>25. CASE PageMoves
  BY <1>0, <1>25 DEF ChecksOK, PageMoves, checkVars
<1>26. CASE Drain
  BY <1>0, <1>26 DEF ChecksOK, Drain
<1>27. CASE Halt
  BY <1>0, <1>27 DEF ChecksOK, Halt
<1>28. CASE Boot
  BY <1>0, <1>28 DEF ChecksOK, Boot, checkVars
<1>29. CASE UNCHANGED vars
  BY <1>0, <1>29 DEF ChecksOK, vars, checkVars
<1> QED
  BY <1>1, <1>2, <1>3, <1>4, <1>5, <1>6, <1>7, <1>8, <1>9, <1>10, <1>11, <1>12, <1>13, <1>14,
     <1>15, <1>16, <1>17, <1>18, <1>19, <1>20, <1>21, <1>22, <1>23, <1>24, <1>25, <1>26, <1>27,
     <1>28, <1>29, Heads
  DEF Next, LoopStep, Fire

LEMMA ListsItems ==
    ASSUME TypesOK, NEW S \in SUBSET Rows, NEW fires \in Fires(S)
    PROVE  fires \in Seq(Items)
<1>1. IsFiniteSet(S)
  BY FS_Subset
<1>2. Cardinality(S) \in Nat
  BY <1>1, FS_CardinalityType
<1>3. \A r \in S : [id |-> r, was |-> Replaced(r)] \in Items
  BY Replacing DEF Items
<1>4. Read(S) \subseteq Items
  BY <1>3 DEF Read
<1>5. fires \in [1..Cardinality(S) -> Read(S)]
  BY DEF Fires, InOrder
<1>6. fires \in [1..Cardinality(S) -> Items]
  BY <1>4, <1>5
<1> HIDE DEF Items
<1> QED
  BY <1>2, <1>6, SeqDef

LEMMA ClocksFrom == 0 \in 0..MaxTime /\ <<>> \in Seq(Items)
<1>1. <<>> \in Seq(Items)
  BY EmptySeq
<1> QED
  BY <1>1

LEMMA WakeOK ==
    ASSUME LoopOK, Wake
    PROVE  LoopOK'
BY DEF LoopOK, Wake

LEMMA LoopGoes ==
    ASSUME TypesOK, Next \/ UNCHANGED vars
    PROVE  LoopOK'
<1>0. LoopOK
  BY TypesAre
<1>1. ASSUME NEW l \in Items, PassesOver(l) PROVE LoopOK'
  BY <1>0, <1>1, Heads DEF LoopOK, PassesOver, Firing
<1>2. ASSUME NEW l \in Items, Defers(l) PROVE LoopOK'
  BY <1>0, <1>2, Heads DEF LoopOK, Defers, FiresNow, Firing
<1>3. ASSUME NEW l \in Items, Asks(l) PROVE LoopOK'
  BY <1>0, <1>3, Heads DEF LoopOK, Asks, FiresNow, Firing
<1>4. ASSUME NEW l \in Items, Settles(l) PROVE LoopOK'
  BY <1>0, <1>4, Heads DEF LoopOK, Settles, FiresNow, Firing
<1>5. ASSUME NEW l \in Items, FireRuns(l) PROVE LoopOK'
  BY <1>0, <1>5, Heads DEF LoopOK, FireRuns, Attempts, FiresNow, Firing
<1>6. ASSUME NEW l \in Items, FireSkips(l) PROVE LoopOK'
  BY <1>0, <1>6, Heads DEF LoopOK, FireSkips, Attempts, FiresNow, Firing, Unlist
<1>7. ASSUME NEW l \in Items, FireWaits(l) PROVE LoopOK'
  <2>1. CapOf(ProjectOf[l.id]) \in Projects \cup {"process"}
    BY DEF CapOf, Items
  <2> QED
    BY <1>0, <1>7, <2>1, Heads DEF LoopOK, FireWaits, Attempts, FiresNow, Firing
<1>8. ASSUME NEW l \in Items, FireLeaves(l) PROVE LoopOK'
  BY <1>0, <1>8, Heads DEF LoopOK, FireLeaves, Attempts, FiresNow, Firing, Unlist
<1>9. ASSUME NEW l \in Items, FireFails(l) PROVE LoopOK'
  BY <1>0, <1>9, Heads DEF LoopOK, FireFails, Attempts, FiresNow, Firing
<1>10. CASE PassDrains
  BY <1>0, <1>10 DEF LoopOK, PassDrains
<1>11. CASE PassBegins
  <2> DEFINE rows == {r \in Rows : Due(r)} \cup cut
  <2>1. rows \subseteq Rows /\ clock \in 0..MaxTime
    BY TypesAre DEF ChecksOK, WorldOK
  <2>2. list' \in Seq(Items)
    BY <1>11, <2>1, ListsItems DEF PassBegins
  <2>3. passAt' \in 0..MaxTime
    BY <1>11, <2>1, ClocksFrom DEF PassBegins
  <2>4. loop' \in {"asleep", "firing"} /\ moved' = FALSE /\ full' = full
    BY <1>11 DEF PassBegins
  <2> QED
    BY <1>0, <2>2, <2>3, <2>4 DEF LoopOK
<1>12. CASE PassEnds
  BY <1>0, <1>12, ClocksFrom DEF LoopOK, PassEnds
<1>13. CASE Rings
  BY <1>0, <1>13 DEF LoopOK, Rings
<1>14. CASE Tick
  BY <1>0, <1>14 DEF LoopOK, Tick
<1>15. ASSUME NEW r \in Rows, Answers(r) PROVE LoopOK'
  BY <1>0, <1>15, WakeOK DEF Answers
<1>16. ASSUME NEW r \in Rows, RunNow(r) PROVE LoopOK'
  BY <1>0, <1>16 DEF LoopOK, RunNow, loopVars
<1>17. ASSUME NEW r \in Rows, AskNow(r) PROVE LoopOK'
  BY <1>0, <1>17 DEF LoopOK, AskNow, loopVars
<1>18. ASSUME NEW r \in Rows, AnswersNow(r) PROVE LoopOK'
  BY <1>0, <1>18 DEF LoopOK, AnswersNow, loopVars
<1>19. ASSUME NEW r \in Rows, Suspend(r) PROVE LoopOK'
  BY <1>0, <1>19, WakeOK DEF Suspend
<1>20. ASSUME NEW r \in Rows, NEW how \in {"done", "interrupted", "cut"}, RunEnds(r, how)
       PROVE LoopOK'
  BY <1>0, <1>20 DEF LoopOK, RunEnds, loopVars
<1>21. ASSUME NEW r \in Rows, NEW u \in Users,
                 \/ EditField(r, u) \/ EditSchedule(r, u)
                 \/ \E url \in Urls \cup {NoUrl} : EditUrl(r, u, url)
       PROVE LoopOK'
  BY <1>0, <1>21, WakeOK DEF EditField, EditSchedule, EditUrl, Save
<1>22. ASSUME NEW p \in Projects, TakePlace(p) PROVE LoopOK'
  BY <1>0, <1>22 DEF LoopOK, TakePlace, loopVars
<1>23. ASSUME NEW p \in Projects, FreePlace(p) PROVE LoopOK'
  BY <1>0, <1>23, WakeOK DEF FreePlace
<1>24. ASSUME NEW u \in Users, LoseOwner(u) PROVE LoopOK'
  BY <1>0, <1>24 DEF LoopOK, LoseOwner, loopVars
<1>25. CASE PageMoves
  BY <1>0, <1>25 DEF LoopOK, PageMoves, loopVars
<1>26. CASE Drain
  BY <1>0, <1>26, WakeOK DEF Drain
<1>27. CASE Halt
  BY <1>0, <1>27, ClocksFrom DEF LoopOK, Halt
<1>28. CASE Boot
  BY <1>0, <1>28 DEF LoopOK, Boot
<1>29. CASE UNCHANGED vars
  BY <1>0, <1>29 DEF LoopOK, vars, loopVars
<1> QED
  BY <1>1, <1>2, <1>3, <1>4, <1>5, <1>6, <1>7, <1>8, <1>9, <1>10, <1>11, <1>12, <1>13, <1>14,
     <1>15, <1>16, <1>17, <1>18, <1>19, <1>20, <1>21, <1>22, <1>23, <1>24, <1>25, <1>26, <1>27,
     <1>28, <1>29, Heads
  DEF Next, LoopStep, Fire

LEMMA TypesGo ==
    ASSUME TypesOK, Next \/ UNCHANGED vars
    PROVE  TypesOK'
BY WorldGoes, RowsGoOn, ChecksGo, LoopGoes, Typed

LEMMA TypesBegin ==
    ASSUME Init
    PROVE  TypesOK
<1>1. 0 \in 0..MaxTime /\ 0 \in 0..Budget
  OBVIOUS
<1>2. ASSUME NEW r \in Rows
      PROVE  /\ [next |-> First[r], url |-> FirstUrl[r], rev |-> 0,
                 owner |-> FirstOwner, last |-> "none", once |-> "armed",
                 saved |-> None, deferred |-> Off] \in Records
             /\ row[r].rev = 0
  <2>1. First[r] \in Times
    BY Spans, TimesIs
  <2>2. FirstUrl[r] \in Urls \cup {NoUrl} /\ FirstOwner \in Users
    OBVIOUS
  <2> QED
    BY <1>1, <2>1, <2>2 DEF Records, Init
<1>3. row \in [Rows -> Records] /\ \A r \in Rows : row[r].rev <= spent
  BY <1>2 DEF Init
<1>4. WorldOK
  BY <1>1 DEF Init, WorldOK
<1>5. ChecksOK
  BY DEF Init, ChecksOK
<1>6. LoopOK
  BY ClocksFrom DEF Init, LoopOK
<1>7. settled \in [Rows -> {Off} \cup Times]
  BY DEF Init
<1> QED
  BY <1>3, <1>4, <1>5, <1>6, <1>7, TypesAre

----------------------------------------------------------------------------
(* An occurrence is settled once *)

\* what is settled is past, and what is next is not
Past == \A r \in Rows : settled[r] <= clock /\ (row[r].next # Off => row[r].next > settled[r])

LEMMA PastGoes ==
    ASSUME TypesOK, TypesOK', RowsGo, clock <= clock', Past
    PROVE  Past'
<1> SUFFICES ASSUME NEW r \in Rows
             PROVE  /\ settled'[r] <= clock'
                    /\ row'[r].next # Off => row'[r].next > settled'[r]
  BY DEF Past
<1> DEFINE x == row[r].next
           y == row'[r].next
           s == settled[r]
           v == settled'[r]
<1>1. Settled(r, row[r], row'[r], s, v)
  BY DEF RowsGo, RowGoes, Goes
<1>2. s <= clock /\ (x # Off => x > s)
  BY DEF Past
<1>3. x \in {Off} \cup Nat /\ s \in {Off} \cup Nat /\ clock \in Nat
  BY Later
<1>4. clock' \in Nat
  BY DEF TypesOK
<1>5. y \in {Off} \cup Nat /\ v \in {Off} \cup Nat
  <2>1. row'[r] \in Records /\ v \in {Off} \cup Times /\ Times \subseteq Nat
    BY TimesHold DEF RowsGo, RowGoes, Goes
  <2> QED
    BY <2>1 DEF Records
<1>6. /\ v = s \/ (v = x /\ x # Off /\ x <= clock)
      /\ \/ y = x /\ v = s
         \/ y = Off \/ y > clock
         \/ (v = x /\ x # Off /\ x <= clock /\ y > v)
  BY <1>1 DEF Settled
<1> HIDE DEF x, y, s, v
<1>7. v <= clock /\ (y # Off => y > v)
  BY <1>2, <1>3, <1>5, <1>6 DEF Off
<1>8. v \in Int /\ v <= clock'
  BY <1>3, <1>4, <1>5, <1>7 DEF Off
<1> QED
  BY <1>7, <1>8 DEF y, v

----------------------------------------------------------------------------
(* The validators are of an answer a run ended with *)

\* what is held of a row: of its revision, with its URL, or of an earlier one
OfRow(x, url, rev) == rev <= x.rev /\ (rev = x.rev => url = x.url)

HeldOf(r) ==
    /\ flying[r] # None => OfRow(row[r], flying[r].url, flying[r].rev)
    /\ ready[r] # None => OfRow(row[r], ready[r].url, ready[r].rev)
    /\ asked[r] # None => OfRow(row[r], asked[r].url, asked[r].rev)
    /\ seen[r] # None => OfRow(row[r], seen[r].answer.url, seen[r].rev)

HeldOK ==
    /\ \A r \in Rows : HeldOf(r)
    /\ \A i \in DOMAIN list : OfRow(row[list[i].id], list[i].was.url, list[i].was.rev)

\* the same of what a step leaves, against the rows it found
FoundOf(r) ==
    /\ flying'[r] # None => OfRow(row[r], flying'[r].url, flying'[r].rev)
    /\ ready'[r] # None => OfRow(row[r], ready'[r].url, ready'[r].rev)
    /\ asked'[r] # None => OfRow(row[r], asked'[r].url, asked'[r].rev)
    /\ seen'[r] # None => OfRow(row[r], seen'[r].answer.url, seen'[r].rev)

FoundList == \A i \in DOMAIN list' : OfRow(row[list'[i].id], list'[i].was.url, list'[i].was.rev)

LEMMA OfRowKept ==
    ASSUME NEW x \in Records, NEW y \in Records, NEW url, NEW rev \in Nat, OfRow(x, url, rev),
           \/ y.rev = x.rev /\ y.url = x.url
           \/ y.rev = x.rev + 1
    PROVE  OfRow(y, url, rev)
<1>1. x.rev \in Nat /\ y.rev \in Nat
  BY DEF Records
<1> QED
  BY <1>1 DEF OfRow

LEMMA FoundHolds ==
    ASSUME TypesOK, TypesOK', RowsGo, \A r \in Rows : FoundOf(r), FoundList
    PROVE  HeldOK'
<1>1. ASSUME NEW r \in Rows, NEW url, NEW rev \in Nat, OfRow(row[r], url, rev)
      PROVE  OfRow(row'[r], url, rev)
  <2>1. row[r] \in Records /\ row'[r] \in Records
    BY Later DEF RowsGo, RowGoes, Goes
  <2>2. Edited(r, row[r], row'[r]) \/ Ends(r, row[r], row'[r])
    BY DEF RowsGo, RowGoes, Goes
  <2> QED
    BY <1>1, <2>1, <2>2, OfRowKept DEF Edited, Ends
<1>2. ASSUME NEW r \in Rows PROVE HeldOf(r)'
  <2>1. /\ flying'[r] # None => flying'[r].rev \in Nat
        /\ ready'[r] # None => ready'[r].rev \in Nat
        /\ asked'[r] # None => asked'[r].rev \in Nat
        /\ seen'[r] # None => seen'[r].rev \in Nat
    <3>1. /\ flying'[r] \in {None} \cup Flights /\ ready'[r] \in {None} \cup Held
          /\ asked'[r] \in {None} \cup Asked /\ seen'[r] \in {None} \cup Seen
      BY DEF TypesOK
    <3> QED
      BY <3>1 DEF Flights, Held, Asked, Seen
  <2>2. FoundOf(r)
    OBVIOUS
  <2> QED
    BY <1>1, <2>1, <2>2 DEF HeldOf, FoundOf
<1>3. ASSUME NEW i \in DOMAIN list'
      PROVE  OfRow(row'[list'[i].id], list'[i].was.url, list'[i].was.rev)
  <2>1. list'[i] \in Items
    BY ElementOfSeq, LenProperties DEF TypesOK
  <2>2. list'[i].id \in Rows /\ list'[i].was.rev \in Nat
    BY <2>1 DEF Items, Records
  <2> QED
    BY <1>1, <2>2 DEF FoundList
<1> QED
  BY <1>2, <1>3 DEF HeldOK

LEMMA Found ==
    ASSUME TypesOK, HeldOK, Next \/ UNCHANGED vars
    PROVE  \A r \in Rows : FoundOf(r)
<1>0. \A r \in Rows : HeldOf(r)
  BY DEF HeldOK
<1>a. list # <<>> => OfRow(row[Head(list).id], Head(list).was.url, Head(list).was.rev)
  <2>1. ASSUME list # <<>> PROVE 1 \in DOMAIN list /\ Head(list) = list[1]
    BY <2>1, EmptySeq, LenProperties DEF TypesOK
  <2> QED
    BY <2>1 DEF HeldOK
<1>b. ChecksOK
  BY TypesAre
<1>1. ASSUME NEW l \in Items, PassesOver(l) PROVE \A q \in Rows : FoundOf(q)
  BY <1>0, <1>b, <1>1 DEF HeldOf, FoundOf, ChecksOK, PassesOver, Firing
<1>2. ASSUME NEW l \in Items, Defers(l) PROVE \A q \in Rows : FoundOf(q)
  BY <1>0, <1>b, <1>2 DEF HeldOf, FoundOf, ChecksOK, Defers, FiresNow, Firing
<1>3. ASSUME NEW l \in Items, Asks(l) PROVE \A q \in Rows : FoundOf(q)
  <2>1. OfRow(row[l.id], l.was.url, l.was.rev)
    BY <1>a, <1>3 DEF Asks, FiresNow, Firing
  <2> QED
    BY <1>0, <1>b, <1>3, <2>1 DEF HeldOf, FoundOf, Asks, FiresNow, Firing, ChecksOK
<1>4. ASSUME NEW l \in Items, Settles(l) PROVE \A q \in Rows : FoundOf(q)
  BY <1>0, <1>b, <1>4 DEF HeldOf, FoundOf, ChecksOK, Settles, FiresNow, Firing
<1>5. ASSUME NEW l \in Items, FireRuns(l) PROVE \A q \in Rows : FoundOf(q)
  <2>1. Starts(l.id, Source(l.id), Taken(l)) /\ Taken(l) \in {None, ready[l.id]} /\ l.id \in Rows
    BY <1>5 DEF FireRuns, Taken, Items
  <2>2. /\ flying' = flying /\ asked' = asked
        /\ \A r \in Rows : ready'[r] \in {None, ready[r]}
    BY <1>b, <1>5 DEF FireRuns, Attempts, FiresNow, Firing, ChecksOK
  <2>3. ASSUME NEW r \in Rows, seen'[r] # None
        PROVE  OfRow(row[r], seen'[r].answer.url, seen'[r].rev)
    BY <1>0, <1>b, <2>1, <2>3 DEF Starts, HeldOf, ChecksOK
  <2> QED
    BY <1>0, <2>2, <2>3 DEF HeldOf, FoundOf
<1>6. ASSUME NEW l \in Items, FireSkips(l) PROVE \A q \in Rows : FoundOf(q)
  BY <1>0, <1>b, <1>6 DEF HeldOf, FoundOf, ChecksOK, FireSkips, Attempts, FiresNow, Firing
<1>7. ASSUME NEW l \in Items, FireWaits(l) PROVE \A q \in Rows : FoundOf(q)
  BY <1>0, <1>b, <1>7 DEF HeldOf, FoundOf, ChecksOK, FireWaits, Attempts, FiresNow, Firing
<1>8. ASSUME NEW l \in Items, FireLeaves(l) PROVE \A q \in Rows : FoundOf(q)
  BY <1>0, <1>b, <1>8 DEF HeldOf, FoundOf, ChecksOK, FireLeaves, Attempts, FiresNow, Firing
<1>9. ASSUME NEW l \in Items, FireFails(l) PROVE \A q \in Rows : FoundOf(q)
  BY <1>0, <1>b, <1>9 DEF HeldOf, FoundOf, ChecksOK, FireFails, Attempts, FiresNow, Firing
<1>10. CASE PassDrains
  BY <1>0, <1>b, <1>10 DEF HeldOf, FoundOf, ChecksOK, PassDrains, checkVars
<1>11. CASE PassBegins
  BY <1>0, <1>b, <1>11 DEF HeldOf, FoundOf, ChecksOK, PassBegins
<1>12. CASE PassEnds
  BY <1>0, <1>b, <1>12 DEF HeldOf, FoundOf, ChecksOK, PassEnds, checkVars
<1>13. CASE Rings
  BY <1>0, <1>b, <1>13 DEF HeldOf, FoundOf, ChecksOK, Rings, checkVars
<1>14. CASE Tick
  BY <1>0, <1>b, <1>14 DEF HeldOf, FoundOf, ChecksOK, Tick, checkVars
<1>15. ASSUME NEW r \in Rows, Answers(r) PROVE \A q \in Rows : FoundOf(q)
  <2>1. PICK result \in Results(flying[r].saved) :
          ready' = [ready EXCEPT ![r] =
              [result |-> result, url |-> flying[r].url, rev |-> flying[r].rev,
               due |-> flying[r].due, version |-> page]]
    BY <1>15 DEF Answers
  <2>2. ready'[r].url = flying[r].url /\ ready'[r].rev = flying[r].rev
    BY <1>b, <2>1 DEF ChecksOK
  <2>3. \A q \in Rows : q # r => ready'[q] = ready[q]
    BY <1>b, <2>1 DEF ChecksOK
  <2>4. \A q \in Rows : flying'[q] \in {None, flying[q]}
    BY <1>b, <1>15 DEF Answers, ChecksOK
  <2>5. flying[r] # None /\ asked' = asked /\ seen' = seen
    BY <1>15 DEF Answers
  <2> QED
    BY <1>0, <2>2, <2>3, <2>4, <2>5 DEF HeldOf, FoundOf
<1>16. ASSUME NEW r \in Rows, RunNow(r) PROVE \A q \in Rows : FoundOf(q)
  <2>1. \A q \in Rows : seen'[q] \in {None, seen[q]}
    BY <1>b, <1>16 DEF RunNow, Manual, Starts, ChecksOK
  <2> QED
    BY <1>0, <1>16, <2>1 DEF HeldOf, FoundOf, RunNow
<1>17. ASSUME NEW r \in Rows, AskNow(r) PROVE \A q \in Rows : FoundOf(q)
  <2>1. row[r].rev \in Nat
    BY Later
  <2>2. OfRow(row[r], row[r].url, row[r].rev)
    BY <2>1 DEF OfRow
  <2>3. \A q \in Rows : asked'[q] = IF q = r THEN [url |-> row[r].url, rev |-> row[r].rev] ELSE asked[q]
    BY <1>b, <1>17 DEF AskNow, ChecksOK
  <2>4. /\ flying' = flying /\ ready' = ready /\ seen' = seen
        /\ \A q \in Rows : asked'[q] # None => OfRow(row[q], asked'[q].url, asked'[q].rev)
    <3>1. flying' = flying /\ ready' = ready /\ seen' = seen
      BY <1>17 DEF AskNow
    <3>2. asked'[r].url = row[r].url /\ asked'[r].rev = row[r].rev
      <4>1. asked'[r] = [url |-> row[r].url, rev |-> row[r].rev]
        BY <2>3
      <4> QED
        BY <4>1
    <3>3. \A q \in Rows : q # r => asked'[q] = asked[q]
      BY <2>3
    <3> QED
      BY <1>0, <2>2, <3>1, <3>2, <3>3 DEF HeldOf
  <2> QED
    BY <1>0, <2>4 DEF HeldOf, FoundOf
<1>18. ASSUME NEW r \in Rows, AnswersNow(r) PROVE \A q \in Rows : FoundOf(q)
  <2> DEFINE h == [url |-> asked[r].url, rev |-> asked[r].rev, version |-> page]
  <2>1. asked[r] # None /\ h # None
    BY <1>18 DEF AnswersNow, None
  <2>2. OfRow(row[r], h.url, h.rev)
    BY <1>0, <2>1 DEF HeldOf
  <2> HIDE DEF h
  <2>3. seen' = seen \/ Manual(r, None) \/ Manual(r, h)
    BY <1>18 DEF AnswersNow, h
  <2>4. \A q \in Rows : seen'[q] # None => OfRow(row[q], seen'[q].answer.url, seen'[q].rev)
    BY <1>0, <1>b, <2>1, <2>2, <2>3 DEF HeldOf, Manual, Starts, ChecksOK
  <2>5. \A q \in Rows : asked'[q] \in {None, asked[q]}
    BY <1>b, <1>18 DEF AnswersNow, ChecksOK
  <2> QED
    BY <1>0, <1>18, <2>4, <2>5 DEF HeldOf, FoundOf, AnswersNow
<1>19. ASSUME NEW r \in Rows, Suspend(r) PROVE \A q \in Rows : FoundOf(q)
  BY <1>0, <1>b, <1>19 DEF HeldOf, FoundOf, ChecksOK, Suspend, checkVars
<1>20. ASSUME NEW r \in Rows, NEW how \in {"done", "interrupted", "cut"}, RunEnds(r, how)
       PROVE \A q \in Rows : FoundOf(q)
  BY <1>0, <1>b, <1>20 DEF HeldOf, FoundOf, ChecksOK, RunEnds
<1>21. ASSUME NEW r \in Rows, NEW u \in Users,
                 \/ EditField(r, u) \/ EditSchedule(r, u)
                 \/ \E url \in Urls \cup {NoUrl} : EditUrl(r, u, url)
       PROVE \A q \in Rows : FoundOf(q)
  BY <1>0, <1>b, <1>21 DEF HeldOf, FoundOf, ChecksOK, EditField, EditSchedule, EditUrl, Save,
     checkVars
<1>22. ASSUME NEW p \in Projects, TakePlace(p) PROVE \A q \in Rows : FoundOf(q)
  BY <1>0, <1>b, <1>22 DEF HeldOf, FoundOf, ChecksOK, TakePlace, checkVars
<1>23. ASSUME NEW p \in Projects, FreePlace(p) PROVE \A q \in Rows : FoundOf(q)
  BY <1>0, <1>b, <1>23 DEF HeldOf, FoundOf, ChecksOK, FreePlace, checkVars
<1>24. ASSUME NEW u \in Users, LoseOwner(u) PROVE \A q \in Rows : FoundOf(q)
  BY <1>0, <1>b, <1>24 DEF HeldOf, FoundOf, ChecksOK, LoseOwner, checkVars
<1>25. CASE PageMoves
  BY <1>0, <1>b, <1>25 DEF HeldOf, FoundOf, ChecksOK, PageMoves, checkVars
<1>26. CASE Drain
  BY <1>0, <1>b, <1>26 DEF HeldOf, FoundOf, ChecksOK, Drain
<1>27. CASE Halt
  BY <1>0, <1>b, <1>27 DEF HeldOf, FoundOf, ChecksOK, Halt
<1>28. CASE Boot
  BY <1>0, <1>b, <1>28 DEF HeldOf, FoundOf, ChecksOK, Boot, checkVars
<1>29. CASE UNCHANGED vars
  BY <1>0, <1>b, <1>29 DEF HeldOf, FoundOf, ChecksOK, vars, checkVars
<1> QED
  BY <1>1, <1>2, <1>3, <1>4, <1>5, <1>6, <1>7, <1>8, <1>9, <1>10, <1>11, <1>12, <1>13, <1>14,
     <1>15, <1>16, <1>17, <1>18, <1>19, <1>20, <1>21, <1>22, <1>23, <1>24, <1>25, <1>26, <1>27,
     <1>28, <1>29, Heads
  DEF Next, LoopStep, Fire

LEMMA FoundTail ==
    ASSUME TypesOK, HeldOK, list # <<>>, list' = Tail(list)
    PROVE  FoundList
<1>1. list \in Seq(Items)
  BY DEF TypesOK
<1>2. /\ Tail(list) \in Seq(Items)
      /\ \A i \in DOMAIN Tail(list) : i + 1 \in DOMAIN list /\ Tail(list)[i] = list[i + 1]
  BY <1>1, HeadTailProperties, LenProperties
<1> QED
  BY <1>2 DEF FoundList, HeldOK

LEMMA FoundListed ==
    ASSUME TypesOK, NEW S \in SUBSET Rows, list' \in Fires(S)
    PROVE  FoundList
<1>1. list' \in [1..Cardinality(S) -> Read(S)]
  BY DEF Fires, InOrder
<1>2. ASSUME NEW i \in DOMAIN list'
      PROVE  OfRow(row[list'[i].id], list'[i].was.url, list'[i].was.rev)
  <2>1. PICK r \in S : list'[i] = [id |-> r, was |-> Replaced(r)]
    BY <1>1, <1>2 DEF Read
  <2>2. Replaced(r).rev = row[r].rev /\ Replaced(r).url = row[r].url /\ row[r].rev \in Nat
    BY Replacing, Later
  <2> QED
    BY <2>1, <2>2 DEF OfRow
<1> QED
  BY <1>2 DEF FoundList

LEMMA ListFound ==
    ASSUME TypesOK, HeldOK, Next \/ UNCHANGED vars
    PROVE  FoundList
<1>a. list' = list => FoundList
  BY DEF HeldOK, FoundList
<1>b. list # <<>> /\ list' = Tail(list) => FoundList
  BY FoundTail
<1>c. \A S \in SUBSET Rows : list' \in Fires(S) => FoundList
  BY FoundListed
<1>d. cut \subseteq Rows
  BY DEF TypesOK
<1>1. ASSUME NEW l \in Items, PassesOver(l) PROVE FoundList
  BY <1>1, <1>b DEF PassesOver, Firing
<1>2. ASSUME NEW l \in Items, Defers(l) PROVE FoundList
  BY <1>2, <1>b DEF Defers, FiresNow, Firing
<1>3. ASSUME NEW l \in Items, Asks(l) PROVE FoundList
  BY <1>3, <1>b DEF Asks, FiresNow, Firing
<1>4. ASSUME NEW l \in Items, Settles(l) PROVE FoundList
  BY <1>4, <1>b DEF Settles, FiresNow, Firing
<1>5. ASSUME NEW l \in Items, FireRuns(l) PROVE FoundList
  BY <1>5, <1>b DEF FireRuns, Attempts, FiresNow, Firing
<1>6. ASSUME NEW l \in Items, FireSkips(l) PROVE FoundList
  BY <1>6, <1>b DEF FireSkips, Attempts, FiresNow, Firing
<1>7. ASSUME NEW l \in Items, FireWaits(l) PROVE FoundList
  BY <1>7, <1>b DEF FireWaits, Attempts, FiresNow, Firing
<1>8. ASSUME NEW l \in Items, FireLeaves(l) PROVE FoundList
  BY <1>8, <1>b DEF FireLeaves, Attempts, FiresNow, Firing
<1>9. ASSUME NEW l \in Items, FireFails(l) PROVE FoundList
  BY <1>9, <1>b DEF FireFails, Attempts, FiresNow, Firing
<1>10. CASE PassDrains
  BY <1>a, <1>10 DEF PassDrains
<1>11. CASE PassBegins
  BY <1>11, <1>c, <1>d DEF PassBegins
<1>12. CASE PassEnds
  BY <1>a, <1>12 DEF PassEnds
<1>13. CASE Rings
  BY <1>a, <1>13 DEF Rings
<1>14. CASE Tick
  BY <1>a, <1>14 DEF Tick
<1>15. ASSUME NEW r \in Rows, Answers(r) PROVE FoundList
  BY <1>a, <1>15 DEF Answers, Wake
<1>16. ASSUME NEW r \in Rows, RunNow(r) PROVE FoundList
  BY <1>a, <1>16 DEF RunNow, loopVars
<1>17. ASSUME NEW r \in Rows, AskNow(r) PROVE FoundList
  BY <1>a, <1>17 DEF AskNow, loopVars
<1>18. ASSUME NEW r \in Rows, AnswersNow(r) PROVE FoundList
  BY <1>a, <1>18 DEF AnswersNow, loopVars
<1>19. ASSUME NEW r \in Rows, Suspend(r) PROVE FoundList
  BY <1>a, <1>19 DEF Suspend, Wake
<1>20. ASSUME NEW r \in Rows, NEW how \in {"done", "interrupted", "cut"}, RunEnds(r, how)
       PROVE FoundList
  BY <1>a, <1>20 DEF RunEnds, loopVars
<1>21. ASSUME NEW r \in Rows, NEW u \in Users,
                 \/ EditField(r, u) \/ EditSchedule(r, u)
                 \/ \E url \in Urls \cup {NoUrl} : EditUrl(r, u, url)
       PROVE FoundList
  BY <1>a, <1>21 DEF EditField, EditSchedule, EditUrl, Save, Wake
<1>22. ASSUME NEW p \in Projects, TakePlace(p) PROVE FoundList
  BY <1>a, <1>22 DEF TakePlace, loopVars
<1>23. ASSUME NEW p \in Projects, FreePlace(p) PROVE FoundList
  BY <1>a, <1>23 DEF FreePlace, Wake
<1>24. ASSUME NEW u \in Users, LoseOwner(u) PROVE FoundList
  BY <1>a, <1>24 DEF LoseOwner, loopVars
<1>25. CASE PageMoves
  BY <1>a, <1>25 DEF PageMoves, loopVars
<1>26. CASE Drain
  BY <1>a, <1>26 DEF Drain, Wake
<1>27. CASE Halt
  BY <1>27 DEF Halt, FoundList
<1>28. CASE Boot
  BY <1>a, <1>28 DEF Boot
<1>29. CASE UNCHANGED vars
  BY <1>a, <1>29 DEF vars, loopVars
<1> QED
  BY <1>1, <1>2, <1>3, <1>4, <1>5, <1>6, <1>7, <1>8, <1>9, <1>10, <1>11, <1>12, <1>13, <1>14,
     <1>15, <1>16, <1>17, <1>18, <1>19, <1>20, <1>21, <1>22, <1>23, <1>24, <1>25, <1>26, <1>27,
     <1>28, <1>29, Heads
  DEF Next, LoopStep, Fire

LEMMA HeldGoes ==
    ASSUME TypesOK, TypesOK', RowsGo, HeldOK, Next \/ UNCHANGED vars
    PROVE  HeldOK'
BY Found, ListFound, FoundHolds

LEMMA ToldGrows ==
    ASSUME TypesOK, Next \/ UNCHANGED vars
    PROVE  \A r \in Rows : told[r] \subseteq told'[r]
<1>0. told \in [Rows -> SUBSET Answer]
  BY DEF TypesOK
<1>1. ASSUME NEW l \in Items, PassesOver(l) PROVE \A q \in Rows : told[q] \subseteq told'[q]
  BY <1>1 DEF PassesOver, Firing
<1>2. ASSUME NEW l \in Items, Defers(l) PROVE \A q \in Rows : told[q] \subseteq told'[q]
  BY <1>2 DEF Defers, FiresNow, Firing
<1>3. ASSUME NEW l \in Items, Asks(l) PROVE \A q \in Rows : told[q] \subseteq told'[q]
  BY <1>3 DEF Asks, FiresNow, Firing
<1>4. ASSUME NEW l \in Items, Settles(l) PROVE \A q \in Rows : told[q] \subseteq told'[q]
  BY <1>4 DEF Settles, FiresNow, Firing
<1>5. ASSUME NEW l \in Items, FireRuns(l) PROVE \A q \in Rows : told[q] \subseteq told'[q]
  BY <1>5 DEF FireRuns, Attempts, FiresNow, Firing
<1>6. ASSUME NEW l \in Items, FireSkips(l) PROVE \A q \in Rows : told[q] \subseteq told'[q]
  BY <1>6 DEF FireSkips, Attempts, FiresNow, Firing
<1>7. ASSUME NEW l \in Items, FireWaits(l) PROVE \A q \in Rows : told[q] \subseteq told'[q]
  BY <1>7 DEF FireWaits, Attempts, FiresNow, Firing
<1>8. ASSUME NEW l \in Items, FireLeaves(l) PROVE \A q \in Rows : told[q] \subseteq told'[q]
  BY <1>8 DEF FireLeaves, Attempts, FiresNow, Firing
<1>9. ASSUME NEW l \in Items, FireFails(l) PROVE \A q \in Rows : told[q] \subseteq told'[q]
  BY <1>9 DEF FireFails, Attempts, FiresNow, Firing
<1>10. CASE PassDrains
  BY <1>10 DEF PassDrains, checkVars
<1>11. CASE PassBegins
  BY <1>11 DEF PassBegins
<1>12. CASE PassEnds
  BY <1>12 DEF PassEnds, checkVars
<1>13. CASE Rings
  BY <1>13 DEF Rings, checkVars
<1>14. CASE Tick
  BY <1>14 DEF Tick, checkVars
<1>15. ASSUME NEW r \in Rows, Answers(r) PROVE \A q \in Rows : told[q] \subseteq told'[q]
  BY <1>15 DEF Answers
<1>16. ASSUME NEW r \in Rows, RunNow(r) PROVE \A q \in Rows : told[q] \subseteq told'[q]
  BY <1>16 DEF RunNow
<1>17. ASSUME NEW r \in Rows, AskNow(r) PROVE \A q \in Rows : told[q] \subseteq told'[q]
  BY <1>17 DEF AskNow
<1>18. ASSUME NEW r \in Rows, AnswersNow(r) PROVE \A q \in Rows : told[q] \subseteq told'[q]
  BY <1>18 DEF AnswersNow
<1>19. ASSUME NEW r \in Rows, Suspend(r) PROVE \A q \in Rows : told[q] \subseteq told'[q]
  BY <1>19 DEF Suspend, checkVars
<1>20. ASSUME NEW r \in Rows, NEW how \in {"done", "interrupted", "cut"}, RunEnds(r, how)
       PROVE \A q \in Rows : told[q] \subseteq told'[q]
  BY <1>0, <1>20 DEF RunEnds
<1>21. ASSUME NEW r \in Rows, NEW u \in Users,
                 \/ EditField(r, u) \/ EditSchedule(r, u)
                 \/ \E url \in Urls \cup {NoUrl} : EditUrl(r, u, url)
       PROVE \A q \in Rows : told[q] \subseteq told'[q]
  BY <1>21 DEF EditField, EditSchedule, EditUrl, Save, checkVars
<1>22. ASSUME NEW p \in Projects, TakePlace(p) PROVE \A q \in Rows : told[q] \subseteq told'[q]
  BY <1>22 DEF TakePlace, checkVars
<1>23. ASSUME NEW p \in Projects, FreePlace(p) PROVE \A q \in Rows : told[q] \subseteq told'[q]
  BY <1>23 DEF FreePlace, checkVars
<1>24. ASSUME NEW u \in Users, LoseOwner(u) PROVE \A q \in Rows : told[q] \subseteq told'[q]
  BY <1>24 DEF LoseOwner, checkVars
<1>25. CASE PageMoves
  BY <1>25 DEF PageMoves, checkVars
<1>26. CASE Drain
  BY <1>26 DEF Drain
<1>27. CASE Halt
  BY <1>27 DEF Halt
<1>28. CASE Boot
  BY <1>28 DEF Boot, checkVars
<1>29. CASE UNCHANGED vars
  BY <1>29 DEF vars, checkVars
<1> QED
  BY <1>1, <1>2, <1>3, <1>4, <1>5, <1>6, <1>7, <1>8, <1>9, <1>10, <1>11, <1>12, <1>13, <1>14,
     <1>15, <1>16, <1>17, <1>18, <1>19, <1>20, <1>21, <1>22, <1>23, <1>24, <1>25, <1>26, <1>27,
     <1>28, <1>29, Heads
  DEF Next, LoopStep, Fire

LEMMA SavedGoes ==
    ASSUME TypesOK, TypesOK', RowsGo, HeldOK, SavedTold, \A r \in Rows : told[r] \subseteq told'[r]
    PROVE  SavedTold'
<1> SUFFICES ASSUME NEW r \in Rows, row'[r].saved # None
             PROVE  row'[r].saved.url = row'[r].url /\ row'[r].saved \in told'[r]
  BY DEF SavedTold
<1>1. Edited(r, row[r], row'[r]) \/ Ends(r, row[r], row'[r])
  BY DEF RowsGo, RowGoes, Goes
<1>2. row[r].saved # None => row[r].saved.url = row[r].url /\ row[r].saved \in told[r]
  BY DEF SavedTold
<1>3. CASE Edited(r, row[r], row'[r])
  BY <1>2, <1>3 DEF Edited
<1>4. CASE Ends(r, row[r], row'[r])
  <2>1. OfRow(row[r], seen[r].answer.url, seen[r].rev)
    BY <1>4 DEF Ends, HeldOK, HeldOf
  <2> QED
    BY <1>4, <2>1 DEF Ends, OfRow
<1> QED
  BY <1>1, <1>3, <1>4

----------------------------------------------------------------------------
(* Places *)

\* the places that others hold when project p has o[p] of them, and those of
\* the runs of the rows T
Placed(o) == UNION {{p} \X (1..o[p]) : p \in Projects}
AllBy(o, T) == Cardinality(Placed(o)) + Cardinality(T)
UsedBy(o, T, p) == o[p] + Cardinality({r \in T : ProjectOf[r] = p})
RunsAll == {r \in Rows : Running(r)}

LEMMA UsedIs ==
    /\ UsedAll = AllBy(others, RunsAll)
    /\ \A p \in Projects : Used(p) = UsedBy(others, RunsAll, p)
<1>1. OthersAll = Placed(others)
  BY DEF OthersAll, Placed
<1>2. ASSUME NEW p \in Projects
      PROVE {r \in RunsAll : ProjectOf[r] = p} = {r \in Rows : ProjectOf[r] = p /\ Running(r)}
  BY DEF RunsAll
<1> QED
  BY <1>1, <1>2 DEF UsedAll, AllBy, UsedBy, Used, RunsAll

LEMMA PlacedIs ==
    ASSUME NEW o \in [Projects -> Nat]
    PROVE  /\ IsFiniteSet(Placed(o)) /\ Cardinality(Placed(o)) \in Nat
           /\ \A p \in Projects : o[p] <= Cardinality(Placed(o))
<1> DEFINE Of(p) == {p} \X (1..o[p])
           All == {Of(p) : p \in Projects}
<1>1. ASSUME NEW p \in Projects PROVE IsFiniteSet(Of(p)) /\ Cardinality(Of(p)) = o[p]
  <2>1. o[p] \in Nat
    OBVIOUS
  <2>2. IsFiniteSet(1..o[p]) /\ Cardinality(1..o[p]) = o[p]
    BY <2>1, FS_Interval
  <2>3. IsFiniteSet({p}) /\ Cardinality({p}) = 1
    BY FS_Singleton
  <2>4. IsFiniteSet(Of(p)) /\ Cardinality(Of(p)) = 1 * o[p]
    BY <2>2, <2>3, FS_Product
  <2> HIDE DEF Of
  <2> QED
    BY <2>1, <2>4
<1>2. IsFiniteSet(All)
  <2> DEFINE f == [p \in Projects |-> Of(p)]
  <2> HIDE DEF Of
  <2>1. f \in Surjection(Projects, All)
    BY DEF Surjection
  <2> HIDE DEF f, All
  <2> QED
    BY <2>1, FS_Surjection
<1>3. Placed(o) = UNION All
  BY DEF Placed
<1>4. \A p \in Projects : Of(p) \subseteq UNION All /\ Of(p) \in All
  OBVIOUS
<1>5. \A A \in All : IsFiniteSet(A)
  BY <1>1
<1> HIDE DEF Of, All
<1>6. IsFiniteSet(Placed(o))
  BY <1>2, <1>3, <1>5, FS_UNION
<1>7. Cardinality(Placed(o)) \in Nat
  BY <1>6, FS_CardinalityType
<1>8. ASSUME NEW p \in Projects PROVE o[p] <= Cardinality(Placed(o))
  <2>1. Of(p) \in SUBSET Placed(o)
    BY <1>3, <1>4
  <2> QED
    BY <1>1, <1>6, <2>1, FS_Subset
<1> QED
  BY <1>6, <1>7, <1>8

LEMMA PlacedMore ==
    ASSUME NEW o \in [Projects -> Nat], NEW p \in Projects, NEW d, d = [o EXCEPT ![p] = @ + 1]
    PROVE  /\ d \in [Projects -> Nat]
           /\ Cardinality(Placed(d)) = Cardinality(Placed(o)) + 1
<1>1. o[p] \in Nat /\ d[p] = o[p] + 1 /\ \A q \in Projects : q # p => d[q] = o[q]
  OBVIOUS
<1>2. <<p, o[p] + 1>> \notin Placed(o)
  BY <1>1 DEF Placed
<1>3. ASSUME NEW q \in Projects, q # p PROVE {q} \X (1..d[q]) = {q} \X (1..o[q])
  BY <1>1, <1>3
<1>4. {p} \X (1..d[p]) = ({p} \X (1..o[p])) \cup {<<p, o[p] + 1>>}
  <2>1. 1..d[p] = (1..o[p]) \cup {o[p] + 1}
    BY <1>1
  <2> QED
    BY <2>1
<1>5. Placed(d) = Placed(o) \cup {<<p, o[p] + 1>>}
  <2>1. ASSUME NEW e \in Placed(d) PROVE e \in Placed(o) \cup {<<p, o[p] + 1>>}
    <3>1. PICK q \in Projects : e \in {q} \X (1..d[q])
      BY DEF Placed
    <3> QED
      BY <1>3, <1>4, <3>1 DEF Placed
  <2>2. ASSUME NEW e \in Placed(o) PROVE e \in Placed(d)
    <3>1. PICK q \in Projects : e \in {q} \X (1..o[q])
      BY DEF Placed
    <3>2. e \in {q} \X (1..d[q])
      BY <1>3, <1>4, <3>1
    <3> QED
      BY <3>2 DEF Placed
  <2>3. <<p, o[p] + 1>> \in Placed(d)
    BY <1>4 DEF Placed
  <2> QED
    BY <2>1, <2>2, <2>3
<1>6. IsFiniteSet(Placed(o))
  BY PlacedIs
<1>7. Cardinality(Placed(d)) = Cardinality(Placed(o)) + 1
  BY <1>2, <1>5, <1>6, FS_AddElement
<1>8. d \in [Projects -> Nat]
  BY <1>1
<1> QED
  BY <1>7, <1>8

LEMMA PlacedLess ==
    ASSUME NEW o \in [Projects -> Nat], NEW p \in Projects, o[p] > 0,
           NEW d, d = [o EXCEPT ![p] = @ - 1]
    PROVE  /\ d \in [Projects -> Nat]
           /\ Cardinality(Placed(d)) + 1 = Cardinality(Placed(o))
<1>1. o[p] - 1 \in Nat /\ d[p] = o[p] - 1 /\ (o[p] - 1) + 1 = o[p]
  OBVIOUS
<1>2. d \in [Projects -> Nat]
  BY <1>1
<1>3. o = [d EXCEPT ![p] = @ + 1]
  BY <1>1, <1>2
<1> QED
  BY <1>2, <1>3, PlacedMore

LEMMA PlacedNone ==
    ASSUME NEW o, o = [p \in Projects |-> 0]
    PROVE  o \in [Projects -> Nat] /\ Cardinality(Placed(o)) = 0
<1>1. Placed(o) = {}
  BY DEF Placed
<1> QED
  BY <1>1, FS_EmptySet

LEMMA RunsFinite ==
    ASSUME NEW T \in SUBSET Rows, NEW p
    PROVE  /\ IsFiniteSet(T) /\ Cardinality(T) \in Nat
           /\ IsFiniteSet({r \in T : ProjectOf[r] = p})
           /\ Cardinality({r \in T : ProjectOf[r] = p}) \in Nat
<1>1. IsFiniteSet(T)
  BY FS_Subset
<1>2. {r \in T : ProjectOf[r] = p} \in SUBSET T
  OBVIOUS
<1>3. IsFiniteSet({r \in T : ProjectOf[r] = p})
  BY <1>1, <1>2, FS_Subset
<1> QED
  BY <1>1, <1>3, FS_CardinalityType

\* a run begins
LEMMA BegunCounts ==
    ASSUME NEW o \in [Projects -> Nat], NEW T \in SUBSET Rows, NEW r \in Rows, r \notin T
    PROVE  /\ AllBy(o, T \cup {r}) = AllBy(o, T) + 1
           /\ \A p \in Projects : UsedBy(o, T \cup {r}, p) >= UsedBy(o, T, p)
<1>1. Cardinality(T \cup {r}) = Cardinality(T) + 1 /\ Cardinality(T) \in Nat
  BY RunsFinite, FS_AddElement
<1>2. Cardinality(Placed(o)) \in Nat
  BY PlacedIs
<1>3. ASSUME NEW p \in Projects PROVE UsedBy(o, T \cup {r}, p) >= UsedBy(o, T, p)
  <2> DEFINE V == {q \in T : ProjectOf[q] = p}
             W == {q \in T \cup {r} : ProjectOf[q] = p}
  <2>1. V \in SUBSET W /\ T \cup {r} \in SUBSET Rows
    OBVIOUS
  <2>2. IsFiniteSet(W) /\ Cardinality(W) \in Nat /\ Cardinality(V) \in Nat
    BY <2>1, RunsFinite
  <2>3. UsedBy(o, T, p) = o[p] + Cardinality(V) /\ UsedBy(o, T \cup {r}, p) = o[p] + Cardinality(W)
    BY DEF UsedBy
  <2>4. o[p] \in Nat
    OBVIOUS
  <2> HIDE DEF V, W
  <2>5. Cardinality(V) <= Cardinality(W)
    BY <2>1, <2>2, FS_Subset
  <2> QED
    BY <2>2, <2>3, <2>4, <2>5
<1>4. AllBy(o, T \cup {r}) = AllBy(o, T) + 1
  BY <1>1, <1>2 DEF AllBy
<1> QED
  BY <1>3, <1>4

OneMore(o, p) == [o EXCEPT ![p] = @ + 1]
Without(T, r) == T \ {r}

\* a run's place is another's for a while
LEMMA EndedCounts ==
    ASSUME NEW o \in [Projects -> Nat], NEW T \in SUBSET Rows, NEW r \in T,
           NEW p \in Projects, p = ProjectOf[r], NEW d, d = OneMore(o, p),
           NEW U, U = Without(T, r)
    PROVE  /\ d \in [Projects -> Nat]
           /\ AllBy(d, U) = AllBy(o, T)
           /\ \A q \in Projects : UsedBy(d, U, q) = UsedBy(o, T, q)
<1>2. d \in [Projects -> Nat] /\ Cardinality(Placed(d)) = Cardinality(Placed(o)) + 1
  BY PlacedMore DEF OneMore
<1>3. Cardinality(U) = Cardinality(T) - 1 /\ Cardinality(T) \in Nat
  BY RunsFinite, FS_RemoveElement DEF Without
<1>4. Cardinality(Placed(o)) \in Nat
  BY PlacedIs
<1>5. AllBy(d, U) = AllBy(o, T)
  BY <1>2, <1>3, <1>4 DEF AllBy
<1>7. U = T \ {r} /\ d = [o EXCEPT ![p] = @ + 1]
  BY DEF Without, OneMore
<1>6. ASSUME NEW q \in Projects PROVE UsedBy(d, U, q) = UsedBy(o, T, q)
  <2> DEFINE V == {z \in T : ProjectOf[z] = q}
             W == {z \in U : ProjectOf[z] = q}
  <2>1. IsFiniteSet(V) /\ Cardinality(V) \in Nat
    BY RunsFinite
  <2>2. UsedBy(o, T, q) = o[q] + Cardinality(V) /\ UsedBy(d, U, q) = d[q] + Cardinality(W)
    BY DEF UsedBy
  <2>3. o[q] \in Nat
    OBVIOUS
  <2>4. CASE q = p
    <3>1. W = V \ {r} /\ r \in V
      BY <1>7, <2>4
    <3>2. d[q] = o[q] + 1
      BY <1>7, <2>4
    <3> HIDE DEF V, W
    <3>3. Cardinality(W) = Cardinality(V) - 1
      BY <2>1, <3>1, FS_RemoveElement
    <3> QED
      BY <2>1, <2>2, <2>3, <3>2, <3>3
  <2>5. CASE q # p
    <3>1. W = V /\ d[q] = o[q]
      BY <1>7, <2>5
    <3> QED
      BY <2>2, <3>1
  <2> QED
    BY <2>4, <2>5
<1> QED
  BY <1>2, <1>5, <1>6

\* another takes a place, or lets one go
LEMMA TakenCounts ==
    ASSUME NEW o \in [Projects -> Nat], NEW T \in SUBSET Rows, NEW p \in Projects,
           NEW d, d = [o EXCEPT ![p] = @ + 1]
    PROVE  /\ d \in [Projects -> Nat]
           /\ AllBy(d, T) = AllBy(o, T) + 1
           /\ \A q \in Projects : UsedBy(d, T, q) >= UsedBy(o, T, q)
<1>1. d \in [Projects -> Nat] /\ Cardinality(Placed(d)) = Cardinality(Placed(o)) + 1
  BY PlacedMore
<1>2. Cardinality(T) \in Nat /\ Cardinality(Placed(o)) \in Nat
  BY RunsFinite, PlacedIs
<1>3. ASSUME NEW q \in Projects PROVE UsedBy(d, T, q) >= UsedBy(o, T, q)
  <2>1. d[q] \in Nat /\ o[q] \in Nat /\ d[q] >= o[q]
    BY <1>1
  <2>2. Cardinality({r \in T : ProjectOf[r] = q}) \in Nat
    BY RunsFinite
  <2> QED
    BY <2>1, <2>2 DEF UsedBy
<1>4. AllBy(d, T) = AllBy(o, T) + 1
  BY <1>1, <1>2 DEF AllBy
<1> QED
  BY <1>1, <1>3, <1>4

LEMMA LetGoCounts ==
    ASSUME NEW o \in [Projects -> Nat], NEW T \in SUBSET Rows, NEW p \in Projects, o[p] > 0,
           NEW d, d = [o EXCEPT ![p] = @ - 1]
    PROVE  d \in [Projects -> Nat] /\ AllBy(d, T) <= AllBy(o, T) /\ AllBy(d, T) \in Nat
<1>1. d \in [Projects -> Nat] /\ Cardinality(Placed(d)) + 1 = Cardinality(Placed(o))
  BY PlacedLess
<1>2. Cardinality(T) \in Nat /\ Cardinality(Placed(o)) \in Nat /\ Cardinality(Placed(d)) \in Nat
  BY <1>1, RunsFinite, PlacedIs
<1> QED
  BY <1>1, <1>2 DEF AllBy

\* what a step does to the runs and to the places of others
SameRuns == \A q \in Rows : Running(q)' <=> Running(q)

RunBegins == \E r \in Rows :
    /\ others' = others /\ ~Running(r) /\ RoomFor(ProjectOf[r])
    /\ \A q \in Rows : Running(q)' <=> q = r \/ Running(q)

RunLeaves == \E r \in Rows :
    /\ others' = [others EXCEPT ![ProjectOf[r]] = @ + 1] /\ Running(r)
    /\ \A q \in Rows : Running(q)' <=> q # r /\ Running(q)

PlaceTaken == \E p \in Projects :
    others' = [others EXCEPT ![p] = @ + 1] /\ RoomFor(p) /\ SameRuns

PlaceFreed == \E p \in Projects :
    others' = [others EXCEPT ![p] = @ - 1] /\ others[p] > 0 /\ SameRuns /\ full' = {}

AllFreed ==
    others' = [p \in Projects |-> 0] /\ full' = {} /\ \A q \in Rows : ~Running(q)'

PlacesMove ==
    \/ others' = others /\ SameRuns
    \/ RunBegins \/ RunLeaves \/ PlaceTaken \/ PlaceFreed \/ AllFreed

LEMMA OneSame ==
    ASSUME TypesOK, NEW r \in Rows, NEW y, row' = [row EXCEPT ![r] = y], y.last = row[r].last
    PROVE  SameRuns
<1>1. \A q \in Rows : row'[q] = IF q = r THEN y ELSE row[q]
  BY DEF TypesOK
<1> QED
  BY <1>1 DEF SameRuns, Running

LEMMA MovedSame ==
    ASSUME TypesOK, NEW r \in Rows, NEW n, NEW d, row' = [row EXCEPT ![r] = Moved(row[r], n, d)]
    PROVE  SameRuns
<1> DEFINE y == Moved(row[r], n, d)
<1>1. row[r] \in Records
  BY Later
<1> HIDE DEF y
<1>2. y.last = row[r].last
  BY <1>1, MovedIs DEF y
<1> QED
  BY <1>2, OneSame DEF y

LEMMA StartBegins ==
    ASSUME TypesOK, spent' \in Int, spent <= spent', NEW r \in Rows, NEW source, NEW held,
           Starts(r, source, held), others' = others, ~Running(r), RoomFor(ProjectOf[r])
    PROVE  RunBegins
<1>1. row'[r].last = "running" /\ \A q \in Rows : q # r => row'[q] = row[q]
  BY StartsGo
<1>2. \A q \in Rows : Running(q)' <=> q = r \/ Running(q)
  BY <1>1 DEF Running
<1> QED
  BY <1>2 DEF RunBegins

LEMMA ManualMoves ==
    ASSUME TypesOK, spent' \in Int, spent <= spent', NEW r \in Rows, NEW held, Manual(r, held),
           others' = others
    PROVE  PlacesMove
<1>1. CASE ~Running(r) /\ RoomFor(ProjectOf[r])
  BY <1>1, StartBegins DEF Manual, PlacesMove
<1>2. CASE ~(~Running(r) /\ RoomFor(ProjectOf[r]))
  BY <1>2 DEF Manual, PlacesMove, SameRuns, Running, tableVars
<1> QED
  BY <1>1, <1>2

LEMMA PlacesMoveOn ==
    ASSUME TypesOK, Next \/ UNCHANGED vars
    PROVE  PlacesMove
<1>0. spent' \in Int /\ spent <= spent'
  BY WorldGoes
<1>1. ASSUME NEW l \in Items, PassesOver(l) PROVE PlacesMove
  BY <1>1 DEF PlacesMove, SameRuns, Running, PassesOver, Firing, worldVars, tableVars
<1>2. ASSUME NEW l \in Items, Defers(l) PROVE PlacesMove
  <2>1. row' = [row EXCEPT ![l.id] = Deferred(l.id, row[l.id], clock)] /\ l.id \in Rows
    BY <1>2 DEF Defers, Items
  <2>2. Deferred(l.id, row[l.id], clock).last = row[l.id].last
    <3>1. row[l.id] \in Records
      BY <2>1, Later
    <3> QED
      BY <3>1, Deferring
  <2>3. SameRuns
    BY <2>1, <2>2, OneSame
  <2> QED
    BY <1>2, <2>3 DEF PlacesMove, Defers, FiresNow, Firing
<1>3. ASSUME NEW l \in Items, Asks(l) PROVE PlacesMove
  BY <1>3 DEF PlacesMove, SameRuns, Running, Asks, FiresNow, Firing, worldVars, tableVars
<1>4. ASSUME NEW l \in Items, Settles(l) PROVE PlacesMove
  <2>1. SameRuns
    <3> DEFINE r == l.id
               m == IF Due(r) THEN NextFire(r, clock) ELSE row[r].next
               d == IF ready[r].result = "failed" THEN Off ELSE row[r].deferred
    <3>1. r \in Rows
      BY DEF Items
    <3>2. row' = row \/ row' = [row EXCEPT ![r].next = m, ![r].deferred = d]
      BY <1>4 DEF Settles, tableVars
    <3> HIDE DEF m, d
    <3>3. row' = row \/ row' = [row EXCEPT ![r] = Moved(row[r], m, d)]
      BY <3>1, <3>2 DEF Moved, TypesOK
    <3> QED
      BY <3>1, <3>3, MovedSame DEF SameRuns, Running
  <2> QED
    BY <1>4, <2>1 DEF PlacesMove, Settles, FiresNow, Firing
<1>5. ASSUME NEW l \in Items, FireRuns(l) PROVE PlacesMove
  <2>1. /\ l.id \in Rows /\ Starts(l.id, Source(l.id), Taken(l)) /\ others' = others
        /\ ~Running(l.id) /\ RoomFor(ProjectOf[l.id])
    BY <1>5 DEF FireRuns, Attempts, FiresNow, Firing, Verdict, Items
  <2> QED
    BY <1>0, <2>1, StartBegins DEF PlacesMove
<1>6. ASSUME NEW l \in Items, FireSkips(l) PROVE PlacesMove
  <2>1. SameRuns
    <3> DEFINE m == IF TakesDue(l.id, Source(l.id)) THEN NextFire(l.id, clock) ELSE row[l.id].next
    <3>1. row' = [row EXCEPT ![l.id] = Moved(row[l.id], m, Off)] /\ l.id \in Rows
      BY <1>6 DEF FireSkips, SkippedRow, Moved, Items
    <3> HIDE DEF m
    <3> QED
      BY <3>1, MovedSame
  <2> QED
    BY <1>6, <2>1 DEF PlacesMove, FireSkips, Attempts, FiresNow, Firing
<1>7. ASSUME NEW l \in Items, FireWaits(l) PROVE PlacesMove
  BY <1>7 DEF PlacesMove, SameRuns, Running, FireWaits, Attempts, FiresNow, Firing, worldVars,
     tableVars
<1>8. ASSUME NEW l \in Items, FireLeaves(l) PROVE PlacesMove
  BY <1>8 DEF PlacesMove, SameRuns, Running, FireLeaves, Attempts, FiresNow, Firing, worldVars,
     tableVars
<1>9. ASSUME NEW l \in Items, FireFails(l) PROVE PlacesMove
  <2>1. SameRuns
    <3> DEFINE m == NextFire(l.id, clock)
    <3>1. l.id \in Rows
      BY DEF Items
    <3>2. row' = row \/ row' = [row EXCEPT ![l.id].next = m, ![l.id].deferred = Off]
      BY <1>9 DEF FireFails, tableVars
    <3> HIDE DEF m
    <3>3. row' = row \/ row' = [row EXCEPT ![l.id] = Moved(row[l.id], m, Off)]
      BY <3>1, <3>2 DEF Moved, TypesOK
    <3> QED
      BY <3>1, <3>3, MovedSame DEF SameRuns, Running
  <2> QED
    BY <1>9, <2>1 DEF PlacesMove, FireFails, Attempts, FiresNow, Firing
<1>10. CASE PassDrains
  <2>1. ASSUME NEW r \in Rows PROVE row'[r].last = row[r].last
    BY <1>10, Later, Deferring DEF PassDrains
  <2> QED
    BY <1>10, <2>1 DEF PlacesMove, SameRuns, Running, PassDrains, worldVars
<1>11. CASE PassBegins
  <2>1. ASSUME NEW r \in Rows PROVE row'[r].last = row[r].last
    BY <1>11, Replacing DEF PassBegins
  <2> QED
    BY <1>11, <2>1 DEF PlacesMove, SameRuns, Running, PassBegins, worldVars
<1>12. CASE PassEnds
  BY <1>12 DEF PlacesMove, SameRuns, Running, PassEnds, worldVars, tableVars
<1>13. CASE Rings
  BY <1>13 DEF PlacesMove, SameRuns, Running, Rings, worldVars, tableVars
<1>14. CASE Tick
  BY <1>14 DEF PlacesMove, SameRuns, Running, Tick, worldVars, tableVars
<1>15. ASSUME NEW r \in Rows, Answers(r) PROVE PlacesMove
  BY <1>15 DEF PlacesMove, SameRuns, Running, Answers, worldVars, tableVars
<1>16. ASSUME NEW r \in Rows, RunNow(r) PROVE PlacesMove
  BY <1>0, <1>16, ManualMoves DEF RunNow
<1>17. ASSUME NEW r \in Rows, AskNow(r) PROVE PlacesMove
  BY <1>17 DEF PlacesMove, SameRuns, Running, AskNow, worldVars, tableVars
<1>18. ASSUME NEW r \in Rows, AnswersNow(r) PROVE PlacesMove
  <2>1. others' = others
    BY <1>18 DEF AnswersNow, worldVars
  <2>2. CASE row' = row
    BY <2>1, <2>2 DEF PlacesMove, SameRuns, Running
  <2>3. ASSUME NEW held, Manual(r, held) PROVE PlacesMove
    BY <1>0, <2>1, <2>3, ManualMoves
  <2> QED
    BY <1>18, <2>2, <2>3 DEF AnswersNow, tableVars
<1>19. ASSUME NEW r \in Rows, Suspend(r) PROVE PlacesMove
  <2> DEFINE m == IF row[r].next # Off THEN Off ELSE NextFire(r, clock)
             o == IF row[r].next = Off THEN "armed" ELSE row[r].once
             y == SuspendedRow(row[r], m, o)
  <2>1. row' = [row EXCEPT ![r] = y]
    BY <1>19 DEF Suspend, SuspendedRow
  <2> HIDE DEF m, o, y
  <2>2. y.last = row[r].last
    <3>1. row[r] \in Records
      BY Later
    <3> QED
      BY <3>1, SuspendedRowIs DEF y
  <2>3. SameRuns
    BY <2>1, <2>2, OneSame
  <2> QED
    BY <1>19, <2>3 DEF PlacesMove, Suspend
<1>20. ASSUME NEW r \in Rows, NEW how \in {"done", "interrupted", "cut"}, RunEnds(r, how)
       PROVE PlacesMove
  <2> DEFINE z == IF how = "cut" THEN "cut" ELSE "done"
             v == IF seen[r] # None /\ how = "done" THEN Saved(r, seen[r]) ELSE row[r].saved
             y == Ended(row[r], z, v)
  <2>1. row' = [row EXCEPT ![r] = y]
    BY <1>20 DEF RunEnds, Ended
  <2>2. z # "running"
    OBVIOUS
  <2> HIDE DEF z, v, y
  <2>3. y.last = z
    <3>1. row[r] \in Records
      BY Later
    <3> QED
      BY <3>1, EndedIs DEF y
  <2>4. \A q \in Rows : Running(q)' <=> q # r /\ Running(q)
    BY <2>1, <2>2, <2>3 DEF Running, TypesOK
  <2> QED
    BY <1>20, <2>4 DEF PlacesMove, RunLeaves, RunEnds
<1>21. ASSUME NEW r \in Rows, NEW u \in Users,
                 \/ EditField(r, u) \/ EditSchedule(r, u)
                 \/ \E url \in Urls \cup {NoUrl} : EditUrl(r, u, url)
       PROVE PlacesMove
  <2>1. PICK url, next : Save(r, u, url, next) /\ others' = others
    BY <1>21 DEF EditField, EditSchedule, EditUrl, Save
  <2> DEFINE z == IF url # row[r].url THEN None ELSE row[r].saved
             y == EditedRow(row[r], u, url, z, next)
  <2>2. row' = [row EXCEPT ![r] = y]
    BY <2>1 DEF Save, EditedRow
  <2> HIDE DEF z, y
  <2>3. y.last = row[r].last
    <3>1. row[r] \in Records
      BY Later
    <3> QED
      BY <3>1, EditedRowIs DEF y
  <2>4. SameRuns
    BY <2>2, <2>3, OneSame
  <2> QED
    BY <2>1, <2>4 DEF PlacesMove
<1>22. ASSUME NEW p \in Projects, TakePlace(p) PROVE PlacesMove
  BY <1>22 DEF PlacesMove, PlaceTaken, SameRuns, Running, TakePlace, tableVars
<1>23. ASSUME NEW p \in Projects, FreePlace(p) PROVE PlacesMove
  BY <1>23 DEF PlacesMove, PlaceFreed, SameRuns, Running, FreePlace, Wake, tableVars
<1>24. ASSUME NEW u \in Users, LoseOwner(u) PROVE PlacesMove
  BY <1>24 DEF PlacesMove, SameRuns, Running, LoseOwner, worldVars, tableVars
<1>25. CASE PageMoves
  BY <1>25 DEF PlacesMove, SameRuns, Running, PageMoves, worldVars, tableVars
<1>26. CASE Drain
  BY <1>26 DEF PlacesMove, SameRuns, Running, Drain, worldVars, tableVars
<1>27. CASE Halt
  <2>1. row' = [r \in Rows |-> IF Running(r) THEN CutRow(row[r]) ELSE row[r]]
    BY <1>27 DEF Halt, CutRow
  <2>2. ASSUME NEW r \in Rows PROVE ~Running(r)'
    <3>1. CutRow(row[r]).last = "cut"
      BY Later, CutRowIs
    <3> QED
      BY <2>1, <3>1 DEF Running
  <2> QED
    BY <1>27, <2>2 DEF PlacesMove, AllFreed, Halt
<1>28. CASE Boot
  BY <1>28 DEF PlacesMove, SameRuns, Running, Boot, worldVars, tableVars
<1>29. CASE UNCHANGED vars
  BY <1>29 DEF PlacesMove, SameRuns, Running, vars, worldVars, tableVars
<1> QED
  BY <1>1, <1>2, <1>3, <1>4, <1>5, <1>6, <1>7, <1>8, <1>9, <1>10, <1>11, <1>12, <1>13, <1>14,
     <1>15, <1>16, <1>17, <1>18, <1>19, <1>20, <1>21, <1>22, <1>23, <1>24, <1>25, <1>26, <1>27,
     <1>28, <1>29, Heads
  DEF Next, LoopStep, Fire

PlacesOK == others \in [Projects -> Nat] /\ UsedAll <= ProcessCap

\* a cap marked full has no place left
FullTrue ==
    /\ "process" \in full => UsedAll >= ProcessCap
    /\ \A p \in full \cap Projects : Used(p) >= ProjectCap

UsedGrows == UsedAll <= UsedAll' /\ \A p \in Projects : Used(p) <= Used(p)'

CountsTyped ==
    others \in [Projects -> Nat] =>
        UsedAll \in Nat /\ \A p \in Projects : Used(p) \in Nat /\ others[p] <= UsedAll

LEMMA Counts == CountsTyped
<1> SUFFICES ASSUME others \in [Projects -> Nat]
             PROVE  UsedAll \in Nat /\ \A p \in Projects : Used(p) \in Nat /\ others[p] <= UsedAll
  BY DEF CountsTyped
<1>1. RunsAll \in SUBSET Rows
  BY DEF RunsAll
<1>2. Cardinality(RunsAll) \in Nat /\ Cardinality(Placed(others)) \in Nat
      /\ \A p \in Projects : others[p] <= Cardinality(Placed(others)) /\ others[p] \in Nat
  BY <1>1, RunsFinite, PlacedIs
<1>3. UsedAll \in Nat /\ \A p \in Projects : others[p] <= UsedAll
  BY <1>2, UsedIs DEF AllBy
<1>4. ASSUME NEW p \in Projects PROVE Used(p) \in Nat
  <2>1. Cardinality({r \in RunsAll : ProjectOf[r] = p}) \in Nat
    BY <1>1, RunsFinite
  <2> QED
    BY <1>2, <2>1, UsedIs DEF UsedBy
<1> QED
  BY <1>3, <1>4

UsedSays ==
    /\ UsedAll = AllBy(others, RunsAll)
    /\ \A p \in Projects : Used(p) = UsedBy(others, RunsAll, p)

LEMMA UsedSaysSo == UsedSays
BY UsedIs DEF UsedSays

LEMMA UsedNext ==
    /\ UsedAll' = AllBy(others', RunsAll')
    /\ \A p \in Projects : Used(p)' = UsedBy(others', RunsAll', p)
<1>1. UsedSays'
  BY UsedSaysSo, PTL
<1> QED
  BY <1>1 DEF UsedSays

LEMMA RunsNext ==
    ASSUME SameRuns
    PROVE  RunsAll' = RunsAll
BY DEF SameRuns, RunsAll

LEMMA PlacesGo ==
    ASSUME TypesOK, PlacesOK, PlacesMove
    PROVE  PlacesOK' /\ (full' # {} => UsedGrows)
<1>1. others \in [Projects -> Nat] /\ UsedAll <= ProcessCap /\ RunsAll \in SUBSET Rows
  BY DEF PlacesOK, RunsAll
<1>2. UsedAll \in Nat /\ (\A p \in Projects : Used(p) \in Nat) /\ ProcessCap \in Nat
  BY <1>1, Counts DEF CountsTyped
<1>3. /\ UsedAll = AllBy(others, RunsAll) /\ UsedAll' = AllBy(others', RunsAll')
      /\ \A p \in Projects : /\ Used(p) = UsedBy(others, RunsAll, p)
                             /\ Used(p)' = UsedBy(others', RunsAll', p)
  BY UsedIs, UsedNext
<1>4. CASE others' = others /\ SameRuns
  <2>1. RunsAll' = RunsAll
    BY <1>4, RunsNext
  <2> QED
    BY <1>1, <1>2, <1>3, <1>4, <2>1 DEF PlacesOK, UsedGrows
<1>5. CASE RunBegins
  <2>1. PICK r \in Rows :
          /\ others' = others /\ ~Running(r) /\ RoomFor(ProjectOf[r])
          /\ \A q \in Rows : Running(q)' <=> q = r \/ Running(q)
    BY <1>5 DEF RunBegins
  <2>2. RunsAll' = RunsAll \cup {r} /\ r \notin RunsAll
    BY <2>1 DEF RunsAll
  <2>3. /\ UsedAll' = UsedAll + 1
        /\ \A p \in Projects : Used(p)' >= Used(p)
    BY <1>1, <1>3, <2>1, <2>2, BegunCounts
  <2>4. UsedAll < ProcessCap
    BY <2>1 DEF RoomFor
  <2>5. others' \in [Projects -> Nat]
    BY <1>1, <2>1
  <2>6. \A p \in Projects : Used(p) <= Used(p)'
    BY <2>3
  <2> QED
    BY <1>2, <2>3, <2>4, <2>5, <2>6 DEF PlacesOK, UsedGrows
<1>6. CASE RunLeaves
  <2>1. PICK r \in Rows :
          /\ others' = [others EXCEPT ![ProjectOf[r]] = @ + 1] /\ Running(r)
          /\ \A q \in Rows : Running(q)' <=> q # r /\ Running(q)
    BY <1>6 DEF RunLeaves
  <2>2. RunsAll' = RunsAll \ {r} /\ r \in RunsAll
    BY <2>1 DEF RunsAll
  <2>3. /\ others' \in [Projects -> Nat] /\ UsedAll' = UsedAll
        /\ \A p \in Projects : Used(p)' = Used(p)
    <3> DEFINE d == others'
               T == RunsAll
               U == RunsAll'
               k == ProjectOf[r]
    <3>1. /\ d = OneMore(others, k) /\ k \in Projects /\ k = ProjectOf[r]
          /\ r \in T /\ U = Without(T, r) /\ T \in SUBSET Rows /\ others \in [Projects -> Nat]
      BY <1>1, <2>1, <2>2 DEF OneMore, Without
    <3> HIDE DEF d, T, U, k
    <3>2. /\ d \in [Projects -> Nat] /\ AllBy(d, U) = AllBy(others, T)
          /\ \A p \in Projects : UsedBy(d, U, p) = UsedBy(others, T, p)
      BY <3>1, EndedCounts
    <3> QED
      BY <1>3, <3>2 DEF d, T, U
  <2> QED
    BY <1>1, <1>2, <2>3 DEF PlacesOK, UsedGrows
<1>7. CASE PlaceTaken
  <2>1. PICK p \in Projects :
          others' = [others EXCEPT ![p] = @ + 1] /\ RoomFor(p) /\ SameRuns
    BY <1>7 DEF PlaceTaken
  <2>2. RunsAll' = RunsAll
    BY <2>1, RunsNext
  <2>3. /\ others' \in [Projects -> Nat] /\ UsedAll' = UsedAll + 1
        /\ \A q \in Projects : Used(q)' >= Used(q)
    <3> DEFINE d == others'
               T == RunsAll
    <3>1. /\ d = [others EXCEPT ![p] = @ + 1]
          /\ T \in SUBSET Rows /\ others \in [Projects -> Nat]
      BY <1>1, <2>1
    <3> HIDE DEF d, T
    <3>2. /\ d \in [Projects -> Nat] /\ AllBy(d, T) = AllBy(others, T) + 1
          /\ \A q \in Projects : UsedBy(d, T, q) >= UsedBy(others, T, q)
      BY <3>1, TakenCounts
    <3> QED
      BY <1>3, <2>2, <3>2 DEF d, T
  <2>4. UsedAll < ProcessCap
    BY <2>1 DEF RoomFor
  <2>5. \A q \in Projects : Used(q) <= Used(q)'
    BY <2>3
  <2> QED
    BY <1>2, <2>3, <2>4, <2>5 DEF PlacesOK, UsedGrows
<1>8. CASE PlaceFreed
  <2>1. PICK p \in Projects :
          others' = [others EXCEPT ![p] = @ - 1] /\ others[p] > 0 /\ SameRuns /\ full' = {}
    BY <1>8 DEF PlaceFreed
  <2>2. RunsAll' = RunsAll
    BY <2>1, RunsNext
  <2>3. others' \in [Projects -> Nat] /\ UsedAll' <= UsedAll /\ UsedAll' \in Nat
    BY <1>1, <1>3, <2>1, <2>2, LetGoCounts
  <2> QED
    BY <1>1, <1>2, <2>1, <2>3 DEF PlacesOK
<1>9. CASE AllFreed
  <2>1. RunsAll' = {}
    BY <1>9 DEF AllFreed, RunsAll
  <2>2. others' \in [Projects -> Nat] /\ Cardinality(Placed(others')) = 0
    BY <1>9, PlacedNone DEF AllFreed
  <2>3. UsedAll' = 0
    BY <1>3, <2>1, <2>2, FS_EmptySet DEF AllBy
  <2> QED
    BY <1>2, <1>9, <2>2, <2>3 DEF PlacesOK, AllFreed
<1> QED
  BY <1>4, <1>5, <1>6, <1>7, <1>8, <1>9 DEF PlacesMove

\* what a step may mark full
Marks == full' # {} =>
    \/ full' = full
    \/ \E l \in Items : /\ full' = full \cup {CapOf(ProjectOf[l.id])}
                        /\ ~RoomFor(ProjectOf[l.id])

LEMMA FullGoes ==
    ASSUME TypesOK, PlacesOK, PlacesOK', FullTrue, Marks, full' # {} => UsedGrows
    PROVE  FullTrue'
<1>0. CASE full' = {}
  BY <1>0 DEF FullTrue
<1>a. CASE full' # {}
  <2>1. /\ UsedAll \in Nat /\ \A p \in Projects : Used(p) \in Nat
        /\ ProcessCap \in Nat /\ ProjectCap \in Nat
    BY Counts DEF PlacesOK, CountsTyped
  <2>2. UsedAll' \in Nat /\ \A p \in Projects : Used(p)' \in Nat
    <3>1. CountsTyped'
      BY Counts, PTL
    <3> QED
      BY <3>1 DEF PlacesOK, CountsTyped
  <2>3. UsedAll <= UsedAll' /\ \A p \in Projects : Used(p) <= Used(p)'
    BY <1>a DEF UsedGrows
  <2>4. /\ "process" \in full' => UsedAll >= ProcessCap
        /\ \A p \in full' \cap Projects : Used(p) >= ProjectCap
    <3>1. CASE full' = full
      BY <3>1 DEF FullTrue
    <3>2. ASSUME NEW l \in Items, full' = full \cup {CapOf(ProjectOf[l.id])},
                 ~RoomFor(ProjectOf[l.id])
          PROVE  /\ "process" \in full' => UsedAll >= ProcessCap
                 /\ \A p \in full' \cap Projects : Used(p) >= ProjectCap
      <4> DEFINE k == ProjectOf[l.id]
      <4>1. k \in Projects /\ k # "process" /\ "process" \notin Projects
        <5>1. l.id \in Rows
          BY DEF Items
        <5> QED
          BY <5>1
      <4>2. Used(k) >= ProjectCap \/ UsedAll >= ProcessCap
        BY <2>1, <3>2, <4>1 DEF RoomFor
      <4> HIDE DEF k
      <4>3. CASE Used(k) >= ProjectCap
        <5>1. full' = full \cup {k}
          BY <3>2, <4>3 DEF CapOf, k
        <5> QED
          BY <4>1, <4>3, <5>1 DEF FullTrue
      <4>4. CASE ~(Used(k) >= ProjectCap)
        <5>1. full' = full \cup {"process"} /\ UsedAll >= ProcessCap
          BY <3>2, <4>2, <4>4 DEF CapOf, k
        <5> QED
          BY <4>1, <5>1 DEF FullTrue
      <4> QED
        BY <4>3, <4>4
    <3> QED
      BY <1>a, <3>1, <3>2 DEF Marks
  <2>5. "process" \in full' => UsedAll' >= ProcessCap
    BY <2>1, <2>2, <2>3, <2>4
  <2>6. ASSUME NEW p \in full' \cap Projects PROVE Used(p)' >= ProjectCap
    <3>1. Used(p) \in Nat /\ Used(p)' \in Nat /\ Used(p) <= Used(p)' /\ Used(p) >= ProjectCap
      BY <2>1, <2>2, <2>3, <2>4
    <3> QED
      BY <2>1, <3>1
  <2> QED
    BY <2>5, <2>6 DEF FullTrue
<1> QED
  BY <1>0, <1>a

LEMMA MarksTrue ==
    ASSUME TypesOK, Next \/ UNCHANGED vars
    PROVE  Marks
<1>1. ASSUME NEW l \in Items, PassesOver(l) PROVE Marks
  BY <1>1 DEF Marks, PassesOver, Firing
<1>2. ASSUME NEW l \in Items, Defers(l) PROVE Marks
  BY <1>2 DEF Marks, Defers, FiresNow, Firing
<1>3. ASSUME NEW l \in Items, Asks(l) PROVE Marks
  BY <1>3 DEF Marks, Asks, FiresNow, Firing
<1>4. ASSUME NEW l \in Items, Settles(l) PROVE Marks
  BY <1>4 DEF Marks, Settles, FiresNow, Firing
<1>5. ASSUME NEW l \in Items, FireRuns(l) PROVE Marks
  BY <1>5 DEF Marks, FireRuns, Attempts, FiresNow, Firing
<1>6. ASSUME NEW l \in Items, FireSkips(l) PROVE Marks
  BY <1>6 DEF Marks, FireSkips, Attempts, FiresNow, Firing
<1>7. ASSUME NEW l \in Items, FireWaits(l) PROVE Marks
  <2>1. full' = full \cup {CapOf(ProjectOf[l.id])} /\ Verdict(l) = "wait"
    BY <1>7 DEF FireWaits
  <2>2. ~RoomFor(ProjectOf[l.id])
    BY <2>1 DEF Verdict
  <2> QED
    BY <2>1, <2>2 DEF Marks
<1>8. ASSUME NEW l \in Items, FireLeaves(l) PROVE Marks
  BY <1>8 DEF Marks, FireLeaves, Attempts, FiresNow, Firing
<1>9. ASSUME NEW l \in Items, FireFails(l) PROVE Marks
  BY <1>9 DEF Marks, FireFails, Attempts, FiresNow, Firing
<1>10. CASE PassDrains
  BY <1>10 DEF Marks, PassDrains
<1>11. CASE PassBegins
  BY <1>11 DEF Marks, PassBegins
<1>12. CASE PassEnds
  BY <1>12 DEF Marks, PassEnds
<1>13. CASE Rings
  BY <1>13 DEF Marks, Rings
<1>14. CASE Tick
  BY <1>14 DEF Marks, Tick
<1>15. ASSUME NEW r \in Rows, Answers(r) PROVE Marks
  BY <1>15 DEF Marks, Answers, Wake
<1>16. ASSUME NEW r \in Rows, RunNow(r) PROVE Marks
  BY <1>16 DEF Marks, RunNow, loopVars
<1>17. ASSUME NEW r \in Rows, AskNow(r) PROVE Marks
  BY <1>17 DEF Marks, AskNow, loopVars
<1>18. ASSUME NEW r \in Rows, AnswersNow(r) PROVE Marks
  BY <1>18 DEF Marks, AnswersNow, loopVars
<1>19. ASSUME NEW r \in Rows, Suspend(r) PROVE Marks
  BY <1>19 DEF Marks, Suspend, Wake
<1>20. ASSUME NEW r \in Rows, NEW how \in {"done", "interrupted", "cut"}, RunEnds(r, how)
       PROVE Marks
  BY <1>20 DEF Marks, RunEnds, loopVars
<1>21. ASSUME NEW r \in Rows, NEW u \in Users,
                 \/ EditField(r, u) \/ EditSchedule(r, u)
                 \/ \E url \in Urls \cup {NoUrl} : EditUrl(r, u, url)
       PROVE Marks
  BY <1>21 DEF Marks, EditField, EditSchedule, EditUrl, Save, Wake
<1>22. ASSUME NEW p \in Projects, TakePlace(p) PROVE Marks
  BY <1>22 DEF Marks, TakePlace, loopVars
<1>23. ASSUME NEW p \in Projects, FreePlace(p) PROVE Marks
  BY <1>23 DEF Marks, FreePlace, Wake
<1>24. ASSUME NEW u \in Users, LoseOwner(u) PROVE Marks
  BY <1>24 DEF Marks, LoseOwner, loopVars
<1>25. CASE PageMoves
  BY <1>25 DEF Marks, PageMoves, loopVars
<1>26. CASE Drain
  BY <1>26 DEF Marks, Drain, Wake
<1>27. CASE Halt
  BY <1>27 DEF Marks, Halt
<1>28. CASE Boot
  BY <1>28 DEF Marks, Boot
<1>29. CASE UNCHANGED vars
  BY <1>29 DEF Marks, vars, loopVars
<1> QED
  BY <1>1, <1>2, <1>3, <1>4, <1>5, <1>6, <1>7, <1>8, <1>9, <1>10, <1>11, <1>12, <1>13, <1>14,
     <1>15, <1>16, <1>17, <1>18, <1>19, <1>20, <1>21, <1>22, <1>23, <1>24, <1>25, <1>26, <1>27,
     <1>28, <1>29, Heads
  DEF Next, LoopStep, Fire

----------------------------------------------------------------------------
(* The loop sleeps over a due row only while a wake is owed to it *)

Flies == \E r \in Rows : flying[r] # None
DueSome == \E r \in Rows : Due(r)

SleepOK == loop = "asleep" /\ phase = "up" /\ DueSome => Flies \/ full # {}

\* a step that lets no time pass makes no row due
LEMMA NoneDue ==
    ASSUME TypesOK, TypesOK', RowsGo, clock' = clock
    PROVE  DueSome' => DueSome
<1> SUFFICES ASSUME NEW r \in Rows, Due(r)' PROVE Due(r)
  BY DEF DueSome
<1> DEFINE x == row[r].next
           y == row'[r].next
<1>1. Settled(r, row[r], row'[r], settled[r], settled'[r])
  BY DEF RowsGo, RowGoes, Goes
<1>2. y # Off /\ y <= clock
  BY DEF Due
<1>3. \/ y = x
      \/ y = Off \/ y > clock
      \/ x # Off /\ x <= clock
  BY <1>1 DEF Settled
<1>4. clock \in Nat /\ y \in Nat
  <2>1. row'[r] \in Records /\ Times \subseteq Nat /\ clock \in Nat
    BY Later, TimesHold DEF RowsGo, RowGoes, Goes
  <2> QED
    BY <1>2, <2>1 DEF Records
<1> HIDE DEF y
<1> QED
  BY <1>2, <1>3, <1>4 DEF Due

LEMMA SleepGoes ==
    ASSUME TypesOK, TypesOK', RowsGo, SleepOK, Next \/ UNCHANGED vars
    PROVE  SleepOK'
<1>1. ASSUME NEW l \in Items, PassesOver(l) PROVE SleepOK'
  BY <1>1 DEF SleepOK, PassesOver, Firing
<1>2. ASSUME NEW l \in Items, Defers(l) PROVE SleepOK'
  BY <1>2 DEF SleepOK, Defers, FiresNow, Firing
<1>3. ASSUME NEW l \in Items, Asks(l) PROVE SleepOK'
  BY <1>3 DEF SleepOK, Asks, FiresNow, Firing
<1>4. ASSUME NEW l \in Items, Settles(l) PROVE SleepOK'
  BY <1>4 DEF SleepOK, Settles, FiresNow, Firing
<1>5. ASSUME NEW l \in Items, FireRuns(l) PROVE SleepOK'
  BY <1>5 DEF SleepOK, FireRuns, Attempts, FiresNow, Firing
<1>6. ASSUME NEW l \in Items, FireSkips(l) PROVE SleepOK'
  BY <1>6 DEF SleepOK, FireSkips, Attempts, FiresNow, Firing
<1>7. ASSUME NEW l \in Items, FireWaits(l) PROVE SleepOK'
  BY <1>7 DEF SleepOK, FireWaits, Attempts, FiresNow, Firing
<1>8. ASSUME NEW l \in Items, FireLeaves(l) PROVE SleepOK'
  BY <1>8 DEF SleepOK, FireLeaves, Attempts, FiresNow, Firing
<1>9. ASSUME NEW l \in Items, FireFails(l) PROVE SleepOK'
  BY <1>9 DEF SleepOK, FireFails, Attempts, FiresNow, Firing
<1>10. CASE PassDrains
  BY <1>10 DEF SleepOK, PassDrains, worldVars
<1>11. CASE PassBegins
  <2>1. loop' = "asleep" => ~DueSome
    BY <1>11 DEF PassBegins, DueSome
  <2>2. clock' = clock
    BY <1>11 DEF PassBegins, worldVars
  <2> QED
    BY <2>1, <2>2, NoneDue DEF SleepOK
<1>12. CASE PassEnds
  <2>1. /\ row' = row /\ clock' = clock /\ phase' = phase /\ flying' = flying /\ full' = full
    BY <1>12 DEF PassEnds, tableVars, worldVars, checkVars
  <2>2. loop' = "asleep" /\ phase = "up" /\ DueSome => Flies \/ full # {}
    BY <1>12 DEF PassEnds, DueSome, Flies
  <2> QED
    BY <2>1, <2>2 DEF SleepOK, DueSome, Due, Flies
<1>13. CASE Rings
  BY <1>13 DEF SleepOK, Rings
<1>14. CASE Tick
  BY <1>14 DEF SleepOK, Tick
<1>15. ASSUME NEW r \in Rows, Answers(r) PROVE SleepOK'
  BY <1>15 DEF SleepOK, Answers, Wake
<1>16. ASSUME NEW r \in Rows, RunNow(r) PROVE SleepOK'
  <2>1. clock' = clock /\ phase' = phase /\ flying' = flying /\ full' = full /\ loop' = loop
    BY <1>16 DEF RunNow, loopVars
  <2> QED
    BY <2>1, NoneDue DEF SleepOK, Flies
<1>17. ASSUME NEW r \in Rows, AskNow(r) PROVE SleepOK'
  <2>1. clock' = clock /\ phase' = phase /\ flying' = flying /\ full' = full /\ loop' = loop
    BY <1>17 DEF AskNow, loopVars
  <2> QED
    BY <2>1, NoneDue DEF SleepOK, Flies
<1>18. ASSUME NEW r \in Rows, AnswersNow(r) PROVE SleepOK'
  <2>1. clock' = clock /\ phase' = phase /\ flying' = flying /\ full' = full /\ loop' = loop
    BY <1>18 DEF AnswersNow, loopVars, worldVars
  <2> QED
    BY <2>1, NoneDue DEF SleepOK, Flies
<1>19. ASSUME NEW r \in Rows, Suspend(r) PROVE SleepOK'
  BY <1>19 DEF SleepOK, Suspend, Wake
<1>20. ASSUME NEW r \in Rows, NEW how \in {"done", "interrupted", "cut"}, RunEnds(r, how)
       PROVE SleepOK'
  <2>1. clock' = clock /\ phase' = phase /\ flying' = flying /\ full' = full /\ loop' = loop
    BY <1>20 DEF RunEnds, loopVars
  <2> QED
    BY <2>1, NoneDue DEF SleepOK, Flies
<1>21. ASSUME NEW r \in Rows, NEW u \in Users,
                 \/ EditField(r, u) \/ EditSchedule(r, u)
                 \/ \E url \in Urls \cup {NoUrl} : EditUrl(r, u, url)
       PROVE SleepOK'
  BY <1>21 DEF SleepOK, EditField, EditSchedule, EditUrl, Save, Wake
<1>22. ASSUME NEW p \in Projects, TakePlace(p) PROVE SleepOK'
  <2>1. clock' = clock /\ phase' = phase /\ flying' = flying /\ full' = full /\ loop' = loop
    BY <1>22 DEF TakePlace, loopVars, checkVars
  <2> QED
    BY <2>1, NoneDue DEF SleepOK, Flies
<1>23. ASSUME NEW p \in Projects, FreePlace(p) PROVE SleepOK'
  BY <1>23 DEF SleepOK, FreePlace, Wake
<1>24. ASSUME NEW u \in Users, LoseOwner(u) PROVE SleepOK'
  <2>1. clock' = clock /\ phase' = phase /\ flying' = flying /\ full' = full /\ loop' = loop
    BY <1>24 DEF LoseOwner, loopVars, checkVars
  <2> QED
    BY <2>1, NoneDue DEF SleepOK, Flies
<1>25. CASE PageMoves
  <2>1. clock' = clock /\ phase' = phase /\ flying' = flying /\ full' = full /\ loop' = loop
    BY <1>25 DEF PageMoves, loopVars, checkVars
  <2> QED
    BY <2>1, NoneDue DEF SleepOK, Flies
<1>26. CASE Drain
  BY <1>26 DEF SleepOK, Drain, Wake
<1>27. CASE Halt
  BY <1>27 DEF SleepOK, Halt
<1>28. CASE Boot
  BY <1>28 DEF SleepOK, Boot
<1>29. CASE UNCHANGED vars
  <2>1. clock' = clock /\ phase' = phase /\ flying' = flying /\ full' = full /\ loop' = loop
    BY <1>29 DEF vars, loopVars, worldVars, checkVars
  <2> QED
    BY <2>1, NoneDue DEF SleepOK, Flies
<1> QED
  BY <1>1, <1>2, <1>3, <1>4, <1>5, <1>6, <1>7, <1>8, <1>9, <1>10, <1>11, <1>12, <1>13, <1>14,
     <1>15, <1>16, <1>17, <1>18, <1>19, <1>20, <1>21, <1>22, <1>23, <1>24, <1>25, <1>26, <1>27,
     <1>28, <1>29, Heads
  DEF Next, LoopStep, Fire

----------------------------------------------------------------------------
(* A rerun leaves the list for a reason *)

\* a process that ended lists nothing
CutDown == phase = "down" => cut = {}

LEMMA CutDownGoes ==
    ASSUME TypesOK, CutDown, Next \/ UNCHANGED vars
    PROVE  CutDown'
<1>1. ASSUME NEW l \in Items, PassesOver(l) PROVE CutDown'
  BY <1>1 DEF CutDown, PassesOver, Firing
<1>2. ASSUME NEW l \in Items, Defers(l) PROVE CutDown'
  BY <1>2 DEF CutDown, Defers, FiresNow, Firing
<1>3. ASSUME NEW l \in Items, Asks(l) PROVE CutDown'
  BY <1>3 DEF CutDown, Asks, FiresNow, Firing
<1>4. ASSUME NEW l \in Items, Settles(l) PROVE CutDown'
  BY <1>4 DEF CutDown, Settles, FiresNow, Firing
<1>5. ASSUME NEW l \in Items, FireRuns(l) PROVE CutDown'
  BY <1>5 DEF CutDown, FireRuns, Attempts, FiresNow, Firing, Unlist
<1>6. ASSUME NEW l \in Items, FireSkips(l) PROVE CutDown'
  BY <1>6 DEF CutDown, FireSkips, Attempts, FiresNow, Firing, Unlist
<1>7. ASSUME NEW l \in Items, FireWaits(l) PROVE CutDown'
  BY <1>7 DEF CutDown, FireWaits, Attempts, FiresNow, Firing
<1>8. ASSUME NEW l \in Items, FireLeaves(l) PROVE CutDown'
  BY <1>8 DEF CutDown, FireLeaves, Attempts, FiresNow, Firing, Unlist
<1>9. ASSUME NEW l \in Items, FireFails(l) PROVE CutDown'
  BY <1>9 DEF CutDown, FireFails, Attempts, FiresNow, Firing
<1>10. CASE PassDrains
  BY <1>10 DEF CutDown, PassDrains, worldVars
<1>11. CASE PassBegins
  BY <1>11 DEF CutDown, PassBegins, worldVars
<1>12. CASE PassEnds
  BY <1>12 DEF CutDown, PassEnds, worldVars
<1>13. CASE Rings
  BY <1>13 DEF CutDown, Rings, worldVars
<1>14. CASE Tick
  BY <1>14 DEF CutDown, Tick
<1>15. ASSUME NEW r \in Rows, Answers(r) PROVE CutDown'
  BY <1>15 DEF CutDown, Answers, worldVars
<1>16. ASSUME NEW r \in Rows, RunNow(r) PROVE CutDown'
  BY <1>16 DEF CutDown, RunNow
<1>17. ASSUME NEW r \in Rows, AskNow(r) PROVE CutDown'
  BY <1>17 DEF CutDown, AskNow
<1>18. ASSUME NEW r \in Rows, AnswersNow(r) PROVE CutDown'
  BY <1>18 DEF CutDown, AnswersNow, worldVars
<1>19. ASSUME NEW r \in Rows, Suspend(r) PROVE CutDown'
  BY <1>19 DEF CutDown, Suspend
<1>20. ASSUME NEW r \in Rows, NEW how \in {"done", "interrupted", "cut"}, RunEnds(r, how)
       PROVE CutDown'
  BY <1>20 DEF CutDown, RunEnds
<1>21. ASSUME NEW r \in Rows, NEW u \in Users,
                 \/ EditField(r, u) \/ EditSchedule(r, u)
                 \/ \E url \in Urls \cup {NoUrl} : EditUrl(r, u, url)
       PROVE CutDown'
  BY <1>21 DEF CutDown, EditField, EditSchedule, EditUrl, Save
<1>22. ASSUME NEW p \in Projects, TakePlace(p) PROVE CutDown'
  BY <1>22 DEF CutDown, TakePlace
<1>23. ASSUME NEW p \in Projects, FreePlace(p) PROVE CutDown'
  BY <1>23 DEF CutDown, FreePlace
<1>24. ASSUME NEW u \in Users, LoseOwner(u) PROVE CutDown'
  BY <1>24 DEF CutDown, LoseOwner
<1>25. CASE PageMoves
  BY <1>25 DEF CutDown, PageMoves
<1>26. CASE Drain
  BY <1>26 DEF CutDown, Drain
<1>27. CASE Halt
  BY <1>27 DEF CutDown, Halt
<1>28. CASE Boot
  BY <1>28 DEF CutDown, Boot
<1>29. CASE UNCHANGED vars
  BY <1>29 DEF CutDown, vars, worldVars
<1> QED
  BY <1>1, <1>2, <1>3, <1>4, <1>5, <1>6, <1>7, <1>8, <1>9, <1>10, <1>11, <1>12, <1>13, <1>14,
     <1>15, <1>16, <1>17, <1>18, <1>19, <1>20, <1>21, <1>22, <1>23, <1>24, <1>25, <1>26, <1>27,
     <1>28, <1>29, Heads
  DEF Next, LoopStep, Fire

LeavesFor(r) ==
    \/ RerunDone(r)
    \/ LET was == Head(list).was
       IN  /\ list # <<>> /\ Head(list).id = r
           /\ \/ was.url # row[r].url \/ was.owner # row[r].owner
              \/ ~StillCut(r, was)

LEMMA SettlesLeaves ==
    ASSUME TypesOK, NEW l \in Items, Settles(l), NEW r \in cut \ cut'
    PROVE  LeavesFor(r)
<1>1. r = l.id /\ Fresh(r, row[r], Source(r), ready[r]) /\ ready[r] # None
  BY DEF Settles
<1>2. Source(r) = "restart"
  BY DEF Source
<1> QED
  BY <1>1, <1>2 DEF LeavesFor, RerunDone

LEMMA SkipsLeave ==
    ASSUME TypesOK, NEW l \in Items, FireSkips(l), NEW r \in cut \ cut'
    PROVE  LeavesFor(r)
<1>1. r = l.id /\ Verdict(l) = "skip"
  BY DEF FireSkips, Unlist
<1>2. row[r].owner \in out \/ Running(r)
  BY <1>1 DEF Verdict
<1>3. Running(r) => ~StillCut(r, row[r])
  BY DEF Running, StillCut
<1> QED
  BY <1>2, <1>3 DEF LeavesFor, RerunDone

\* the attempt that starts nothing and held no answer: the row is cut no
\* more, or it was read without its URL, its owner or its cut run
LEMMA LeavesLeave ==
    ASSUME TypesOK, NEW l \in Items, FireLeaves(l), NEW r \in cut \ cut'
    PROVE  LeavesFor(r)
<1>1. /\ r = l.id /\ Verdict(l) = "nothing" /\ Taken(l) = None
      /\ l = Head(list) /\ list # <<>> /\ Attempts(l)
  BY DEF FireLeaves, Unlist, Attempts, FiresNow, Firing
<1>2. Source(r) = "restart"
  BY DEF Source
<1>3. \/ ~StillCut(r, row[r])
      \/ ~Answered(l)
      \/ row[r].owner \notin out /\ Unasked(l)
  BY <1>1, <1>2 DEF Verdict
<1>4. CASE ~StillCut(r, row[r])
  BY <1>4 DEF LeavesFor, RerunDone
<1>5. CASE row[r].owner \notin out /\ Unasked(l)
  <2>1. l.was.owner # row[r].owner
    BY <1>5 DEF Unasked
  <2> QED
    BY <1>1, <2>1 DEF LeavesFor
<1>6. CASE ~Answered(l)
  <2>1. row[r].url # NoUrl /\ ~Unasked(l) /\ ~Running(r)
    BY <1>1, <1>6 DEF Answered
  <2>2. CASE ~Checked(l)
    <3>1. l.was.url # row[r].url
      BY <1>1, <2>1, <2>2 DEF Checked
    <3> QED
      BY <1>1, <3>1 DEF LeavesFor
  <2>3. CASE Checked(l)
    <3>1. ready[r] = None
      BY <1>1, <2>3 DEF Taken
    <3>2. DueOf(r, l.was, "restart") = Off
      BY <1>1, <1>2, <2>3, <3>1 DEF Attempts
    <3>3. ~StillCut(r, l.was)
      BY <3>2 DEF DueOf, ListedAt, Off
    <3> QED
      BY <1>1, <3>3 DEF LeavesFor
  <2> QED
    BY <2>2, <2>3
<1> QED
  BY <1>3, <1>4, <1>5, <1>6

LEMMA FailsLeave ==
    ASSUME TypesOK, NEW l \in Items, FireFails(l), NEW r \in cut \ cut'
    PROVE  LeavesFor(r)
<1>1. spent' = spent + 1
  BY DEF FireFails
<1>2. spent \in Nat
  BY DEF TypesOK
<1>3. spent' > spent
  BY <1>1, <1>2
<1> QED
  BY <1>3 DEF LeavesFor, RerunDone

LEMMA Leaving ==
    ASSUME TypesOK, CutDown, Next \/ UNCHANGED vars, NEW q \in cut \ cut'
    PROVE  LeavesFor(q)
<1>1. ASSUME NEW l \in Items, PassesOver(l) PROVE LeavesFor(q)
  BY <1>1 DEF PassesOver, Firing
<1>2. ASSUME NEW l \in Items, Defers(l) PROVE LeavesFor(q)
  BY <1>2 DEF Defers, FiresNow, Firing
<1>3. ASSUME NEW l \in Items, Asks(l) PROVE LeavesFor(q)
  BY <1>3 DEF Asks, FiresNow, Firing
<1>4. ASSUME NEW l \in Items, Settles(l) PROVE LeavesFor(q)
  BY <1>4, SettlesLeaves
<1>5. ASSUME NEW l \in Items, FireRuns(l) PROVE LeavesFor(q)
  <2>1. q = l.id
    BY <1>5 DEF FireRuns, Unlist
  <2>2. Running(q)'
    BY <1>5, <2>1, FireRunsGo DEF Running
  <2> QED
    BY <2>2 DEF LeavesFor, RerunDone
<1>6. ASSUME NEW l \in Items, FireSkips(l) PROVE LeavesFor(q)
  BY <1>6, SkipsLeave
<1>7. ASSUME NEW l \in Items, FireWaits(l) PROVE LeavesFor(q)
  BY <1>7 DEF FireWaits, Attempts, FiresNow, Firing
<1>8. ASSUME NEW l \in Items, FireLeaves(l) PROVE LeavesFor(q)
  BY <1>8, LeavesLeave
<1>9. ASSUME NEW l \in Items, FireFails(l) PROVE LeavesFor(q)
  BY <1>9, FailsLeave
<1>10. CASE PassDrains
  BY <1>10 DEF PassDrains
<1>11. CASE PassBegins
  BY <1>11 DEF PassBegins
<1>12. CASE PassEnds
  BY <1>12 DEF PassEnds
<1>13. CASE Rings
  BY <1>13 DEF Rings
<1>14. CASE Tick
  BY <1>14 DEF Tick
<1>15. ASSUME NEW r \in Rows, Answers(r) PROVE LeavesFor(q)
  BY <1>15 DEF Answers
<1>16. ASSUME NEW r \in Rows, RunNow(r) PROVE LeavesFor(q)
  BY <1>16 DEF RunNow
<1>17. ASSUME NEW r \in Rows, AskNow(r) PROVE LeavesFor(q)
  BY <1>17 DEF AskNow
<1>18. ASSUME NEW r \in Rows, AnswersNow(r) PROVE LeavesFor(q)
  BY <1>18 DEF AnswersNow
<1>19. ASSUME NEW r \in Rows, Suspend(r) PROVE LeavesFor(q)
  BY <1>19 DEF Suspend
<1>20. ASSUME NEW r \in Rows, NEW how \in {"done", "interrupted", "cut"}, RunEnds(r, how)
       PROVE LeavesFor(q)
  BY <1>20 DEF RunEnds
<1>21. ASSUME NEW r \in Rows, NEW u \in Users,
                 \/ EditField(r, u) \/ EditSchedule(r, u)
                 \/ \E url \in Urls \cup {NoUrl} : EditUrl(r, u, url)
       PROVE LeavesFor(q)
  BY <1>21 DEF EditField, EditSchedule, EditUrl, Save
<1>22. ASSUME NEW p \in Projects, TakePlace(p) PROVE LeavesFor(q)
  BY <1>22 DEF TakePlace
<1>23. ASSUME NEW p \in Projects, FreePlace(p) PROVE LeavesFor(q)
  BY <1>23 DEF FreePlace
<1>24. ASSUME NEW u \in Users, LoseOwner(u) PROVE LeavesFor(q)
  BY <1>24 DEF LoseOwner
<1>25. CASE PageMoves
  BY <1>25 DEF PageMoves
<1>26. CASE Drain
  BY <1>26 DEF Drain
<1>27. CASE Halt
  BY <1>27 DEF LeavesFor, RerunDone, Halt
<1>28. CASE Boot
  BY <1>28 DEF CutDown, Boot
<1>29. CASE UNCHANGED vars
  BY <1>29 DEF vars
<1> QED
  BY <1>1, <1>2, <1>3, <1>4, <1>5, <1>6, <1>7, <1>8, <1>9, <1>10, <1>11, <1>12, <1>13, <1>14,
     <1>15, <1>16, <1>17, <1>18, <1>19, <1>20, <1>21, <1>22, <1>23, <1>24, <1>25, <1>26, <1>27,
     <1>28, <1>29, Heads
  DEF Next, LoopStep, Fire

----------------------------------------------------------------------------
(* The invariant *)

SchedulerInv ==
    /\ TypesOK
    /\ PlacesOK
    /\ Past
    /\ HeldOK
    /\ SavedTold
    /\ FullTrue
    /\ SleepOK
    /\ CutDown

LEMMA SchedulerBegins ==
    ASSUME Init
    PROVE  SchedulerInv
<1>1. TypesOK
  BY TypesBegin
<1>2. PlacesOK
  <2>1. RunsAll = {}
    BY DEF RunsAll, Running, Init
  <2>2. others \in [Projects -> Nat] /\ Cardinality(Placed(others)) = 0
    BY PlacedNone DEF Init
  <2>3. UsedAll = 0
    BY <2>1, <2>2, UsedIs, FS_EmptySet DEF AllBy
  <2> QED
    BY <2>2, <2>3 DEF PlacesOK
<1>3. Past
  <2>1. ASSUME NEW r \in Rows PROVE settled[r] = -1 /\ clock = 0 /\ row[r].next \in Nat
    <3>1. First[r] \in Nat
      OBVIOUS
    <3> QED
      BY <3>1 DEF Init, Off
  <2>2. \A m \in Nat : m > -1 /\ -1 <= 0
    OBVIOUS
  <2> QED
    BY <2>1, <2>2 DEF Past
<1>4. HeldOK
  BY DEF HeldOK, HeldOf, Init
<1>5. SavedTold
  BY DEF SavedTold, Init
<1>6. FullTrue
  BY DEF FullTrue, Init
<1>7. SleepOK
  BY DEF SleepOK, Init
<1>8. CutDown
  BY DEF CutDown, Init
<1> QED
  BY <1>1, <1>2, <1>3, <1>4, <1>5, <1>6, <1>7, <1>8 DEF SchedulerInv

LEMMA SchedulerGoes ==
    ASSUME SchedulerInv, [Next]_vars
    PROVE  SchedulerInv'
<1> USE DEF SchedulerInv
<1>0. Next \/ UNCHANGED vars
  OBVIOUS
<1>1. TypesOK' /\ RowsGo /\ clock <= clock'
  BY <1>0, TypesGo, RowsGoOn, WorldGoes
<1>2. PlacesOK' /\ (full' # {} => UsedGrows)
  BY <1>0, PlacesMoveOn, PlacesGo
<1>3. Past'
  BY <1>1, PastGoes
<1>4. HeldOK'
  BY <1>0, <1>1, HeldGoes
<1>5. SavedTold'
  BY <1>0, <1>1, ToldGrows, SavedGoes
<1>6. FullTrue'
  BY <1>0, <1>2, MarksTrue, FullGoes
<1>7. SleepOK'
  BY <1>0, <1>1, SleepGoes
<1>8. CutDown'
  BY <1>0, CutDownGoes
<1> QED
  BY <1>1, <1>2, <1>3, <1>4, <1>5, <1>6, <1>7, <1>8

LEMMA SchedulerHolds == Spec => []SchedulerInv
BY SchedulerBegins, SchedulerGoes, PTL DEF Spec

\* The types of the table, of what the checks hold and of the loop, and that
\* no project's other sends hold more places than the process has, whoever
\* takes and frees them (TypeOK).
THEOREM SchedulerTyped == Spec => []TypeOK
<1>1. SchedulerInv => TypeOK
  <2> SUFFICES ASSUME SchedulerInv PROVE TypeOK
    OBVIOUS
  <2>1. TypesOK /\ PlacesOK
    BY DEF SchedulerInv
  <2>2. others \in [Projects -> 0..ProcessCap]
    <3>1. /\ others \in [Projects -> Nat] /\ UsedAll <= ProcessCap /\ UsedAll \in Nat
          /\ \A p \in Projects : others[p] <= UsedAll
      BY <2>1, Counts DEF PlacesOK, CountsTyped
    <3>2. \A p \in Projects : others[p] \in 0..ProcessCap
      BY <3>1
    <3> QED
      BY <3>1, <3>2
  <2>3. \A i \in DOMAIN list : list[i].id \in Rows /\ list[i].was \in Records
    <3>1. list \in Seq(Items)
      BY <2>1 DEF TypesOK
    <3>2. \A i \in DOMAIN list : list[i] \in Items
      BY <3>1, ElementOfSeq, LenProperties
    <3> QED
      BY <3>2 DEF Items
  <2> QED
    BY <2>1, <2>2, <2>3 DEF TypesOK, TypeOK, Flights, Asked, Seen
<1> QED
  BY <1>1, SchedulerHolds, PTL

\* An occurrence is settled once, whatever took it: next_at stays past it
\* through every pass, edit, suspend and restart (SettledOnce).
THEOREM OccurrencesSettleOnce == Spec => []SettledOnce
<1>1. SchedulerInv => SettledOnce
  BY DEF SchedulerInv, Past, SettledOnce
<1> QED
  BY <1>1, SchedulerHolds, PTL

\* The validators that a check sends are of the row's own URL and of an answer
\* that an uncut run ended with (SavedTold).
THEOREM ValidatorsWereTold == Spec => []SavedTold
<1>1. SchedulerInv => SavedTold
  BY DEF SchedulerInv
<1> QED
  BY <1>1, SchedulerHolds, PTL

\* The loop sleeps over a due row only while a GET is out or a cap that it
\* marked is still full: no wake is lost (SleepsOwed).
THEOREM NoWakeIsLost == Spec => []SleepsOwed
<1>1. SchedulerInv => SleepsOwed
  <2> SUFFICES ASSUME SchedulerInv, loop = "asleep", phase = "up", \E r \in Rows : Due(r)
               PROVE  \/ \E r \in Rows : flying[r] # None
                      \/ "process" \in full /\ UsedAll >= ProcessCap
                      \/ \E p \in full \cap Projects : Used(p) >= ProjectCap
    BY DEF SleepsOwed
  <2>1. Flies \/ full # {}
    BY DEF SchedulerInv, SleepOK, DueSome
  <2>2. FullTrue /\ full \subseteq Projects \cup {"process"}
    BY DEF SchedulerInv, TypesOK
  <2> QED
    BY <2>1, <2>2 DEF Flies, FullTrue
<1> QED
  BY <1>1, SchedulerHolds, PTL

\* A listed rerun that could still run leaves the list only with its run, a
\* skip, the answer it asked for, a failed start, or an edit or a suspend that
\* the pass had not read (RerunLeaves).
THEOREM RerunsLeaveForAReason == Spec => RerunLeaves
<1>1. SchedulerInv /\ [Next]_vars => [\A r \in cut \ cut' : LeavesFor(r)]_vars
  BY Leaving DEF SchedulerInv
<1>2. [\A r \in cut \ cut' : LeavesFor(r)]_vars =>
        [\A r \in cut \ cut' :
            \/ RerunDone(r)
            \/ LET was == Head(list).was
               IN  /\ list # <<>> /\ Head(list).id = r
                   /\ \/ was.url # row[r].url \/ was.owner # row[r].owner
                      \/ ~StillCut(r, was)]_vars
  BY DEF LeavesFor
<1> QED
  BY <1>1, <1>2, SchedulerHolds, PTL DEF Spec, RerunLeaves
=============================================================================
