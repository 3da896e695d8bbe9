-------------------------- MODULE ChatQueueProofs --------------------------
(***************************************************************************)
(* Proofs about ChatQueue, for every number of messages, chats and users,  *)
(* every family of turns that fail and every length of the queue.          *)
(***************************************************************************)
EXTENDS ChatQueue, FiniteSetTheorems, SequenceTheorems,
        WellFoundedInduction, TLAPS

----------------------------------------------------------------------------
(* Walks along a list *)

\* A set of numbers has a least one.
LEMMA LeastNumber ==
    ASSUME NEW S, S \subseteq Nat, S # {}
    PROVE  \E k \in S : \A j \in S : k <= j
<1>1. IsWellFoundedOn(OpToRel(<, Nat), Nat)
  BY NatLessThanWellFounded
<1>2. IsWellFoundedOn(OpToRel(<, Nat), S)
  BY <1>1, IsWellFoundedOnSubset
<1>3. PICK k \in S : \A j \in S : <<j, k>> \notin OpToRel(<, Nat)
  BY <1>2, WFMin
<1>4. \A j \in S : ~(j < k)
  BY <1>3 DEF OpToRel
<1> QED
  BY <1>4

\* A set of numbers with 0 and the next of each holds every number.
LEMMA EveryNumber ==
    ASSUME NEW S, 0 \in S, \A n \in Nat : n \in S => n + 1 \in S
    PROVE  Nat \subseteq S
<1>1. SUFFICES ASSUME NEW m \in Nat \ S PROVE FALSE
  OBVIOUS
<1>2. PICK n \in Nat \ S : \A j \in Nat \ S : n <= j
  <2>1. Nat \ S \subseteq Nat /\ Nat \ S # {}
    BY <1>1
  <2> QED
    BY <2>1, LeastNumber
<1>3. n # 0 /\ n - 1 \in Nat /\ n - 1 \notin S
  BY SMT
<1> QED
  BY <1>2, <1>3

\* at is the states a walk along q comes through
Walks(at, step, q, base) ==
    at[0] = base /\ \A i \in 1..Len(q) : at[i] = step[q[i]][at[i - 1]]

\* The states a walk along q comes through, and where it ends.
LEMMA ThroughSteps ==
    ASSUME NEW step, NEW base, NEW q, Len(q) \in Nat
    PROVE  \E at : /\ Walks(at, step, q, base)
                  /\ Through(step, q, base) = at[Len(q)]
<1> DEFINE Walk(g, n) ==
        g = [i \in 0..n |-> IF i = 0 THEN base ELSE step[q[i]][g[i - 1]]]
    S == {n \in Nat : \E g : Walk(g, n)}
<1>1. 0 \in S
  <2>1. Walk([i \in 0..0 |-> base], 0)
    OBVIOUS
  <2> QED
    BY <2>1
<1>2. ASSUME NEW n \in Nat, n \in S PROVE n + 1 \in S
  <2>1. PICK g : Walk(g, n)
    BY <1>2
  <2> DEFINE h == [i \in 0..(n + 1) |-> IF i = n + 1 THEN step[q[i]][g[n]] ELSE g[i]]
  <2>2. ASSUME NEW i \in 0..(n + 1)
        PROVE  h[i] = IF i = 0 THEN base ELSE step[q[i]][h[i - 1]]
    <3>1. CASE i = n + 1
      BY <3>1
    <3>2. CASE i # n + 1 /\ i # 0
      <4>1. i \in 0..n /\ i - 1 \in 0..n
        BY <3>2
      <4>2. g[i] = step[q[i]][g[i - 1]]
        BY <2>1, <3>2, <4>1
      <4> QED
        BY <3>2, <4>1, <4>2
    <3>3. CASE i = 0
      BY <2>1, <3>3
    <3> QED
      BY <3>1, <3>2, <3>3
  <2>3. Walk(h, n + 1)
    <3>1. h = [i \in 0..(n + 1) |-> h[i]]
      OBVIOUS
    <3> HIDE DEF h
    <3> QED
      BY <2>2, <3>1
  <2> HIDE DEF h, Walk
  <2> QED
    BY <2>3
<1>3. Len(q) \in S
  <2> HIDE DEF S
  <2> QED
    BY <1>1, <1>2, EveryNumber
<1>4. \E g : Walk(g, Len(q))
  BY <1>3
<1> DEFINE at == CHOOSE g : Walk(g, Len(q))
<1>5. Walk(at, Len(q))
  BY <1>4
<1>6. Through(step, q, base) = at[Len(q)]
  BY DEF Through
<1> HIDE DEF at
<1>7. ASSUME NEW i \in 0..Len(q)
      PROVE  at[i] = IF i = 0 THEN base ELSE step[q[i]][at[i - 1]]
  BY <1>5
<1>8. Walks(at, step, q, base)
  BY <1>7 DEF Walks
<1> QED
  BY <1>6, <1>8

\* What each step of a walk carries from one set to the next, the walk does.
LEMMA ThroughKeeps ==
    ASSUME NEW step, NEW base, NEW q, Len(q) \in Nat,
           NEW P, base \in P[0],
           \A i \in 1..Len(q) : \A p \in P[i - 1] : step[q[i]][p] \in P[i]
    PROVE  Through(step, q, base) \in P[Len(q)]
<1>1. PICK at : /\ Walks(at, step, q, base)
                /\ Through(step, q, base) = at[Len(q)]
  BY ThroughSteps
<1> DEFINE S == {n \in Nat : n <= Len(q) => at[n] \in P[n]}
<1>2. 0 \in S
  BY <1>1 DEF Walks
<1>3. ASSUME NEW n \in Nat, n \in S PROVE n + 1 \in S
  <2>1. SUFFICES ASSUME n + 1 <= Len(q) PROVE at[n + 1] \in P[n + 1]
    OBVIOUS
  <2>2. n + 1 \in 1..Len(q) /\ (n + 1) - 1 = n /\ at[n] \in P[n]
    BY <1>3, <2>1
  <2> QED
    BY <1>1, <2>2 DEF Walks
<1>4. Len(q) \in S
  <2> HIDE DEF S
  <2> QED
    BY <1>2, <1>3, EveryNumber
<1> QED
  BY <1>1, <1>4

----------------------------------------------------------------------------
(* Lists *)

\* a comes before b in q
Ahead(q, a, b) == \E i, j \in DOMAIN q : i < j /\ q[i] = a /\ q[j] = b

NoRepeat(q) == \A i, j \in DOMAIN q : q[i] = q[j] => i = j

LEMMA AheadMembers ==
    ASSUME NEW q, NEW a, NEW b, Ahead(q, a, b)
    PROVE  a \in Members(q) /\ b \in Members(q)
BY DEF Ahead, Members

LEMMA AheadTotal ==
    ASSUME NEW q, Len(q) \in Nat, DOMAIN q = 1..Len(q),
           NEW a \in Members(q), NEW b \in Members(q), a # b
    PROVE  Ahead(q, a, b) \/ Ahead(q, b, a)
<1>1. PICK i \in DOMAIN q, j \in DOMAIN q : q[i] = a /\ q[j] = b
  BY DEF Members
<1>2. i < j \/ j < i
  BY <1>1
<1> QED
  BY <1>1, <1>2 DEF Ahead

LEMMA AheadTransitive ==
    ASSUME NEW q, Len(q) \in Nat, DOMAIN q = 1..Len(q), NoRepeat(q),
           NEW a, NEW b, NEW c, Ahead(q, a, b), Ahead(q, b, c)
    PROVE  Ahead(q, a, c)
BY DEF Ahead, NoRepeat

LEMMA AheadItself ==
    ASSUME NEW q, Len(q) \in Nat, DOMAIN q = 1..Len(q)
    PROVE  NoRepeat(q) <=> \A a \in Members(q) : ~Ahead(q, a, a)
<1>1. ASSUME NoRepeat(q), NEW a, Ahead(q, a, a) PROVE FALSE
  BY <1>1 DEF NoRepeat, Ahead
<1>2. ASSUME \A a \in Members(q) : ~Ahead(q, a, a),
             NEW i \in DOMAIN q, NEW j \in DOMAIN q, q[i] = q[j]
      PROVE  i = j
  <2>1. ~(i < j) /\ ~(j < i)
    BY <1>2 DEF Ahead, Members
  <2> QED
    BY <2>1
<1> QED
  BY <1>1, <1>2 DEF NoRepeat

LEMMA AppendMembers ==
    ASSUME NEW T, NEW p \in Seq(T), NEW m \in T
    PROVE  /\ Append(p, m) \in Seq(T)
           /\ Members(Append(p, m)) = Members(p) \cup {m}
           /\ \A a, b : Ahead(Append(p, m), a, b) <=>
                           Ahead(p, a, b) \/ (b = m /\ a \in Members(p))
<1> DEFINE r == Append(p, m)
<1>1. /\ r \in Seq(T) /\ Len(r) = Len(p) + 1 /\ DOMAIN r = 1..(Len(p) + 1)
      /\ r[Len(p) + 1] = m /\ \A i \in 1..Len(p) : r[i] = p[i]
      /\ Len(p) \in Nat /\ DOMAIN p = 1..Len(p)
  BY AppendProperties, LenProperties
<1> HIDE DEF r
<1>2. Members(r) = Members(p) \cup {m}
  BY <1>1 DEF Members
<1>3. ASSUME NEW a, NEW b, Ahead(r, a, b)
      PROVE  Ahead(p, a, b) \/ (b = m /\ a \in Members(p))
  BY <1>1, <1>3 DEF Ahead, Members
<1>4. ASSUME NEW a, NEW b, Ahead(p, a, b) PROVE Ahead(r, a, b)
  <2>1. PICK i \in DOMAIN p, j \in DOMAIN p : i < j /\ p[i] = a /\ p[j] = b
    BY <1>4 DEF Ahead
  <2>2. i \in DOMAIN r /\ j \in DOMAIN r /\ r[i] = a /\ r[j] = b
    BY <1>1, <2>1
  <2> QED
    BY <2>1, <2>2 DEF Ahead
<1>5. ASSUME NEW a, a \in Members(p) PROVE Ahead(r, a, m)
  <2>1. PICK i \in DOMAIN p : p[i] = a
    BY <1>5 DEF Members
  <2>2. /\ i \in DOMAIN r /\ Len(p) + 1 \in DOMAIN r /\ i < Len(p) + 1
        /\ r[i] = a /\ r[Len(p) + 1] = m
    BY <1>1, <2>1
  <2> QED
    BY <2>2 DEF Ahead
<1> QED
  BY <1>1, <1>2, <1>3, <1>4, <1>5 DEF r

\* the first i of q
First(q, i) == SubSeq(q, 1, i)

LEMMA FirstSteps ==
    ASSUME NEW T, NEW q \in Seq(T)
    PROVE  /\ First(q, 0) = <<>>
           /\ First(q, Len(q)) = q
           /\ \A i \in 1..Len(q) :
                 /\ First(q, i - 1) \in Seq(T)
                 /\ q[i] \in T
                 /\ First(q, i) = Append(First(q, i - 1), q[i])
<1>1. First(q, 0) = <<>>
  BY SubSeqEmpty DEF First
<1>2. First(q, Len(q)) = q
  BY SubSeqFull DEF First
<1>3. ASSUME NEW i \in 1..Len(q)
      PROVE  /\ First(q, i - 1) \in Seq(T)
             /\ q[i] \in T
             /\ First(q, i) = Append(First(q, i - 1), q[i])
  <2>1. q[i] \in T
    BY ElementOfSeq
  <2>2. /\ Len(q) \in Nat /\ 1 \in 1..(Len(q) + 1) /\ i - 1 \in 0..Len(q)
        /\ i - 1 \in 1 - 1..Len(q) /\ i \in 1..Len(q) /\ 1 \in 1..i
    BY LenProperties
  <2>3. First(q, i - 1) \in Seq(T)
    BY <2>2, SubSeqProperties DEF First
  <2>4. SubSeq(q, 1, i) = Append(SubSeq(q, 1, i - 1), q[i])
    BY <2>2, SubSeqRecursiveSecond
  <2> QED
    BY <2>1, <2>3, <2>4 DEF First
<1> QED
  BY <1>1, <1>2, <1>3

\* What Only() keeps of a list: the members in S, in their order.
LEMMA OnlyKeeps ==
    ASSUME NEW q \in Seq(Messages), NEW S
    PROVE  /\ Only(q, S) \in Seq(Messages)
           /\ Members(Only(q, S)) = Members(q) \cap S
           /\ \A a, b \in Messages :
                 Ahead(Only(q, S), a, b) <=> a \in S /\ b \in S /\ Ahead(q, a, b)
<1> DEFINE Keeps(p, r) ==
        /\ Members(p) = Members(r) \cap S
        /\ \A a, b \in Messages :
              Ahead(p, a, b) <=> a \in S /\ b \in S /\ Ahead(r, a, b)
    step == [m \in Messages |-> [p \in Seq(Messages) |->
               IF m \in S THEN Append(p, m) ELSE p]]
    P == [i \in 0..Len(q) |-> {p \in Seq(Messages) : Keeps(p, First(q, i))}]
<1>1. Len(q) \in Nat
  BY LenProperties
<1>2. <<>> \in P[0]
  <2>1. First(q, 0) = <<>>
    BY FirstSteps
  <2>2. Keeps(<<>>, <<>>)
    BY DEF Members, Ahead
  <2>3. <<>> \in Seq(Messages) /\ 0 \in 0..Len(q)
    BY <1>1
  <2> QED
    BY <2>1, <2>2, <2>3
<1>3. ASSUME NEW i \in 1..Len(q), NEW p \in P[i - 1]
      PROVE  step[q[i]][p] \in P[i]
  <2> DEFINE r == First(q, i - 1)
             m == q[i]
  <2>1. r \in Seq(Messages) /\ m \in Messages /\ First(q, i) = Append(r, m)
    BY FirstSteps
  <2>2. i - 1 \in 0..Len(q) /\ i \in 0..Len(q)
    BY <1>1
  <2>3. p \in Seq(Messages) /\ Keeps(p, r)
    BY <2>2
  <2>4. step[m][p] = IF m \in S THEN Append(p, m) ELSE p
    BY <2>1, <2>3
  <2> HIDE DEF r, m, step
  <2>5. step[m][p] \in Seq(Messages) /\ Keeps(step[m][p], Append(r, m))
    <3>1. CASE m \in S
      BY <2>1, <2>3, <2>4, <3>1, AppendMembers
    <3>2. CASE m \notin S
      BY <2>1, <2>3, <2>4, <3>2, AppendMembers
    <3> QED
      BY <3>1, <3>2
  <2>6. P[i] = {t \in Seq(Messages) : Keeps(t, First(q, i))}
    BY <2>2
  <2> HIDE DEF P, Keeps
  <2>7. step[m][p] \in P[i]
    BY <2>1, <2>5, <2>6
  <2> QED
    BY <2>7 DEF m
<1>4. Only(q, S) = Through(step, q, <<>>)
  BY DEF Only
<1>5. Through(step, q, <<>>) \in P[Len(q)]
  <2> HIDE DEF P, step
  <2> QED
    BY <1>1, <1>2, <1>3, ThroughKeeps
<1>6. Len(q) \in 0..Len(q) /\ First(q, Len(q)) = q
  BY <1>1, FirstSteps
<1> HIDE DEF step
<1> QED
  BY <1>4, <1>5, <1>6

----------------------------------------------------------------------------
(* The turns of a world *)

\* a turn no start holds whatever its trial says
Bad == TurnedDown \cup RolledBack

LEMMA WithinPart ==
    ASSUME NEW S, NEW T, S \subseteq T, NEW F, Within(S, F)
    PROVE  Within(T, F)
BY DEF Within

LEMMA WithinNone ==
    ~Within({}, Bad)
<1>1. \A B \in Bad : B # {}
  BY QueueAssumption DEF Bad
<1> QED
  BY <1>1 DEF Within

\* What the trials keep of a turn: rows still queued that may start
\* together; a queued row they reject may not start with some of those.
LEMMA PassingKeeps ==
    ASSUME NEW w, NEW q \in Seq(Messages)
    PROVE  /\ Passing(w, q) \in Seq(Messages)
           /\ Members(Passing(w, q)) \subseteq Members(q) \cap Members(w.line)
           /\ ~Within(Members(Passing(w, q)), Bad)
           /\ \A m \in (Members(q) \cap Members(w.line)) \ Members(Passing(w, q)) :
                 \E N \in SUBSET Members(Passing(w, q)) : Within(N \cup {m}, Bad)
<1> DEFINE Tried(p, r) ==
        /\ Members(p) \subseteq Members(r) \cap Members(w.line)
        /\ ~Within(Members(p), Bad)
        /\ \A m \in (Members(r) \cap Members(w.line)) \ Members(p) :
              \E N \in SUBSET Members(p) : Within(N \cup {m}, Bad)
    step == [m \in Messages |-> [p \in Seq(Messages) |->
               IF Passes(w, Append(p, m)) THEN Append(p, m) ELSE p]]
    P == [i \in 0..Len(q) |-> {p \in Seq(Messages) : Tried(p, First(q, i))}]
<1>1. Len(q) \in Nat
  BY LenProperties
<1>2. <<>> \in P[0]
  <2>1. First(q, 0) = <<>>
    BY FirstSteps
  <2>2. Members(<<>>) = {}
    BY DEF Members
  <2>3. Tried(<<>>, <<>>)
    BY <2>2, WithinNone
  <2>4. <<>> \in Seq(Messages) /\ 0 \in 0..Len(q)
    BY <1>1
  <2> QED
    BY <2>1, <2>3, <2>4
<1>3. ASSUME NEW i \in 1..Len(q), NEW p \in P[i - 1]
      PROVE  step[q[i]][p] \in P[i]
  <2> DEFINE r == First(q, i - 1)
             m == q[i]
  <2>1. r \in Seq(Messages) /\ m \in Messages /\ First(q, i) = Append(r, m)
    BY FirstSteps
  <2>2. i - 1 \in 0..Len(q) /\ i \in 0..Len(q)
    BY <1>1
  <2>3. p \in Seq(Messages) /\ Tried(p, r)
    BY <2>2
  <2>4. step[m][p] = IF Passes(w, Append(p, m)) THEN Append(p, m) ELSE p
    BY <2>1, <2>3
  <2> HIDE DEF r, m, step
  <2>5. /\ Append(p, m) \in Seq(Messages)
        /\ Members(Append(p, m)) = Members(p) \cup {m}
        /\ Members(Append(r, m)) = Members(r) \cup {m}
    BY <2>1, <2>3, AppendMembers
  <2>6. Passes(w, Append(p, m)) <=>
          /\ Members(p) \cup {m} \subseteq Members(w.line)
          /\ ~Within(Members(p) \cup {m}, Bad)
    BY <2>5 DEF Passes, Bad
  <2>7. step[m][p] \in Seq(Messages) /\ Tried(step[m][p], Append(r, m))
    <3>1. CASE Passes(w, Append(p, m))
      <4>1. /\ Members(p) \cup {m} \subseteq (Members(r) \cup {m}) \cap Members(w.line)
            /\ ~Within(Members(p) \cup {m}, Bad)
        BY <2>3, <2>6, <3>1
      <4>2. ASSUME NEW n \in ((Members(r) \cup {m}) \cap Members(w.line)) \ (Members(p) \cup {m})
            PROVE  \E N \in SUBSET (Members(p) \cup {m}) : Within(N \cup {n}, Bad)
        BY <2>3
      <4> QED
        BY <2>4, <2>5, <3>1, <4>1, <4>2
    <3>2. CASE ~Passes(w, Append(p, m))
      <4>1. ASSUME NEW n \in ((Members(r) \cup {m}) \cap Members(w.line)) \ Members(p)
            PROVE  \E N \in SUBSET Members(p) : Within(N \cup {n}, Bad)
        <5>1. CASE n \in Members(r)
          BY <2>3, <4>1, <5>1
        <5>2. CASE n = m
          BY <2>3, <2>6, <3>2, <4>1, <5>2
        <5> QED
          BY <4>1, <5>1, <5>2
      <4> QED
        BY <2>3, <2>4, <2>5, <3>2, <4>1
    <3> QED
      BY <3>1, <3>2
  <2> QED
    BY <2>1, <2>2, <2>7 DEF m
<1>4. Passing(w, q) = Through(step, q, <<>>)
  BY DEF Passing
<1>5. Through(step, q, <<>>) \in P[Len(q)]
  <2> HIDE DEF P, step
  <2> QED
    BY <1>1, <1>2, <1>3, ThroughKeeps
<1>6. Len(q) \in 0..Len(q) /\ First(q, Len(q)) = q
  BY <1>1, FirstSteps
<1> HIDE DEF step
<1> QED
  BY <1>4, <1>5, <1>6

\* the queued rows of x
Line(w, x) == {m \in Members(w.line) : ChatOf[m] = x}

\* the rows the next turn of their chat opens with: the rows before the
\* first summon, or the summon that comes first
Opens(w, a) ==
    /\ a \in Members(w.line)
    /\ \A b \in Messages : Ahead(w.line, b, a) /\ ChatOf[b] = ChatOf[a] =>
          b \notin Summons /\ a \notin Summons

Opening(w, x) == {m \in Line(w, x) : Opens(w, m)}

LEMMA RowsMembers ==
    ASSUME NEW w, w.line \in Seq(Messages), NEW x
    PROVE  /\ Rows(w, x) \in Seq(Messages)
           /\ Members(Rows(w, x)) = Line(w, x)
           /\ \A a, b \in Messages :
                 Ahead(Rows(w, x), a, b) <=>
                    ChatOf[a] = x /\ ChatOf[b] = x /\ Ahead(w.line, a, b)
<1> DEFINE S == {m \in Messages : ChatOf[m] = x}
<1>1. Rows(w, x) = Only(w.line, S)
  BY DEF Rows, RowsOf
<1>2. Members(w.line) \subseteq Messages
  BY ElementOfSeq DEF Members
<1> HIDE DEF S
<1>3. /\ Only(w.line, S) \in Seq(Messages)
      /\ Members(Only(w.line, S)) = Members(w.line) \cap S
      /\ \A a, b \in Messages :
            Ahead(Only(w.line, S), a, b) <=> a \in S /\ b \in S /\ Ahead(w.line, a, b)
  BY OnlyKeeps
<1> QED
  BY <1>1, <1>2, <1>3 DEF S, Line

\* A batch is the opening of its list.
LEMMA BatchMembers ==
    ASSUME NEW q \in Seq(Messages), NoRepeat(q)
    PROVE  /\ Batch(q) \in Seq(Messages)
           /\ Members(Batch(q)) =
                {a \in Members(q) : \A b \in Messages : Ahead(q, b, a) =>
                                      b \notin Summons /\ a \notin Summons}
<1> DEFINE at == {i \in DOMAIN q : q[i] \in Summons}
           Open(a) == \A b \in Messages : Ahead(q, b, a) =>
                         b \notin Summons /\ a \notin Summons
<1>1. Len(q) \in Nat /\ DOMAIN q = 1..Len(q) /\ \A i \in 1..Len(q) : q[i] \in Messages
  BY LenProperties, ElementOfSeq
<1>2. CASE at = {}
  <2>1. Batch(q) = q
    BY <1>2 DEF Batch
  <2>2. \A a \in Members(q) : a \notin Summons
    BY <1>2 DEF Members
  <2>3. \A a \in Members(q) : Open(a)
    BY <2>2, AheadMembers
  <2> QED
    BY <2>1, <2>3
<1>3. ASSUME NEW k \in at, \A j \in at : k <= j
      PROVE  /\ Batch(q) = SubSeq(q, 1, IF k = 1 THEN 1 ELSE k - 1)
             /\ k \in 1..Len(q) /\ q[k] \in Summons
  <2>1. k \in 1..Len(q) /\ q[k] \in Summons
    BY <1>1, <1>3
  <2>2. CASE k = 1
    BY <1>3, <2>1, <2>2 DEF Batch
  <2>3. CASE k # 1
    <3>1. 1 \notin at
      BY <1>1, <1>3, <2>1, <2>3
    <3>2. (CHOOSE i \in at : \A j \in at : i <= j) = k
      <4>1. ASSUME NEW i \in at, \A j \in at : i <= j PROVE i = k
        BY <1>1, <1>3, <4>1
      <4> HIDE DEF at
      <4> QED
        BY <1>3, <4>1
    <3> QED
      BY <1>3, <2>1, <2>3, <3>1, <3>2 DEF Batch
  <2> QED
    BY <2>1, <2>2, <2>3
<1>4. CASE at # {}
  <2>1. PICK k \in at : \A j \in at : k <= j
    <3>1. at \subseteq Nat
      BY <1>1
    <3> HIDE DEF at
    <3> QED
      BY <1>4, <3>1, LeastNumber
  <2> DEFINE n == IF k = 1 THEN 1 ELSE k - 1
  <2>2. Batch(q) = SubSeq(q, 1, n) /\ k \in 1..Len(q) /\ q[k] \in Summons
    BY <1>3, <2>1
  <2>3. n \in 1..Len(q) /\ n \in Int /\ n - 1 + 1 = n
    BY <1>1, <2>2
  <2>4. \A i \in 1..Len(q) : i <= n <=> Open(q[i])
    <3>1. ASSUME NEW i \in 1..Len(q), i <= n PROVE Open(q[i])
      <4>1. SUFFICES ASSUME NEW b \in Messages, Ahead(q, b, q[i])
                     PROVE  b \notin Summons /\ q[i] \notin Summons
        OBVIOUS
      <4>2. PICK j \in DOMAIN q, l \in DOMAIN q : j < l /\ q[j] = b /\ q[l] = q[i]
        BY <4>1 DEF Ahead
      <4>3. l = i
        BY <1>1, <4>2 DEF NoRepeat
      <4>4. j < i /\ i < k /\ j \in DOMAIN q /\ i \in DOMAIN q
        BY <1>1, <2>2, <3>1, <4>2, <4>3
      <4>5. j \notin at /\ i \notin at
        BY <1>1, <2>1, <2>2, <4>4
      <4> QED
        BY <4>2, <4>4, <4>5
    <3>2. ASSUME NEW i \in 1..Len(q), ~(i <= n) PROVE ~Open(q[i])
      <4>1. CASE k = 1
        <5>1. Ahead(q, q[k], q[i]) /\ q[k] \in Messages
          BY <1>1, <2>2, <3>2, <4>1 DEF Ahead
        <5> QED
          BY <2>2, <5>1
      <4>2. CASE k # 1 /\ i = k
        <5>1. Ahead(q, q[1], q[i]) /\ q[1] \in Messages
          BY <1>1, <2>2, <3>2, <4>2 DEF Ahead
        <5> QED
          BY <2>2, <4>2, <5>1
      <4>3. CASE k # 1 /\ i # k
        <5>1. Ahead(q, q[k], q[i]) /\ q[k] \in Messages
          BY <1>1, <2>2, <3>2, <4>3 DEF Ahead
        <5> QED
          BY <2>2, <5>1
      <4> QED
        BY <4>1, <4>2, <4>3
    <3> HIDE DEF n, Open
    <3> QED
      BY <3>1, <3>2
  <2>5. /\ Batch(q) \in Seq(Messages) /\ Len(Batch(q)) = n
        /\ \A i \in 1..n : Batch(q)[i] = q[i]
    <3>1. \A i \in 1..n : q[i] \in Messages
      BY <1>1, <2>3
    <3>2. /\ SubSeq(q, 1, n) \in Seq(Messages)
          /\ Len(SubSeq(q, 1, n)) = IF 1 <= n THEN n - 1 + 1 ELSE 0
          /\ \A i \in 1..(n - 1 + 1) : SubSeq(q, 1, n)[i] = q[1 + i - 1]
      <4> HIDE DEF n
      <4> QED
        BY <2>3, <3>1, SubSeqProperties
    <3> HIDE DEF n
    <3> QED
      BY <1>1, <2>2, <2>3, <3>2
  <2>6. DOMAIN Batch(q) = 1..n
    BY <2>5, LenProperties
  <2> HIDE DEF n, Open
  <2>7. Members(Batch(q)) = {q[i] : i \in 1..n}
    BY <2>5, <2>6 DEF Members
  <2>8. {q[i] : i \in 1..n} = {a \in Members(q) : Open(a)}
    BY <1>1, <2>3, <2>4 DEF Members
  <2> QED
    BY <2>5, <2>7, <2>8 DEF Open
<1> QED
  BY <1>2, <1>4

----------------------------------------------------------------------------
(* What the dispatcher makes of a world in one turn *)

\* a world as it may be between two actions
Fit(w) ==
    /\ w \in Worlds
    /\ NoRepeat(w.line)
    /\ Members(w.line) = {m \in Messages : w.fate[m] = "queued"}

\* rows left the queue, the others stand as they did
Thins(v, w) ==
    /\ Members(w.line) \subseteq Members(v.line)
    /\ \A a, b \in Members(w.line) : Ahead(w.line, a, b) <=> Ahead(v.line, a, b)

\* what a turn of the dispatcher leaves alone
Alike(v, w) ==
    /\ w.extras = v.extras
    /\ w.caps = v.caps
    /\ w.minutes = v.minutes
    /\ w.archived = v.archived
    /\ w.retired = v.retired
    /\ w.closed = v.closed
    /\ Held(v) \subseteq Held(w)
    /\ \A y \in Held(v) : w.sends[y] = v.sends[y]
    /\ \A m \in Messages : v.fate[m] # "queued" => w.fate[m] = v.fate[m]

Started(v, w) == {m \in Members(v.line) : w.fate[m] = "started"}

\* the rows of a chat start once, in their order, a summon alone
Ordered(v, w) ==
    \A m \in Started(v, w) :
        /\ ChatOf[m] \in Held(w) \ Held(v)
        /\ \A n \in Line(w, ChatOf[m]) : ~Ahead(v.line, n, m)
        /\ \A n \in Started(v, w) :
              ChatOf[n] = ChatOf[m] /\ m \in Summons => n = m

\* a chat that starts leaves nothing of its opening queued
Whole(v, w) ==
    \A x \in Held(w) \ Held(v) : Opening(v, x) \cap Members(w.line) = {}

\* no row has a reason not to start
Sorted(w, x) == \A m \in Line(w, x) : Reason(w, m) = "none"

\* while a row of the opening waits, so do the rows behind the opening
Behind(v, w) ==
    \A x \in Chats :
        Sorted(v, x) /\ Opening(v, x) \cap Members(w.line) # {} =>
            Line(v, x) \ Opening(v, x) \subseteq Members(w.line)

\* an opening that may start together waits, starts or fails together
Together(v, w) ==
    \A x \in Chats :
        Sorted(v, x) /\ ~Within(Opening(v, x), Bad) =>
            \/ Opening(v, x) \subseteq Members(w.line)
            \/ Opening(v, x) \subseteq Started(v, w)
            \/ /\ Within(Opening(v, x), Flaky)
               /\ \A m \in Opening(v, x) : w.fate[m] = "failed"

\* rows that started, or that wait for a place and could start together
Stands(v, w, x, N) ==
    \/ N \subseteq Started(v, w)
    \/ N \subseteq Opening(w, x) /\ Sorted(w, x) /\ ~Within(Opening(w, x), Bad)

Near(v, w, x) == {n \in Line(v, x) : w.fate[n] \in {"queued", "started"}}

\* why row m of x turned failed
Cause(v, w, x, m) ==
    \/ lost[Author[m]] = "login"
    \/ \E N \in SUBSET Line(v, x) : Within(N \cup {m}, Bad) /\ Stands(v, w, x, N)
    \/ \E B \in Flaky : /\ B \subseteq Line(v, x)
                        /\ m \in B \/ B \cap Near(v, w, x) = {}

Caused(v, w) ==
    \A m \in Members(v.line) : w.fate[m] = "failed" => Cause(v, w, ChatOf[m], m)

Dispatches(v, w) ==
    /\ Fit(w)
    /\ Thins(v, w)
    /\ Alike(v, w)
    /\ Ordered(v, w)
    /\ Whole(v, w)
    /\ Behind(v, w)
    /\ Together(v, w)
    /\ Caused(v, w)

\* What is known of the list of a world.
LEMMA FitLine ==
    ASSUME NEW w, Fit(w)
    PROVE  /\ w.line \in Seq(Messages)
           /\ Len(w.line) \in Nat
           /\ DOMAIN w.line = 1..Len(w.line)
           /\ NoRepeat(w.line)
           /\ Members(w.line) \subseteq Messages
           /\ \A m \in Messages : m \in Members(w.line) <=> w.fate[m] = "queued"
           /\ \A a, b \in Members(w.line) :
                 a # b => Ahead(w.line, a, b) \/ Ahead(w.line, b, a)
           /\ \A a \in Members(w.line) : ~Ahead(w.line, a, a)
           /\ \A a, b, c \in Members(w.line) :
                 Ahead(w.line, a, b) /\ Ahead(w.line, b, c) => Ahead(w.line, a, c)
           /\ \A a, b : Ahead(w.line, a, b) =>
                 a \in Members(w.line) /\ b \in Members(w.line)
           /\ ChatOf \in [Messages -> Chats]
<1>1. w.line \in Seq(Messages) /\ NoRepeat(w.line)
  BY DEF Fit, Worlds
<1>2. Len(w.line) \in Nat /\ DOMAIN w.line = 1..Len(w.line)
  BY <1>1, LenProperties
<1>3. Members(w.line) \subseteq Messages
  BY DEF Fit
<1>4. \A m \in Messages : m \in Members(w.line) <=> w.fate[m] = "queued"
  BY DEF Fit
<1>5. \A a, b \in Members(w.line) :
         a # b => Ahead(w.line, a, b) \/ Ahead(w.line, b, a)
  BY <1>2, AheadTotal
<1>6. \A a \in Members(w.line) : ~Ahead(w.line, a, a)
  BY <1>1, <1>2, AheadItself
<1>7. \A a, b, c \in Members(w.line) :
         Ahead(w.line, a, b) /\ Ahead(w.line, b, c) => Ahead(w.line, a, c)
  BY <1>1, <1>2, AheadTransitive
<1>8. \A a, b : Ahead(w.line, a, b) => a \in Members(w.line) /\ b \in Members(w.line)
  BY AheadMembers
<1> QED
  BY <1>1, <1>2, <1>3, <1>4, <1>5, <1>6, <1>7, <1>8, QueueAssumption

\* The batch of the rows of x is their opening.
LEMMA BatchOpens ==
    ASSUME NEW w, Fit(w), NEW x
    PROVE  /\ Batch(Rows(w, x)) \in Seq(Messages)
           /\ Members(Batch(Rows(w, x))) = Opening(w, x)
<1> DEFINE q == Rows(w, x)
<1>1. /\ q \in Seq(Messages) /\ Members(q) = Line(w, x)
      /\ \A a, b \in Messages :
            Ahead(q, a, b) <=> ChatOf[a] = x /\ ChatOf[b] = x /\ Ahead(w.line, a, b)
  BY FitLine, RowsMembers
<1>2. Len(q) \in Nat /\ DOMAIN q = 1..Len(q)
  BY <1>1, LenProperties
<1> HIDE DEF q
<1>3. NoRepeat(q)
  <2>1. \A a \in Members(q) : ~Ahead(q, a, a)
    BY <1>1, FitLine DEF Line
  <2> QED
    BY <1>2, <2>1, AheadItself
<1>4. /\ Batch(q) \in Seq(Messages)
      /\ Members(Batch(q)) =
           {a \in Members(q) : \A b \in Messages : Ahead(q, b, a) =>
                                 b \notin Summons /\ a \notin Summons}
  BY <1>1, <1>3, BatchMembers
<1>5. ASSUME NEW a \in Line(w, x)
      PROVE  (\A b \in Messages : Ahead(q, b, a) => b \notin Summons /\ a \notin Summons)
               <=> Opens(w, a)
  BY <1>1, <1>5, FitLine DEF Line, Opens
<1> QED
  BY <1>1, <1>4, <1>5 DEF q, Opening

\* A row that opens still does when others left.
LEMMA OpensStill ==
    ASSUME NEW v, NEW w, Fit(v), Fit(w), Thins(v, w),
           NEW a \in Members(w.line), Opens(v, a)
    PROVE  Opens(w, a)
BY FitLine DEF Opens, Thins

\* An opening that lost rows, and lost none to the rows behind it.
LEMMA OpeningStill ==
    ASSUME NEW v, NEW w, Fit(v), Fit(w), Thins(v, w), NEW x,
           Opening(v, x) \cap Members(w.line) # {},
           Line(v, x) \ Opening(v, x) \subseteq Members(w.line)
    PROVE  Opening(w, x) = Opening(v, x) \cap Members(w.line)
<1>1. ASSUME NEW b \in Opening(v, x) \cap Members(w.line) PROVE b \in Opening(w, x)
  BY <1>1, OpensStill DEF Opening, Line
<1>2. ASSUME NEW b \in Opening(w, x), b \notin Opening(v, x) PROVE FALSE
  <2>1. PICK a \in Opening(v, x) : a \in Members(w.line)
    OBVIOUS
  <2>2. /\ b \in Members(w.line) /\ b \in Line(v, x) /\ ~Opens(v, b) /\ Opens(w, b)
        /\ a \in Members(v.line) /\ ChatOf[a] = x /\ ChatOf[b] = x /\ Opens(v, a)
        /\ a # b /\ b \in Members(v.line)
    BY <1>2, <2>1 DEF Opening, Line, Thins
  <2>3. PICK c \in Messages : /\ Ahead(v.line, c, b) /\ ChatOf[c] = x
                              /\ c \in Summons \/ b \in Summons
    BY <2>2 DEF Opens
  <2>4. c \notin Members(w.line)
    BY <2>2, <2>3 DEF Opens, Thins
  <2>5. c \in Opening(v, x) /\ c # a
    BY <2>1, <2>3, <2>4, FitLine DEF Line
  <2>6. Ahead(v.line, a, c) \/ Ahead(v.line, c, a)
    BY <2>1, <2>2, <2>5, FitLine DEF Opening, Line
  <2>7. c \notin Summons
    BY <2>2, <2>3, <2>5, <2>6, FitLine DEF Opens, Opening
  <2>8. ~Ahead(v.line, b, a)
    BY <2>2, <2>3, <2>7, FitLine DEF Opens
  <2>9. Ahead(w.line, a, b)
    BY <2>1, <2>2, <2>8, FitLine DEF Thins
  <2> QED
    BY <2>2, <2>3, <2>7, <2>9, FitLine DEF Opens
<1> QED
  BY <1>1, <1>2 DEF Opening, Line

\* A row that left the queue stays as it left, and a reason stands.
LEMMA AlikeRows ==
    ASSUME NEW v, NEW w, Fit(v), Fit(w), Thins(v, w), Alike(v, w)
    PROVE  /\ \A m \in Messages :
                 m \notin Members(v.line) => w.fate[m] = v.fate[m]
           /\ \A m \in Messages : Reason(w, m) = Reason(v, m)
           /\ \A x : Line(w, x) \subseteq Line(v, x)
           /\ \A x : Sorted(v, x) => Sorted(w, x)
<1>1. \A m \in Messages : m \notin Members(v.line) => w.fate[m] = v.fate[m]
  BY FitLine DEF Alike
<1>2. \A m \in Messages : Reason(w, m) = Reason(v, m)
  BY DEF Reason, Alike
<1>3. \A x : Line(w, x) \subseteq Line(v, x)
  BY DEF Thins, Line
<1>4. \A x : Line(w, x) \subseteq Messages
  BY FitLine DEF Line
<1>5. \A x : Sorted(v, x) => Sorted(w, x)
  BY <1>2, <1>3, <1>4 DEF Sorted
<1> QED
  BY <1>1, <1>2, <1>3, <1>5

\* The rows that start in two turns.
LEMMA StartedTwice ==
    ASSUME NEW v, NEW w, NEW u, Fit(v), Fit(w), Fit(u), Thins(v, w), Thins(w, u),
           Alike(v, w), Alike(w, u)
    PROVE  /\ Started(v, u) = Started(v, w) \cup Started(w, u)
           /\ Started(v, w) \cap Members(w.line) = {}
           /\ \A m \in Members(v.line) \ Members(w.line) : u.fate[m] = w.fate[m]
<1>1. /\ \A m \in Messages : m \notin Members(w.line) => u.fate[m] = w.fate[m]
      /\ \A m \in Messages : m \in Members(w.line) <=> w.fate[m] = "queued"
      /\ Members(v.line) \subseteq Messages
      /\ Members(w.line) \subseteq Members(v.line)
  BY AlikeRows, FitLine DEF Thins
<1> QED
  BY <1>1 DEF Started

LEMMA ThinsOn ==
    ASSUME NEW v, NEW w, NEW u, Thins(v, w), Thins(w, u)
    PROVE  Thins(v, u)
BY DEF Thins

LEMMA AlikeOn ==
    ASSUME NEW v, NEW w, NEW u, Alike(v, w), Alike(w, u)
    PROVE  Alike(v, u)
<1>1. \A m \in Messages : v.fate[m] # "queued" => u.fate[m] = v.fate[m]
  BY DEF Alike
<1> QED
  BY <1>1 DEF Alike

LEMMA OrderedOn ==
    ASSUME NEW v, NEW w, NEW u, Fit(v), Dispatches(v, w), Dispatches(w, u)
    PROVE  Ordered(v, u)
<1>1. /\ Fit(w) /\ Fit(u) /\ Thins(v, w) /\ Thins(w, u) /\ Alike(v, w) /\ Alike(w, u)
      /\ Ordered(v, w) /\ Ordered(w, u)
  BY DEF Dispatches
<1>2. /\ Started(v, u) = Started(v, w) \cup Started(w, u)
      /\ Started(v, w) \cap Members(w.line) = {}
      /\ Started(w, u) \subseteq Members(w.line)
  BY <1>1, StartedTwice DEF Started
<1>3. Held(v) \subseteq Held(w) /\ Held(w) \subseteq Held(u)
  BY <1>1 DEF Alike
<1> SUFFICES ASSUME NEW m \in Started(v, u)
             PROVE  /\ ChatOf[m] \in Held(u) \ Held(v)
                    /\ \A n \in Line(u, ChatOf[m]) : ~Ahead(v.line, n, m)
                    /\ \A n \in Started(v, u) :
                          ChatOf[n] = ChatOf[m] /\ m \in Summons => n = m
  BY DEF Ordered
<1>4. CASE m \in Started(v, w)
  <2>1. ChatOf[m] \in Held(w) \ Held(v)
    BY <1>1, <1>4 DEF Ordered
  <2>2. \A n \in Line(u, ChatOf[m]) : ~Ahead(v.line, n, m)
    <3>1. Line(u, ChatOf[m]) \subseteq Line(w, ChatOf[m])
      BY <1>1, AlikeRows
    <3> QED
      BY <1>1, <1>4, <3>1 DEF Ordered
  <2>3. \A n \in Started(v, u) : ChatOf[n] = ChatOf[m] => n \in Started(v, w)
    BY <1>1, <1>2, <2>1 DEF Ordered
  <2> QED
    BY <1>1, <1>3, <1>4, <2>1, <2>2, <2>3 DEF Ordered
<1>5. CASE m \in Started(w, u)
  <2>1. ChatOf[m] \in Held(u) \ Held(w)
    BY <1>1, <1>5 DEF Ordered
  <2>2. \A n \in Line(u, ChatOf[m]) : ~Ahead(v.line, n, m)
    <3>1. ASSUME NEW n \in Line(u, ChatOf[m]) PROVE ~Ahead(v.line, n, m)
      <4>1. n \in Members(w.line) /\ m \in Members(w.line)
        BY <1>1, <1>5 DEF Started, Line, Thins
      <4> QED
        BY <1>1, <1>5, <3>1, <4>1 DEF Ordered, Thins
    <3> QED
      BY <3>1
  <2>3. \A n \in Started(v, u) : ChatOf[n] = ChatOf[m] => n \in Started(w, u)
    BY <1>1, <1>2, <2>1 DEF Ordered
  <2> QED
    BY <1>1, <1>3, <1>5, <2>1, <2>2, <2>3 DEF Ordered
<1> QED
  BY <1>2, <1>4, <1>5

LEMMA WholeOn ==
    ASSUME NEW v, NEW w, NEW u, Fit(v), Dispatches(v, w), Dispatches(w, u)
    PROVE  Whole(v, u)
<1>1. /\ Fit(w) /\ Fit(u) /\ Thins(v, w) /\ Thins(w, u)
      /\ Whole(v, w) /\ Whole(w, u)
  BY DEF Dispatches
<1>2. SUFFICES ASSUME NEW x \in Held(u) \ Held(v),
                      NEW m \in Opening(v, x), m \in Members(u.line)
               PROVE  FALSE
  BY DEF Whole
<1>3. m \in Members(w.line)
  BY <1>1, <1>2 DEF Thins
<1>4. x \notin Held(w)
  BY <1>1, <1>2, <1>3 DEF Whole
<1>5. m \in Opening(w, x)
  BY <1>1, <1>2, <1>3, OpensStill DEF Opening, Line
<1> QED
  BY <1>1, <1>2, <1>4, <1>5 DEF Whole

LEMMA BehindOn ==
    ASSUME NEW v, NEW w, NEW u, Fit(v), Dispatches(v, w), Dispatches(w, u)
    PROVE  Behind(v, u)
<1>1. /\ Fit(w) /\ Fit(u) /\ Thins(v, w) /\ Thins(w, u) /\ Alike(v, w)
      /\ Behind(v, w) /\ Behind(w, u)
  BY DEF Dispatches
<1>2. SUFFICES ASSUME NEW x \in Chats, Sorted(v, x),
                      Opening(v, x) \cap Members(u.line) # {}
               PROVE  Line(v, x) \ Opening(v, x) \subseteq Members(u.line)
  BY DEF Behind
<1>3. Opening(v, x) \cap Members(w.line) # {}
  BY <1>1, <1>2 DEF Thins
<1>4. Line(v, x) \ Opening(v, x) \subseteq Members(w.line)
  BY <1>1, <1>2, <1>3 DEF Behind
<1>5. Opening(w, x) = Opening(v, x) \cap Members(w.line)
  BY <1>1, <1>3, <1>4, OpeningStill
<1>6. Sorted(w, x)
  BY <1>1, <1>2, AlikeRows
<1>7. Opening(w, x) \cap Members(u.line) # {}
  BY <1>1, <1>2, <1>5 DEF Thins
<1>8. Line(w, x) \ Opening(w, x) \subseteq Members(u.line)
  BY <1>1, <1>6, <1>7 DEF Behind
<1> QED
  BY <1>4, <1>5, <1>8 DEF Line

LEMMA TogetherOn ==
    ASSUME NEW v, NEW w, NEW u, Fit(v), Dispatches(v, w), Dispatches(w, u)
    PROVE  Together(v, u)
<1>1. /\ Fit(w) /\ Fit(u) /\ Thins(v, w) /\ Thins(w, u)
      /\ Alike(v, w) /\ Alike(w, u)
      /\ Behind(v, w) /\ Together(v, w) /\ Together(w, u)
  BY DEF Dispatches
<1>2. /\ Started(v, w) \subseteq Started(v, u) /\ Started(w, u) \subseteq Started(v, u)
      /\ \A m \in Members(v.line) \ Members(w.line) : u.fate[m] = w.fate[m]
  BY <1>1, StartedTwice
<1>3. SUFFICES ASSUME NEW x \in Chats, Sorted(v, x), ~Within(Opening(v, x), Bad)
               PROVE  \/ Opening(v, x) \subseteq Members(u.line)
                      \/ Opening(v, x) \subseteq Started(v, u)
                      \/ /\ Within(Opening(v, x), Flaky)
                         /\ \A m \in Opening(v, x) : u.fate[m] = "failed"
  BY DEF Together
<1>4. Opening(v, x) \subseteq Members(v.line) /\ Members(v.line) \subseteq Messages
  BY FitLine DEF Opening, Line
<1>5. CASE Opening(v, x) = {}
  BY <1>5
<1>6. CASE Opening(v, x) \subseteq Members(w.line) /\ Opening(v, x) # {}
  <2>1. Line(v, x) \ Opening(v, x) \subseteq Members(w.line)
    BY <1>1, <1>3, <1>6 DEF Behind
  <2>2. Opening(w, x) = Opening(v, x)
    <3>1. Opening(w, x) = Opening(v, x) \cap Members(w.line)
      BY <1>1, <1>6, <2>1, OpeningStill
    <3> QED
      BY <1>6, <3>1
  <2>3. Sorted(w, x)
    BY <1>1, <1>3, AlikeRows
  <2> QED
    BY <1>1, <1>2, <1>3, <2>2, <2>3 DEF Together
<1>7. CASE Opening(v, x) \subseteq Started(v, w)
  BY <1>2, <1>7
<1>8. CASE /\ Within(Opening(v, x), Flaky)
           /\ \A m \in Opening(v, x) : w.fate[m] = "failed"
  <2>1. \A m \in Opening(v, x) : m \notin Members(w.line)
    BY <1>1, <1>4, <1>8, FitLine
  <2>2. \A m \in Opening(v, x) : u.fate[m] = "failed"
    BY <1>2, <1>4, <1>8, <2>1
  <2> QED
    BY <1>8, <2>2
<1> QED
  BY <1>1, <1>3, <1>5, <1>6, <1>7, <1>8 DEF Together

LEMMA CausedOn ==
    ASSUME NEW v, NEW w, NEW u, Fit(v), Dispatches(v, w), Dispatches(w, u)
    PROVE  Caused(v, u)
<1>1. /\ Fit(w) /\ Fit(u) /\ Thins(v, w) /\ Thins(w, u)
      /\ Alike(v, w) /\ Alike(w, u) /\ Behind(w, u) /\ Together(w, u)
      /\ Caused(v, w) /\ Caused(w, u)
  BY DEF Dispatches
<1>2. /\ Started(v, u) = Started(v, w) \cup Started(w, u)
      /\ \A m \in Members(v.line) \ Members(w.line) : u.fate[m] = w.fate[m]
      /\ Members(w.line) \subseteq Members(v.line)
      /\ Members(v.line) \subseteq Messages
  BY <1>1, StartedTwice, FitLine DEF Thins
<1>3. \A x : Near(v, u, x) \subseteq Near(v, w, x)
  <2>1. ASSUME NEW x, NEW n \in Near(v, u, x) PROVE w.fate[n] \in {"queued", "started"}
    <3>1. n \in Members(v.line) /\ u.fate[n] \in {"queued", "started"}
      BY <2>1 DEF Near, Line
    <3>2. CASE n \in Members(w.line)
      BY <1>1, <1>2, <3>1, <3>2, FitLine
    <3>3. CASE n \notin Members(w.line)
      BY <1>2, <3>1, <3>3
    <3> QED
      BY <3>2, <3>3
  <2> QED
    BY <2>1 DEF Near
<1>4. SUFFICES ASSUME NEW m \in Members(v.line), u.fate[m] = "failed",
                      lost[Author[m]] # "login"
               PROVE  Cause(v, u, ChatOf[m], m)
  BY DEF Caused, Cause
<1> DEFINE x == ChatOf[m]
<1>5. x \in Chats
  BY <1>2, QueueAssumption
<1>6. CASE m \notin Members(w.line)
  <2>1. Cause(v, w, x, m)
    BY <1>1, <1>2, <1>4, <1>6 DEF Caused
  <2>2. CASE \E B \in Flaky : /\ B \subseteq Line(v, x)
                              /\ m \in B \/ B \cap Near(v, w, x) = {}
    BY <1>3, <2>2 DEF Cause
  <2>3. CASE \E N \in SUBSET Line(v, x) : Within(N \cup {m}, Bad) /\ Stands(v, w, x, N)
    <3>1. PICK N \in SUBSET Line(v, x) : Within(N \cup {m}, Bad) /\ Stands(v, w, x, N)
      BY <2>3
    <3>2. CASE N \subseteq Started(v, w)
      BY <1>2, <3>1, <3>2 DEF Cause, Stands
    <3>3. CASE /\ N \subseteq Opening(w, x) /\ Sorted(w, x)
               /\ ~Within(Opening(w, x), Bad)
      <4>1. CASE Opening(w, x) \subseteq Started(w, u)
        BY <1>2, <3>1, <3>3, <4>1 DEF Cause, Stands
      <4>2. CASE Opening(w, x) \subseteq Members(u.line) /\ Opening(w, x) # {}
        <5>1. Line(w, x) \ Opening(w, x) \subseteq Members(u.line)
          BY <1>1, <1>5, <3>3, <4>2 DEF Behind
        <5>2. Opening(u, x) = Opening(w, x)
          <6>1. Opening(u, x) = Opening(w, x) \cap Members(u.line)
            BY <1>1, <4>2, <5>1, OpeningStill
          <6> QED
            BY <4>2, <6>1
        <5>3. Sorted(u, x)
          BY <1>1, <3>3, AlikeRows
        <5> QED
          BY <3>1, <3>3, <5>2, <5>3 DEF Cause, Stands
      <4>3. CASE Opening(w, x) = {}
        BY <3>1, <3>3, <4>3 DEF Cause, Stands
      <4>4. CASE /\ Within(Opening(w, x), Flaky)
                 /\ \A n \in Opening(w, x) : u.fate[n] = "failed"
        <5>1. PICK B \in Flaky : B \subseteq Opening(w, x)
          BY <4>4 DEF Within
        <5>2. B \subseteq Line(v, x)
          BY <1>2, <5>1 DEF Opening, Line
        <5>3. B \cap Near(v, u, x) = {}
          BY <4>4, <5>1 DEF Near
        <5> QED
          BY <5>2, <5>3 DEF Cause
      <4> QED
        BY <1>1, <1>5, <3>3, <4>1, <4>2, <4>3, <4>4 DEF Together
    <3> QED
      BY <3>1, <3>2, <3>3 DEF Stands
  <2> QED
    BY <1>4, <2>1, <2>2, <2>3 DEF Cause
<1>7. CASE m \in Members(w.line)
  <2>1. Cause(w, u, x, m)
    BY <1>1, <1>4, <1>7 DEF Caused
  <2>2. Line(w, x) \subseteq Line(v, x)
    BY <1>2 DEF Line
  <2>3. CASE \E B \in Flaky : /\ B \subseteq Line(w, x)
                              /\ m \in B \/ B \cap Near(w, u, x) = {}
    <3>1. PICK B \in Flaky : /\ B \subseteq Line(w, x)
                             /\ m \in B \/ B \cap Near(w, u, x) = {}
      BY <2>3
    <3>2. B \cap Near(v, u, x) \subseteq Near(w, u, x)
      BY <3>1 DEF Near
    <3> QED
      BY <2>2, <3>1, <3>2 DEF Cause
  <2>4. CASE \E N \in SUBSET Line(w, x) : Within(N \cup {m}, Bad) /\ Stands(w, u, x, N)
    <3>1. PICK N \in SUBSET Line(w, x) : Within(N \cup {m}, Bad) /\ Stands(w, u, x, N)
      BY <2>4
    <3>2. Stands(v, u, x, N)
      BY <1>2, <3>1 DEF Stands
    <3> QED
      BY <2>2, <3>1, <3>2 DEF Cause
  <2> QED
    BY <1>4, <2>1, <2>3, <2>4 DEF Cause
<1> QED
  BY <1>6, <1>7

\* What two turns make of a world, one makes of it.
LEMMA DispatchesOn ==
    ASSUME NEW v, NEW w, NEW u, Fit(v), Dispatches(v, w), Dispatches(w, u)
    PROVE  Dispatches(v, u)
BY OrderedOn, WholeOn, BehindOn, TogetherOn, CausedOn, ThinsOn, AlikeOn DEF Dispatches

LEMMA DispatchesNothing ==
    ASSUME NEW w, Fit(w)
    PROVE  Dispatches(w, w)
<1>1. Started(w, w) = {}
  BY FitLine DEF Started
<1>2. \A m \in Members(w.line) : w.fate[m] = "queued"
  BY FitLine
<1>3. Caused(w, w) /\ Ordered(w, w)
  BY <1>1, <1>2 DEF Caused, Ordered
<1>4. Behind(w, w) /\ Together(w, w)
  BY DEF Behind, Together, Opening, Line
<1> QED
  BY <1>3, <1>4 DEF Dispatches, Thins, Alike, Whole

----------------------------------------------------------------------------
(* The steps of a turn *)

\* everything but the queue and the sends stands
SameRest(v, w) ==
    /\ w.extras = v.extras
    /\ w.caps = v.caps
    /\ w.minutes = v.minutes
    /\ w.archived = v.archived
    /\ w.retired = v.retired
    /\ w.closed = v.closed

SameBut(v, w) == w.sends = v.sends /\ SameRest(v, w)

LEMMA LeaveRows ==
    ASSUME NEW w, Fit(w), NEW became, DOMAIN became \subseteq Messages,
           \A m \in DOMAIN became : became[m] \in Fates \ {"queued"}
    PROVE  /\ Fit(Leave(w, became))
           /\ Thins(w, Leave(w, became))
           /\ SameBut(w, Leave(w, became))
           /\ Members(Leave(w, became).line) = Members(w.line) \ DOMAIN became
           /\ Leave(w, became).fate =
                [m \in Messages |-> IF m \in DOMAIN became THEN became[m] ELSE w.fate[m]]
<1> DEFINE S == Messages \ DOMAIN became
           u == Leave(w, became)
           f == [m \in Messages |-> IF m \in DOMAIN became THEN became[m] ELSE w.fate[m]]
<1>1. /\ Only(w.line, S) \in Seq(Messages)
      /\ Members(Only(w.line, S)) = Members(w.line) \cap S
      /\ \A a, b \in Messages :
            Ahead(Only(w.line, S), a, b) <=> a \in S /\ b \in S /\ Ahead(w.line, a, b)
  <2> HIDE DEF S
  <2> QED
    BY FitLine, OnlyKeeps
<1>2. w \in Worlds
  BY DEF Fit
<1>3. f \in [Messages -> Fates]
  BY <1>2 DEF Worlds
<1>4. u = [w EXCEPT !.line = Only(w.line, S), !.fate = f]
  BY DEF Leave
<1>5. /\ u \in Worlds /\ u.line = Only(w.line, S) /\ u.fate = f
      /\ SameBut(w, u)
  <2> HIDE DEF S, f, u
  <2> QED
    BY <1>1, <1>2, <1>3, <1>4 DEF Worlds, SameBut, SameRest
<1>6. Members(u.line) = Members(w.line) \ DOMAIN became
  BY <1>1, <1>5, FitLine
<1>7. \A a, b \in Members(u.line) : Ahead(u.line, a, b) <=> Ahead(w.line, a, b)
  <2>1. Members(u.line) \subseteq Messages /\ Members(u.line) \subseteq S
    BY <1>6, FitLine
  <2> HIDE DEF u, S
  <2> QED
    BY <1>1, <1>5, <2>1
<1>8. NoRepeat(u.line)
  <2>1. Len(u.line) \in Nat /\ DOMAIN u.line = 1..Len(u.line)
    BY <1>1, <1>5, LenProperties
  <2>2. \A a \in Members(u.line) : ~Ahead(u.line, a, a)
    BY <1>6, <1>7, FitLine
  <2> HIDE DEF u
  <2> QED
    BY <2>1, <2>2, AheadItself
<1>9. Members(u.line) = {m \in Messages : u.fate[m] = "queued"}
  <2>1. \A m \in Messages : u.fate[m] = "queued" <=> m \in Members(u.line)
    <3> HIDE DEF u
    <3> QED
      BY <1>5, <1>6, FitLine DEF f
  <2> HIDE DEF u
  <2> QED
    BY <1>6, <2>1, FitLine
<1> HIDE DEF u, f
<1>10. Fit(u) /\ Thins(w, u)
  BY <1>5, <1>6, <1>7, <1>8, <1>9 DEF Fit, Thins
<1> QED
  BY <1>5, <1>6, <1>10 DEF u, f

LEMMA SameAlike ==
    ASSUME NEW v, NEW w, SameBut(v, w),
           \A m \in Messages : v.fate[m] # "queued" => w.fate[m] = v.fate[m]
    PROVE  Alike(v, w) /\ Held(w) = Held(v)
BY DEF SameBut, SameRest, Alike, Held

\* the rows of one chat left, or none
LeavesOne(v, w, x) ==
    /\ Fit(w) /\ Thins(v, w) /\ Alike(v, w)
    /\ \A y \in Chats \ {x} : Line(w, y) = Line(v, y)

\* The clauses of a step that moves one chat, as far as the others go.
LEMMA OneChat ==
    ASSUME NEW v, NEW w, NEW x \in Chats, Fit(v), LeavesOne(v, w, x),
           Held(w) \ Held(v) \subseteq {x},
           Started(v, w) # {} => x \notin Held(v) /\ x \in Held(w),
           \A m \in Started(v, w) :
              /\ \A n \in Line(w, x) : ~Ahead(v.line, n, m)
              /\ \A n \in Started(v, w) : m \in Summons => n = m,
           x \in Held(w) \ Held(v) => Opening(v, x) \cap Members(w.line) = {},
           Sorted(v, x) /\ Opening(v, x) \cap Members(w.line) # {} =>
              Line(v, x) \ Opening(v, x) \subseteq Members(w.line),
           Sorted(v, x) /\ ~Within(Opening(v, x), Bad) =>
              \/ Opening(v, x) \subseteq Members(w.line)
              \/ Opening(v, x) \subseteq Started(v, w)
              \/ /\ Within(Opening(v, x), Flaky)
                 /\ \A m \in Opening(v, x) : w.fate[m] = "failed",
           \A m \in Line(v, x) : w.fate[m] = "failed" => Cause(v, w, x, m)
    PROVE  Dispatches(v, w)
<1>1. /\ Members(v.line) \subseteq Messages
      /\ \A m \in Messages : ChatOf[m] \in Chats
      /\ \A m \in Messages : m \in Members(w.line) <=> w.fate[m] = "queued"
  BY FitLine, QueueAssumption DEF LeavesOne
<1>2. ASSUME NEW m \in Members(v.line), ChatOf[m] # x
      PROVE  m \in Members(w.line) /\ w.fate[m] = "queued"
  BY <1>1, <1>2 DEF LeavesOne, Line
<1>3. \A m \in Started(v, w) : ChatOf[m] = x /\ m \in Members(v.line)
  BY <1>2 DEF Started
<1>4. Ordered(v, w)
  BY <1>3 DEF Ordered
<1>5. Whole(v, w)
  BY DEF Whole
<1>6. \A y \in Chats \ {x} : Line(v, y) \subseteq Members(w.line)
  BY <1>2 DEF Line
<1>7. \A y : Opening(v, y) \subseteq Line(v, y)
  BY DEF Opening
<1>8. Behind(v, w)
  BY <1>6 DEF Behind
<1>9. Together(v, w)
  BY <1>6, <1>7 DEF Together
<1>10. Caused(v, w)
  BY <1>2 DEF Caused, Line
<1> QED
  BY <1>4, <1>5, <1>8, <1>9, <1>10 DEF Dispatches, LeavesOne

\* A reason's word is the fate of a row it turns away.
LEMMA ReasonWords ==
    ASSUME NEW w, NEW m
    PROVE  /\ Reason(w, m) \in {"gone", "archived", "agent-deleted", "expired",
                                "failed", "none"}
           /\ Reason(w, m) = "failed" => lost[Author[m]] = "login"
BY DEF Reason

\* What sort() makes of the rows of a chat.
LEMMA SortDispatches ==
    ASSUME NEW w, Fit(w), NEW x \in Chats
    PROVE  /\ Dispatches(w, Sort(w, x))
           /\ Sorted(Sort(w, x), x)
           /\ SameBut(w, Sort(w, x))
<1> DEFINE D == {n \in Members(Rows(w, x)) : Reason(w, n) # "none"}
           became == [m \in D |-> Reason(w, m)]
           u == Sort(w, x)
<1>1. D = {n \in Line(w, x) : Reason(w, n) # "none"}
  BY FitLine, RowsMembers
<1>2. D \subseteq Messages /\ D \subseteq Line(w, x) /\ D \subseteq Members(w.line)
      /\ DOMAIN became = D
  BY <1>1, FitLine DEF Line
<1>3. \A m \in D : became[m] = Reason(w, m) /\ became[m] \in Fates \ {"queued"}
      /\ became[m] # "started"
  BY <1>1, ReasonWords DEF Fates, NotSent
<1>4. u = Leave(w, became)
  BY DEF Sort
<1> HIDE DEF D, became, u
<1>5. /\ Fit(u) /\ Thins(w, u) /\ SameBut(w, u)
      /\ Members(u.line) = Members(w.line) \ D
      /\ u.fate = [m \in Messages |-> IF m \in D THEN became[m] ELSE w.fate[m]]
  BY <1>2, <1>3, <1>4, LeaveRows
<1>6. \A m \in Messages : u.fate[m] = IF m \in D THEN became[m] ELSE w.fate[m]
  BY <1>5
<1>7. Alike(w, u) /\ Held(u) = Held(w)
  BY <1>2, <1>5, <1>6, FitLine, SameAlike
<1>8. LeavesOne(w, u, x)
  BY <1>2, <1>5, <1>7 DEF LeavesOne, Line
<1>9. Started(w, u) = {}
  BY <1>3, <1>6, FitLine DEF Started
<1>10. Sorted(w, x) => D = {}
  BY <1>1 DEF Sorted
<1>11. \A m \in Line(w, x) : u.fate[m] = "failed" => Cause(w, u, x, m)
  BY <1>3, <1>6, ReasonWords, FitLine DEF Cause, Line
<1>12. Opening(w, x) \subseteq Line(w, x) /\ Line(w, x) \subseteq Members(w.line)
  BY DEF Opening, Line
<1>13. Dispatches(w, u)
  BY <1>5, <1>7, <1>8, <1>9, <1>10, <1>11, <1>12, OneChat
<1>14. Sorted(u, x)
  <2>1. ASSUME NEW m \in Line(u, x) PROVE Reason(u, m) = "none"
    <3>1. m \in Line(w, x) /\ m \notin D /\ m \in Messages
      BY <1>2, <1>5, <2>1, FitLine DEF Line
    <3> QED
      BY <1>1, <1>5, <1>7, <3>1, AlikeRows
  <2> QED
    BY <2>1 DEF Sorted
<1> QED
  BY <1>5, <1>13, <1>14 DEF u

LEMMA FailRows ==
    ASSUME NEW w, Fit(w), NEW S
    PROVE  /\ Fit(Fail(w, S)) /\ Thins(w, Fail(w, S)) /\ Alike(w, Fail(w, S))
           /\ SameBut(w, Fail(w, S)) /\ Held(Fail(w, S)) = Held(w)
           /\ Members(Fail(w, S).line) = Members(w.line) \ S
           /\ \A m \in Messages : Fail(w, S).fate[m] =
                IF m \in S \cap Members(w.line) THEN "failed" ELSE w.fate[m]
           /\ Started(w, Fail(w, S)) = {}
<1> DEFINE D == S \cap Members(w.line)
           u == Fail(w, S)
           became == All(D, "failed")
<1>1. DOMAIN became = D /\ \A m \in D : became[m] = "failed"
  BY DEF All
<1>2. D \subseteq Messages /\ "failed" \in Fates \ {"queued"}
  BY FitLine DEF Fates, NotSent
<1>3. u = Leave(w, became)
  BY DEF Fail
<1> HIDE DEF became, u
<1>4. /\ Fit(u) /\ Thins(w, u) /\ SameBut(w, u)
      /\ Members(u.line) = Members(w.line) \ D
      /\ u.fate = [m \in Messages |-> IF m \in D THEN became[m] ELSE w.fate[m]]
  BY <1>1, <1>2, <1>3, LeaveRows
<1>5. \A m \in Messages : u.fate[m] = IF m \in D THEN "failed" ELSE w.fate[m]
  BY <1>1, <1>4
<1>6. Alike(w, u) /\ Held(u) = Held(w)
  BY <1>4, <1>5, FitLine, SameAlike
<1>7. Started(w, u) = {}
  BY <1>5, FitLine DEF Started
<1> QED
  BY <1>4, <1>5, <1>6, <1>7 DEF u

\* The rows of a turn that cannot start with the others turn failed.
LEMMA FailSome ==
    ASSUME NEW w, Fit(w), NEW x \in Chats, Sorted(w, x), NEW S, NEW P,
           P \subseteq Opening(w, x), ~Within(P, Bad),
           S \cap Members(w.line) = Opening(w, x) \ P,
           \A m \in Opening(w, x) \ P : \E N \in SUBSET P : Within(N \cup {m}, Bad)
    PROVE  /\ Dispatches(w, Fail(w, S))
           /\ Sorted(Fail(w, S), x)
           /\ P # {} => Opening(Fail(w, S), x) = P
<1> DEFINE u == Fail(w, S)
<1>1. /\ Fit(u) /\ Thins(w, u) /\ Alike(w, u) /\ Held(u) = Held(w)
      /\ Members(u.line) = Members(w.line) \ S
      /\ Started(w, u) = {}
      /\ \A m \in Messages : u.fate[m] =
            IF m \in S \cap Members(w.line) THEN "failed" ELSE w.fate[m]
  BY FailRows
<1> HIDE DEF u
<1>2. /\ Opening(w, x) \subseteq Line(w, x) /\ Line(w, x) \subseteq Members(w.line)
      /\ Members(w.line) \subseteq Messages
  BY FitLine DEF Opening, Line
<1>3. Members(u.line) = Members(w.line) \ (Opening(w, x) \ P)
  BY <1>1
<1>4. LeavesOne(w, u, x)
  BY <1>1, <1>3 DEF LeavesOne, Line, Opening
<1>5. Line(w, x) \ Opening(w, x) \subseteq Members(u.line)
  BY <1>2, <1>3
<1>6. Opening(w, x) \cap Members(u.line) = P
  BY <1>2, <1>3
<1>7. P # {} => Opening(u, x) = P
  BY <1>1, <1>5, <1>6, OpeningStill
<1>8. Sorted(u, x)
  BY <1>1, AlikeRows
<1>9. ASSUME ~Within(Opening(w, x), Bad) PROVE Opening(w, x) \subseteq Members(u.line)
  <2>1. ASSUME NEW m \in Opening(w, x) \ P PROVE FALSE
    <3>1. PICK N \in SUBSET P : Within(N \cup {m}, Bad)
      BY <2>1
    <3>2. N \cup {m} \subseteq Opening(w, x)
      BY <2>1
    <3> QED
      BY <1>9, <3>1, <3>2, WithinPart
  <2> QED
    BY <1>2, <1>3, <2>1
<1>10. ASSUME NEW m \in Line(w, x), u.fate[m] = "failed" PROVE Cause(w, u, x, m)
  <2>1. m \in Opening(w, x) \ P
    BY <1>1, <1>2, <1>10, FitLine
  <2>2. PICK N \in SUBSET P : Within(N \cup {m}, Bad)
    BY <2>1
  <2>3. Stands(w, u, x, N)
    BY <1>7, <1>8 DEF Stands
  <2> QED
    BY <1>2, <2>2, <2>3 DEF Cause
<1>11. Dispatches(w, u)
  BY <1>1, <1>4, <1>5, <1>9, <1>10, OneChat
<1> QED
  BY <1>7, <1>8, <1>11 DEF u

\* A turn whose trials passed and whose start failed turns failed.
LEMMA FailLate ==
    ASSUME NEW w, Fit(w), NEW x \in Chats, NEW S, Within(Opening(w, x), Flaky),
           S \cap Members(w.line) = Opening(w, x)
    PROVE  Dispatches(w, Fail(w, S))
<1> DEFINE u == Fail(w, S)
<1>1. /\ Fit(u) /\ Thins(w, u) /\ Alike(w, u) /\ Held(u) = Held(w)
      /\ Members(u.line) = Members(w.line) \ S
      /\ Started(w, u) = {}
      /\ \A m \in Messages : u.fate[m] =
            IF m \in S \cap Members(w.line) THEN "failed" ELSE w.fate[m]
  BY FailRows
<1> HIDE DEF u
<1>2. /\ Opening(w, x) \subseteq Line(w, x) /\ Line(w, x) \subseteq Members(w.line)
      /\ Members(w.line) \subseteq Messages
  BY FitLine DEF Opening, Line
<1>3. Members(u.line) = Members(w.line) \ Opening(w, x)
  BY <1>1
<1>4. LeavesOne(w, u, x)
  BY <1>1, <1>3 DEF LeavesOne, Line, Opening
<1>5. \A m \in Opening(w, x) : u.fate[m] = "failed"
  BY <1>1, <1>2
<1>6. ASSUME NEW m \in Line(w, x), u.fate[m] = "failed" PROVE Cause(w, u, x, m)
  <2>1. PICK B \in Flaky : B \subseteq Opening(w, x)
    BY DEF Within
  <2>2. B \subseteq Line(w, x) /\ B \cap Near(w, u, x) = {}
    BY <1>2, <1>5, <2>1 DEF Near
  <2> QED
    BY <2>2 DEF Cause
<1>7. Opening(w, x) \cap Members(u.line) = {}
  BY <1>3
<1>8. Dispatches(w, u)
  BY <1>1, <1>4, <1>5, <1>6, <1>7, OneChat
<1> QED
  BY <1>8 DEF u

\* Rows that left already are not failed.
LEMMA FailNone ==
    ASSUME NEW w, Fit(w), NEW x \in Chats, NEW S, S \cap Members(w.line) = {}
    PROVE  Dispatches(w, Fail(w, S))
<1> DEFINE u == Fail(w, S)
<1>1. /\ Fit(u) /\ Thins(w, u) /\ Alike(w, u) /\ Held(u) = Held(w)
      /\ Members(u.line) = Members(w.line) \ S
      /\ Started(w, u) = {}
      /\ \A m \in Messages : u.fate[m] =
            IF m \in S \cap Members(w.line) THEN "failed" ELSE w.fate[m]
  BY FailRows
<1> HIDE DEF u
<1>2. /\ Opening(w, x) \subseteq Line(w, x) /\ Line(w, x) \subseteq Members(w.line)
      /\ Members(w.line) \subseteq Messages
  BY FitLine DEF Opening, Line
<1>3. Members(u.line) = Members(w.line)
  BY <1>1
<1>4. LeavesOne(w, u, x)
  BY <1>1, <1>3 DEF LeavesOne, Line
<1>5. \A m \in Line(w, x) : u.fate[m] # "failed"
  BY <1>1, <1>2, FitLine
<1>6. Dispatches(w, u)
  BY <1>1, <1>2, <1>3, <1>4, <1>5, OneChat
<1> QED
  BY <1>6 DEF u

\* A send that takes its place and the rows of its turn.
LEMMA TakeRows ==
    ASSUME NEW w, Fit(w), NEW x \in Sessions, NEW who \in Users \cup {Schedule},
           NEW S, S \subseteq Messages
    PROVE  /\ Fit(Take(w, x, who, S)) /\ Thins(w, Take(w, x, who, S))
           /\ Held(Take(w, x, who, S)) = Held(w) \cup {x}
           /\ \A y \in Held(w) \ {x} : Take(w, x, who, S).sends[y] = w.sends[y]
           /\ Take(w, x, who, S).sends[x] = who
           /\ Members(Take(w, x, who, S).line) = Members(w.line) \ S
           /\ \A m \in Messages : Take(w, x, who, S).fate[m] =
                IF m \in S THEN "started" ELSE w.fate[m]
           /\ SameRest(w, Take(w, x, who, S))
<1> DEFINE became == All(S, "started")
           l == Leave(w, became)
           f == [y \in Held(w) \cup {x} |-> IF y = x THEN who ELSE l.sends[y]]
           u == Take(w, x, who, S)
<1>1. DOMAIN became = S /\ \A m \in S : became[m] = "started"
  BY DEF All
<1>2. "started" \in Fates \ {"queued"}
  BY DEF Fates
<1> HIDE DEF became
<1>3. /\ Fit(l) /\ Thins(w, l) /\ SameBut(w, l)
      /\ Members(l.line) = Members(w.line) \ S
      /\ l.fate = [m \in Messages |-> IF m \in S THEN became[m] ELSE w.fate[m]]
  BY <1>1, <1>2, LeaveRows
<1>4. u = [l EXCEPT !.sends = f]
  BY DEF Take, became
<1> HIDE DEF l, u
<1>5. w \in Worlds /\ l \in Worlds /\ l.sends = w.sends
  BY <1>3 DEF Fit, SameBut
<1>6. f \in UNION {[T -> Users \cup {Schedule}] : T \in SUBSET Sessions}
  <2>1. PICK T \in SUBSET Sessions : w.sends \in [T -> Users \cup {Schedule}]
    BY <1>5 DEF Worlds
  <2>2. Held(w) = T
    BY <2>1 DEF Held
  <2>3. f \in [T \cup {x} -> Users \cup {Schedule}]
    BY <1>5, <2>1, <2>2
  <2>4. T \cup {x} \in SUBSET Sessions
    OBVIOUS
  <2> HIDE DEF f
  <2> QED
    BY <2>3, <2>4
<1>7. u \in Worlds /\ u.line = l.line /\ u.fate = l.fate /\ u.sends = f
      /\ SameRest(l, u)
  <2> HIDE DEF f
  <2> QED
    BY <1>4, <1>5, <1>6 DEF Worlds, SameRest
<1>8. Held(u) = Held(w) \cup {x}
  BY <1>7 DEF Held
<1>9. u.sends[x] = who /\ \A y \in Held(w) \ {x} : u.sends[y] = w.sends[y]
  BY <1>5, <1>7
<1>10. Fit(u) /\ Thins(w, u) /\ Members(u.line) = Members(w.line) \ S
  BY <1>3, <1>7 DEF Fit, Thins
<1>11. \A m \in Messages : u.fate[m] = IF m \in S THEN "started" ELSE w.fate[m]
  BY <1>1, <1>3, <1>7
<1> QED
  BY <1>3, <1>7, <1>8, <1>9, <1>10, <1>11 DEF u, SameBut, SameRest

\* A turn starts: the opening of a free chat.
LEMMA TakeOpening ==
    ASSUME NEW w, Fit(w), NEW x \in Chats \ Held(w), NEW who \in Users \cup {Schedule}
    PROVE  Dispatches(w, Take(w, x, who, Opening(w, x)))
<1> DEFINE S == Opening(w, x)
           u == Take(w, x, who, S)
<1>1. /\ S \subseteq Line(w, x) /\ Line(w, x) \subseteq Members(w.line)
      /\ Members(w.line) \subseteq Messages
      /\ \A m \in S : Opens(w, m) /\ ChatOf[m] = x
  BY FitLine DEF Opening, Line
<1>2. x \in Sessions
  BY DEF Sessions
<1>3. /\ Fit(u) /\ Thins(w, u)
      /\ Held(u) = Held(w) \cup {x}
      /\ \A y \in Held(w) \ {x} : u.sends[y] = w.sends[y]
      /\ Members(u.line) = Members(w.line) \ S
      /\ \A m \in Messages : u.fate[m] = IF m \in S THEN "started" ELSE w.fate[m]
      /\ SameRest(w, u)
  <2>1. S \subseteq Messages
    BY <1>1
  <2> HIDE DEF S
  <2> QED
    BY <1>2, <2>1, TakeRows
<1> HIDE DEF u, S
<1>5. Alike(w, u)
  BY <1>1, <1>3, FitLine DEF Alike, SameRest
<1>6. LeavesOne(w, u, x)
  BY <1>1, <1>3, <1>5 DEF LeavesOne, Line
<1>7. Started(w, u) = S
  BY <1>1, <1>3, FitLine DEF Started
<1>8. ASSUME NEW m \in S, NEW n \in Line(u, x) PROVE ~Ahead(w.line, n, m)
  <2>1. /\ n \in Members(w.line) /\ n \notin S /\ ChatOf[n] = x
        /\ m \in Members(w.line) /\ Opens(w, m) /\ ChatOf[m] = x
    BY <1>1, <1>3, <1>8 DEF Line
  <2>2. ~Opens(w, n)
    BY <2>1 DEF S, Opening, Line
  <2>3. PICK c \in Messages : /\ Ahead(w.line, c, n) /\ ChatOf[c] = x
                              /\ c \in Summons \/ n \in Summons
    BY <2>1, <2>2 DEF Opens
  <2>4. SUFFICES ASSUME Ahead(w.line, n, m) PROVE FALSE
    OBVIOUS
  <2>5. Ahead(w.line, c, m)
    BY <2>1, <2>3, <2>4, FitLine
  <2> QED
    BY <1>1, <2>1, <2>3, <2>4, <2>5 DEF Opens
<1>9. ASSUME NEW m \in S, NEW n \in S, m \in Summons PROVE n = m
  <2>1. /\ n \in Members(w.line) /\ m \in Members(w.line) /\ ChatOf[n] = ChatOf[m]
        /\ Opens(w, m) /\ Opens(w, n) /\ n \in Messages /\ m \in Messages
    BY <1>1, <1>9
  <2>2. ~Ahead(w.line, n, m) /\ ~Ahead(w.line, m, n)
    BY <1>9, <2>1 DEF Opens
  <2> QED
    BY <2>1, <2>2, FitLine
<1>10. \A m \in Line(w, x) : u.fate[m] # "failed"
  BY <1>1, <1>3, FitLine
<1>11. Opening(w, x) \cap Members(u.line) = {}
  BY <1>3 DEF S
<1>12. Opening(w, x) \subseteq Started(w, u)
  BY <1>7 DEF S
<1>13. Held(u) \ Held(w) \subseteq {x} /\ x \notin Held(w) /\ x \in Held(u)
  BY <1>3
<1>14. \A m \in Started(w, u) :
         /\ \A n \in Line(u, x) : ~Ahead(w.line, n, m)
         /\ \A n \in Started(w, u) : m \in Summons => n = m
  BY <1>7, <1>8, <1>9
<1>15. Dispatches(w, u)
  BY <1>6, <1>10, <1>11, <1>12, <1>13, <1>14, OneChat
<1> QED
  BY <1>15 DEF u, S

----------------------------------------------------------------------------
(* startChat() *)

\* A chat that is held is locked.
LEMMA HeldIsLocked ==
    ASSUME NEW w, NEW x, NEW who, RefusalOf(w, x, who) = "none"
    PROVE  x \notin Held(w) /\ ~w.closed
<1> SUFFICES ASSUME x \in Held(w) \/ w.closed PROVE FALSE
  OBVIOUS
<1>1. Places(w)!Locked(x, Schedule)
  BY DEF Places!Locked, Places!InSession, Places!Held, Held
<1> QED
  BY <1>1 DEF RefusalOf, Places!Refusal

\* What a launch's verdict says of the world and of the turn.
LEMMA VerdictSays ==
    ASSUME NEW w, NEW x, NEW q \in Seq(Messages)
    PROVE  /\ Verdict(w, x, q) \in {"waits", "refused", "process", "freed", "started"}
           /\ Verdict(w, x, q) \in {"freed", "started"} =>
                /\ x \notin Held(w)
                /\ Members(q) \subseteq Members(w.line)
                /\ StarterOf(w, q) \in Users
           /\ Verdict(w, x, q) = "refused" => Within(Members(q), Bad)
           /\ Verdict(w, x, q) = "freed" => Within(Members(q), Bad \cup Flaky)
<1> DEFINE refusal == IF Starters(w, q) = {} THEN "no starter"
                      ELSE RefusalOf(w, x, StarterOf(w, q))
           S == Members(q)
<1>1. Verdict(w, x, q) = VerdictOf(w, S, refusal)
  BY DEF Verdict
<1>2. DOMAIN q = 1..Len(q) /\ Len(q) \in Nat /\ \A i \in DOMAIN q : q[i] \in Messages
  BY LenProperties, ElementOfSeq
<1>3. ASSUME Starters(w, q) # {} PROVE StarterOf(w, q) \in Users
  <2>1. Starters(w, q) \subseteq DOMAIN q /\ Starters(w, q) \subseteq Nat
    BY <1>2 DEF Starters
  <2>2. \E i \in Starters(w, q) : \A j \in Starters(w, q) : i <= j
    BY <1>3, <2>1, LeastNumber
  <2>3. (CHOOSE i \in Starters(w, q) : \A j \in Starters(w, q) : i <= j) \in DOMAIN q
    BY <2>1, <2>2
  <2> QED
    BY <1>2, <2>3, QueueAssumption DEF StarterOf
<1> HIDE DEF S
<1>4. VerdictOf(w, S, refusal) \in {"waits", "refused", "process", "freed", "started"}
  <2> HIDE DEF refusal
  <2> QED
    BY DEF VerdictOf
<1>5. ASSUME VerdictOf(w, S, refusal) \in {"freed", "started"}
      PROVE  refusal = "none" /\ S \subseteq Members(w.line)
  <2> HIDE DEF refusal
  <2> QED
    BY <1>5 DEF VerdictOf
<1>6. ASSUME refusal = "none" PROVE x \notin Held(w) /\ StarterOf(w, q) \in Users
  BY <1>3, <1>6, HeldIsLocked
<1>7. /\ VerdictOf(w, S, refusal) = "refused" => Within(S, TurnedDown)
      /\ VerdictOf(w, S, refusal) = "freed" => Within(S, RolledBack \cup Flaky)
  <2> HIDE DEF refusal
  <2> QED
    BY DEF VerdictOf
<1>8. /\ Within(S, TurnedDown) => Within(S, Bad)
      /\ Within(S, RolledBack \cup Flaky) => Within(S, Bad \cup Flaky)
  BY DEF Within, Bad
<1> QED
  BY <1>1, <1>4, <1>5, <1>6, <1>7, <1>8 DEF S

\* waking the dispatcher, wherever it is woken from
Wakes(woken) == \A v \in Worlds : Fit(v) => Dispatches(v, woken[v])

\* The second launch: of an opening whose trials passed.
LEMMA RelaunchDispatches ==
    ASSUME NEW w, Fit(w), NEW x \in Chats, Sorted(w, x), NEW woken, Wakes(woken),
           NEW p \in Seq(Messages), p # <<>> => Members(p) = Opening(w, x),
           ~Within(Members(p), Bad)
    PROVE  Dispatches(w, Relaunch(w, x, p, woken).w)
<1> DEFINE verdict == Verdict(w, x, p)
           s == Launch(w, x, p, verdict, woken)
           u == Relaunch(w, x, p, woken).w
<1> SUFFICES Dispatches(w, u)
  OBVIOUS
<1>1. CASE p = <<>>
  <2>1. u = w
    BY <1>1 DEF Relaunch
  <2> QED
    BY <2>1, DispatchesNothing
<1>2. CASE p # <<>>
  <2>1. Members(p) = Opening(w, x)
    BY <1>2
  <2>2. /\ verdict \in {"waits", "refused", "process", "freed", "started"}
        /\ verdict \in {"freed", "started"} =>
              /\ x \notin Held(w)
              /\ Members(p) \subseteq Members(w.line)
              /\ StarterOf(w, p) \in Users
        /\ verdict = "refused" => Within(Members(p), Bad)
        /\ verdict = "freed" => Within(Members(p), Bad \cup Flaky)
    BY VerdictSays
  <2>3. Relaunch(w, x, p, woken) = FailLast(s, p)
    BY <1>2 DEF Relaunch
  <2> HIDE DEF verdict
  <2>4. /\ s.end = verdict
        /\ s.w = CASE verdict = "started" -> Take(w, x, StarterOf(w, p), Members(p))
                   [] verdict = "freed"   -> woken[w]
                   [] OTHER               -> w
    BY DEF Launch
  <2> HIDE DEF s
  <2>5. CASE verdict \in {"waits", "process"}
    <3>1. u = w
      BY <2>3, <2>4, <2>5 DEF FailLast, Failed
    <3> QED
      BY <3>1, DispatchesNothing
  <2>6. CASE verdict = "started"
    <3>1. u = Take(w, x, StarterOf(w, p), Opening(w, x))
      BY <2>1, <2>3, <2>4, <2>6 DEF FailLast, Failed
    <3> QED
      BY <2>2, <2>6, <3>1, TakeOpening
  <2>7. CASE verdict = "freed"
    <3> DEFINE z == woken[w]
    <3>1. Dispatches(w, z)
      BY DEF Wakes, Fit
    <3>2. u = Fail(z, Opening(w, x))
      BY <2>1, <2>3, <2>4, <2>7 DEF FailLast, Failed
    <3>3. Fit(z) /\ Thins(w, z) /\ Behind(w, z) /\ Together(w, z)
      BY <3>1 DEF Dispatches
    <3> HIDE DEF z, u
    <3>4. Opening(w, x) \subseteq Members(w.line) /\ Members(w.line) \subseteq Messages
      BY FitLine DEF Opening, Line
    <3>5. Within(Opening(w, x), Flaky)
      BY <2>1, <2>2, <2>7 DEF Within
    <3>6. CASE Opening(w, x) \cap Members(z.line) = {}
      BY <3>1, <3>2, <3>3, <3>6, FailNone, DispatchesOn
    <3>7. CASE Opening(w, x) \cap Members(z.line) # {}
      <4>1. Opening(w, x) \subseteq Members(z.line)
        <5>1. PICK m \in Opening(w, x) : m \in Members(z.line)
          BY <3>7
        <5>2. m \in Messages /\ z.fate[m] = "queued"
          BY <3>3, <3>4, <5>1, FitLine
        <5>3. m \notin Started(w, z) /\ z.fate[m] # "failed"
          BY <5>2 DEF Started
        <5> QED
          BY <2>1, <3>3, <5>1, <5>3 DEF Together
      <4>2. Line(w, x) \ Opening(w, x) \subseteq Members(z.line)
        BY <3>3, <3>7 DEF Behind
      <4>3. Opening(z, x) = Opening(w, x)
        <5>1. Opening(z, x) = Opening(w, x) \cap Members(z.line)
          BY <3>3, <3>7, <4>2, OpeningStill
        <5> QED
          BY <4>1, <5>1
      <4>4. Dispatches(z, Fail(z, Opening(w, x)))
        BY <3>3, <3>5, <4>1, <4>3, FailLate
      <4> QED
        BY <3>1, <3>2, <4>4, DispatchesOn
    <3> QED
      BY <3>6, <3>7
  <2>8. CASE verdict = "refused"
    BY <2>2, <2>8
  <2> QED
    BY <2>2, <2>5, <2>6, <2>7, <2>8
<1> QED
  BY <1>1, <1>2

\* The members of a turn that failed its start, after what that woke.
LEMMA CulpritsDispatch ==
    ASSUME NEW w, Fit(w), NEW x \in Chats, Sorted(w, x), NEW woken, Wakes(woken),
           NEW z, Dispatches(w, z),
           NEW q \in Seq(Messages), Members(q) = Opening(w, x)
    PROVE  Dispatches(w, FailCulprits(z, x, q, Passing(z, q), woken).w)
<1> DEFINE p == Passing(z, q)
           S == Members(q) \ Members(p)
           f == Fail(z, S)
           u == FailCulprits(z, x, q, p, woken).w
<1> SUFFICES Dispatches(w, u)
  OBVIOUS
<1>1. /\ p \in Seq(Messages)
      /\ Members(p) \subseteq Members(q) \cap Members(z.line)
      /\ ~Within(Members(p), Bad)
      /\ \A m \in (Members(q) \cap Members(z.line)) \ Members(p) :
            \E N \in SUBSET Members(p) : Within(N \cup {m}, Bad)
  BY PassingKeeps
<1>2. u = Relaunch(f, x, p, woken).w
  BY DEF FailCulprits
<1> HIDE DEF p, u
<1>3. Fit(z) /\ Thins(w, z) /\ Alike(w, z) /\ Behind(w, z)
  BY DEF Dispatches
<1>4. Sorted(z, x)
  BY <1>3, AlikeRows
<1>5. p = <<>> <=> Members(p) = {}
  <2>1. Len(p) \in Nat /\ DOMAIN p = 1..Len(p)
    BY <1>1, LenProperties
  <2>2. p # <<>> => Len(p) # 0
    BY <1>1, EmptySeq
  <2>3. Len(p) # 0 => p[1] \in Members(p)
    BY <2>1 DEF Members
  <2>4. Members(<<>>) = {}
    BY DEF Members
  <2> QED
    BY <2>2, <2>3, <2>4
<1>6. CASE Members(q) \cap Members(z.line) = {}
  <2>1. p = <<>>
    BY <1>1, <1>5, <1>6
  <2>2. S \cap Members(z.line) = {}
    BY <1>6
  <2>3. Dispatches(z, f)
    <3> HIDE DEF S
    <3> QED
      BY <1>3, <2>2, FailNone
  <2>4. u = f
    BY <1>2, <2>1 DEF Relaunch
  <2> HIDE DEF f
  <2> QED
    BY <2>3, <2>4, DispatchesOn
<1>7. CASE Members(q) \cap Members(z.line) # {}
  <2>1. Line(w, x) \ Opening(w, x) \subseteq Members(z.line)
    BY <1>3, <1>7 DEF Behind
  <2>2. Opening(z, x) = Members(q) \cap Members(z.line)
    BY <1>3, <1>7, <2>1, OpeningStill
  <2>3. Members(p) \subseteq Opening(z, x) /\ S \cap Members(z.line) = Opening(z, x) \ Members(p)
    BY <1>1, <2>2
  <2>4. \A m \in Opening(z, x) \ Members(p) :
           \E N \in SUBSET Members(p) : Within(N \cup {m}, Bad)
    BY <1>1, <2>2
  <2>5. /\ Dispatches(z, f) /\ Sorted(f, x)
        /\ Members(p) # {} => Opening(f, x) = Members(p)
    <3> HIDE DEF S
    <3> QED
      BY <1>1, <1>3, <1>4, <2>3, <2>4, FailSome
  <2> HIDE DEF f
  <2>6. Fit(f) /\ (p # <<>> => Members(p) = Opening(f, x))
    BY <1>5, <2>5 DEF Dispatches
  <2>7. Dispatches(f, u)
    BY <1>1, <1>2, <2>5, <2>6, RelaunchDispatches
  <2>8. Dispatches(w, f)
    BY <1>3, <2>5, DispatchesOn
  <2> QED
    BY <2>7, <2>8, DispatchesOn
<1> QED
  BY <1>6, <1>7

\* One chat's start, called from a pass or outside one.
LEMMA StartChatDispatches ==
    ASSUME NEW w, Fit(w), NEW x \in Chats, NEW woken, Wakes(woken)
    PROVE  Dispatches(w, StartChat(w, x, woken).w)
<1> DEFINE v == Sort(w, x)
           q == Batch(Rows(v, x))
           verdict == Verdict(v, x, q)
           s == Launch(v, x, q, verdict, woken)
           u == StartChat(w, x, woken).w
<1> SUFFICES Dispatches(w, u)
  OBVIOUS
<1>1. Dispatches(w, v) /\ Sorted(v, x)
  BY SortDispatches
<1>2. Fit(v)
  BY <1>1 DEF Dispatches
<1>3. u = StartTurn(v, x, q, woken).w
  BY DEF StartChat, StartSorted
<1> HIDE DEF v, u
<1>4. q \in Seq(Messages) /\ Members(q) = Opening(v, x)
  BY <1>2, BatchOpens
<1> HIDE DEF q
<1>5. /\ verdict \in {"waits", "refused", "process", "freed", "started"}
      /\ verdict \in {"freed", "started"} =>
            x \notin Held(v) /\ StarterOf(v, q) \in Users
  BY <1>4, VerdictSays
<1>6. CASE q = <<>>
  <2>1. u = v
    BY <1>3, <1>6 DEF StartTurn
  <2> QED
    BY <1>1, <2>1
<1>7. CASE q # <<>>
  <2>1. u = FirstLaunch(s, x, q, woken).w
    BY <1>3, <1>7 DEF StartTurn
  <2> HIDE DEF verdict
  <2>2. /\ s.end = verdict
        /\ s.w = CASE verdict = "started" -> Take(v, x, StarterOf(v, q), Members(q))
                   [] verdict = "freed"   -> woken[v]
                   [] OTHER               -> v
    BY DEF Launch
  <2> HIDE DEF s
  <2>3. CASE verdict = "started"
    <3>1. u = Take(v, x, StarterOf(v, q), Opening(v, x))
      BY <1>4, <2>1, <2>2, <2>3 DEF FirstLaunch, Failed
    <3>2. Dispatches(v, u)
      BY <1>2, <1>5, <2>3, <3>1, TakeOpening
    <3> QED
      BY <1>1, <3>2, DispatchesOn
  <2>4. CASE verdict \in {"waits", "process"}
    <3>1. u = v
      BY <2>1, <2>2, <2>4 DEF FirstLaunch, Failed
    <3> QED
      BY <1>1, <3>1
  <2>5. CASE verdict \in {"refused", "freed"}
    <3>1. u = FailCulprits(s.w, x, q, Passing(s.w, q), woken).w
      BY <2>1, <2>2, <2>5 DEF FirstLaunch, Failed
    <3>2. Dispatches(v, s.w)
      <4>1. CASE verdict = "freed"
        BY <1>2, <2>2, <4>1 DEF Wakes, Fit
      <4>2. CASE verdict = "refused"
        BY <1>2, <2>2, <4>2, DispatchesNothing
      <4> QED
        BY <2>5, <4>1, <4>2
    <3>3. Dispatches(v, u)
      BY <1>1, <1>2, <1>4, <3>1, <3>2, CulpritsDispatch
    <3> QED
      BY <1>1, <3>3, DispatchesOn
  <2> QED
    BY <1>5, <2>3, <2>4, <2>5
<1> QED
  BY <1>6, <1>7

----------------------------------------------------------------------------
(* Passes and expiry *)

\* A walk over the line that dispatches at each row dispatches.
LEMMA TourDispatches ==
    ASSUME NEW w, Fit(w), NEW step,
           \A m \in Messages : \A p \in Tours :
              Fit(p.w) => /\ step[m][p] \in Tours
                          /\ Dispatches(p.w, step[m][p].w)
    PROVE  Dispatches(w, Through(step, w.line,
                                 [w |-> w, seen |-> {}, full |-> FALSE]).w)
<1> DEFINE base == [w |-> w, seen |-> {}, full |-> FALSE]
           Good == {p \in Tours : Dispatches(w, p.w)}
           P == [i \in 0..Len(w.line) |-> Good]
<1>1. /\ Len(w.line) \in Nat /\ w.line \in Seq(Messages)
      /\ DOMAIN w.line = 1..Len(w.line)
      /\ \A i \in 1..Len(w.line) : w.line[i] \in Messages
  BY FitLine, ElementOfSeq
<1>2. base \in Good
  <2>1. base \in Tours /\ base.w = w
    BY DEF Tours, Fit
  <2>2. Dispatches(w, w)
    BY DispatchesNothing
  <2> HIDE DEF base
  <2> QED
    BY <2>1, <2>2
<1>3. ASSUME NEW m \in Messages, NEW p \in Good PROVE step[m][p] \in Good
  <2>1. p \in Tours /\ Dispatches(w, p.w) /\ Fit(p.w)
    BY DEF Dispatches
  <2>2. step[m][p] \in Tours /\ Dispatches(p.w, step[m][p].w)
    BY <2>1
  <2>3. Dispatches(w, step[m][p].w)
    BY <2>1, <2>2, DispatchesOn
  <2> QED
    BY <2>2, <2>3
<1> HIDE DEF Good
<1>4. base \in P[0] /\ P[Len(w.line)] = Good
  BY <1>1, <1>2
<1>5. \A i \in 1..Len(w.line) : \A p \in P[i - 1] : step[w.line[i]][p] \in P[i]
  <2>1. ASSUME NEW i \in 1..Len(w.line), NEW p \in P[i - 1]
        PROVE  step[w.line[i]][p] \in P[i]
    <3>1. i \in 0..Len(w.line) /\ i - 1 \in 0..Len(w.line)
      BY <1>1
    <3>2. P[i - 1] = Good /\ P[i] = Good
      BY <3>1
    <3> HIDE DEF P
    <3> QED
      BY <1>1, <1>3, <2>1, <3>2
  <2> QED
    BY <2>1
<1>6. Through(step, w.line, base) \in P[Len(w.line)]
  <2> HIDE DEF P, base
  <2> QED
    BY <1>1, <1>4, <1>5, ThroughKeeps
<1> QED
  BY <1>4, <1>6 DEF Good

LEMMA VisitDispatches ==
    ASSUME NEW p \in Tours, Fit(p.w), NEW x \in Chats
    PROVE  Visit(p, x) \in Tours /\ Dispatches(p.w, Visit(p, x).w)
<1> DEFINE woken == [v \in Worlds |-> v]
           s == StartChat(p.w, x, woken)
           z == Visited(p, x, s)
<1>1. Wakes(woken)
  BY DispatchesNothing DEF Wakes
<1> HIDE DEF woken
<1>2. Dispatches(p.w, s.w) /\ s.w \in Worlds
  BY <1>1, StartChatDispatches DEF Dispatches, Fit
<1> HIDE DEF s
<1>3. z \in Tours /\ z.w = s.w
  BY <1>2 DEF Visited, Tours
<1> HIDE DEF z
<1>4. Visit(p, x) = IF p.full \/ x \in p.seen \cup Held(p.w) THEN p ELSE z
  BY DEF Visit, s, z, woken
<1>5. Dispatches(p.w, p.w)
  BY DispatchesNothing
<1> QED
  BY <1>2, <1>3, <1>4, <1>5

LEMMA PassDispatches ==
    ASSUME NEW w, Fit(w)
    PROVE  Dispatches(w, Pass(w))
<1> DEFINE step == [m \in Messages |-> [p \in Tours |-> Visit(p, ChatOf[m])]]
<1>1. ASSUME NEW m \in Messages, NEW p \in Tours, Fit(p.w)
      PROVE  step[m][p] \in Tours /\ Dispatches(p.w, step[m][p].w)
  <2>1. step[m][p] = Visit(p, ChatOf[m]) /\ ChatOf[m] \in Chats
    BY QueueAssumption
  <2> HIDE DEF step
  <2> QED
    BY <1>1, <2>1, VisitDispatches
<1>2. Pass(w) = Through(step, w.line, [w |-> w, seen |-> {}, full |-> FALSE]).w
  BY DEF Pass
<1> HIDE DEF step
<1> QED
  BY <1>1, <1>2, TourDispatches

LEMMA WakeDispatches ==
    ASSUME NEW w, Fit(w)
    PROVE  Dispatches(w, Wake(w))
BY PassDispatches, DispatchesNothing DEF Wake

LEMMA StartAloneDispatches ==
    ASSUME NEW w, Fit(w), NEW x \in Chats
    PROVE  Dispatches(w, StartAlone(w, x))
<1> DEFINE woken == [v \in Worlds |-> Wake(v)]
<1>1. Wakes(woken)
  BY WakeDispatches DEF Wakes
<1>2. StartAlone(w, x) = StartChat(w, x, woken).w
  BY DEF StartAlone
<1> HIDE DEF woken
<1> QED
  BY <1>1, <1>2, StartChatDispatches

LEMMA ExpireDispatches ==
    ASSUME NEW w, Fit(w)
    PROVE  Dispatches(w, Expire(w))
<1> DEFINE step == [m \in Messages |-> [p \in Tours |-> ExpireAt(p, m)]]
<1>1. ASSUME NEW m \in Messages, NEW p \in Tours, Fit(p.w)
      PROVE  step[m][p] \in Tours /\ Dispatches(p.w, step[m][p].w)
  <2> DEFINE x == ChatOf[m]
             u == IF x \in Held(p.w) THEN Sort(p.w, x) ELSE StartAlone(p.w, x)
             z == [p EXCEPT !.w = u, !.seen = @ \cup {x}]
  <2>1. step[m][p] = ExpireAt(p, m) /\ x \in Chats
    BY QueueAssumption
  <2>2. Dispatches(p.w, u) /\ u \in Worlds
    BY <1>1, <2>1, SortDispatches, StartAloneDispatches DEF Dispatches, Fit
  <2>3. ExpireAt(p, m) = IF age[m] < p.w.minutes \/ x \in p.seen THEN p ELSE z
    BY DEF ExpireAt
  <2> HIDE DEF step, x, u
  <2>4. z \in Tours /\ z.w = u
    BY <2>1, <2>2 DEF Tours
  <2>5. Dispatches(p.w, p.w)
    BY <1>1, DispatchesNothing
  <2> HIDE DEF z
  <2> QED
    BY <2>1, <2>2, <2>3, <2>4, <2>5
<1>2. Expire(w) = Through(step, w.line, [w |-> w, seen |-> {}, full |-> FALSE]).w
  BY DEF Expire
<1> HIDE DEF step
<1> QED
  BY <1>1, <1>2, TourDispatches

----------------------------------------------------------------------------
(* The invariant *)

\* rows age from when they are queued, so none is older than one ahead of it
Aged(w, ages) ==
    /\ ages \in [Messages -> 0..MaxAge]
    /\ \A m \in Messages : w.fate[m] # "queued" => ages[m] = 0
    /\ \A a, b \in Members(w.line) : Ahead(w.line, a, b) => ages[b] <= ages[a]

\* the timer of a dispatcher that is not closed
Timed(w, ages, left, minutes) ==
    /\ left \in {Off} \cup 0..MaxAge
    /\ minutes \in {Off} \cup MinuteSets
    /\ left = Off <=> minutes = Off
    /\ w.closed => left = Off
    /\ ~w.closed => /\ minutes \in {Off, w.minutes}
                    /\ w.line # <<>> => minutes # Off
    /\ minutes # Off => /\ left <= minutes
                        /\ \A m \in Members(w.line) : left = 0 \/ left + ages[m] <= minutes

\* ExpiryArmed alone is not inductive: a row behind the first may be the
\* oldest once that left, and a timer left on by rows that are gone is the
\* next row's
QueueInv ==
    /\ Fit(world)
    /\ lost \in [Users -> {"none", "access", "login"}]
    /\ Aged(world, age)
    /\ Timed(world, age, timer, armed)

LEMMA MaxAgeMinutes ==
    MaxAge \in MinuteSets /\ MaxAge \in Nat /\ \A n \in MinuteSets : n <= MaxAge /\ n \in Nat
<1>1. \E n \in MinuteSets : \A k \in MinuteSets : k <= n
  BY QueueAssumption
<1>2. MaxAge \in MinuteSets /\ \A k \in MinuteSets : k <= MaxAge
  BY <1>1 DEF MaxAge
<1> QED
  BY <1>2, QueueAssumption

LEMMA EmptyLine ==
    ASSUME NEW w, Fit(w)
    PROVE  /\ w.line = <<>> <=> Members(w.line) = {}
           /\ w.line # <<>> =>
                /\ Head(w.line) \in Members(w.line)
                /\ \A m \in Members(w.line) :
                      m = Head(w.line) \/ Ahead(w.line, Head(w.line), m)
<1>1. /\ w.line \in Seq(Messages) /\ Len(w.line) \in Nat
      /\ DOMAIN w.line = 1..Len(w.line)
  BY FitLine
<1>2. CASE w.line = <<>>
  BY <1>2 DEF Members
<1>3. CASE w.line # <<>>
  <2>1. Len(w.line) # 0
    BY <1>1, <1>3, EmptySeq
  <2>2. Head(w.line) = w.line[1] /\ 1 \in DOMAIN w.line
    BY <1>1, <2>1
  <2>3. ASSUME NEW m \in Members(w.line)
        PROVE  m = Head(w.line) \/ Ahead(w.line, Head(w.line), m)
    <3>1. PICK i \in DOMAIN w.line : w.line[i] = m
      BY DEF Members
    <3>2. i = 1 \/ 1 < i
      BY <1>1, <3>1
    <3> QED
      BY <2>2, <3>1, <3>2 DEF Ahead
  <2> QED
    BY <1>3, <2>2, <2>3 DEF Members
<1> QED
  BY <1>2, <1>3

\* The line of a fit world holds each of its rows once.
LEMMA LineCounts ==
    ASSUME NEW w, Fit(w)
    PROVE  Len(w.line) = Cardinality(Members(w.line))
<1> DEFINE n == Len(w.line)
           f == [i \in 1..n |-> w.line[i]]
<1>1. n \in Nat /\ DOMAIN w.line = 1..n /\ NoRepeat(w.line)
  BY FitLine
<1>2. f \in Bijection(1..n, Members(w.line))
  BY <1>1 DEF Bijection, Injection, Surjection, IsInjective, Members, NoRepeat
<1>3. ExistsBijection(1..n, Members(w.line))
  BY <1>2 DEF ExistsBijection
<1>4. IsFiniteSet(1..n) /\ Cardinality(1..n) = n
  BY <1>1, FS_Interval
<1> QED
  BY <1>3, <1>4, FS_Bijection

LEMMA InvTyped ==
    ASSUME QueueInv
    PROVE  TypeOK
<1>1. Len(world.line) = Cardinality({m \in Messages : world.fate[m] = "queued"})
  BY LineCounts DEF QueueInv, Fit
<1>2. world \in Worlds /\ Members(world.line) = {m \in Messages : world.fate[m] = "queued"}
  BY DEF QueueInv, Fit
<1> QED
  BY <1>1, <1>2 DEF TypeOK, QueueInv, Aged, Timed

LEMMA InvArmed ==
    ASSUME QueueInv
    PROVE  ExpiryArmed
<1> SUFFICES ASSUME ~world.closed, world.line # <<>>
             PROVE  timer # Off /\ (timer = 0 \/ timer + age[Head(world.line)] <= world.minutes)
  BY DEF ExpiryArmed
<1>1. Head(world.line) \in Members(world.line)
  BY EmptyLine DEF QueueInv
<1> QED
  BY <1>1 DEF QueueInv, Timed

LEMMA InitInv ==
    ASSUME Init
    PROVE  QueueInv
<1>1. PICK c \in CapSets, n \in MinuteSets :
         world = [sends |-> [x \in {} |-> Schedule], line |-> <<>>,
                  fate |-> [m \in Messages |-> "new"], extras |-> 0,
                  caps |-> c, minutes |-> n, archived |-> {},
                  retired |-> FALSE, closed |-> FALSE]
  BY DEF Init
<1>2. [x \in {} |-> Schedule] \in
         UNION {[S -> Users \cup {Schedule}] : S \in SUBSET Sessions}
  <2>1. [x \in {} |-> Schedule] \in [{} -> Users \cup {Schedule}]
    OBVIOUS
  <2>2. {} \in SUBSET Sessions
    OBVIOUS
  <2> QED
    BY <2>1, <2>2
<1>3. world \in Worlds
  <2>1. /\ <<>> \in Seq(Messages) /\ [m \in Messages |-> "new"] \in [Messages -> Fates]
        /\ 0 \in 0..MaxExtras /\ {} \in SUBSET Chats
    <3>1. <<>> \in Seq(Messages)
      BY EmptySeq
    <3>2. 0 \in 0..MaxExtras
      BY QueueAssumption
    <3>3. [m \in Messages |-> "new"] \in [Messages -> Fates]
      BY DEF Fates
    <3> QED
      BY <3>1, <3>2, <3>3
  <2> QED
    BY <1>1, <1>2, <2>1 DEF Worlds
<1>4. Members(world.line) = {} /\ NoRepeat(world.line)
  BY <1>1 DEF Members, NoRepeat
<1>5. Fit(world)
  BY <1>1, <1>3, <1>4 DEF Fit
<1>6. Aged(world, age)
  BY <1>4, MaxAgeMinutes DEF Init, Aged
<1>7. Timed(world, age, timer, armed)
  BY <1>1, <1>4 DEF Init, Timed
<1> QED
  BY <1>5, <1>6, <1>7 DEF QueueInv, Init

----------------------------------------------------------------------------
(* Ages and the timer *)

\* Rows that stay keep their age, and the others lose theirs.
LEMMA AgesThin ==
    ASSUME NEW v, NEW w, Fit(v), Fit(w), Thins(v, w), NEW ages, Aged(v, ages)
    PROVE  Aged(w, [m \in Messages |-> IF w.fate[m] = "queued" THEN ages[m] ELSE 0])
<1> DEFINE kept == [m \in Messages |-> IF w.fate[m] = "queued" THEN ages[m] ELSE 0]
<1>1. MaxAge \in Nat
  BY MaxAgeMinutes
<1>2. /\ \A m \in Messages : ages[m] \in 0..MaxAge
      /\ \A a, b \in Members(v.line) : Ahead(v.line, a, b) => ages[b] <= ages[a]
  BY DEF Aged
<1>3. kept \in [Messages -> 0..MaxAge]
  BY <1>1, <1>2
<1>4. \A m \in Members(w.line) : kept[m] = ages[m]
  BY FitLine
<1>5. \A a, b \in Members(w.line) : Ahead(w.line, a, b) => kept[b] <= kept[a]
  BY <1>2, <1>4 DEF Thins
<1> QED
  BY <1>3, <1>5 DEF Aged

\* The timer stands when rows leave.
LEMMA TimedThin ==
    ASSUME NEW v, NEW w, Fit(v), Fit(w), Thins(v, w),
           w.minutes = v.minutes, w.closed = v.closed,
           NEW ages, NEW kept, \A m \in Members(w.line) : kept[m] = ages[m],
           NEW left, NEW minutes, Timed(v, ages, left, minutes)
    PROVE  Timed(w, kept, left, minutes)
<1>1. Members(w.line) \subseteq Members(v.line) /\ (w.line # <<>> => v.line # <<>>)
  BY EmptyLine DEF Thins
<1> QED
  BY <1>1 DEF Timed

\* What arm() sets the timer to covers every row that waits.
LEMMA ArmTimed ==
    ASSUME NEW w, Fit(w), ~w.closed, NEW ages, Aged(w, ages),
           NEW left, NEW minutes,
           w.line = <<>> => left = Off /\ minutes = Off,
           w.line # <<>> =>
              /\ left = IF w.minutes - ages[Head(w.line)] < 0 THEN 0
                        ELSE w.minutes - ages[Head(w.line)]
              /\ minutes = w.minutes
    PROVE  Timed(w, ages, left, minutes)
<1>1. CASE w.line = <<>>
  BY <1>1, EmptyLine DEF Timed
<1>2. CASE w.line # <<>>
  <2> DEFINE h == Head(w.line)
  <2>1. h \in Members(w.line) /\ Members(w.line) \subseteq Messages
    BY <1>2, EmptyLine, FitLine
  <2>2. /\ w.minutes \in MinuteSets /\ w.minutes \in Nat /\ w.minutes <= MaxAge
        /\ MaxAge \in Nat
    BY MaxAgeMinutes DEF Fit, Worlds
  <2>3. \A m \in Messages : ages[m] \in 0..MaxAge
    BY DEF Aged
  <2>4. \A m \in Members(w.line) : ages[m] <= ages[h]
    <3>1. ASSUME NEW m \in Members(w.line) PROVE ages[m] <= ages[h]
      <4>1. m = h \/ Ahead(w.line, h, m)
        BY <1>2, EmptyLine
      <4>2. ages[h] \in Int /\ ages[m] \in Int
        BY <2>1, <2>2, <2>3
      <4> QED
        BY <2>1, <4>1, <4>2 DEF Aged
    <3> QED
      BY <3>1
  <2>5. left = IF w.minutes - ages[h] < 0 THEN 0 ELSE w.minutes - ages[h]
    BY <1>2
  <2> HIDE DEF h
  <2>6. left \in 0..MaxAge /\ left <= w.minutes
    BY <2>1, <2>2, <2>3, <2>5
  <2>7. \A m \in Members(w.line) : left = 0 \/ left + ages[m] <= w.minutes
    BY <2>1, <2>2, <2>3, <2>4, <2>5
  <2>8. left # Off /\ w.minutes # Off
    BY <2>2, <2>6 DEF Off
  <2> QED
    BY <1>2, <2>2, <2>6, <2>7, <2>8 DEF Timed
<1> QED
  BY <1>1, <1>2

----------------------------------------------------------------------------
(* Steps *)

\* what every step does
Steps == QueueInv' /\ TurnsOrdered /\ FailuresCaused

\* A step that starts no row and fails none.
LEMMA QuietSteps ==
    ASSUME \A m \in Messages : /\ world.fate[m] = "queued" => world'.fate[m] # "started"
                               /\ world'.fate[m] = "failed" => world.fate[m] = "failed"
    PROVE  TurnsOrdered /\ FailuresCaused
<1>1. \A x \in Chats : Turn(x) = {}
  BY DEF Turn
<1> QED
  BY <1>1 DEF TurnsOrdered, FailuresCaused

\* A step whose rows fare as the dispatcher makes them, after an event e
\* that left the queue alone.
LEMMA DispatchSteps ==
    ASSUME Fit(world), NEW e, e.line = world.line, e.fate = world.fate, Fit(e),
           NEW w, Dispatches(e, w),
           \A m \in Messages :
              IF world.fate[m] = "queued" THEN world'.fate[m] = w.fate[m]
              ELSE world'.fate[m] = "failed" => world.fate[m] = "failed"
    PROVE  TurnsOrdered /\ FailuresCaused
<1>1. /\ Fit(w) /\ Thins(e, w) /\ Ordered(e, w) /\ Caused(e, w)
  BY DEF Dispatches
<1>2. /\ Members(e.line) = Members(world.line) /\ Members(e.line) \subseteq Messages
      /\ \A m \in Messages : m \in Members(e.line) <=> world.fate[m] = "queued"
      /\ \A m \in Messages : m \in Members(w.line) <=> w.fate[m] = "queued"
      /\ Members(w.line) \subseteq Members(e.line)
  BY <1>1, FitLine DEF Thins
<1>3. \A x \in Chats : Turn(x) = {m \in Started(e, w) : ChatOf[m] = x}
  BY <1>2 DEF Turn, Started
<1>4. TurnsOrdered
  <2> SUFFICES ASSUME NEW x \in Chats
               PROVE  /\ Turn(x) \cap Summons # {} => Cardinality(Turn(x)) = 1
                      /\ \A i, j \in DOMAIN world.line :
                            /\ i < j
                            /\ ChatOf[world.line[i]] = x
                            /\ world.line[j] \in Turn(x)
                            => world'.fate[world.line[i]] # "queued"
    BY DEF TurnsOrdered
  <2>1. ASSUME NEW m \in Turn(x), m \in Summons PROVE Cardinality(Turn(x)) = 1
    <3>1. Turn(x) = {m}
      BY <1>1, <1>3, <2>1 DEF Ordered
    <3> QED
      BY <3>1, FS_Singleton
  <2>2. ASSUME NEW i \in DOMAIN world.line, NEW j \in DOMAIN world.line, i < j,
               ChatOf[world.line[i]] = x, world.line[j] \in Turn(x),
               world'.fate[world.line[i]] = "queued"
        PROVE  FALSE
    <3> DEFINE n == world.line[i]
               m == world.line[j]
    <3>1. Ahead(e.line, n, m) /\ n \in Members(e.line)
      BY <2>2 DEF Ahead, Members
    <3>2. n \in Line(w, x)
      BY <1>2, <2>2, <3>1 DEF Line
    <3>3. m \in Started(e, w) /\ ChatOf[m] = x
      BY <1>3, <2>2
    <3> QED
      BY <1>1, <3>1, <3>2, <3>3 DEF Ordered
  <2> QED
    BY <2>1, <2>2
<1>5. FailuresCaused
  <2> SUFFICES ASSUME NEW m \in Messages, world.fate[m] # "failed",
                      world'.fate[m] = "failed", lost[Author[m]] # "login"
               PROVE  \/ Within(Nearby(m) \cup {m}, TurnedDown \cup RolledBack)
                      \/ \E B \in Flaky :
                            /\ m \in B \/ B \cap Nearby(m) = {}
                            /\ \A n \in B : ChatOf[n] = ChatOf[m]
                            /\ \A n \in B : world.fate[n] = "queued"
    BY DEF FailuresCaused
  <2> DEFINE x == ChatOf[m]
  <2>1. m \in Members(e.line) /\ w.fate[m] = "failed"
    BY <1>2
  <2>2. Near(e, w, x) = Nearby(m)
    BY <1>2 DEF Near, Nearby, Line
  <2>3. Started(e, w) \cup Members(w.line) \subseteq
           {n \in Messages : /\ world.fate[n] = "queued"
                             /\ world'.fate[n] \in {"queued", "started"}}
    BY <1>2 DEF Started
  <2>4. CASE \E N \in SUBSET Line(e, x) : Within(N \cup {m}, Bad) /\ Stands(e, w, x, N)
    <3>1. PICK N \in SUBSET Line(e, x) : Within(N \cup {m}, Bad) /\ Stands(e, w, x, N)
      BY <2>4
    <3>2. N \subseteq Started(e, w) \cup Members(w.line)
      BY <3>1 DEF Stands, Opening, Line
    <3>3. N \subseteq Nearby(m)
      BY <2>3, <3>2, <3>1 DEF Nearby, Line
    <3> QED
      BY <3>1, <3>3 DEF Within, Bad
  <2>5. CASE \E B \in Flaky : /\ B \subseteq Line(e, x)
                              /\ m \in B \/ B \cap Near(e, w, x) = {}
    <3>1. PICK B \in Flaky : B \subseteq Line(e, x) /\ (m \in B \/ B \cap Near(e, w, x) = {})
      BY <2>5
    <3>2. \A n \in B : ChatOf[n] = x /\ world.fate[n] = "queued"
      BY <1>2, <3>1 DEF Line
    <3> QED
      BY <2>2, <3>1, <3>2
  <2> QED
    BY <1>1, <2>1, <2>4, <2>5 DEF Caused, Cause
<1> QED
  BY <1>4, <1>5

\* An event that leaves the queue alone, and what the dispatcher makes of it;
\* the timer is as it was, or set anew.
LEMMA TurnSteps ==
    ASSUME QueueInv, NEW e, Fit(e), e.line = world.line, e.fate = world.fate,
           NEW w, Dispatches(e, w), Become(w),
           lost' = lost,
           \/ /\ UNCHANGED <<timer, armed>>
              /\ Timed(e, age, timer, armed)
           \/ /\ ~e.closed
              /\ Arm(world', age')
    PROVE  Steps
<1>1. /\ Fit(w) /\ Thins(e, w) /\ w.minutes = e.minutes /\ w.closed = e.closed
  BY DEF Dispatches, Alike
<1>2. world' = w /\ age' = [m \in Messages |-> IF w.fate[m] = "queued" THEN age[m] ELSE 0]
  BY DEF Become
<1>3. Aged(e, age)
  BY DEF QueueInv, Aged
<1>4. Aged(w, age')
  BY <1>1, <1>2, <1>3, AgesThin
<1>5. \A m \in Members(w.line) : age'[m] = age[m]
  BY <1>1, <1>2, FitLine
<1>6. Timed(w, age', timer', armed')
  <2>1. CASE UNCHANGED <<timer, armed>> /\ Timed(e, age, timer, armed)
    <3>1. Timed(w, age', timer, armed)
      BY <1>1, <1>5, <2>1, TimedThin
    <3> QED
      BY <2>1, <3>1
  <2>2. CASE ~e.closed /\ Arm(world', age')
    <3>1. /\ w.line = <<>> => timer' = Off /\ armed' = Off
          /\ w.line # <<>> =>
              /\ timer' = IF w.minutes - age'[Head(w.line)] < 0 THEN 0
                          ELSE w.minutes - age'[Head(w.line)]
              /\ armed' = w.minutes
      BY <1>2, <2>2 DEF Arm
    <3> QED
      BY <1>1, <1>4, <2>2, <3>1, ArmTimed
  <2> QED
    BY <2>1, <2>2
<1>7. QueueInv'
  BY <1>1, <1>2, <1>4, <1>6 DEF QueueInv
<1>8. TurnsOrdered /\ FailuresCaused
  <2>1. \A m \in Messages :
           IF world.fate[m] = "queued" THEN world'.fate[m] = w.fate[m]
           ELSE world'.fate[m] = "failed" => world.fate[m] = "failed"
    BY <1>2 DEF Dispatches, Alike
  <2> QED
    BY <2>1, DispatchSteps DEF QueueInv
<1> QED
  BY <1>7, <1>8 DEF Steps

\* The event and the wake() it ends with.
LEMMA WokenSteps ==
    ASSUME QueueInv, NEW e \in Worlds, e.line = world.line, e.fate = world.fate,
           e.closed = world.closed, Woken(e)
    PROVE  Steps
<1>1. Fit(e)
  BY DEF QueueInv, Fit
<1>2. Dispatches(e, Wake(e)) /\ Become(Wake(e)) /\ lost' = lost
  BY <1>1, WakeDispatches DEF Woken
<1>3. CASE ~e.closed /\ armed # Off /\ armed # e.minutes
  <2>1. Arm(world', age')
    BY <1>3 DEF Woken
  <2> QED
    BY <1>1, <1>2, <1>3, <2>1, TurnSteps
<1>4. CASE ~(~e.closed /\ armed # Off /\ armed # e.minutes)
  <2>1. UNCHANGED <<timer, armed>>
    BY <1>4 DEF Woken
  <2>2. Timed(e, age, timer, armed)
    BY <1>4 DEF QueueInv, Timed
  <2> QED
    BY <1>1, <1>2, <2>1, <2>2, TurnSteps
<1> QED
  BY <1>3, <1>4

\* The event alone, which tells the dispatcher nothing.
LEMMA SilentSteps ==
    ASSUME QueueInv, NEW e \in Worlds, e.line = world.line, e.fate = world.fate,
           e.closed = world.closed, e.minutes = world.minutes,
           Become(e), UNCHANGED <<lost, timer, armed>>
    PROVE  Steps
<1>1. Fit(e)
  BY DEF QueueInv, Fit
<1>2. Dispatches(e, e)
  BY <1>1, DispatchesNothing
<1>3. Timed(e, age, timer, armed)
  BY DEF QueueInv, Timed
<1> QED
  BY <1>1, <1>2, <1>3, TurnSteps

\* Rows that leave the queue without a turn of the dispatcher.
LEMMA LeaveSteps ==
    ASSUME QueueInv, NEW w, Fit(w), Thins(world, w), SameRest(world, w), Become(w),
           lost' \in [Users -> {"none", "access", "login"}],
           UNCHANGED <<timer, armed>>,
           \A m \in Messages : w.fate[m] # world.fate[m] => w.fate[m] = "gone"
    PROVE  Steps
<1>1. world' = w /\ age' = [m \in Messages |-> IF w.fate[m] = "queued" THEN age[m] ELSE 0]
  BY DEF Become
<1>2. Fit(world) /\ Aged(world, age) /\ Timed(world, age, timer, armed)
  BY DEF QueueInv
<1>3. Aged(w, age')
  BY <1>1, <1>2, AgesThin
<1>4. \A m \in Members(w.line) : age'[m] = age[m]
  BY <1>1, FitLine
<1>5. w.minutes = world.minutes /\ w.closed = world.closed
  BY DEF SameRest
<1>6. Timed(w, age', timer, armed)
  BY <1>2, <1>4, <1>5, TimedThin
<1>7. TurnsOrdered /\ FailuresCaused
  BY <1>1, QuietSteps
<1> QED
  BY <1>1, <1>3, <1>6, <1>7 DEF Steps, QueueInv

----------------------------------------------------------------------------
(* Each action *)

LEMMA RemoveRowSteps ==
    ASSUME QueueInv, NEW m \in Messages, RemoveRow(m)
    PROVE  Steps
<1> DEFINE became == All({m}, "gone")
           w == Leave(world, became)
<1>1. DOMAIN became = {m} /\ became[m] = "gone"
  BY DEF All
<1>2. Become(w) /\ UNCHANGED <<lost, timer, armed>>
  BY DEF RemoveRow
<1> HIDE DEF became
<1>3. /\ Fit(w) /\ Thins(world, w) /\ SameBut(world, w)
      /\ w.fate = [n \in Messages |-> IF n \in DOMAIN became THEN became[n]
                                      ELSE world.fate[n]]
  BY <1>1, LeaveRows DEF QueueInv, Fates
<1> HIDE DEF w
<1>4. \A n \in Messages : w.fate[n] # world.fate[n] => w.fate[n] = "gone"
  BY <1>1, <1>3
<1> QED
  BY <1>2, <1>3, <1>4, LeaveSteps DEF SameBut, QueueInv

LEMMA LoseSteps ==
    ASSUME QueueInv, NEW u \in Users, NEW what \in {"access", "login"},
           NEW drops \in BOOLEAN, Lose(u, what, drops)
    PROVE  Steps
<1> DEFINE became == All(Kept(world, u), "gone")
           w == IF drops THEN Leave(world, became) ELSE world
<1>1. DOMAIN became \subseteq Messages /\ \A m \in DOMAIN became : became[m] = "gone"
  BY DEF All, Kept
<1>2. Become(w) /\ UNCHANGED <<timer, armed>> /\ lost' = [lost EXCEPT ![u] = what]
  BY DEF Lose
<1> HIDE DEF became
<1>3. lost' \in [Users -> {"none", "access", "login"}]
  BY <1>2 DEF QueueInv
<1>4. /\ Fit(w) /\ Thins(world, w) /\ SameRest(world, w)
      /\ \A n \in Messages : w.fate[n] # world.fate[n] => w.fate[n] = "gone"
  <2>1. CASE drops
    <3>1. /\ Fit(w) /\ Thins(world, w) /\ SameBut(world, w)
          /\ w.fate = [n \in Messages |-> IF n \in DOMAIN became THEN became[n]
                                          ELSE world.fate[n]]
      BY <1>1, <2>1, LeaveRows DEF QueueInv, Fates
    <3> HIDE DEF w
    <3> QED
      BY <1>1, <3>1 DEF SameBut
  <2>2. CASE ~drops
    BY <2>2 DEF QueueInv, Thins, SameRest
  <2> QED
    BY <2>1, <2>2
<1> HIDE DEF w
<1> QED
  BY <1>2, <1>3, <1>4, LeaveSteps

LEMMA StartOtherSteps ==
    ASSUME QueueInv, NEW x \in Sessions, NEW who \in Users \cup {Schedule},
           StartOther(x, who)
    PROVE  Steps
<1> DEFINE w == Take(world, x, who, {})
<1>1. Become(w) /\ UNCHANGED <<lost, timer, armed>>
  BY DEF StartOther
<1>2. /\ Fit(w) /\ Thins(world, w) /\ SameRest(world, w)
      /\ \A m \in Messages : w.fate[m] = IF m \in {} THEN "started" ELSE world.fate[m]
  BY TakeRows DEF QueueInv
<1> HIDE DEF w
<1> QED
  BY <1>1, <1>2, LeaveSteps DEF QueueInv

LEMMA WithoutWorld ==
    ASSUME Fit(world), NEW x
    PROVE  /\ Without(x) \in Worlds
           /\ Without(x).line = world.line /\ Without(x).fate = world.fate
           /\ Without(x).closed = world.closed /\ Without(x).minutes = world.minutes
<1> DEFINE left == [y \in Held(world) \ {x} |-> world.sends[y]]
<1>1. world \in Worlds
  BY DEF Fit
<1>2. PICK S \in SUBSET Sessions : world.sends \in [S -> Users \cup {Schedule}]
  BY <1>1 DEF Worlds
<1>3. /\ left \in [S \ {x} -> Users \cup {Schedule}]
      /\ S \ {x} \in SUBSET Sessions
  BY <1>2 DEF Held
<1>4. left \in UNION {[R -> Users \cup {Schedule}] : R \in SUBSET Sessions}
  BY <1>3
<1>5. Without(x) = [world EXCEPT !.sends = left]
  BY DEF Without
<1> HIDE DEF left
<1> QED
  BY <1>1, <1>4, <1>5 DEF Worlds

LEMMA EndSteps ==
    ASSUME QueueInv, NEW x, End(x)
    PROVE  Steps
BY WithoutWorld, WokenSteps DEF End, QueueInv

LEMMA ExtraSteps ==
    ASSUME QueueInv, TakeExtra \/ FreeExtra
    PROVE  Steps
<1>1. world \in Worlds
  BY DEF QueueInv, Fit
<1>2. MaxExtras \in Nat /\ world.extras \in 0..MaxExtras
  BY <1>1, QueueAssumption DEF Worlds
<1>3. CASE TakeExtra
  <2> DEFINE e == [world EXCEPT !.extras = @ + 1]
  <2>1. world.extras + 1 \in 0..MaxExtras
    BY <1>2, <1>3 DEF TakeExtra
  <2>2. /\ e \in Worlds /\ e.line = world.line /\ e.fate = world.fate
        /\ e.closed = world.closed /\ e.minutes = world.minutes
    BY <1>1, <2>1 DEF Worlds
  <2>3. Become(e) /\ UNCHANGED <<lost, timer, armed>>
    BY <1>3 DEF TakeExtra
  <2> HIDE DEF e
  <2> QED
    BY <2>2, <2>3, SilentSteps
<1>4. CASE FreeExtra
  <2> DEFINE e == [world EXCEPT !.extras = @ - 1]
  <2>1. world.extras - 1 \in 0..MaxExtras
    BY <1>2, <1>4 DEF FreeExtra
  <2>2. /\ e \in Worlds /\ e.line = world.line /\ e.fate = world.fate
        /\ e.closed = world.closed
    BY <1>1, <2>1 DEF Worlds
  <2>3. Woken(e)
    BY <1>4 DEF FreeExtra
  <2> HIDE DEF e
  <2> QED
    BY <2>2, <2>3, WokenSteps
<1> QED
  BY <1>3, <1>4

LEMMA ChangeSteps ==
    ASSUME QueueInv,
           \/ \E c \in CapSets, n \in MinuteSets : SetLimits(c, n)
           \/ \E S \in SUBSET Chats : Archive(S)
           \/ Retire \/ WakeAgain
    PROVE  Steps
<1>1. world \in Worlds
  BY DEF QueueInv, Fit
<1>2. ASSUME NEW c \in CapSets, NEW n \in MinuteSets, SetLimits(c, n) PROVE Steps
  <2> DEFINE e == [world EXCEPT !.caps = c, !.minutes = n]
  <2>1. /\ e \in Worlds /\ e.line = world.line /\ e.fate = world.fate
        /\ e.closed = world.closed
    BY <1>1 DEF Worlds
  <2>2. Woken(e)
    BY <1>2 DEF SetLimits
  <2> HIDE DEF e
  <2> QED
    BY <2>1, <2>2, WokenSteps
<1>3. ASSUME NEW S \in SUBSET Chats, Archive(S) PROVE Steps
  <2> DEFINE e == [world EXCEPT !.archived = @ \cup S]
  <2>1. /\ e \in Worlds /\ e.line = world.line /\ e.fate = world.fate
        /\ e.closed = world.closed
    BY <1>1 DEF Worlds
  <2>2. Woken(e)
    BY <1>3 DEF Archive
  <2> HIDE DEF e
  <2> QED
    BY <2>1, <2>2, WokenSteps
<1>4. CASE Retire
  <2> DEFINE e == [world EXCEPT !.retired = TRUE]
  <2>1. /\ e \in Worlds /\ e.line = world.line /\ e.fate = world.fate
        /\ e.closed = world.closed
    BY <1>1 DEF Worlds
  <2>2. Woken(e)
    BY <1>4 DEF Retire
  <2> HIDE DEF e
  <2> QED
    BY <2>1, <2>2, WokenSteps
<1>5. CASE WakeAgain
  BY <1>1, <1>5, WokenSteps DEF WakeAgain
<1> QED
  BY <1>2, <1>3, <1>4, <1>5

LEMMA BeforeDispatches ==
    ASSUME Fit(world), NEW m \in Messages
    PROVE  Dispatches(world, Before(m))
<1>1. ChatOf[m] \in Chats
  BY QueueAssumption
<1> QED
  BY <1>1, StartAloneDispatches, DispatchesNothing DEF Before

\* A message to a free chat: the chat's own queue first, then the message.
LEMMA PostFreeSteps ==
    ASSUME QueueInv, NEW m \in Messages, MayPost(m), PostFree(m, Before(m))
    PROVE  Steps
<1> DEFINE v == Before(m)
           r == RefusalOf(v, ChatOf[m], Author[m])
           w == SentFrom(v, m, r)
<1>1. Dispatches(world, v) /\ Fit(world)
  BY BeforeDispatches DEF QueueInv
<1>2. Become(w) /\ UNCHANGED <<lost, timer, armed>>
  BY DEF PostFree
<1>3. \/ w = v
      \/ w = Wake(v)
      \/ w = Take(v, ChatOf[m], Author[m], {m})
  BY DEF SentFrom
<1> HIDE DEF v, w
<1>4. Timed(world, age, timer, armed)
  BY DEF QueueInv
<1>5. CASE w = v \/ w = Wake(v)
  <2>1. Dispatches(world, w)
    BY <1>1, <1>5, WakeDispatches, DispatchesOn DEF Dispatches
  <2> QED
    BY <1>1, <1>2, <1>4, <2>1, TurnSteps
<1>6. CASE w = Take(v, ChatOf[m], Author[m], {m})
  <2>1. Fit(v) /\ Thins(world, v) /\ Alike(world, v)
    BY <1>1 DEF Dispatches
  <2>2. ChatOf[m] \in Sessions /\ Author[m] \in Users \cup {Schedule} /\ {m} \subseteq Messages
    BY QueueAssumption DEF Sessions
  <2>3. /\ Fit(w) /\ Thins(v, w) /\ SameRest(v, w)
        /\ \A n \in Messages : w.fate[n] = IF n \in {m} THEN "started" ELSE v.fate[n]
    BY <1>6, <2>1, <2>2, TakeRows
  <2>4. Thins(world, w) /\ w.minutes = world.minutes /\ w.closed = world.closed
    BY <2>1, <2>3, ThinsOn DEF Alike, SameRest
  <2>5. world' = w /\ age' = [n \in Messages |-> IF w.fate[n] = "queued" THEN age[n] ELSE 0]
    BY <1>2 DEF Become
  <2>6. Aged(w, age')
    BY <1>1, <2>3, <2>4, <2>5, AgesThin DEF QueueInv
  <2>7. \A n \in Members(w.line) : age'[n] = age[n]
    BY <2>3, <2>5, FitLine
  <2>8. Timed(w, age', timer, armed)
    BY <1>1, <1>4, <2>3, <2>4, <2>7, TimedThin
  <2>9. QueueInv'
    BY <1>2, <2>3, <2>5, <2>6, <2>8 DEF QueueInv
  <2>10. \A n \in Messages :
           IF world.fate[n] = "queued" THEN world'.fate[n] = v.fate[n]
           ELSE world'.fate[n] = "failed" => world.fate[n] = "failed"
    <3>1. world.fate[m] = "new"
      BY DEF MayPost
    <3> QED
      BY <2>1, <2>3, <2>5, <3>1 DEF Alike
  <2> QED
    BY <1>1, <2>9, <2>10, DispatchSteps DEF Steps
<1> QED
  BY <1>3, <1>5, <1>6

\* A message to a chat that is held, or to a dispatcher that closed.
LEMMA PostHeldSteps ==
    ASSUME QueueInv, NEW m \in Messages, MayPost(m), PostHeld(m, Before(m))
    PROVE  Steps
<1> DEFINE v == Before(m)
           w == [v EXCEPT !.line = Append(@, m), !.fate[m] = "queued"]
<1>1. Dispatches(world, v) /\ Fit(world) /\ Timed(world, age, timer, armed)
  BY BeforeDispatches DEF QueueInv
<1>2. lost' = lost
  BY DEF PostHeld
<1>3. \/ Become(v) /\ UNCHANGED <<timer, armed>>
      \/ Become(w) /\ ArmOff(world', age')
  BY DEF PostHeld
<1> HIDE DEF v
<1>4. CASE Become(v) /\ UNCHANGED <<timer, armed>>
  BY <1>1, <1>2, <1>4, TurnSteps
<1>5. CASE Become(w) /\ ArmOff(world', age')
  <2>1. Fit(v) /\ Thins(world, v) /\ Alike(world, v)
    BY <1>1 DEF Dispatches
  <2>2. world.fate[m] = "new" /\ v.fate[m] = "new" /\ age[m] = 0
    BY <2>1 DEF MayPost, Alike, QueueInv, Aged
  <2>3. /\ v \in Worlds /\ v.fate \in [Messages -> Fates] /\ v.line \in Seq(Messages)
    BY <2>1 DEF Fit, Worlds
  <2>4. /\ Append(v.line, m) \in Seq(Messages)
        /\ Members(Append(v.line, m)) = Members(v.line) \cup {m}
        /\ \A a, b : Ahead(Append(v.line, m), a, b) <=>
                        Ahead(v.line, a, b) \/ (b = m /\ a \in Members(v.line))
    BY <2>3, AppendMembers
  <2>5. /\ w \in Worlds
        /\ w.line = Append(v.line, m)
        /\ w.minutes = v.minutes /\ w.closed = v.closed
        /\ w.fate = [v.fate EXCEPT ![m] = "queued"]
    BY <2>3, <2>4 DEF Worlds, Fates
  <2> HIDE DEF w
  <2>6. Fit(w)
    <3>1. m \notin Members(v.line)
      BY <2>1, <2>2, FitLine
    <3>2. \A a \in Members(w.line) : ~Ahead(w.line, a, a)
      <4>1. \A a : ~Ahead(v.line, a, a)
        BY <2>1, FitLine
      <4> QED
        BY <2>4, <2>5, <3>1, <4>1
    <3>3. Len(w.line) \in Nat /\ DOMAIN w.line = 1..Len(w.line)
      BY <2>4, <2>5, LenProperties
    <3>4. NoRepeat(w.line)
      BY <3>2, <3>3, AheadItself
    <3>5. Members(w.line) = {n \in Messages : w.fate[n] = "queued"}
      <4>1. \A n \in Messages : w.fate[n] = "queued" <=> n \in Members(w.line)
        BY <2>1, <2>3, <2>4, <2>5, FitLine
      <4>2. Members(w.line) \subseteq Messages
        BY <2>1, <2>4, <2>5, FitLine
      <4> QED
        BY <4>1, <4>2
    <3> QED
      BY <2>5, <3>4, <3>5 DEF Fit
  <2>7. /\ world' = w
        /\ age' = [n \in Messages |-> IF w.fate[n] = "queued" THEN age[n] ELSE 0]
    BY <1>5 DEF Become
  <2> DEFINE kept == [n \in Messages |-> IF v.fate[n] = "queued" THEN age[n] ELSE 0]
  <2>8. Aged(v, kept)
    BY <1>1, <2>1, AgesThin DEF QueueInv
  <2>9. age' = kept
    <3>1. \A n \in Messages : IF w.fate[n] = "queued" THEN age[n] = kept[n] ELSE kept[n] = 0
      BY <2>2, <2>3, <2>5
    <3> QED
      BY <2>7, <3>1
  <2>10. Timed(v, kept, timer, armed)
    <3>1. \A n \in Members(v.line) : kept[n] = age[n]
      BY <2>1, FitLine
    <3>2. v.minutes = world.minutes /\ v.closed = world.closed
      BY <2>1 DEF Alike
    <3> HIDE DEF kept
    <3> QED
      BY <1>1, <2>1, <3>1, <3>2, TimedThin
  <2>11. kept[m] = 0
    BY <2>2
  <2> HIDE DEF kept
  <2>12. MaxAge \in Nat /\ \A n \in Messages : kept[n] \in 0..MaxAge
    BY <2>8, MaxAgeMinutes DEF Aged
  <2>13. Aged(w, kept)
    <3>1. \A n \in Messages : w.fate[n] # "queued" => kept[n] = 0
      BY <2>3, <2>5, <2>8 DEF Aged
    <3>2. ASSUME NEW a \in Members(w.line), NEW b \in Members(w.line), Ahead(w.line, a, b)
          PROVE  kept[b] <= kept[a]
      <4>1. CASE Ahead(v.line, a, b)
        <5>1. a \in Members(v.line) /\ b \in Members(v.line)
          BY <2>1, <4>1, FitLine
        <5> QED
          BY <2>8, <4>1, <5>1 DEF Aged
      <4>2. CASE b = m /\ a \in Members(v.line)
        <5>1. a \in Messages
          BY <2>1, <4>2, FitLine
        <5> QED
          BY <2>11, <2>12, <4>2, <5>1
      <4> QED
        BY <2>4, <2>5, <3>2, <4>1, <4>2
    <3> QED
      BY <2>8, <3>1, <3>2 DEF Aged
  <2>14. Timed(w, kept, timer', armed')
    <3>1. CASE ~w.closed /\ armed = Off
      <4>1. Arm(world', age')
        BY <1>5, <2>7, <3>1 DEF ArmOff
      <4>2. /\ w.line = <<>> => timer' = Off /\ armed' = Off
            /\ w.line # <<>> =>
                 /\ timer' = IF w.minutes - kept[Head(w.line)] < 0 THEN 0
                             ELSE w.minutes - kept[Head(w.line)]
                 /\ armed' = w.minutes
        BY <2>7, <2>9, <4>1 DEF Arm
      <4> QED
        BY <2>6, <2>13, <3>1, <4>2, ArmTimed
    <3>2. CASE w.closed
      <4>1. timer' = timer /\ armed' = armed
        BY <1>5, <2>7, <3>2 DEF ArmOff
      <4>2. timer = Off /\ armed = Off
        <5>1. v.closed => timer = Off
          BY <2>10 DEF Timed
        <5>2. timer = Off => armed = Off
          BY <2>10 DEF Timed
        <5> QED
          BY <2>5, <3>2, <5>1, <5>2
      <4> QED
        BY <3>2, <4>1, <4>2 DEF Timed
    <3>3. CASE ~w.closed /\ armed # Off
      <4>1. timer' = timer /\ armed' = armed
        BY <1>5, <2>7, <3>3 DEF ArmOff
      <4>2. \A n \in Members(w.line) : timer = 0 \/ timer + kept[n] <= armed
        <5>1. \A n \in Members(v.line) : timer = 0 \/ timer + kept[n] <= armed
          BY <2>10, <3>3 DEF Timed
        <5>2. timer + kept[m] <= armed
          <6>1. timer <= armed /\ timer \in {Off} \cup 0..MaxAge
            BY <2>10, <3>3 DEF Timed
          <6>2. timer \in Int
            BY <2>12, <6>1 DEF Off
          <6> QED
            BY <2>11, <6>1, <6>2
        <5> QED
          BY <2>4, <2>5, <5>1, <5>2
      <4> QED
        BY <2>5, <2>10, <3>3, <4>1, <4>2 DEF Timed
    <3> QED
      BY <3>1, <3>2, <3>3
  <2>15. QueueInv'
    BY <1>2, <2>6, <2>7, <2>9, <2>13, <2>14 DEF QueueInv
  <2>16. \A n \in Messages :
           IF world.fate[n] = "queued" THEN world'.fate[n] = v.fate[n]
           ELSE world'.fate[n] = "failed" => world.fate[n] = "failed"
    BY <2>1, <2>2, <2>3, <2>5, <2>7 DEF Alike
  <2> QED
    BY <1>1, <2>15, <2>16, DispatchSteps DEF Steps
<1> QED
  BY <1>3, <1>4, <1>5

LEMMA TickSteps ==
    ASSUME QueueInv, Tick
    PROVE  Steps
<1>1. /\ Fit(world) /\ Aged(world, age) /\ Timed(world, age, timer, armed)
      /\ world' = world /\ armed' = armed /\ lost' = lost
      /\ timer' = IF timer > 0 THEN timer - 1 ELSE timer
      /\ age' = [m \in Messages |-> IF world.fate[m] = "queued" /\ age[m] < MaxAge
                                    THEN age[m] + 1 ELSE age[m]]
  BY DEF Tick, QueueInv
<1>2. MaxAge \in Nat /\ \A m \in Messages : age[m] \in 0..MaxAge
  BY <1>1, MaxAgeMinutes DEF Aged
<1>3. /\ Members(world.line) \subseteq Messages
      /\ \A m \in Members(world.line) : world.fate[m] = "queued"
  BY <1>1, FitLine
<1>4. Aged(world, age')
  <2>1. age' \in [Messages -> 0..MaxAge]
    BY <1>1, <1>2
  <2>2. \A m \in Messages : world.fate[m] # "queued" => age'[m] = 0
    BY <1>1 DEF Aged
  <2>3. ASSUME NEW a \in Members(world.line), NEW b \in Members(world.line),
               Ahead(world.line, a, b)
        PROVE  age'[b] <= age'[a]
    <3>1. age[b] <= age[a]
      BY <1>1, <2>3 DEF Aged
    <3>2. /\ a \in Messages /\ b \in Messages
          /\ age'[a] = IF age[a] < MaxAge THEN age[a] + 1 ELSE age[a]
          /\ age'[b] = IF age[b] < MaxAge THEN age[b] + 1 ELSE age[b]
      BY <1>1, <1>3
    <3> QED
      BY <1>2, <3>1, <3>2
  <2> QED
    BY <2>1, <2>2, <2>3 DEF Aged
<1>5. Timed(world, age', timer', armed)
  <2>1. timer \in {Off} \cup 0..MaxAge
    BY <1>1 DEF Timed
  <2>2. CASE timer > 0
    <3>1. timer # Off /\ timer' = timer - 1 /\ timer' \in 0..MaxAge /\ timer' # Off
      BY <1>1, <1>2, <2>1, <2>2 DEF Off
    <3>2. timer' <= timer
      BY <1>2, <2>1, <3>1 DEF Off
    <3>3. armed # Off /\ armed \in MinuteSets /\ armed \in Nat /\ timer <= armed
      BY <1>1, <3>1, MaxAgeMinutes DEF Timed
    <3>4. \A m \in Members(world.line) : timer' + age'[m] <= armed
      <4>1. ASSUME NEW m \in Members(world.line) PROVE timer' + age'[m] <= armed
        <5>1. timer + age[m] <= armed
          BY <1>1, <2>2, <3>3, <4>1 DEF Timed
        <5>2. m \in Messages /\ (age'[m] = age[m] + 1 \/ age'[m] = age[m])
          BY <1>1, <1>3
        <5> QED
          BY <1>2, <2>1, <3>1, <3>3, <5>1, <5>2
      <4> QED
        BY <4>1
    <3>5. timer' <= armed
      BY <1>2, <3>1, <3>2, <3>3, <2>1
    <3> QED
      BY <1>1, <3>1, <3>3, <3>4, <3>5 DEF Timed
  <2>3. CASE ~(timer > 0)
    <3>1. timer' = timer /\ (timer = Off \/ timer = 0)
      BY <1>1, <1>2, <2>1, <2>3 DEF Off
    <3> QED
      BY <1>1, <3>1 DEF Timed
  <2> QED
    BY <2>2, <2>3
<1>6. TurnsOrdered /\ FailuresCaused
  BY <1>1, QuietSteps
<1> QED
  BY <1>1, <1>4, <1>5, <1>6 DEF Steps, QueueInv

LEMMA RingSteps ==
    ASSUME QueueInv, Ring
    PROVE  Steps
<1>1. Fit(world) /\ Dispatches(world, Expire(world))
  BY ExpireDispatches DEF QueueInv
<1>2. Become(Expire(world)) /\ lost' = lost /\ Arm(world', age')
  BY DEF Ring
<1>3. ~world.closed
  BY DEF Ring, QueueInv, Timed, Off
<1> QED
  BY <1>1, <1>2, <1>3, TurnSteps

LEMMA CloseSteps ==
    ASSUME QueueInv, Close
    PROVE  Steps
<1> DEFINE e == [world EXCEPT !.closed = TRUE]
<1>1. /\ Fit(world) /\ Aged(world, age) /\ world \in Worlds
      /\ world' = e /\ timer' = Off /\ armed' = Off /\ lost' = lost /\ age' = age
  BY DEF Close, QueueInv, Fit
<1>2. /\ e \in Worlds /\ e.line = world.line /\ e.fate = world.fate /\ e.closed
  BY <1>1 DEF Worlds
<1> HIDE DEF e
<1>3. Fit(e) /\ Aged(e, age) /\ Timed(e, age, Off, Off)
  BY <1>1, <1>2 DEF Fit, Aged, Timed
<1>4. TurnsOrdered /\ FailuresCaused
  BY <1>1, <1>2, QuietSteps
<1> QED
  BY <1>1, <1>3, <1>4 DEF Steps, QueueInv

LEMMA RestartSteps ==
    ASSUME QueueInv, Restart
    PROVE  Steps
<1> DEFINE none == [x \in {} |-> Schedule]
           e == [world EXCEPT !.sends = none, !.extras = 0, !.closed = FALSE]
           w == Pass(Expire(e))
<1>1. world \in Worlds /\ Fit(world)
  BY DEF QueueInv, Fit
<1>2. none \in UNION {[S -> Users \cup {Schedule}] : S \in SUBSET Sessions}
  <2>1. none \in [{} -> Users \cup {Schedule}] /\ {} \in SUBSET Sessions
    OBVIOUS
  <2> HIDE DEF none
  <2> QED
    BY <2>1
<1>3. 0 \in 0..MaxExtras
  BY QueueAssumption
<1>4. Become(w) /\ Arm(world', age') /\ lost' = lost
  BY DEF Restart
<1> HIDE DEF none
<1>5. /\ e \in Worlds /\ e.line = world.line /\ e.fate = world.fate /\ ~e.closed
  BY <1>1, <1>2, <1>3 DEF Worlds
<1> HIDE DEF e
<1>6. Fit(e)
  BY <1>1, <1>5 DEF Fit
<1>7. Dispatches(e, w)
  BY <1>6, ExpireDispatches, PassDispatches, DispatchesOn DEF Dispatches
<1> HIDE DEF w
<1> QED
  BY <1>4, <1>5, <1>6, <1>7, TurnSteps

LEMMA NextSteps ==
    ASSUME QueueInv, Next
    PROVE  Steps
<1>1. ASSUME NEW m \in Messages, Post(m) \/ RemoveRow(m) PROVE Steps
  BY <1>1, PostFreeSteps, PostHeldSteps, RemoveRowSteps DEF Post
<1>2. ASSUME NEW x \in Chats, NEW who \in Users, StartOther(x, who) PROVE Steps
  BY <1>2, StartOtherSteps DEF Sessions
<1>3. ASSUME NEW x \in Runs, StartOther(x, Schedule) PROVE Steps
  BY <1>3, StartOtherSteps DEF Sessions
<1>4. ASSUME NEW x \in Sessions, End(x) PROVE Steps
  BY <1>4, EndSteps
<1>5. CASE TakeExtra \/ FreeExtra
  BY <1>5, ExtraSteps
<1>6. ASSUME \/ \E c \in CapSets, n \in MinuteSets : SetLimits(c, n)
             \/ \E S \in {{x} : x \in Chats} \cup {Chats} : Archive(S)
             \/ Retire \/ WakeAgain
      PROVE  Steps
  <2>1. {{x} : x \in Chats} \cup {Chats} \subseteq SUBSET Chats
    OBVIOUS
  <2> QED
    BY <1>6, <2>1, ChangeSteps
<1>7. ASSUME NEW u \in Users, NEW what \in Changes \cap {"access", "login"},
             NEW drops \in BOOLEAN, Lose(u, what, drops)
      PROVE  Steps
  BY <1>7, LoseSteps
<1>8. CASE Tick \/ Ring \/ Close \/ Restart
  BY <1>8, TickSteps, RingSteps, CloseSteps, RestartSteps
<1> QED
  BY <1>1, <1>2, <1>3, <1>4, <1>5, <1>6, <1>7, <1>8 DEF Next

LEMMA StutterSteps ==
    ASSUME QueueInv, UNCHANGED vars
    PROVE  Steps
<1>1. TurnsOrdered /\ FailuresCaused
  BY QuietSteps DEF vars
<1> QED
  BY <1>1 DEF Steps, QueueInv, vars, Fit, Aged, Timed, NoRepeat, Members, Ahead

LEMMA QueueInvariant == Spec => []QueueInv
<1>1. QueueInv /\ [Next]_vars => QueueInv'
  BY NextSteps, StutterSteps DEF Steps
<1> QED
  BY <1>1, InitInv, PTL DEF Spec

----------------------------------------------------------------------------
(* Places *)

\* No turn dies: either no turn is cut at a summon, or no row fails by
\* itself and no start fails once its trial passed.  A cut turn that dies
\* leaves the rows behind it in a free chat
NoTurnDies ==
    \/ Summons = {}
    \/ Flaky = {} /\ \A m \in Messages : {m} \notin Bad

InProject(w, x) == {y \in Held(w) : ProjectOf[y] = ProjectOf[x]}

\* the process holds all it may
Full(w) == Cardinality(Held(w)) + w.extras >= w.caps.running

\* no place for the opening of x: of its authors, its project, the process
Choked(w, x) ==
    \/ \A m \in Opening(w, x) : Busy(w, Author[m]) >= w.caps.user
    \/ Cardinality(InProject(w, x)) >= w.caps.project
    \/ Full(w)

\* a pass has no more to do for x
Done(w, x) == x \in Held(w) \/ Line(w, x) = {} \/ Choked(w, x)

LEMMA FitNumbers ==
    ASSUME NEW w, Fit(w)
    PROVE  /\ w.caps.user \in Nat \ {0} /\ w.caps.project \in Nat \ {0}
           /\ w.caps.running \in Nat \ {0}
           /\ w.extras \in Nat
           /\ IsFiniteSet(Held(w))
           /\ Cardinality(Held(w)) \in Nat
           /\ \A u : Busy(w, u) \in Nat
           /\ \A x : Cardinality(InProject(w, x)) \in Nat
<1>1. w \in Worlds
  BY DEF Fit
<1>2. w.caps \in CapSets /\ w.extras \in 0..MaxExtras
  BY <1>1 DEF Worlds
<1>3. /\ w.caps.user \in Nat \ {0} /\ w.caps.project \in Nat \ {0}
      /\ w.caps.running \in Nat \ {0}
  BY <1>2, QueueAssumption
<1>4. w.extras \in Nat
  BY <1>2, QueueAssumption
<1>5. Held(w) \subseteq Sessions
  <2>1. PICK S \in SUBSET Sessions : w.sends \in [S -> Users \cup {Schedule}]
    BY <1>1 DEF Worlds
  <2> QED
    BY <2>1 DEF Held
<1>6. IsFiniteSet(Held(w))
  BY <1>5, QueueAssumption, FS_Subset DEF Sessions
<1>7. \A S \in SUBSET Held(w) : Cardinality(S) \in Nat
  BY <1>6, FS_Subset, FS_CardinalityType
<1>8. \A u : {y \in Held(w) : w.sends[y] = u} \in SUBSET Held(w)
  OBVIOUS
<1>9. \A x : InProject(w, x) \in SUBSET Held(w)
  BY DEF InProject
<1> QED
  BY <1>3, <1>4, <1>6, <1>7, <1>8, <1>9 DEF Busy

\* A chat that could not start still cannot when others hold more.
LEMMA ChokedStill ==
    ASSUME NEW v, NEW w, Fit(v), Fit(w), Alike(v, w), NEW x, Choked(v, x),
           Opening(w, x) \subseteq Opening(v, x)
    PROVE  Choked(w, x)
<1>1. /\ Held(v) \subseteq Held(w) /\ \A y \in Held(v) : w.sends[y] = v.sends[y]
      /\ w.caps = v.caps /\ w.extras = v.extras
  BY DEF Alike
<1>2. IsFiniteSet(Held(w))
  BY FitNumbers
<1>3. Cardinality(Held(v)) <= Cardinality(Held(w))
  BY <1>1, <1>2, FS_Subset
<1>4. \A u : Busy(v, u) <= Busy(w, u)
  <2>1. ASSUME NEW u PROVE Busy(v, u) <= Busy(w, u)
    <3> DEFINE S == {y \in Held(v) : v.sends[y] = u}
               T == {y \in Held(w) : w.sends[y] = u}
    <3>1. S \subseteq T /\ T \subseteq Held(w)
      BY <1>1
    <3> HIDE DEF S, T
    <3>2. IsFiniteSet(T)
      BY <1>2, <3>1, FS_Subset
    <3>3. Cardinality(S) <= Cardinality(T)
      BY <3>1, <3>2, FS_Subset
    <3> QED
      BY <3>3 DEF Busy, S, T
  <2> QED
    BY <2>1
<1>5. Cardinality(InProject(v, x)) <= Cardinality(InProject(w, x))
  <2>1. InProject(v, x) \subseteq InProject(w, x) /\ InProject(w, x) \subseteq Held(w)
    BY <1>1 DEF InProject
  <2>2. IsFiniteSet(InProject(w, x))
    BY <1>2, <2>1, FS_Subset
  <2> QED
    BY <2>1, <2>2, FS_Subset
<1>6. /\ v.caps.user \in Nat /\ v.caps.project \in Nat /\ v.caps.running \in Nat
      /\ v.extras \in Nat /\ Cardinality(Held(v)) \in Nat /\ Cardinality(Held(w)) \in Nat
      /\ \A u : Busy(v, u) \in Nat /\ Busy(w, u) \in Nat
      /\ Cardinality(InProject(v, x)) \in Nat /\ Cardinality(InProject(w, x)) \in Nat
  BY FitNumbers
<1>7. CASE \A m \in Opening(v, x) : Busy(v, Author[m]) >= v.caps.user
  <2>1. \A m \in Opening(w, x) : Busy(w, Author[m]) >= w.caps.user
    <3>1. ASSUME NEW m \in Opening(w, x) PROVE Busy(w, Author[m]) >= w.caps.user
      <4>1. Busy(v, Author[m]) >= v.caps.user
        BY <1>7
      <4> QED
        BY <1>1, <1>4, <1>6, <4>1
    <3> QED
      BY <3>1
  <2> QED
    BY <2>1 DEF Choked
<1>8. CASE Cardinality(InProject(v, x)) >= v.caps.project
  BY <1>1, <1>5, <1>6, <1>8 DEF Choked
<1>9. CASE Full(v)
  BY <1>1, <1>3, <1>6, <1>9 DEF Choked, Full
<1> QED
  BY <1>7, <1>8, <1>9 DEF Choked

\* What admit() says of a free chat and of a user with room of his own.
LEMMA RefusalSays ==
    ASSUME NEW w, Fit(w), ~w.closed, NEW x, x \notin Held(w),
           NEW who \in Users, Busy(w, who) < w.caps.user
    PROVE  RefusalOf(w, x, who) =
              IF Cardinality(InProject(w, x)) >= w.caps.project THEN "project"
              ELSE IF Full(w) THEN "process" ELSE "none"
<1>1. who # Schedule
  BY QueueAssumption
<1>2. ~Places(w)!Locked(x, Schedule)
  BY DEF Places!Locked, Places!InSession, Places!Held, Held
<1>3. Places(w)!StartedBy(who) = {y \in Held(w) : w.sends[y] = who}
  BY DEF Places!StartedBy, Places!Held, Held
<1>4. Places(w)!InProject(ProjectOf[x]) = InProject(w, x)
  BY DEF Places!InProject, Places!Held, Held, InProject
<1>5. Places(w)!Held = Held(w)
  BY DEF Places!Held, Held
<1>6. ~(Busy(w, who) >= w.caps.user)
  BY FitNumbers
<1>7. Cardinality({y \in Held(w) : w.sends[y] = who}) = Busy(w, who)
  BY DEF Busy
<1>8. \A S : Places(w)!Cardinality(S) = Cardinality(S)
  BY DEF Places!Cardinality, Cardinality
<1> QED
  BY <1>1, <1>2, <1>3, <1>4, <1>5, <1>6, <1>7, <1>8 DEF RefusalOf, Places!Refusal, Full

\* A turn that is held back has no place, and one without a place is held
\* back when nothing refuses it first.
LEMMA VerdictChokes ==
    ASSUME NEW w, Fit(w), ~w.closed, NEW x, x \notin Held(w),
           NEW q \in Seq(Messages), Members(q) = Opening(w, x)
    PROVE  /\ Verdict(w, x, q) \in {"waits", "process"} => Choked(w, x)
           /\ Verdict(w, x, q) = "process" => Full(w)
           /\ TurnedDown = {} /\ Choked(w, x) => Verdict(w, x, q) \in {"waits", "process"}
<1> DEFINE refusal == IF Starters(w, q) = {} THEN "no starter"
                      ELSE RefusalOf(w, x, StarterOf(w, q))
<1>1. DOMAIN q = 1..Len(q) /\ Len(q) \in Nat /\ \A i \in DOMAIN q : q[i] \in Messages
  BY LenProperties, ElementOfSeq
<1>2. w.caps.user \in Nat /\ \A u : Busy(w, u) \in Nat
  BY FitNumbers
<1>3. Opening(w, x) \subseteq Members(w.line)
  BY DEF Opening, Line
<1>4. Starters(w, q) = {} <=> \A m \in Opening(w, x) : Busy(w, Author[m]) >= w.caps.user
  BY <1>2 DEF Starters, Members
<1>5. ASSUME Starters(w, q) # {}
      PROVE  /\ StarterOf(w, q) \in Users
             /\ Busy(w, StarterOf(w, q)) < w.caps.user
  <2>1. Starters(w, q) \subseteq DOMAIN q /\ Starters(w, q) \subseteq Nat
    BY <1>1 DEF Starters
  <2>2. \E i \in Starters(w, q) : \A j \in Starters(w, q) : i <= j
    BY <1>5, <2>1, LeastNumber
  <2>3. (CHOOSE i \in Starters(w, q) : \A j \in Starters(w, q) : i <= j) \in Starters(w, q)
    BY <2>2
  <2>4. PICK i \in Starters(w, q) : StarterOf(w, q) = Author[q[i]]
    BY <2>3 DEF StarterOf
  <2>5. q[i] \in Messages /\ Busy(w, Author[q[i]]) < w.caps.user
    BY <1>1, <2>1 DEF Starters
  <2> QED
    BY <2>4, <2>5, QueueAssumption
<1>6. refusal = IF Starters(w, q) = {} THEN "no starter"
                ELSE IF Cardinality(InProject(w, x)) >= w.caps.project THEN "project"
                ELSE IF Full(w) THEN "process" ELSE "none"
  BY <1>5, RefusalSays
<1>7. Verdict(w, x, q) = VerdictOf(w, Members(q), refusal)
  BY DEF Verdict
<1> HIDE DEF refusal
<1>8. TurnedDown = {} => ~Within(Members(q), TurnedDown)
  BY DEF Within
<1> QED
  BY <1>3, <1>4, <1>6, <1>7, <1>8 DEF VerdictOf, Choked

\* The first row of a chat opens.
LEMMA FirstOpens ==
    ASSUME NEW w, Fit(w), NEW x, Opening(w, x) = {}
    PROVE  Line(w, x) = {}
<1> DEFINE q == Rows(w, x)
<1>1. /\ q \in Seq(Messages) /\ Members(q) = Line(w, x)
      /\ \A a, b \in Messages :
            Ahead(q, a, b) <=> ChatOf[a] = x /\ ChatOf[b] = x /\ Ahead(w.line, a, b)
  BY FitLine, RowsMembers
<1>2. Len(q) \in Nat /\ DOMAIN q = 1..Len(q)
  BY <1>1, LenProperties
<1> HIDE DEF q
<1>3. SUFFICES ASSUME Line(w, x) # {} PROVE FALSE
  OBVIOUS
<1>4. 1 \in DOMAIN q
  BY <1>1, <1>2, <1>3 DEF Members
<1> DEFINE a == q[1]
<1>5. a \in Line(w, x) /\ a \in Messages
  BY <1>1, <1>4, FitLine DEF Members, Line
<1>6. ASSUME NEW b \in Messages, Ahead(q, b, a) PROVE FALSE
  <2>1. PICK i \in DOMAIN q, j \in DOMAIN q : i < j /\ q[i] = b /\ q[j] = q[1]
    BY <1>6 DEF Ahead
  <2>2. 1 < j
    BY <1>2, <2>1
  <2>3. Ahead(q, a, a)
    BY <1>4, <2>1, <2>2 DEF Ahead
  <2> QED
    BY <1>1, <1>5, <2>3, FitLine DEF Line
<1>7. \A b \in Messages : ChatOf[b] = x => ~Ahead(w.line, b, a)
  BY <1>1, <1>5, <1>6 DEF Line
<1>8. Opens(w, a)
  BY <1>5, <1>7, FitLine DEF Opens, Line
<1> QED
  BY <1>5, <1>8 DEF Opening

\* Without summons a turn is all of its chat.
LEMMA WholeOpens ==
    ASSUME Summons = {}, NEW w, Fit(w), NEW x
    PROVE  Opening(w, x) = Line(w, x)
BY DEF Opening, Opens, Line

\* The rows of another chat stand, and so does what they open with.
LEMMA OthersOpen ==
    ASSUME NEW v, NEW w, NEW x, Fit(v), LeavesOne(v, w, x), NEW y \in Chats \ {x}
    PROVE  Line(w, y) = Line(v, y) /\ Opening(w, y) = Opening(v, y)
<1>1. Line(w, y) = Line(v, y) /\ Fit(w) /\ Thins(v, w)
  BY DEF LeavesOne
<1>2. \A a \in Line(v, y) : \A c \in Messages :
         ChatOf[c] = y => (Ahead(w.line, c, a) <=> Ahead(v.line, c, a))
  <2>1. ASSUME NEW a \in Line(v, y), NEW c \in Messages, ChatOf[c] = y
        PROVE  Ahead(w.line, c, a) <=> Ahead(v.line, c, a)
    <3>1. a \in Members(w.line) /\ a \in Members(v.line)
      BY <1>1 DEF Line
    <3>2. c \in Members(v.line) <=> c \in Members(w.line)
      BY <1>1, <2>1 DEF Line
    <3>3. CASE c \in Members(w.line)
      BY <1>1, <3>1, <3>3 DEF Thins
    <3>4. CASE c \notin Members(w.line)
      BY <1>1, <3>2, <3>4, FitLine
    <3> QED
      BY <3>3, <3>4
  <2> QED
    BY <2>1
<1>3. \A a \in Line(v, y) : Opens(w, a) <=> Opens(v, a)
  BY <1>1, <1>2 DEF Opens, Line
<1> QED
  BY <1>1, <1>3 DEF Opening

\* The second launch of a start in a pass: the chat is held, or has no row
\* left, or has no place.
LEMMA RelaunchEnds ==
    ASSUME NoTurnDies, NEW w, Fit(w), ~w.closed, NEW x \in Chats \ Held(w),
           NEW woken, \A v \in Worlds : woken[v] = v,
           NEW p \in Seq(Messages), p # <<>>, Members(p) = Opening(w, x),
           ~Within(Members(p), Bad)
    PROVE  /\ \A y : y # x => Line(Relaunch(w, x, p, woken).w, y) = Line(w, y)
           /\ Done(Relaunch(w, x, p, woken).w, x)
           /\ Relaunch(w, x, p, woken).end = "process" => Full(Relaunch(w, x, p, woken).w)
<1> DEFINE verdict == Verdict(w, x, p)
           s == Launch(w, x, p, verdict, woken)
           r == Relaunch(w, x, p, woken)
<1>1. r = FailLast(s, p)
  BY DEF Relaunch
<1>2. /\ verdict \in {"waits", "refused", "process", "freed", "started"}
      /\ verdict \in {"freed", "started"} => StarterOf(w, p) \in Users
      /\ verdict = "refused" => Within(Members(p), Bad)
      /\ verdict = "freed" => Within(Members(p), Bad \cup Flaky)
  BY VerdictSays
<1>3. /\ verdict \in {"waits", "process"} => Choked(w, x)
      /\ verdict = "process" => Full(w)
  BY VerdictChokes
<1>4. woken[w] = w
  BY DEF Fit
<1> HIDE DEF verdict
<1>5. /\ s.end = verdict
      /\ s.w = CASE verdict = "started" -> Take(w, x, StarterOf(w, p), Members(p))
                 [] verdict = "freed"   -> woken[w]
                 [] OTHER               -> w
  BY DEF Launch
<1> HIDE DEF s, r
<1>6. /\ Opening(w, x) \subseteq Line(w, x) /\ Line(w, x) \subseteq Members(w.line)
      /\ Opening(w, x) \subseteq Messages
  BY FitLine DEF Opening, Line
<1>7. CASE verdict \in {"waits", "process"}
  <2>1. r.w = w /\ r.end = verdict
    BY <1>1, <1>5, <1>7 DEF FailLast, Failed
  <2> QED
    BY <1>3, <1>7, <2>1 DEF Done, r
<1>8. CASE verdict = "started"
  <2>1. r.w = Take(w, x, StarterOf(w, p), Opening(w, x)) /\ r.end = "started"
    BY <1>1, <1>5, <1>8 DEF FailLast, Failed
  <2>2. x \in Sessions /\ StarterOf(w, p) \in Users \cup {Schedule}
    BY <1>2, <1>8 DEF Sessions
  <2>3. /\ Held(r.w) = Held(w) \cup {x}
        /\ Members(r.w.line) = Members(w.line) \ Opening(w, x)
    BY <1>6, <2>1, <2>2, TakeRows
  <2>4. \A y : y # x => Line(r.w, y) = Line(w, y)
    BY <1>6, <2>3 DEF Line
  <2> QED
    BY <2>1, <2>3, <2>4 DEF Done, r
<1>9. CASE verdict = "freed"
  <2>1. r.w = Fail(w, Opening(w, x)) /\ r.end = "none"
    BY <1>1, <1>4, <1>5, <1>9 DEF FailLast, Failed
  <2>2. Members(r.w.line) = Members(w.line) \ Opening(w, x)
    BY <2>1, FailRows
  <2>3. Flaky # {}
    BY <1>2, <1>9 DEF Within
  <2>4. Opening(w, x) = Line(w, x)
    BY <2>3, WholeOpens DEF NoTurnDies
  <2>5. Line(r.w, x) = {}
    BY <2>2, <2>4 DEF Line
  <2>6. \A y : y # x => Line(r.w, y) = Line(w, y)
    BY <1>6, <2>2 DEF Line
  <2> QED
    BY <2>1, <2>5, <2>6 DEF Done, r
<1>10. CASE verdict = "refused"
  BY <1>2, <1>10
<1> QED
  BY <1>2, <1>7, <1>8, <1>9, <1>10

\* The rest of a start whose first launch failed in a pass.
LEMMA CulpritsEnd ==
    ASSUME NoTurnDies, NEW w, Fit(w), ~w.closed, NEW x \in Chats \ Held(w),
           Sorted(w, x), NEW woken, \A v \in Worlds : woken[v] = v,
           NEW q \in Seq(Messages), q # <<>>, Members(q) = Opening(w, x),
           NEW r, r = FailCulprits(w, x, q, Passing(w, q), woken)
    PROVE  /\ \A y : y # x => Line(r.w, y) = Line(w, y)
           /\ Done(r.w, x)
           /\ r.end = "process" => Full(r.w)
<1> DEFINE p == Passing(w, q)
           S == Members(q) \ Members(p)
           f == Fail(w, S)
<1>1. /\ p \in Seq(Messages)
      /\ Members(p) \subseteq Members(q) \cap Members(w.line)
      /\ ~Within(Members(p), Bad)
      /\ \A m \in (Members(q) \cap Members(w.line)) \ Members(p) :
            \E N \in SUBSET Members(p) : Within(N \cup {m}, Bad)
  BY PassingKeeps
<1>2. r = Relaunch(f, x, p, woken)
  BY DEF FailCulprits
<1> HIDE DEF p
<1>3. /\ Opening(w, x) \subseteq Line(w, x) /\ Line(w, x) \subseteq Members(w.line)
      /\ Members(w.line) \subseteq Messages
  BY FitLine DEF Opening, Line
<1>4. /\ Dispatches(w, f) /\ Members(p) # {} => Opening(f, x) = Members(p)
      /\ Dispatches(w, f)
  <2>1. Members(p) \subseteq Opening(w, x) /\ S \cap Members(w.line) = Opening(w, x) \ Members(p)
    BY <1>1, <1>3
  <2>2. \A m \in Opening(w, x) \ Members(p) :
           \E N \in SUBSET Members(p) : Within(N \cup {m}, Bad)
    BY <1>1, <1>3
  <2> HIDE DEF S
  <2> QED
    BY <1>1, <2>1, <2>2, FailSome
<1>5. /\ Fit(f) /\ ~f.closed /\ Held(f) = Held(w)
      /\ Members(f.line) = Members(w.line) \ S
  <2> HIDE DEF S
  <2> QED
    BY FailRows DEF SameBut, SameRest
<1>6. \A y : y # x => Line(f, y) = Line(w, y)
  <2>1. S \subseteq Line(w, x)
    BY <1>1, <1>3
  <2> HIDE DEF S, f
  <2> QED
    BY <1>5, <2>1 DEF Line
<1>7. p = <<>> <=> Members(p) = {}
  <2>1. Len(p) \in Nat /\ DOMAIN p = 1..Len(p)
    BY <1>1, LenProperties
  <2>2. p # <<>> => Len(p) # 0
    BY <1>1, EmptySeq
  <2>3. Len(p) # 0 => p[1] \in Members(p)
    BY <2>1 DEF Members
  <2>4. Members(<<>>) = {}
    BY DEF Members
  <2> QED
    BY <2>2, <2>3, <2>4
<1>8. CASE p = <<>>
  <2>1. r.w = f /\ r.end = "none"
    <3> HIDE DEF f
    <3> QED
      BY <1>2, <1>8 DEF Relaunch
  <2>2. Summons = {}
    <3>1. PICK m \in Members(q) : m \in Messages /\ m \in Members(w.line)
      <4>1. Members(q) # {}
        <5>1. Len(q) \in Nat /\ DOMAIN q = 1..Len(q) /\ Len(q) # 0
          BY LenProperties, EmptySeq
        <5>2. q[1] \in Members(q)
          BY <5>1 DEF Members
        <5> QED
          BY <5>2
      <4> QED
        BY <1>3, <4>1
    <3>2. PICK N \in SUBSET Members(p) : Within(N \cup {m}, Bad)
      BY <1>1, <1>7, <1>8, <3>1
    <3>3. PICK B \in Bad : B \subseteq {m}
      BY <1>7, <1>8, <3>2 DEF Within
    <3>4. B # {}
      BY QueueAssumption DEF Bad
    <3>5. {m} \in Bad
      <4>1. B = {m}
        BY <3>3, <3>4
      <4> QED
        BY <4>1
    <3> QED
      BY <3>1, <3>5 DEF NoTurnDies
  <2>3. Members(q) = Line(w, x)
    BY <2>2, WholeOpens
  <2>4. Line(f, x) = {}
    <3>1. S = Line(w, x)
      BY <1>7, <1>8, <2>3
    <3> HIDE DEF S, f
    <3> QED
      BY <1>5, <3>1 DEF Line
  <2> HIDE DEF f
  <2> QED
    BY <1>6, <2>1, <2>4 DEF Done
<1>9. CASE p # <<>>
  <2>1. Members(p) = Opening(f, x)
    BY <1>4, <1>7, <1>9
  <2> HIDE DEF f
  <2>2. x \in Chats \ Held(f)
    BY <1>5
  <2> QED
    BY <1>1, <1>2, <1>5, <1>6, <1>9, <2>1, <2>2, RelaunchEnds
<1> QED
  BY <1>8, <1>9

\* One chat's start in a pass: the chat is held after it, or has no row left,
\* or has no place.
LEMMA StartEnds ==
    ASSUME NoTurnDies, NEW w, Fit(w), ~w.closed, NEW x \in Chats \ Held(w),
           NEW woken, \A v \in Worlds : woken[v] = v,
           NEW r, r = StartChat(w, x, woken)
    PROVE  /\ \A y : y # x => Line(r.w, y) = Line(w, y)
           /\ Done(r.w, x)
           /\ r.end = "process" => Full(r.w)
<1> DEFINE v == Sort(w, x)
           q == Batch(Rows(v, x))
           verdict == Verdict(v, x, q)
           s == Launch(v, x, q, verdict, woken)
<1>1. Dispatches(w, v) /\ Sorted(v, x) /\ SameBut(w, v)
  BY SortDispatches
<1>2. Fit(v) /\ ~v.closed /\ x \notin Held(v)
  BY <1>1 DEF Dispatches, SameBut, SameRest, Held
<1>3. \A y : y # x => Line(v, y) = Line(w, y)
  <2> DEFINE D == {n \in Members(Rows(w, x)) : Reason(w, n) # "none"}
             became == [m \in D |-> Reason(w, m)]
  <2>1. v = Leave(w, became) /\ DOMAIN became = D
    BY DEF Sort
  <2>2. /\ D \subseteq Line(w, x) /\ Line(w, x) \subseteq Members(w.line)
        /\ Members(w.line) \subseteq Messages
    BY FitLine, RowsMembers DEF Line
  <2>3. \A m \in D : became[m] \in Fates \ {"queued"}
    BY ReasonWords DEF Fates, NotSent
  <2> HIDE DEF became
  <2>4. Members(Leave(w, became).line) = Members(w.line) \ D
    <3>1. DOMAIN became \subseteq Messages
      BY <2>1, <2>2
    <3>2. \A m \in DOMAIN became : became[m] \in Fates \ {"queued"}
      BY <2>1, <2>3
    <3>3. Members(Leave(w, became).line) = Members(w.line) \ DOMAIN became
      BY <3>1, <3>2, LeaveRows
    <3> QED
      BY <2>1, <3>3
  <2> HIDE DEF D, v
  <2> QED
    BY <2>1, <2>2, <2>4 DEF Line
<1>4. r = StartTurn(v, x, q, woken)
  BY DEF StartChat, StartSorted
<1> HIDE DEF v
<1>5. q \in Seq(Messages) /\ Members(q) = Opening(v, x)
  BY <1>2, BatchOpens
<1> HIDE DEF q
<1>6. CASE q = <<>>
  <2>1. r.w = v /\ r.end = "none"
    BY <1>4, <1>6 DEF StartTurn
  <2>2. Line(v, x) = {}
    BY <1>2, <1>5, <1>6, FirstOpens DEF Members
  <2> QED
    BY <1>3, <2>1, <2>2 DEF Done
<1>7. CASE q # <<>>
  <2>1. r = FirstLaunch(s, x, q, woken)
    BY <1>4, <1>7 DEF StartTurn
  <2>2. /\ verdict \in {"waits", "refused", "process", "freed", "started"}
        /\ verdict \in {"freed", "started"} => StarterOf(v, q) \in Users
    BY <1>5, VerdictSays
  <2>3. /\ verdict \in {"waits", "process"} => Choked(v, x)
        /\ verdict = "process" => Full(v)
    BY <1>2, <1>5, VerdictChokes
  <2> HIDE DEF verdict
  <2>4. /\ s.end = verdict
        /\ s.w = CASE verdict = "started" -> Take(v, x, StarterOf(v, q), Members(q))
                   [] verdict = "freed"   -> woken[v]
                   [] OTHER               -> v
    BY DEF Launch
  <2> HIDE DEF s
  <2>5. /\ Opening(v, x) \subseteq Line(v, x) /\ Line(v, x) \subseteq Members(v.line)
        /\ Opening(v, x) \subseteq Messages
    BY <1>2, FitLine DEF Opening, Line
  <2>6. CASE verdict = "started"
    <3>1. r.w = Take(v, x, StarterOf(v, q), Opening(v, x)) /\ r.end = "started"
      BY <1>5, <2>1, <2>4, <2>6 DEF FirstLaunch, Failed
    <3>2. x \in Sessions /\ StarterOf(v, q) \in Users \cup {Schedule}
      BY <2>2, <2>6 DEF Sessions
    <3>3. /\ Held(r.w) = Held(v) \cup {x}
          /\ Members(r.w.line) = Members(v.line) \ Opening(v, x)
      BY <1>2, <2>5, <3>1, <3>2, TakeRows
    <3>4. \A y : y # x => Line(r.w, y) = Line(v, y)
      BY <2>5, <3>3 DEF Line
    <3> QED
      BY <1>3, <3>1, <3>3, <3>4 DEF Done
  <2>7. CASE verdict \in {"waits", "process"}
    <3>1. r.w = v /\ r.end = verdict
      BY <2>1, <2>4, <2>7 DEF FirstLaunch, Failed
    <3> QED
      BY <1>3, <2>3, <2>7, <3>1 DEF Done
  <2>8. CASE verdict \in {"refused", "freed"}
    <3>1. s.w = v
      BY <1>2, <2>4, <2>8 DEF Fit
    <3>2. r = FailCulprits(v, x, q, Passing(v, q), woken)
      BY <2>1, <2>4, <2>8, <3>1 DEF FirstLaunch, Failed
    <3>3. x \in Chats \ Held(v)
      BY <1>2
    <3>4. /\ \A y : y # x => Line(r.w, y) = Line(v, y)
          /\ Done(r.w, x)
          /\ r.end = "process" => Full(r.w)
      BY <1>1, <1>2, <1>5, <1>7, <3>2, <3>3, CulpritsEnd
    <3> QED
      BY <1>3, <3>4
  <2> QED
    BY <2>2, <2>6, <2>7, <2>8
<1> QED
  BY <1>6, <1>7

\* what a pass has done so far
Touring(p) ==
    /\ \A x \in p.seen : Done(p.w, x)
    /\ p.full => Full(p.w)

LEMMA VisitEnds ==
    ASSUME NoTurnDies, NEW p \in Tours, Fit(p.w), ~p.w.closed, Touring(p),
           NEW x \in Chats
    PROVE  /\ Touring(Visit(p, x))
           /\ p.full => Visit(p, x).full
           /\ p.seen \subseteq Visit(p, x).seen
           /\ Visit(p, x).full \/ x \in Visit(p, x).seen \cup Held(Visit(p, x).w)
<1> DEFINE woken == [v \in Worlds |-> v]
           s == StartChat(p.w, x, woken)
           z == Visited(p, x, s)
<1>1. Visit(p, x) = IF p.full \/ x \in p.seen \cup Held(p.w) THEN p ELSE z
  BY DEF Visit
<1>2. CASE p.full \/ x \in p.seen \cup Held(p.w)
  BY <1>1, <1>2
<1>3. CASE ~(p.full \/ x \in p.seen \cup Held(p.w))
  <2>1. \A v \in Worlds : woken[v] = v
    OBVIOUS
  <2>2. Wakes(woken)
    BY DispatchesNothing DEF Wakes
  <2> HIDE DEF woken
  <2>3. Dispatches(p.w, s.w)
    BY <2>2, StartChatDispatches
  <2>4. /\ \A y : y # x => Line(s.w, y) = Line(p.w, y)
        /\ Done(s.w, x)
        /\ s.end = "process" => Full(s.w)
    BY <1>3, <2>1, StartEnds
  <2> HIDE DEF s
  <2>5. Visit(p, x) = z /\ z.w = s.w /\ z.seen = p.seen \cup {x} /\ z.full = (s.end = "process")
    BY <1>1, <1>3 DEF Visited
  <2>6. /\ Fit(s.w) /\ Thins(p.w, s.w) /\ Alike(p.w, s.w)
        /\ Held(p.w) \subseteq Held(s.w)
    BY <2>3 DEF Dispatches, Alike
  <2>7. LeavesOne(p.w, s.w, x)
    BY <2>4, <2>6 DEF LeavesOne
  <2>8. ASSUME NEW y \in p.seen PROVE Done(s.w, y)
    <3>1. y \in Chats \ {x} /\ Done(p.w, y)
      BY <1>3, <2>8 DEF Tours, Touring
    <3>2. Line(s.w, y) = Line(p.w, y) /\ Opening(s.w, y) = Opening(p.w, y)
      BY <2>7, <3>1, OthersOpen
    <3>3. CASE Choked(p.w, y)
      BY <2>6, <3>2, <3>3, ChokedStill DEF Done
    <3> QED
      BY <2>6, <3>1, <3>2, <3>3 DEF Done
  <2> HIDE DEF z
  <2> QED
    BY <1>3, <2>4, <2>5, <2>8 DEF Touring
<1> QED
  BY <1>2, <1>3

\* After a pass each chat is held, or has no row, or has no place.
LEMMA PassEnds ==
    ASSUME NoTurnDies, NEW w, Fit(w), ~w.closed
    PROVE  \A x \in Chats : Done(Pass(w), x)
<1> DEFINE step == [m \in Messages |-> [p \in Tours |-> Visit(p, ChatOf[m])]]
           base == [w |-> w, seen |-> {}, full |-> FALSE]
           Seen(p, j) == p.full \/ ChatOf[w.line[j]] \in p.seen \cup Held(p.w)
           Good(i) == {p \in Tours : /\ Dispatches(w, p.w)
                                     /\ Touring(p)
                                     /\ \A j \in 1..i : Seen(p, j)}
           P == [i \in 0..Len(w.line) |-> Good(i)]
<1>1. /\ Len(w.line) \in Nat /\ w.line \in Seq(Messages)
      /\ DOMAIN w.line = 1..Len(w.line)
      /\ \A i \in 1..Len(w.line) : w.line[i] \in Messages
  BY FitLine, ElementOfSeq
<1>2. base \in P[0]
  <2>1. base \in Tours /\ base.w = w /\ base.seen = {} /\ base.full = FALSE
    BY DEF Tours, Fit
  <2>2. Dispatches(w, w)
    BY DispatchesNothing
  <2> HIDE DEF base
  <2>3. base \in Good(0)
    BY <2>1, <2>2 DEF Touring
  <2> HIDE DEF Good
  <2> QED
    BY <1>1, <2>3
<1>3. ASSUME NEW i \in 1..Len(w.line), NEW p \in P[i - 1]
      PROVE  step[w.line[i]][p] \in P[i]
  <2> DEFINE m == w.line[i]
             r == Visit(p, ChatOf[m])
  <2>1. i \in 0..Len(w.line) /\ i - 1 \in 0..Len(w.line)
    BY <1>1
  <2>2. p \in Good(i - 1) /\ P[i] = Good(i)
    <3> HIDE DEF Good
    <3> QED
      BY <2>1
  <2>3. p \in Tours /\ Dispatches(w, p.w) /\ Touring(p) /\ \A j \in 1..(i - 1) : Seen(p, j)
    BY <2>2
  <2>4. Fit(p.w) /\ ~p.w.closed
    BY <2>3 DEF Dispatches, Alike
  <2>5. m \in Messages /\ ChatOf[m] \in Chats
    BY <1>1, QueueAssumption
  <2>6. step[m][p] = r
    BY <2>3, <2>5
  <2> HIDE DEF P, step
  <2>7. r \in Tours /\ Dispatches(p.w, r.w)
    BY <2>3, <2>4, <2>5, VisitDispatches
  <2>8. /\ Touring(r)
        /\ p.full => r.full
        /\ p.seen \subseteq r.seen
        /\ r.full \/ ChatOf[m] \in r.seen \cup Held(r.w)
    BY <2>3, <2>4, <2>5, VisitEnds
  <2> HIDE DEF r
  <2>9. Dispatches(w, r.w)
    BY <2>3, <2>7, DispatchesOn
  <2>10. Held(p.w) \subseteq Held(r.w)
    BY <2>7 DEF Dispatches, Alike
  <2>11. \A j \in 1..i : Seen(r, j)
    <3>1. ASSUME NEW j \in 1..i PROVE Seen(r, j)
      <4>1. j = i \/ j \in 1..(i - 1)
        BY <1>1
      <4>2. CASE j = i
        BY <2>8, <4>2
      <4>3. CASE j \in 1..(i - 1)
        BY <2>3, <2>8, <2>10, <4>3
      <4> QED
        BY <4>1, <4>2, <4>3
    <3> QED
      BY <3>1
  <2>12. r \in Good(i)
    BY <2>7, <2>8, <2>9, <2>11
  <2> HIDE DEF Good
  <2> QED
    BY <2>2, <2>6, <2>12
<1>4. Through(step, w.line, base) \in P[Len(w.line)]
  <2> HIDE DEF P, base, step
  <2> QED
    BY <1>1, <1>2, <1>3, ThroughKeeps
<1> DEFINE r == Through(step, w.line, base)
           u == Pass(w)
<1>5. u = r.w
  BY DEF Pass
<1>6. r \in Good(Len(w.line))
  <2> HIDE DEF step, base, r, Good
  <2>1. Len(w.line) \in 0..Len(w.line)
    BY <1>1
  <2> QED
    BY <1>4, <2>1 DEF r
<1> HIDE DEF step, base, r, u
<1>7. Dispatches(w, u) /\ Touring(r) /\ \A j \in 1..Len(w.line) : Seen(r, j)
  BY <1>5, <1>6
<1>8. ASSUME NEW x \in Chats PROVE Done(u, x)
  <2>1. CASE Line(u, x) = {}
    BY <2>1 DEF Done
  <2>2. CASE Line(u, x) # {}
    <3>1. PICK m \in Members(w.line) : ChatOf[m] = x
      BY <1>7, <2>2 DEF Line, Dispatches, Thins
    <3>2. PICK j \in 1..Len(w.line) : ChatOf[w.line[j]] = x
      BY <1>1, <3>1 DEF Members
    <3>3. r.full \/ x \in r.seen \cup Held(u)
      BY <1>5, <1>7, <3>2
    <3> QED
      BY <1>5, <1>7, <3>3 DEF Touring, Done, Choked
  <2> QED
    BY <2>1, <2>2
<1> QED
  BY <1>8 DEF u

\* A chat that a pass is done with could not start.
LEMMA DoneWaits ==
    ASSUME TurnedDown = {}, NEW w, Fit(w), ~w.closed, NEW x, x \notin Held(w), Done(w, x)
    PROVE  \/ Rows(w, x) = <<>>
           \/ Verdict(w, x, Batch(Rows(w, x))) \in {"waits", "process"}
<1>1. Rows(w, x) \in Seq(Messages) /\ Members(Rows(w, x)) = Line(w, x)
  BY FitLine, RowsMembers
<1>2. CASE Line(w, x) = {}
  <2>1. Len(Rows(w, x)) \in Nat /\ DOMAIN Rows(w, x) = 1..Len(Rows(w, x))
    BY <1>1, LenProperties
  <2>2. Len(Rows(w, x)) # 0 => Rows(w, x)[1] \in Members(Rows(w, x))
    BY <2>1 DEF Members
  <2> QED
    BY <1>1, <1>2, <2>2, EmptySeq
<1>3. CASE Choked(w, x)
  BY <1>3, BatchOpens, VerdictChokes
<1> QED
  BY <1>2, <1>3 DEF Done

\* Nobody is without a place while nothing runs.
LEMMA IdleDone ==
    ASSUME NEW w, Fit(w), Held(w) = {}, w.extras = 0, \A x \in Chats : Done(w, x)
    PROVE  w.line = <<>>
<1>1. \A x : InProject(w, x) = {}
  BY DEF InProject
<1>2. \A u : Busy(w, u) = 0
  <2>1. \A u : {y \in Held(w) : w.sends[y] = u} = {}
    OBVIOUS
  <2> QED
    BY <2>1, FS_EmptySet DEF Busy
<1>3. /\ w.caps.user \in Nat \ {0} /\ w.caps.project \in Nat \ {0}
      /\ w.caps.running \in Nat \ {0}
  BY FitNumbers
<1>4. \A x : Cardinality(InProject(w, x)) = 0 /\ Cardinality(Held(w)) = 0
  BY <1>1, FS_EmptySet
<1>5. \A x : Choked(w, x) => Opening(w, x) = {}
  BY <1>2, <1>3, <1>4 DEF Choked, Full
<1>6. \A x \in Chats : Line(w, x) = {}
  BY <1>5, FirstOpens DEF Done
<1>7. Members(w.line) = {}
  <2>1. \A m \in Members(w.line) : ChatOf[m] \in Chats
    BY FitLine, QueueAssumption
  <2> QED
    BY <1>6, <2>1 DEF Line
<1> QED
  BY <1>7, EmptyLine

----------------------------------------------------------------------------
(* Nothing waits idle *)

\* While nothing runs no child does, and no row waits at all, whatever its
\* reason.  NothingWaitsIdle alone is not inductive: a row that leaves could
\* make the ones behind it startable
IdleInv ==
    /\ Held(world) = {} => world.extras = 0
    /\ Held(world) = {} /\ ~world.closed => world.line = <<>>

\* what every step does for the places
Idles == IdleInv' /\ (TurnedDown = {} => FreedPlaces)

\* A step that lets no place go and queues no row.
LEMMA GrowIdles ==
    ASSUME QueueInv, IdleInv, NEW w, Fit(w), world' = w,
           Held(world) \subseteq Held(w), Members(w.line) \subseteq Members(world.line),
           w.extras = world.extras, w.caps = world.caps, w.closed = world.closed
    PROVE  Idles
<1>1. Held(w) = {} /\ ~w.closed => w.line = <<>>
  BY EmptyLine DEF IdleInv, QueueInv
<1>2. Held(world') = Held(w)
  OBVIOUS
<1>3. Held(world)' = Held(w)
  BY DEF Held
<1>4. IdleInv'
  BY <1>1, <1>3 DEF IdleInv
<1>5. ~(w.extras < world.extras)
  BY FitNumbers DEF QueueInv
<1>6. FreedPlaces
  BY <1>3, <1>5 DEF FreedPlaces
<1> QED
  BY <1>4, <1>6 DEF Idles

\* A step that ends with a pass, or finds the dispatcher closed.
LEMMA PassIdles ==
    ASSUME NoTurnDies, NEW e, Fit(e), Held(e) = {} => e.extras = 0,
           NEW w, world' = w, w = Wake(e)
    PROVE  Idles
<1>1. /\ Dispatches(e, w) /\ Fit(w)
      /\ Held(w) = {} => Held(e) = {}
      /\ w.extras = e.extras /\ w.closed = e.closed
  BY WakeDispatches DEF Dispatches, Alike
<1>2. ~w.closed => \A x \in Chats : Done(w, x)
  BY <1>1, PassEnds DEF Wake
<1>3. Held(world)' = Held(w)
  BY DEF Held
<1>4. Held(w) = {} /\ ~w.closed => w.line = <<>>
  BY <1>1, <1>2, IdleDone
<1>5. IdleInv'
  BY <1>1, <1>3, <1>4 DEF IdleInv
<1>6. ASSUME TurnedDown = {} PROVE FreedPlaces
  <2>1. ASSUME NEW x \in Chats, Startable(x)' PROVE FALSE
    <3>1. /\ ~w.closed /\ x \notin Held(w)
          /\ Rows(w, x) # <<>>
          /\ Verdict(w, x, Batch(Rows(w, x))) \notin {"waits", "process"}
      BY <1>3, <2>1 DEF Startable
    <3> QED
      BY <1>1, <1>2, <1>6, <3>1, DoneWaits
  <2> QED
    BY <2>1 DEF FreedPlaces
<1> QED
  BY <1>5, <1>6 DEF Idles

LEMMA WokenIdles ==
    ASSUME NoTurnDies, QueueInv, NEW e \in Worlds, e.line = world.line,
           e.fate = world.fate, Held(e) = {} => e.extras = 0, Woken(e)
    PROVE  Idles
<1>1. Fit(e)
  BY DEF QueueInv, Fit
<1>2. world' = Wake(e)
  BY DEF Woken, Become
<1> QED
  BY <1>1, <1>2, PassIdles

LEMMA PostIdles ==
    ASSUME QueueInv, IdleInv, NEW m \in Messages, Post(m)
    PROVE  Idles
<1> DEFINE v == Before(m)
<1>1. /\ Dispatches(world, v) /\ Fit(world)
      /\ PostFree(m, v) \/ PostHeld(m, v)
  BY BeforeDispatches DEF QueueInv, Post
<1>2. PostFree(m, v) => /\ Become(SentFrom(v, m, RefusalOf(v, ChatOf[m], Author[m])))
  BY DEF PostFree
<1>3. PostHeld(m, v) => world.closed \/ ChatOf[m] \in Held(v)
  BY DEF PostHeld
<1>4. PostHeld(m, v) => \/ world' = v
                        \/ world' = [v EXCEPT !.line = Append(@, m), !.fate[m] = "queued"]
  BY DEF PostHeld, Become
<1> HIDE DEF v
<1>5. /\ Fit(v) /\ Thins(world, v) /\ Alike(world, v) /\ v \in Worlds
  BY <1>1 DEF Dispatches, Fit
<1>6. ASSUME NEW w, world' = w, w = v \/ w = Wake(v) PROVE Idles
  <2>1. Dispatches(world, w)
    BY <1>1, <1>5, <1>6, WakeDispatches, DispatchesOn
  <2> QED
    BY <1>6, <2>1, GrowIdles DEF Dispatches, Alike, Thins
<1>7. CASE PostFree(m, v)
  <2> DEFINE w == SentFrom(v, m, RefusalOf(v, ChatOf[m], Author[m]))
  <2>1. world' = w
    BY <1>2, <1>7 DEF Become
  <2>2. w = v \/ w = Wake(v) \/ w = Take(v, ChatOf[m], Author[m], {m})
    BY DEF SentFrom
  <2> HIDE DEF w
  <2>3. CASE w = Take(v, ChatOf[m], Author[m], {m})
    <3>1. ChatOf[m] \in Sessions /\ Author[m] \in Users \cup {Schedule} /\ {m} \subseteq Messages
      BY QueueAssumption DEF Sessions
    <3> DEFINE S == {m}
    <3>2. S \subseteq Messages /\ w = Take(v, ChatOf[m], Author[m], S)
      BY <2>3
    <3> HIDE DEF S
    <3>3. /\ Fit(w) /\ SameRest(v, w)
          /\ Held(w) = Held(v) \cup {ChatOf[m]}
          /\ Members(w.line) = Members(v.line) \ S
      <4>1. Fit(w) /\ SameRest(v, w)
        BY <1>5, <3>1, <3>2, TakeRows
      <4>2. Held(w) = Held(v) \cup {ChatOf[m]}
        BY <1>5, <3>1, <3>2, TakeRows
      <4>3. Members(w.line) = Members(v.line) \ S
        BY <1>5, <3>1, <3>2, TakeRows
      <4> QED
        BY <4>1, <4>2, <4>3
    <3> QED
      BY <1>5, <2>1, <3>3, GrowIdles DEF Alike, Thins, SameRest
  <2> QED
    BY <1>6, <2>1, <2>2, <2>3
<1>8. CASE PostHeld(m, v) /\ world' # v
  <2> DEFINE w == [v EXCEPT !.line = Append(@, m), !.fate[m] = "queued"]
  <2>1. world' = w
    BY <1>4, <1>8
  <2>2. w.sends = v.sends /\ w.extras = v.extras /\ w.caps = v.caps /\ w.closed = v.closed
    BY <1>5 DEF Worlds
  <2> HIDE DEF w
  <2>3. Held(world)' = Held(v) /\ Held(world) \subseteq Held(v)
    BY <1>5, <2>1, <2>2 DEF Held, Alike
  <2>4. v.extras = world.extras /\ v.caps = world.caps /\ v.closed = world.closed
    BY <1>5 DEF Alike
  <2>5. world.closed \/ Held(v) # {}
    BY <1>3, <1>8
  <2>6. ~(v.extras < world.extras)
    BY <1>1, <2>4, FitNumbers
  <2>7. IdleInv'
    BY <2>1, <2>2, <2>3, <2>4, <2>5 DEF IdleInv
  <2>8. FreedPlaces
    BY <2>1, <2>2, <2>3, <2>4, <2>6 DEF FreedPlaces
  <2> QED
    BY <2>7, <2>8 DEF Idles
<1> QED
  BY <1>1, <1>6, <1>7, <1>8

LEMMA LeaveIdles ==
    ASSUME QueueInv, IdleInv,
           \/ \E m \in Messages : RemoveRow(m)
           \/ \E u \in Users, what \in {"access", "login"}, drops \in BOOLEAN :
                 Lose(u, what, drops)
    PROVE  Idles
<1>1. Fit(world)
  BY DEF QueueInv
<1>2. ASSUME NEW S \in SUBSET Messages, world' = Leave(world, All(S, "gone"))
      PROVE  Idles
  <2> DEFINE became == All(S, "gone")
             w == Leave(world, became)
  <2>1. DOMAIN became = S /\ \A m \in S : became[m] = "gone"
    BY DEF All
  <2> HIDE DEF became
  <2>2. /\ Fit(w) /\ SameBut(world, w)
        /\ Members(w.line) = Members(world.line) \ DOMAIN became
    BY <1>1, <2>1, LeaveRows DEF Fates
  <2>3. world' = w
    BY <1>2 DEF became
  <2> HIDE DEF w
  <2> QED
    BY <2>2, <2>3, GrowIdles DEF SameBut, SameRest, Held
<1>3. ASSUME NEW m \in Messages, RemoveRow(m) PROVE Idles
  <2>1. {m} \in SUBSET Messages /\ world' = Leave(world, All({m}, "gone"))
    BY <1>3 DEF RemoveRow, Become
  <2> QED
    BY <1>2, <2>1
<1>4. ASSUME NEW u \in Users, NEW what, NEW drops \in BOOLEAN, Lose(u, what, drops)
      PROVE  Idles
  <2>1. Kept(world, u) \in SUBSET Messages
    BY DEF Kept
  <2>2. world' = IF drops THEN Leave(world, All(Kept(world, u), "gone")) ELSE world
    BY <1>4 DEF Lose, Become
  <2>3. CASE drops
    BY <1>2, <2>1, <2>2, <2>3
  <2>4. CASE ~drops
    BY <1>1, <2>2, <2>4, GrowIdles
  <2> QED
    BY <2>3, <2>4
<1> QED
  BY <1>3, <1>4

LEMMA StartOtherIdles ==
    ASSUME QueueInv, IdleInv, NEW x \in Sessions, NEW who \in Users \cup {Schedule},
           StartOther(x, who)
    PROVE  Idles
<1> DEFINE S == {}
           w == Take(world, x, who, S)
<1>1. world' = w /\ S \subseteq Messages
  BY DEF StartOther, Become
<1> HIDE DEF S
<1>2. /\ Fit(w) /\ SameRest(world, w)
      /\ Held(w) = Held(world) \cup {x}
      /\ Members(w.line) = Members(world.line) \ S
  <2>1. Fit(world)
    BY DEF QueueInv
  <2>2. Fit(w) /\ SameRest(world, w)
    BY <1>1, <2>1, TakeRows
  <2>3. Held(w) = Held(world) \cup {x}
    BY <1>1, <2>1, TakeRows
  <2>4. Members(w.line) = Members(world.line) \ S
    BY <1>1, <2>1, TakeRows
  <2> QED
    BY <2>2, <2>3, <2>4
<1> HIDE DEF w
<1> QED
  BY <1>1, <1>2, GrowIdles DEF SameRest

LEMMA EndIdles ==
    ASSUME NoTurnDies, QueueInv, IdleInv, NEW x, End(x)
    PROVE  Idles
<1>1. /\ Without(x) \in Worlds
      /\ Without(x).line = world.line /\ Without(x).fate = world.fate
  BY WithoutWorld DEF QueueInv
<1>2. Held(Without(x)) = Held(world) \ {x} /\ Without(x).extras = world.extras
  <2>1. world \in Worlds
    BY DEF QueueInv, Fit
  <2> QED
    BY <2>1 DEF Without, Held, Worlds
<1>3. x \in Held(world) /\ (Held(world) = {x} => world.extras = 0) /\ Woken(Without(x))
  BY DEF End
<1>4. Held(Without(x)) = {} => Without(x).extras = 0
  BY <1>2, <1>3
<1> QED
  BY <1>1, <1>3, <1>4, WokenIdles

LEMMA ExtraIdles ==
    ASSUME NoTurnDies, QueueInv, IdleInv, TakeExtra \/ FreeExtra
    PROVE  Idles
<1>1. world \in Worlds /\ Fit(world) /\ world.extras \in Nat
  BY FitNumbers DEF QueueInv, Fit
<1>2. MaxExtras \in Nat /\ world.extras \in 0..MaxExtras
  BY <1>1, QueueAssumption DEF Worlds
<1>3. CASE TakeExtra
  <2> DEFINE e == [world EXCEPT !.extras = @ + 1]
  <2>1. world' = e /\ Held(world) # {}
    BY <1>3 DEF TakeExtra, Become
  <2>2. /\ e.sends = world.sends /\ e.caps = world.caps /\ e.extras = world.extras + 1
    BY <1>1 DEF Worlds
  <2> HIDE DEF e
  <2>3. Held(world)' = Held(world)
    BY <2>1, <2>2 DEF Held
  <2>4. ~(world'.extras < world.extras)
    BY <1>1, <2>1, <2>2
  <2> QED
    BY <2>1, <2>2, <2>3, <2>4 DEF Idles, IdleInv, FreedPlaces
<1>4. CASE FreeExtra
  <2> DEFINE e == [world EXCEPT !.extras = @ - 1]
  <2>1. world.extras > 0 /\ world.extras - 1 \in 0..MaxExtras
    BY <1>2, <1>4 DEF FreeExtra
  <2>2. /\ e \in Worlds /\ e.line = world.line /\ e.fate = world.fate
        /\ e.sends = world.sends
    BY <1>1, <2>1 DEF Worlds
  <2>3. Woken(e)
    BY <1>4 DEF FreeExtra
  <2> HIDE DEF e
  <2>4. Held(e) # {}
    BY <1>1, <2>1, <2>2 DEF IdleInv, Held
  <2> QED
    BY <2>2, <2>3, <2>4, WokenIdles
<1> QED
  BY <1>3, <1>4

LEMMA ChangeIdles ==
    ASSUME NoTurnDies, QueueInv, IdleInv,
           \/ \E c \in CapSets, n \in MinuteSets : SetLimits(c, n)
           \/ \E S \in SUBSET Chats : Archive(S)
           \/ Retire \/ WakeAgain
    PROVE  Idles
<1>1. world \in Worlds
  BY DEF QueueInv, Fit
<1>2. ASSUME NEW e \in Worlds, e.line = world.line, e.fate = world.fate,
             e.sends = world.sends, e.extras = world.extras, Woken(e)
      PROVE  Idles
  BY <1>2, WokenIdles DEF IdleInv, Held
<1>3. ASSUME NEW c \in CapSets, NEW n \in MinuteSets, SetLimits(c, n) PROVE Idles
  <2> DEFINE e == [world EXCEPT !.caps = c, !.minutes = n]
  <2>1. /\ e \in Worlds /\ e.line = world.line /\ e.fate = world.fate
        /\ e.sends = world.sends /\ e.extras = world.extras
    BY <1>1 DEF Worlds
  <2>2. Woken(e)
    BY <1>3 DEF SetLimits
  <2> HIDE DEF e
  <2> QED
    BY <1>2, <2>1, <2>2
<1>4. ASSUME NEW S \in SUBSET Chats, Archive(S) PROVE Idles
  <2> DEFINE e == [world EXCEPT !.archived = @ \cup S]
  <2>1. /\ e \in Worlds /\ e.line = world.line /\ e.fate = world.fate
        /\ e.sends = world.sends /\ e.extras = world.extras
    BY <1>1 DEF Worlds
  <2>2. Woken(e)
    BY <1>4 DEF Archive
  <2> HIDE DEF e
  <2> QED
    BY <1>2, <2>1, <2>2
<1>5. CASE Retire
  <2> DEFINE e == [world EXCEPT !.retired = TRUE]
  <2>1. /\ e \in Worlds /\ e.line = world.line /\ e.fate = world.fate
        /\ e.sends = world.sends /\ e.extras = world.extras
    BY <1>1 DEF Worlds
  <2>2. Woken(e)
    BY <1>5 DEF Retire
  <2> HIDE DEF e
  <2> QED
    BY <1>2, <2>1, <2>2
<1>6. CASE WakeAgain
  BY <1>1, <1>2, <1>6 DEF WakeAgain
<1> QED
  BY <1>3, <1>4, <1>5, <1>6

LEMMA ClockIdles ==
    ASSUME NoTurnDies, QueueInv, IdleInv, Tick \/ Ring \/ Close \/ Restart
    PROVE  Idles
<1>1. Fit(world) /\ world \in Worlds
  BY DEF QueueInv, Fit
<1>2. CASE Tick
  BY <1>1, <1>2, GrowIdles DEF Tick
<1>3. CASE Ring
  <2>1. Dispatches(world, Expire(world)) /\ world' = Expire(world)
    BY <1>1, <1>3, ExpireDispatches DEF Ring, Become
  <2> QED
    BY <2>1, GrowIdles DEF Dispatches, Alike, Thins
<1>4. CASE Close
  <2> DEFINE e == [world EXCEPT !.closed = TRUE]
  <2>1. world' = e
    BY <1>4 DEF Close
  <2>2. e.sends = world.sends /\ e.extras = world.extras /\ e.caps = world.caps /\ e.closed
    BY <1>1 DEF Worlds
  <2> HIDE DEF e
  <2>3. Held(world)' = Held(world)
    BY <2>1, <2>2 DEF Held
  <2>4. ~(world'.extras < world.extras)
    BY <1>1, <2>1, <2>2, FitNumbers
  <2> QED
    BY <2>1, <2>2, <2>3, <2>4 DEF Idles, IdleInv, FreedPlaces
<1>5. CASE Restart
  <2> DEFINE none == [x \in {} |-> Schedule]
             e == [world EXCEPT !.sends = none, !.extras = 0, !.closed = FALSE]
             v == Expire(e)
  <2>1. none \in UNION {[S -> Users \cup {Schedule}] : S \in SUBSET Sessions}
    <3>1. none \in [{} -> Users \cup {Schedule}] /\ {} \in SUBSET Sessions
      OBVIOUS
    <3> HIDE DEF none
    <3> QED
      BY <3>1
  <2>2. world' = Pass(v) /\ 0 \in 0..MaxExtras
    BY <1>5, QueueAssumption DEF Restart, Become
  <2> HIDE DEF none
  <2>3. /\ e \in Worlds /\ e.line = world.line /\ e.fate = world.fate
        /\ ~e.closed /\ e.extras = 0
    BY <1>1, <2>1, <2>2 DEF Worlds
  <2> HIDE DEF e
  <2>4. Fit(e)
    BY <1>1, <2>3 DEF Fit
  <2>5. Fit(v) /\ ~v.closed /\ v.extras = 0
    BY <2>3, <2>4, ExpireDispatches DEF Dispatches, Alike
  <2> HIDE DEF v
  <2>6. world' = Wake(v)
    BY <2>2, <2>5 DEF Wake
  <2> QED
    BY <2>5, <2>6, PassIdles
<1> QED
  BY <1>2, <1>3, <1>4, <1>5

LEMMA NextIdles ==
    ASSUME NoTurnDies, QueueInv, IdleInv, Next
    PROVE  Idles
<1>1. ASSUME NEW m \in Messages, Post(m) \/ RemoveRow(m) PROVE Idles
  BY <1>1, PostIdles, LeaveIdles
<1>2. ASSUME NEW x \in Chats, NEW who \in Users, StartOther(x, who) PROVE Idles
  BY <1>2, StartOtherIdles DEF Sessions
<1>3. ASSUME NEW x \in Runs, StartOther(x, Schedule) PROVE Idles
  BY <1>3, StartOtherIdles DEF Sessions
<1>4. ASSUME NEW x \in Sessions, End(x) PROVE Idles
  BY <1>4, EndIdles
<1>5. CASE TakeExtra \/ FreeExtra
  BY <1>5, ExtraIdles
<1>6. ASSUME \/ \E c \in CapSets, n \in MinuteSets : SetLimits(c, n)
             \/ \E S \in {{x} : x \in Chats} \cup {Chats} : Archive(S)
             \/ Retire \/ WakeAgain
      PROVE  Idles
  <2>1. {{x} : x \in Chats} \cup {Chats} \subseteq SUBSET Chats
    OBVIOUS
  <2> QED
    BY <1>6, <2>1, ChangeIdles
<1>7. ASSUME NEW u \in Users, NEW what \in Changes \cap {"access", "login"},
             NEW drops \in BOOLEAN, Lose(u, what, drops)
      PROVE  Idles
  BY <1>7, LeaveIdles
<1>8. CASE Tick \/ Ring \/ Close \/ Restart
  BY <1>8, ClockIdles
<1> QED
  BY <1>1, <1>2, <1>3, <1>4, <1>5, <1>6, <1>7, <1>8 DEF Next

LEMMA IdleInvariant ==
    ASSUME NoTurnDies
    PROVE  Spec => []IdleInv
<1>1. Init => IdleInv
  BY DEF Init, IdleInv, Held
<1>2. QueueInv /\ IdleInv /\ [Next]_vars => IdleInv'
  <2>1. QueueInv /\ IdleInv /\ Next => IdleInv'
    BY NextIdles DEF Idles
  <2>2. IdleInv /\ UNCHANGED vars => IdleInv'
    BY DEF IdleInv, vars, Held
  <2> QED
    BY <2>1, <2>2
<1> QED
  BY <1>1, <1>2, QueueInvariant, PTL DEF Spec

----------------------------------------------------------------------------
(* Theorems *)

\* The queue is typed in every reachable state: the list of runner/queue.ts
\* holds each row that says "queued" once and no other.
THEOREM QueueTyped == Spec => []TypeOK
BY QueueInvariant, InvTyped, PTL

\* While a row waits the timer is set, and no later than the oldest row's
\* expiry: enqueue(), wake(), ring() and start() arm it as often as it takes.
THEOREM QueueArmed == Spec => []ExpiryArmed
BY QueueInvariant, InvArmed, PTL

\* A turn leaves no earlier row of its chat queued, and a summon is a turn of
\* its own, whatever a pass, a failed start or an expiry did on the way.
THEOREM QueueInOrder == Spec => TurnInOrder
<1>1. QueueInv /\ [Next]_vars => [TurnsOrdered]_vars
  BY NextSteps DEF Steps
<1> QED
  BY <1>1, QueueInvariant, PTL DEF Spec, TurnInOrder

\* Each row that startChat() or sort() fails had a cause among the rows of its
\* chat, or in what its author lost.
THEOREM QueueFailsForCause == Spec => FailsForCause
<1>1. QueueInv /\ [Next]_vars => [FailuresCaused]_vars
  BY NextSteps DEF Steps
<1> QED
  BY <1>1, QueueInvariant, PTL DEF Spec, FailsForCause

\* While nothing runs no message that could start waits, if no turn dies: the
\* rows a summon cut off from a turn that died are the only ones the
\* dispatcher leaves behind.
THEOREM QueueWaitsOnRuns ==
    ASSUME NoTurnDies
    PROVE  Spec => []NothingWaitsIdle
<1>1. IdleInv => NothingWaitsIdle
  <2> SUFFICES ASSUME IdleInv, Held(world) = {}, NEW x \in Chats, Startable(x)
               PROVE  FALSE
    BY DEF NothingWaitsIdle
  <2>1. world.line = <<>> /\ Rows(world, x) # <<>>
    BY DEF IdleInv, Startable
  <2>2. Rows(world, x) = <<>>
    <3> DEFINE S == {m \in Messages : ChatOf[m] = x}
    <3>1. <<>> \in Seq(Messages) /\ Members(<<>>) = {}
      BY EmptySeq DEF Members
    <3>2. /\ Only(<<>>, S) \in Seq(Messages)
          /\ Members(Only(<<>>, S)) = Members(<<>>) \cap S
      BY <3>1, OnlyKeeps
    <3>3. Rows(world, x) = Only(<<>>, S)
      BY <2>1 DEF Rows, RowsOf
    <3> HIDE DEF S
    <3>4. /\ Rows(world, x) \in Seq(Messages) /\ Members(Rows(world, x)) = {}
      BY <3>1, <3>2, <3>3
    <3>5. Len(Rows(world, x)) \in Nat /\ DOMAIN Rows(world, x) = 1..Len(Rows(world, x))
      BY <3>4, LenProperties
    <3>6. Len(Rows(world, x)) # 0 => Rows(world, x)[1] \in Members(Rows(world, x))
      BY <3>5 DEF Members
    <3> QED
      BY <3>4, <3>6, EmptySeq
  <2> QED
    BY <2>1, <2>2
<1> QED
  BY <1>1, IdleInvariant, PTL

\* A place let go, or given by the caps, goes to a chat that waits in that
\* step, if no turn dies and none is refused before it asks for a place.
THEOREM FreedPlacesAreTaken ==
    ASSUME NoTurnDies, TurnedDown = {}
    PROVE  Spec => FreedPlaceTaken
<1>1. QueueInv /\ IdleInv /\ [Next]_vars => [FreedPlaces]_vars
  BY NextIdles DEF Idles
<1> QED
  BY <1>1, QueueInvariant, IdleInvariant, PTL DEF Spec, FreedPlaceTaken
=============================================================================
