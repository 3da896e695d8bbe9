-------------------------- MODULE AdmissionProofs --------------------------
(***************************************************************************)
(* For every number of sends, calls and caps: the registry's counters of   *)
(* extra streams count exactly the delegate calls that hold one, a lock    *)
(* admits one send, no step takes a place above a cap, and the waiting     *)
(* calls are served in their order.                                        *)
(***************************************************************************)
EXTENDS Admission, FiniteSetTheorems, SequenceTheorems, TLAPS

\* the members of a list from position m to position n
Slice(q, m, n) == {q[i] : i \in m..n}

\* the list of s holds calls of s that wait, each once
Listed(s) ==
    /\ \A i \in DOMAIN waiting[s] :
          /\ waiting[s][i] \in Calls
          /\ ParentOf[waiting[s][i]] = s
          /\ stage[waiting[s][i]] = "waiting"
    /\ \A i, j \in DOMAIN waiting[s] : waiting[s][i] = waiting[s][j] => i = j

\* a call that was asked belongs to a registered send
Inside == \A c \in Calls : stage[c] # "new" => ParentOf[c] \in Held

\* nothing of a terminal send waits or runs
Quiet ==
    \A s \in Held : sends[s].terminal =>
        \A c \in CallsOf(s) : stage[c] \in {"new", "ended"}

\* a call that waits is in its parent's list
Complete ==
    \A c \in Calls : stage[c] = "waiting" =>
        \E i \in DOMAIN waiting[ParentOf[c]] : waiting[ParentOf[c]][i] = c

\* the children's counts, and childrenAtOnce over them
Counted ==
    /\ \A s \in Sends : running[s] = Cardinality(Streaming(s))
    /\ \A s \in Held : running[s] <= sends[s].atOnce

\* one child at most runs in the parent's place
Own ==
    \A s \in Sends :
        /\ inPlace[s] <=> \E c \in CallsOf(s) : stage[c] = "inPlace"
        /\ \A c, d \in CallsOf(s) :
              stage[c] = "inPlace" /\ stage[d] = "inPlace" => c = d

\* ExtrasTrue alone is not inductive: a free that dropped a running call, a
\* call placed twice, or a waiter that already streams would break it
IInv ==
    /\ TypeOK
    /\ ExtrasTrue
    /\ Inside
    /\ Quiet
    /\ \A s \in Sends : Listed(s)
    /\ Complete
    /\ Counted
    /\ Own
    /\ NoneStranded

----------------------------------------------------------------------------

\* A slice of a list without repeats has as many members as positions.
LEMMA SliceCardinality ==
    ASSUME NEW q, NEW m \in Int, NEW n \in Int, m <= n + 1,
           \A i, j \in m..n : q[i] = q[j] => i = j
    PROVE  /\ IsFiniteSet(Slice(q, m, n))
           /\ Cardinality(Slice(q, m, n)) = n - m + 1
<1> DEFINE f == [i \in m..n |-> q[i]]
<1>1. f \in Bijection(m..n, Slice(q, m, n))
  BY DEF Bijection, Injection, Surjection, IsInjective, Slice
<1>2. ExistsBijection(m..n, Slice(q, m, n))
  BY <1>1 DEF ExistsBijection
<1>3. IsFiniteSet(m..n) /\ Cardinality(m..n) = n - m + 1
  BY FS_Interval
<1> QED
  BY <1>2, <1>3, FS_Bijection

\* A finite set that loses the members of one part and gains another.
LEMMA MovedCardinality ==
    ASSUME NEW S, NEW T, NEW U, IsFiniteSet(S), IsFiniteSet(U),
           T \subseteq S, U \cap S = {}
    PROVE  /\ Cardinality((S \ T) \cup U) =
                Cardinality(S) - Cardinality(T) + Cardinality(U)
           /\ Cardinality(S) \in Nat
           /\ Cardinality(T) <= Cardinality(S)
<1>1. IsFiniteSet(S \ T) /\ Cardinality(S \ T) = Cardinality(S) - Cardinality(T)
  <2>1. S \cap T = T
    OBVIOUS
  <2> QED
    BY <2>1, FS_Difference
<1>2. (S \ T) \cap U = {}
  OBVIOUS
<1>3. Cardinality((S \ T) \cap U) = 0
  BY <1>2, FS_EmptySet
<1>4. IsFiniteSet(T) /\ Cardinality(T) <= Cardinality(S)
  BY FS_Subset
<1>5. /\ Cardinality(S) \in Nat /\ Cardinality(T) \in Nat
      /\ Cardinality(U) \in Nat /\ Cardinality(S \ T) \in Nat
  BY <1>1, <1>4, FS_CardinalityType
<1>6. /\ IsFiniteSet((S \ T) \cup U)
      /\ Cardinality((S \ T) \cup U) =
           Cardinality(S \ T) + Cardinality(U) - Cardinality((S \ T) \cap U)
  BY <1>1, FS_Union
<1> QED
  BY <1>1, <1>3, <1>4, <1>5, <1>6

\* The calls that hold an extra stream are finitely many.
LEMMA ExtrasFinite ==
    /\ IsFiniteSet(ExtraCalls)
    /\ IsFiniteSet(ScheduledCalls)
<1>1. IsFiniteSet(ExtraCalls)
  <2>1. ExtraCalls \in SUBSET Calls
    BY DEF ExtraCalls
  <2> QED
    BY <2>1, FS_Subset, AdmissionAssumption
<1>2. IsFiniteSet(ScheduledCalls)
  <2>1. ScheduledCalls \in SUBSET ExtraCalls
    BY DEF ScheduledCalls
  <2> QED
    BY <1>1, <2>1, FS_Subset
<1> QED
  BY <1>1, <1>2

\* A step that keeps who streams, and under which kind of parent, keeps the
\* counters true.
LEMMA SameExtras ==
    ASSUME ExtrasTrue, UNCHANGED <<extras, scheduledExtras>>,
           ExtraCalls' = ExtraCalls,
           \A c \in ExtraCalls :
               sends'[ParentOf[c]].starter = sends[ParentOf[c]].starter
    PROVE  ExtrasTrue'
<1>1. ScheduledCalls' = ScheduledCalls
  BY DEF ScheduledCalls
<1> QED
  BY <1>1 DEF ExtrasTrue

\* A step that keeps who streams keeps the children's counts true.
LEMMA SameStreaming ==
    ASSUME Counted, Own, UNCHANGED <<running, inPlace>>,
           \A c \in Calls :
               {stage[c], stage'[c]} \cap {"inPlace", "extra"} # {} =>
                   stage'[c] = stage[c],
           \A s \in Held' : s \in Held => sends'[s].atOnce = sends[s].atOnce,
           \A s \in Held' : s \notin Held => running[s] <= sends'[s].atOnce
    PROVE  Counted' /\ Own'
<1>1. \A s \in Sends : Streaming(s)' = Streaming(s)
  BY DEF Streaming, CallsOf
<1>2. Counted'
  BY <1>1 DEF Counted
<1>3. \A c \in Calls : stage'[c] = "inPlace" <=> stage[c] = "inPlace"
  OBVIOUS
<1>4. Own'
  BY <1>3 DEF Own, CallsOf
<1> QED
  BY <1>2, <1>4

LEMMA InitIInv == Init => IInv
<1> SUFFICES ASSUME Init PROVE IInv
  OBVIOUS
<1>1. TypeOK
  <2>1. caps \in CapRecords
    BY AdmissionAssumption DEF Init
  <2>2. DOMAIN sends = {} /\ sends \in [DOMAIN sends -> SendRecords]
    BY DEF Init
  <2>3. \A s \in Sends : waiting[s] \in Seq(Calls)
    BY DEF Init
  <2>4. waiting \in [Sends -> Seq(Calls)]
    BY <2>3 DEF Init
  <2> QED
    BY <2>1, <2>2, <2>4 DEF Init, TypeOK, Stages
<1>2. ExtrasTrue
  <2>1. ExtraCalls = {} /\ ScheduledCalls = {}
    BY DEF Init, ExtraCalls, ScheduledCalls
  <2>2. Cardinality({}) = 0
    BY FS_EmptySet
  <2> QED
    BY <2>1, <2>2 DEF ExtrasTrue, Init
<1>3. Inside /\ Quiet
  BY DEF Init, Inside, Quiet, Held, CallsOf
<1>4. \A s \in Sends : Listed(s)
  BY DEF Init, Listed
<1>5. Complete /\ Own /\ NoneStranded
  BY DEF Init, Complete, Own, NoneStranded, CallsOf
<1>6. Counted
  <2>1. \A s \in Sends : Streaming(s) = {}
    BY DEF Init, Streaming, CallsOf
  <2>2. Cardinality({}) = 0
    BY FS_EmptySet
  <2> QED
    BY <2>1, <2>2 DEF Init, Counted, Held
<1> QED
  BY <1>1, <1>2, <1>3, <1>4, <1>5, <1>6 DEF IInv

----------------------------------------------------------------------------
(* One lemma per action *)

LEMMA StartIInv ==
    ASSUME IInv, NEW s \in Sends, NEW x \in Sessions, NEW a \in Agents,
           NEW who \in Starters, Start(s, x, a, who)
    PROVE  IInv'
<1> USE DEF IInv
<1>1. TypeOK'
  <2>1. caps \in CapRecords => /\ caps.atOnce \in Nat \ {0}
                               /\ caps.perSend \in Nat \ {0}
    BY DEF CapRecords
  <2>2. sends' \in [DOMAIN sends' -> SendRecords]
    BY <2>1 DEF Start, TypeOK, Held, SendRecords
  <2>3. DOMAIN sends' \subseteq Sends
    BY DEF Start, TypeOK, Held
  <2> QED
    BY <2>2, <2>3 DEF Start, TypeOK, childVars
<1>2. \A c \in Calls : ParentOf[c] \in Held => sends'[ParentOf[c]] = sends[ParentOf[c]]
  BY DEF Start, Held
<1>3. ExtrasTrue'
  <2>1. ExtraCalls' = ExtraCalls
    BY DEF Start, childVars, ExtraCalls
  <2>2. \A c \in ExtraCalls : ParentOf[c] \in Held
    BY DEF ExtraCalls, Inside
  <2>3. \A c \in ExtraCalls : c \in Calls
    BY DEF ExtraCalls
  <2>4. UNCHANGED <<extras, scheduledExtras>>
    BY DEF Start
  <2> QED
    BY <1>2, <2>1, <2>2, <2>3, <2>4, SameExtras
<1>4. Inside'
  BY DEF Inside, Start, childVars, Held
<1>5. Quiet'
  BY DEF Quiet, Start, childVars, Held, CallsOf
<1>6. \A t \in Sends : Listed(t)'
  BY DEF Listed, Start, childVars
<1>7. Complete'
  BY DEF Complete, Start, childVars
<1>8. Counted' /\ Own'
  <2>1. /\ UNCHANGED <<running, inPlace, stage>>
        /\ \A t \in Held : t \in Held' /\ sends'[t] = sends[t]
        /\ \A t \in Held' : t \in Held \/ t = s
    BY DEF Start, childVars, Held
  <2>2. running[s] = 0
    <3>1. Streaming(s) = {}
      BY DEF Start, Inside, Streaming, CallsOf
    <3>2. Cardinality({}) = 0
      BY FS_EmptySet
    <3> QED
      BY <3>1, <3>2 DEF Counted
  <2>3. s \in Held' => sends'[s].atOnce \in Nat
    BY <1>1 DEF TypeOK, Held, SendRecords
  <2>4. \A t \in Held' : t \notin Held => running[t] <= sends'[t].atOnce
    BY <2>1, <2>2, <2>3
  <2> QED
    BY <2>1, <2>4, SameStreaming
<1>9. NoneStranded'
  BY DEF NoneStranded, Start, childVars, Held
<1> QED
  BY <1>1, <1>3, <1>4, <1>5, <1>6, <1>7, <1>8, <1>9

LEMMA AbortIInv ==
    ASSUME IInv, NEW s \in Sends, Abort(s)
    PROVE  IInv'
<1> USE DEF IInv
<1>1. TypeOK'
  <2>1. sends' \in [DOMAIN sends -> SendRecords] /\ DOMAIN sends' = DOMAIN sends
    <3>1. sends[s] \in SendRecords /\ sends \in [DOMAIN sends -> SendRecords]
      BY DEF Abort, TypeOK, Held
    <3>2. [sends[s] EXCEPT !.aborted = TRUE] \in SendRecords
      BY <3>1 DEF SendRecords
    <3>3. sends' = [sends EXCEPT ![s] = [sends[s] EXCEPT !.aborted = TRUE]]
      BY DEF Abort
    <3> HIDE DEF IInv
    <3> QED
      BY <3>1, <3>2, <3>3
  <2>2. waiting' \in [Sends -> Seq(Calls)]
    BY DEF Abort, TypeOK
  <2>3. stage' \in [Calls -> Stages]
    BY DEF Abort, TypeOK, Stages
  <2> QED
    BY <2>1, <2>2, <2>3 DEF Abort, TypeOK
<1>2. \A t \in Held : /\ sends'[t].starter = sends[t].starter
                      /\ sends'[t].terminal = sends[t].terminal
  BY DEF Abort, TypeOK, Held, SendRecords
<1>3. Held' = Held
  BY DEF Abort, Held
<1>4. \A c \in Calls : \/ stage'[c] = stage[c]
                       \/ stage[c] = "waiting" /\ stage'[c] = "ended"
  BY DEF Abort, Listed
<1>5. ExtrasTrue'
  <2>1. ExtraCalls' = ExtraCalls
    BY <1>4 DEF ExtraCalls
  <2>2. \A c \in ExtraCalls : ParentOf[c] \in Held
    BY DEF ExtraCalls, Inside
  <2>3. UNCHANGED <<extras, scheduledExtras>>
    BY DEF Abort
  <2> QED
    BY <1>2, <2>1, <2>2, <2>3, SameExtras
<1>6. Inside'
  BY <1>3, <1>4 DEF Inside
<1>7. Quiet'
  BY <1>2, <1>3, <1>4 DEF Quiet, CallsOf
<1>8. ASSUME NEW t \in Sends PROVE Listed(t)'
  <2>1. CASE t = s
    BY <2>1 DEF Listed, Abort, TypeOK
  <2>2. CASE t # s
    <3>1. waiting'[t] = waiting[t]
      BY <2>2 DEF Abort, TypeOK
    <3>2. \A i \in DOMAIN waiting[t] : stage'[waiting[t][i]] = "waiting"
      BY <2>2 DEF Listed, Abort
    <3> QED
      BY <3>1, <3>2 DEF Listed
  <2> QED
    BY <2>1, <2>2
<1>9. Complete'
  <2> SUFFICES ASSUME NEW c \in Calls, stage'[c] = "waiting"
               PROVE  \E i \in DOMAIN waiting'[ParentOf[c]] :
                         waiting'[ParentOf[c]][i] = c
    BY DEF Complete
  <2>1. stage[c] = "waiting"
    BY <1>4
  <2>2. PICK i \in DOMAIN waiting[ParentOf[c]] : waiting[ParentOf[c]][i] = c
    BY <2>1 DEF Complete
  <2>3. ParentOf[c] # s
    BY <2>2 DEF Abort
  <2>4. waiting'[ParentOf[c]] = waiting[ParentOf[c]]
    BY <2>3, AdmissionAssumption DEF Abort, TypeOK
  <2> QED
    BY <2>2, <2>4
<1>10. Counted' /\ Own'
  <2>1. \A t \in Held : sends'[t].atOnce = sends[t].atOnce
    BY DEF Abort, TypeOK, Held, SendRecords
  <2>2. UNCHANGED <<running, inPlace>>
    BY DEF Abort
  <2> QED
    BY <1>3, <1>4, <2>1, <2>2, SameStreaming
<1>11. NoneStranded'
  <2>1. \A t \in Held : t # s => sends'[t] = sends[t]
    BY DEF Abort, TypeOK, Held
  <2>2. waiting'[s] = <<>> /\ \A t \in Sends : t # s => waiting'[t] = waiting[t]
    BY DEF Abort, TypeOK
  <2>3. running' = running
    BY DEF Abort
  <2> QED
    BY <1>3, <2>1, <2>2, <2>3 DEF NoneStranded
<1> QED
  BY <1>1, <1>5, <1>6, <1>7, <1>8, <1>9, <1>10, <1>11

LEMMA FinalizeIInv ==
    ASSUME IInv, NEW s \in Sends, Finalize(s)
    PROVE  IInv'
<1> USE DEF IInv
<1>1. TypeOK'
  <2>1. sends' \in [DOMAIN sends -> SendRecords] /\ DOMAIN sends' = DOMAIN sends
    <3>1. sends[s] \in SendRecords /\ sends \in [DOMAIN sends -> SendRecords]
      BY DEF Finalize, TypeOK, Held
    <3>2. [sends[s] EXCEPT !.terminal = TRUE] \in SendRecords
      BY <3>1 DEF SendRecords
    <3>3. sends' = [sends EXCEPT ![s] = [sends[s] EXCEPT !.terminal = TRUE]]
      BY DEF Finalize
    <3> HIDE DEF IInv
    <3> QED
      BY <3>1, <3>2, <3>3
  <2> QED
    BY <2>1 DEF Finalize, TypeOK, childVars
<1>2. \A t \in Held : sends'[t].starter = sends[t].starter
  BY DEF Finalize, TypeOK, Held, SendRecords
<1>3. \A t \in Held : t # s => sends'[t].terminal = sends[t].terminal
  BY DEF Finalize, TypeOK, Held, SendRecords
<1>4. Held' = Held
  BY DEF Finalize, Held
<1>5. ExtrasTrue'
  <2>1. ExtraCalls' = ExtraCalls
    BY DEF ExtraCalls, Finalize, childVars
  <2>2. \A c \in ExtraCalls : ParentOf[c] \in Held
    BY DEF ExtraCalls, Inside
  <2>3. UNCHANGED <<extras, scheduledExtras>>
    BY DEF Finalize
  <2> QED
    BY <1>2, <2>1, <2>2, <2>3, SameExtras
<1>6. Inside'
  BY <1>4 DEF Inside, Finalize, childVars
<1>7. Quiet'
  BY <1>3, <1>4 DEF Quiet, CallsOf, Finalize, childVars
<1>8. \A t \in Sends : Listed(t)'
  BY DEF Listed, Finalize, childVars
<1>9. Complete'
  BY DEF Complete, Finalize, childVars
<1>10. Counted' /\ Own'
  <2>1. \A t \in Held : sends'[t].atOnce = sends[t].atOnce
    BY DEF Finalize, TypeOK, Held, SendRecords
  <2>2. UNCHANGED <<running, inPlace, stage>>
    BY DEF Finalize, childVars
  <2> QED
    BY <1>4, <2>1, <2>2, SameStreaming
<1>11. NoneStranded'
  <2>1. \A t \in Held : sends'[t].aborted = sends[t].aborted
    BY DEF Finalize, TypeOK, Held, SendRecords
  <2> QED
    BY <1>4, <2>1 DEF NoneStranded, Finalize, childVars
<1> QED
  BY <1>1, <1>5, <1>6, <1>7, <1>8, <1>9, <1>10, <1>11

LEMMA FreeIInv ==
    ASSUME IInv, NEW s \in Sends, Free(s)
    PROVE  IInv'
<1> USE DEF IInv
<1>1. TypeOK'
  <2>1. /\ sends' \in [DOMAIN sends' -> SendRecords]
        /\ DOMAIN sends' \subseteq Sends
    BY DEF Free, TypeOK, Held
  <2>2. started' \in [Sends -> Nat] /\ stage' \in [Calls -> Stages]
    BY DEF Free, TypeOK, Stages
  <2> QED
    BY <2>1, <2>2 DEF Free, TypeOK
<1>2. \A c \in CallsOf(s) : stage[c] \in {"new", "ended"}
  BY DEF Free, Quiet
<1>3. \A c \in Calls : \/ stage'[c] = stage[c]
                       \/ stage[c] \in {"new", "ended"} /\ stage'[c] = "new"
  BY <1>2 DEF Free, CallsOf
<1>4. \A t \in Held' : t \in Held /\ sends'[t] = sends[t]
  BY DEF Free, Held
<1>5. ExtrasTrue'
  <2>1. ExtraCalls' = ExtraCalls
    BY <1>3 DEF ExtraCalls
  <2>2. \A c \in ExtraCalls : ParentOf[c] \in Held /\ ParentOf[c] # s
    BY <1>2 DEF ExtraCalls, Inside, CallsOf
  <2>3. UNCHANGED <<extras, scheduledExtras>>
    BY DEF Free
  <2>4. \A c \in ExtraCalls : sends'[ParentOf[c]] = sends[ParentOf[c]]
    BY <2>2 DEF Free, Held
  <2> QED
    BY <2>1, <2>3, <2>4, SameExtras
<1>6. Inside'
  BY <1>3 DEF Inside, Free, Held
<1>7. Quiet'
  BY <1>3, <1>4 DEF Quiet, CallsOf
<1>8. ASSUME NEW t \in Sends PROVE Listed(t)'
  <2>1. waiting'[t] = waiting[t]
    BY DEF Free
  <2>2. \A i \in DOMAIN waiting[t] : stage'[waiting[t][i]] = "waiting"
    BY <1>3 DEF Listed
  <2> QED
    BY <2>1, <2>2 DEF Listed
<1>9. Complete'
  <2>1. \A c \in Calls : stage'[c] = "waiting" => stage[c] = "waiting"
    BY <1>3
  <2> QED
    BY <2>1 DEF Complete, Free
<1>10. Counted' /\ Own'
  <2>1. UNCHANGED <<running, inPlace>>
    BY DEF Free
  <2>2. \A c \in Calls :
           {stage[c], stage'[c]} \cap {"inPlace", "extra"} # {} =>
               stage'[c] = stage[c]
    BY <1>3
  <2> QED
    BY <1>4, <2>1, <2>2, SameStreaming
<1>11. NoneStranded'
  <2>1. waiting[s] = <<>>
    <3>1. \A i \in DOMAIN waiting[s] : FALSE
      BY <1>2 DEF Listed, CallsOf
    <3>2. waiting[s] \in Seq(Calls)
      BY DEF TypeOK
    <3>3. Len(waiting[s]) \in Nat /\ DOMAIN waiting[s] = 1..Len(waiting[s])
      BY <3>2
    <3>4. Len(waiting[s]) = 0
      <4>1. 1 \notin DOMAIN waiting[s]
        BY <3>1
      <4> QED
        BY <3>3, <4>1
    <3>5. \A q \in Seq(Calls) : q # <<>> => Len(q) \in Nat \ {0}
      BY EmptySeq
    <3> QED
      BY <3>2, <3>4, <3>5
  <2>2. \A t \in Held : t # s => t \in Held' /\ sends'[t] = sends[t]
    BY DEF Free, Held
  <2>3. UNCHANGED <<running, waiting>>
    BY DEF Free
  <2> QED
    BY <2>1, <2>2, <2>3 DEF NoneStranded
<1> QED
  BY <1>1, <1>5, <1>6, <1>7, <1>8, <1>9, <1>10, <1>11

LEMMA RefusedIInv ==
    ASSUME IInv, NEW c \in Calls, Refused(c)
    PROVE  IInv'
<1> USE DEF IInv
<1>1. TypeOK'
  <2>1. ParentOf[c] \in Sends
    BY AdmissionAssumption
  <2>2. started' \in [Sends -> Nat]
    BY <2>1 DEF Refused, TypeOK
  <2>3. stage' \in [Calls -> Stages]
    BY DEF Refused, TypeOK, Stages
  <2> QED
    BY <2>2, <2>3 DEF Refused, registryVars, TypeOK
<1>2. \A d \in Calls : \/ stage'[d] = stage[d]
                       \/ d = c /\ stage[d] = "new" /\ stage'[d] = "ended"
  BY DEF Refused, Asks, TypeOK
<1>3. ParentOf[c] \in Held /\ ~sends[ParentOf[c]].terminal
  BY DEF Refused, Asks
<1>4. UNCHANGED <<sends, extras, scheduledExtras, waiting>>
  BY DEF Refused, registryVars
<1>5. ExtrasTrue'
  <2>1. ExtraCalls' = ExtraCalls
    BY <1>2 DEF ExtraCalls
  <2> QED
    BY <1>4, <2>1, SameExtras
<1>6. Inside'
  BY <1>2, <1>3, <1>4 DEF Inside, Held
<1>7. Quiet'
  BY <1>2, <1>3, <1>4 DEF Quiet, CallsOf, Held
<1>8. \A t \in Sends : Listed(t)'
  BY <1>2, <1>4 DEF Listed
<1>9. Complete'
  BY <1>2, <1>4 DEF Complete
<1>10. Counted' /\ Own'
  <2>1. UNCHANGED <<running, inPlace>>
    BY DEF Refused
  <2> QED
    BY <1>2, <1>4, <2>1, SameStreaming DEF Held
<1>11. NoneStranded'
  BY <1>4 DEF NoneStranded, Refused, Held
<1> QED
  BY <1>1, <1>5, <1>6, <1>7, <1>8, <1>9, <1>10, <1>11

LEMMA WaitIInv ==
    ASSUME IInv, NEW c \in Calls, Wait(c)
    PROVE  IInv'
<1> USE DEF IInv
<1> DEFINE s == ParentOf[c]
<1>1. s \in Sends
  BY AdmissionAssumption
<1>2. s \in Held /\ ~sends[s].terminal /\ stage[c] = "new"
  BY DEF Wait, Takes, Asks
<1>3. waiting' = [waiting EXCEPT ![s] = Append(waiting[s], c)]
  BY DEF Wait
<1>4. stage' = [stage EXCEPT ![c] = "waiting"]
  BY DEF Wait
<1>5. UNCHANGED <<sends, extras, scheduledExtras>>
  BY DEF Wait, registryVars
<1>6. TypeOK'
  <2>1. waiting[s] \in Seq(Calls)
    BY <1>1 DEF TypeOK
  <2>2. waiting' \in [Sends -> Seq(Calls)]
    <3>1. Append(waiting[s], c) \in Seq(Calls)
      BY <2>1
    <3> QED
      BY <1>1, <1>3, <3>1 DEF TypeOK
  <2>3. stage' \in [Calls -> Stages]
    BY <1>4 DEF TypeOK, Stages
  <2>4. started' \in [Sends -> Nat]
    BY <1>1 DEF Wait, Takes, TypeOK
  <2> QED
    BY <2>2, <2>3, <2>4 DEF Wait, TypeOK, registryVars
<1>7. \A d \in Calls : d # c => stage'[d] = stage[d]
  BY <1>4 DEF TypeOK
<1>8. stage'[c] = "waiting"
  BY <1>4 DEF TypeOK
<1>9. ExtrasTrue'
  <2>1. ExtraCalls' = ExtraCalls
    BY <1>2, <1>7, <1>8 DEF ExtraCalls
  <2> QED
    BY <1>5, <2>1, SameExtras
<1>10. Inside'
  BY <1>2, <1>5, <1>7 DEF Inside, Held
<1>11. Quiet'
  BY <1>2, <1>5, <1>7 DEF Quiet, CallsOf, Held
<1>12. ASSUME NEW t \in Sends PROVE Listed(t)'
  <2>1. CASE t # s
    <3>1. waiting'[t] = waiting[t]
      BY <1>3, <2>1 DEF TypeOK
    <3>2. \A i \in DOMAIN waiting[t] : waiting[t][i] # c
      BY <2>1 DEF Listed
    <3> QED
      BY <1>7, <3>1, <3>2 DEF Listed
  <2>2. CASE t = s
    <3>1. waiting[s] \in Seq(Calls)
      BY <1>1 DEF TypeOK
    <3>2. waiting'[s] = Append(waiting[s], c)
      BY <1>1, <1>3 DEF TypeOK
    <3>3. \A i \in DOMAIN waiting[s] : waiting[s][i] # c
      BY <1>1, <1>2 DEF Listed
    <3>4. /\ DOMAIN waiting'[s] = 1..(Len(waiting[s]) + 1)
          /\ DOMAIN waiting[s] = 1..Len(waiting[s])
          /\ Len(waiting[s]) \in Nat
          /\ \A i \in 1..Len(waiting[s]) : waiting'[s][i] = waiting[s][i]
          /\ waiting'[s][Len(waiting[s]) + 1] = c
      BY <3>1, <3>2
    <3>5. Listed(s)
      BY <1>1
    <3>6. \A i \in DOMAIN waiting'[s] : i \in DOMAIN waiting[s] \/ i = Len(waiting[s]) + 1
      BY <3>4
    <3>7. \A i \in DOMAIN waiting'[s] :
             /\ waiting'[s][i] \in Calls
             /\ ParentOf[waiting'[s][i]] = s
             /\ stage'[waiting'[s][i]] = "waiting"
      <4> SUFFICES ASSUME NEW i \in DOMAIN waiting'[s]
                   PROVE  /\ waiting'[s][i] \in Calls
                          /\ ParentOf[waiting'[s][i]] = s
                          /\ stage'[waiting'[s][i]] = "waiting"
        OBVIOUS
      <4>1. CASE i \in DOMAIN waiting[s]
        <5>1. /\ waiting'[s][i] = waiting[s][i] /\ waiting[s][i] # c
              /\ waiting[s][i] \in Calls /\ ParentOf[waiting[s][i]] = s
              /\ stage[waiting[s][i]] = "waiting"
          BY <3>3, <3>4, <3>5, <4>1 DEF Listed
        <5> QED
          BY <1>7, <5>1
      <4>2. CASE i = Len(waiting[s]) + 1
        BY <1>8, <3>4, <4>2
      <4> QED
        BY <3>6, <4>1, <4>2
    <3>8. ASSUME NEW i \in DOMAIN waiting'[s], NEW j \in DOMAIN waiting'[s],
                 waiting'[s][i] = waiting'[s][j]
          PROVE  i = j
      <4>1. CASE i \in DOMAIN waiting[s] /\ j \in DOMAIN waiting[s]
        BY <3>4, <3>5, <3>8, <4>1 DEF Listed
      <4>2. CASE i = Len(waiting[s]) + 1 \/ j = Len(waiting[s]) + 1
        BY <3>3, <3>4, <3>6, <3>8, <4>2
      <4> QED
        BY <3>6, <4>1, <4>2
    <3> QED
      BY <2>2, <3>7, <3>8 DEF Listed
  <2> QED
    BY <2>1, <2>2
<1>13. Complete'
  <2> SUFFICES ASSUME NEW d \in Calls, stage'[d] = "waiting"
               PROVE  \E i \in DOMAIN waiting'[ParentOf[d]] :
                         waiting'[ParentOf[d]][i] = d
    BY DEF Complete
  <2>1. waiting[s] \in Seq(Calls) /\ waiting'[s] = Append(waiting[s], c)
    BY <1>1, <1>3 DEF TypeOK
  <2>2. CASE d = c
    BY <2>1, <2>2
  <2>3. CASE d # c
    <3>1. PICK i \in DOMAIN waiting[ParentOf[d]] : waiting[ParentOf[d]][i] = d
      BY <1>7, <2>3 DEF Complete
    <3>2. CASE ParentOf[d] = s
      BY <2>1, <3>1, <3>2
    <3>3. CASE ParentOf[d] # s
      BY <1>3, <3>1, <3>3, AdmissionAssumption DEF TypeOK
    <3> QED
      BY <3>2, <3>3
  <2> QED
    BY <2>2, <2>3
<1>14. Counted' /\ Own'
  <2>1. UNCHANGED <<running, inPlace>>
    BY DEF Wait
  <2> QED
    BY <1>2, <1>5, <1>7, <1>8, <2>1, SameStreaming DEF Held
<1>15. NoneStranded'
  <2>1. running[s] > 0
    <3>1. CASE waiting[s] # <<>>
      BY <1>1, <3>1 DEF NoneStranded
    <3>2. CASE waiting[s] = <<>>
      <4>1. ~HasPlace(s)
        BY <3>2 DEF Wait, MayPlace
      <4>2. sends[s].atOnce \in Nat \ {0} /\ running[s] \in Nat
        BY <1>1, <1>2 DEF TypeOK, Held, SendRecords
      <4>3. CASE inPlace[s]
        <5>1. PICK d \in CallsOf(s) : stage[d] = "inPlace"
          BY <1>1, <4>3 DEF Own
        <5>2. Streaming(s) # {} /\ Streaming(s) \in SUBSET Calls
          BY <5>1 DEF Streaming, CallsOf
        <5>3. Cardinality(Streaming(s)) # 0
          BY <5>2, FS_Subset, FS_EmptySet, AdmissionAssumption
        <5> QED
          BY <1>1, <4>2, <5>3 DEF Counted
      <4>4. CASE ~inPlace[s]
        BY <4>1, <4>2, <4>4 DEF HasPlace
      <4> QED
        BY <4>3, <4>4
    <3> QED
      BY <3>1, <3>2
  <2>2. ~sends[s].aborted
    BY DEF Wait, Takes
  <2>3. \A t \in Sends : t # s => waiting'[t] = waiting[t]
    BY <1>3 DEF TypeOK
  <2>4. running' = running
    BY DEF Wait
  <2> QED
    BY <1>2, <1>5, <2>1, <2>2, <2>3, <2>4 DEF NoneStranded, Held
<1> QED
  BY <1>6, <1>9, <1>10, <1>11, <1>12, <1>13, <1>14, <1>15

LEMMA TakeNowIInv ==
    ASSUME IInv, NEW c \in Calls, TakeNow(c)
    PROVE  IInv'
<1> USE DEF IInv
<1> DEFINE s == ParentOf[c]
<1>1. s \in Sends
  BY AdmissionAssumption
<1>2. /\ s \in Held /\ ~sends[s].terminal
      /\ stage[c] = "new"
      /\ waiting[s] = <<>>
      /\ running[s] < sends[s].atOnce
  BY DEF TakeNow, Takes, Asks, MayPlace, HasPlace
<1>3. UNCHANGED <<sends, closed, caps, waiting>>
  BY DEF TakeNow
<1>4. running' = [running EXCEPT ![s] = @ + 1]
  BY DEF TakeNow
<1>5. inPlace' = [inPlace EXCEPT ![s] = TRUE]
  BY DEF TakeNow
<1>6. stage' = [stage EXCEPT ![c] = IF inPlace[s] THEN "extra" ELSE "inPlace"]
  BY DEF TakeNow
<1>7. \A d \in Calls : d # c => stage'[d] = stage[d]
  BY <1>6 DEF TypeOK
<1>8. stage'[c] = IF inPlace[s] THEN "extra" ELSE "inPlace"
  BY <1>6 DEF TypeOK
<1>9. /\ extras' = IF inPlace[s] THEN extras + 1 ELSE extras
      /\ scheduledExtras' = IF inPlace[s] /\ sends[s].starter = Schedule
                            THEN scheduledExtras + 1 ELSE scheduledExtras
  BY DEF TakeNow, MoveExtras, Floored, TypeOK
<1>10. TypeOK'
  <2>1. running' \in [Sends -> Nat] /\ inPlace' \in [Sends -> BOOLEAN]
    BY <1>1, <1>4, <1>5 DEF TypeOK
  <2>2. stage' \in [Calls -> Stages]
    BY <1>6 DEF TypeOK, Stages
  <2>3. started' \in [Sends -> Nat]
    BY <1>1 DEF TakeNow, Takes, TypeOK
  <2>4. extras' \in Nat /\ scheduledExtras' \in Nat
    BY <1>9 DEF TypeOK
  <2> QED
    BY <1>3, <2>1, <2>2, <2>3, <2>4 DEF TypeOK
<1>11. ExtrasTrue'
  <2>1. CASE ~inPlace[s]
    <3>1. ExtraCalls' = ExtraCalls
      BY <1>2, <1>7, <1>8, <2>1 DEF ExtraCalls
    <3> QED
      BY <1>3, <1>9, <2>1, <3>1, SameExtras
  <2>2. CASE inPlace[s]
    <3>1. ExtraCalls' = ExtraCalls \cup {c} /\ c \notin ExtraCalls
      BY <1>2, <1>7, <1>8, <2>2 DEF ExtraCalls
    <3>2. extras' = Cardinality(ExtraCalls')
      BY <1>9, <2>2, <3>1, ExtrasFinite, FS_AddElement DEF ExtrasTrue
    <3>3. CASE sends[s].starter = Schedule
      <4>1. ScheduledCalls' = ScheduledCalls \cup {c} /\ c \notin ScheduledCalls
        BY <1>3, <3>1, <3>3 DEF ScheduledCalls
      <4> QED
        BY <1>9, <2>2, <3>2, <3>3, <4>1, ExtrasFinite, FS_AddElement DEF ExtrasTrue
    <3>4. CASE sends[s].starter # Schedule
      <4>1. ScheduledCalls' = ScheduledCalls
        BY <1>3, <3>1, <3>4 DEF ScheduledCalls
      <4> QED
        BY <1>9, <2>2, <3>2, <3>4, <4>1 DEF ExtrasTrue
    <3> QED
      BY <3>3, <3>4
  <2> QED
    BY <2>1, <2>2
<1>12. Inside'
  BY <1>2, <1>3, <1>7 DEF Inside, Held
<1>13. Quiet'
  BY <1>2, <1>3, <1>7 DEF Quiet, CallsOf, Held
<1>14. \A t \in Sends : Listed(t)'
  BY <1>2, <1>3, <1>7 DEF Listed
<1>15. Complete'
  BY <1>3, <1>7, <1>8 DEF Complete
<1>16. Counted'
  <2>1. Streaming(s)' = Streaming(s) \cup {c} /\ c \notin Streaming(s)
    BY <1>2, <1>7, <1>8 DEF Streaming, CallsOf
  <2>2. Streaming(s) \in SUBSET Calls
    BY DEF Streaming, CallsOf
  <2>3. IsFiniteSet(Streaming(s))
    BY <2>2, FS_Subset, AdmissionAssumption
  <2>4. Cardinality(Streaming(s)') = Cardinality(Streaming(s)) + 1
    BY <2>1, <2>3, FS_AddElement
  <2>5. \A t \in Sends : t # s => Streaming(t)' = Streaming(t)
    BY <1>7 DEF Streaming, CallsOf
  <2>6. running'[s] = running[s] + 1 /\ \A t \in Sends : t # s => running'[t] = running[t]
    BY <1>1, <1>4 DEF TypeOK
  <2>7. running'[s] <= sends'[s].atOnce
    BY <1>1, <1>2, <1>3, <2>6 DEF TypeOK, Held, SendRecords
  <2>8. Held' = Held /\ Held \subseteq Sends
    BY <1>3 DEF Held, TypeOK
  <2>9. \A t \in Sends : running'[t] = Cardinality(Streaming(t)')
    BY <2>4, <2>5, <2>6 DEF Counted
  <2>10. \A t \in Held : running'[t] <= sends'[t].atOnce
    BY <1>3, <2>6, <2>7, <2>8 DEF Counted
  <2> QED
    BY <2>8, <2>9, <2>10 DEF Counted
<1>17. Own'
  <2>1. inPlace'[s] = TRUE /\ \A t \in Sends : t # s => inPlace'[t] = inPlace[t]
    BY <1>1, <1>5 DEF TypeOK
  <2>2. ASSUME NEW t \in Sends, t # s
        PROVE  \A d \in CallsOf(t) : stage'[d] = stage[d]
    BY <1>7, <2>2 DEF CallsOf
  <2>3. \E d \in CallsOf(s) : stage'[d] = "inPlace"
    <3>1. CASE inPlace[s]
      BY <1>1, <1>2, <1>7, <3>1 DEF Own, CallsOf
    <3>2. CASE ~inPlace[s]
      BY <1>8, <3>2 DEF CallsOf
    <3> QED
      BY <3>1, <3>2
  <2>4. \A d, e \in CallsOf(s) :
           stage'[d] = "inPlace" /\ stage'[e] = "inPlace" => d = e
    BY <1>1, <1>7, <1>8 DEF Own, CallsOf
  <2> QED
    BY <2>1, <2>2, <2>3, <2>4 DEF Own, CallsOf
<1>18. NoneStranded'
  BY <1>2, <1>3, <1>4 DEF NoneStranded, Held, TypeOK
<1> QED
  BY <1>10, <1>11, <1>12, <1>13, <1>14, <1>15, <1>16, <1>17, <1>18

\* The least of three integers is one of them, and no greater than any.
LEMMA LeastOfThree ==
    ASSUME NEW a \in Int, NEW b \in Int, NEW c \in Int
    PROVE  /\ Least({a, b, c}) \in {a, b, c}
           /\ Least({a, b, c}) <= a
           /\ Least({a, b, c}) <= b
           /\ Least({a, b, c}) <= c
<1>1. \E n \in {a, b, c} : \A m \in {a, b, c} : n <= m
  <2>1. CASE a <= b /\ a <= c
    BY <2>1
  <2>2. CASE b <= a /\ b <= c
    BY <2>2
  <2>3. CASE c <= a /\ c <= b
    BY <2>3
  <2> QED
    BY <2>1, <2>2, <2>3
<1> QED
  BY <1>1 DEF Least

LEMMA ChildEndsIInv ==
    ASSUME IInv, NEW c \in Calls, ChildEnds(c)
    PROVE  IInv'
<1> USE DEF IInv
<1> DEFINE s     == ParentOf[c]
           q     == waiting[s]
           extra == stage[c] = "extra"
           own   == ~extra \/ ~inPlace[s]
           room  == ExtraRoom(s) + (IF extra THEN 1 ELSE 0)
           n     == Placed(s, running[s] - 1, own, room)
           first == own /\ n > 0
           taken == n - (IF first THEN 1 ELSE 0)
           from  == IF first THEN 2 ELSE 1
           lost  == IF extra THEN {c} ELSE {}
<1>1. s \in Sends
  BY AdmissionAssumption
<1>2. s \in Held /\ stage[c] \in {"inPlace", "extra"}
  BY DEF ChildEnds, Inside
<1>3. ~sends[s].terminal
  BY <1>2 DEF Quiet, CallsOf
<1>4. /\ UNCHANGED <<sends, closed, caps, started>>
      /\ MoveExtras(s, taken - (IF extra THEN 1 ELSE 0))
      /\ running' = [running EXCEPT ![s] = @ - 1 + n]
      /\ inPlace' = [inPlace EXCEPT ![s] = ~own \/ first]
      /\ waiting' = [waiting EXCEPT ![s] = SubSeq(@, n + 1, Len(@))]
      /\ stage' = [d \in Calls |->
                     IF d = c THEN "ended"
                     ELSE IF first /\ d = waiting[s][1] THEN "inPlace"
                     ELSE IF \E i \in 1..n : waiting[s][i] = d THEN "extra"
                     ELSE stage[d]]
  BY DEF ChildEnds
<1>5. q \in Seq(Calls) /\ Len(q) \in Nat /\ DOMAIN q = 1..Len(q)
  BY <1>1 DEF TypeOK
<1>6. /\ sends[s].atOnce \in Nat \ {0}
      /\ running[s] \in Nat
      /\ running[s] <= sends[s].atOnce
  BY <1>1, <1>2 DEF TypeOK, Held, SendRecords, Counted
<1>7. Streaming(s) \in SUBSET Calls /\ IsFiniteSet(Streaming(s)) /\ c \in Streaming(s)
  <2>1. Streaming(s) \in SUBSET Calls /\ c \in Streaming(s)
    BY <1>2 DEF Streaming, CallsOf
  <2> QED
    BY <2>1, FS_Subset, AdmissionAssumption
<1>8. running[s] >= 1
  <2>1. Cardinality(Streaming(s)) # 0
    BY <1>7, FS_EmptySet
  <2> QED
    BY <1>1, <1>6, <2>1 DEF Counted
<1>9. room \in Int
  <2>1. Held \in SUBSET Sends /\ StartedBy(Schedule) \in SUBSET Sends
    BY DEF TypeOK, Held, StartedBy
  <2>2. IsFiniteSet(Held) /\ IsFiniteSet(StartedBy(Schedule))
    BY <2>1, FS_Subset, AdmissionAssumption
  <2>3. Cardinality(Held) \in Nat /\ Cardinality(StartedBy(Schedule)) \in Nat
    BY <2>2, FS_CardinalityType
  <2>4. caps.running \in Nat
    BY DEF TypeOK, CapRecords
  <2>5. extras \in Nat /\ scheduledExtras \in Nat
    BY DEF TypeOK
  <2>6. ScheduledShare(caps.running) \in Int
    BY <2>4 DEF ScheduledShare
  <2>7. ExtraRoom(s) \in Int
    BY <2>3, <2>4, <2>5, <2>6 DEF ExtraRoom
  <2> QED
    BY <2>7
<1> HIDE DEF room
<1>10. /\ n \in Int
       /\ 0 <= n /\ n <= Len(q)
       /\ n <= sends[s].atOnce - (running[s] - 1)
       /\ n = Len(q) \/ n = sends[s].atOnce - (running[s] - 1) \/ (own => n >= 1)
  <2> DEFINE b == sends[s].atOnce - (running[s] - 1)
             d == (IF own THEN 1 ELSE 0) + Floored(room)
  <2>1. b \in Int /\ b >= 1
    BY <1>6
  <2>2. d \in Int /\ d >= 0 /\ (own => d >= 1)
    BY <1>9 DEF Floored
  <2>3. n = Least({Len(q), b, d})
    BY DEF Placed
  <2> HIDE DEF n, b, d
  <2>4. /\ n \in {Len(q), b, d}
        /\ n <= Len(q) /\ n <= b /\ n <= d
    <3>1. Len(q) \in Int /\ b \in Int /\ d \in Int
      BY <1>5, <2>1, <2>2
    <3> HIDE DEF q
    <3> QED
      BY <2>3, <3>1, LeastOfThree, Zenon
  <2>5. n \in Int /\ 0 <= n
    BY <1>5, <2>1, <2>2, <2>4
  <2>6. n = Len(q) \/ n = b \/ (own => n >= 1)
    BY <2>2, <2>4
  <2> QED
    BY <2>4, <2>5, <2>6 DEF b
<1> HIDE DEF n
<1>11. \A i \in 1..n : /\ i \in DOMAIN q /\ q[i] \in Calls /\ ParentOf[q[i]] = s
                       /\ stage[q[i]] = "waiting" /\ q[i] # c
  BY <1>1, <1>2, <1>5, <1>10 DEF Listed
<1>12. \A i, j \in 1..n : q[i] = q[j] => i = j
  BY <1>1, <1>11 DEF Listed
<1>13. /\ \A d \in Calls : /\ d # c
                           /\ ~\E i \in 1..n : q[i] = d
                           => stage'[d] = stage[d]
       /\ stage'[c] = "ended"
       /\ first => 1 \in 1..n /\ stage'[q[1]] = "inPlace"
       /\ \A i \in from..n : i \in 1..n /\ stage'[q[i]] = "extra"
  <2>1. first => 1 \in 1..n
    BY <1>10
  <2>2. \A i \in from..n : i \in 1..n /\ (first => i # 1)
    BY <1>10
  <2>3. first => stage'[q[1]] = "inPlace"
    BY <1>4, <1>11, <2>1
  <2>4. \A i \in from..n : stage'[q[i]] = "extra"
    <3> SUFFICES ASSUME NEW i \in from..n PROVE stage'[q[i]] = "extra"
      OBVIOUS
    <3>1. i \in 1..n /\ q[i] \in Calls /\ q[i] # c
      BY <2>2, <1>11
    <3>2. ~(first /\ q[i] = waiting[s][1])
      BY <2>1, <2>2, <3>1, <1>12
    <3> QED
      BY <1>4, <3>1, <3>2
  <2>5. \A d \in Calls : d # c /\ ~(\E i \in 1..n : q[i] = d) => stage'[d] = stage[d]
    BY <1>4, <2>1
  <2>6. stage'[c] = "ended"
    BY <1>4
  <2> QED
    BY <2>1, <2>2, <2>3, <2>4, <2>5, <2>6
<1>14. \A i \in 1..n : i \in from..n \/ (first /\ i = 1)
  BY <1>10
<1>15. /\ IsFiniteSet(Slice(q, from, n))
       /\ Cardinality(Slice(q, from, n)) = taken
       /\ taken \in Nat
       /\ IsFiniteSet(Slice(q, 1, n))
       /\ Cardinality(Slice(q, 1, n)) = n
  <2>1. from \in Int /\ from <= n + 1 /\ 1 <= n + 1 /\ taken = n - from + 1 /\ taken \in Nat
    BY <1>10
  <2>2. \A i, j \in from..n : q[i] = q[j] => i = j
    BY <1>12, <1>13
  <2>3. /\ IsFiniteSet(Slice(q, from, n))
        /\ Cardinality(Slice(q, from, n)) = n - from + 1
    BY <1>10, <2>1, <2>2, SliceCardinality
  <2>4. /\ IsFiniteSet(Slice(q, 1, n))
        /\ Cardinality(Slice(q, 1, n)) = n - 1 + 1
    <3>1. 1 \in Int /\ n \in Int /\ 1 <= n + 1
      BY <1>10, <2>1
    <3> QED
      BY <1>12, <3>1, SliceCardinality, Zenon
  <2> QED
    BY <1>10, <2>1, <2>3, <2>4
<1>16. /\ IsFiniteSet(lost)
       /\ Cardinality(lost) = IF extra THEN 1 ELSE 0
  BY FS_Singleton, FS_EmptySet
<1> HIDE DEF taken, from, first
<1>17. ExtraCalls' = (ExtraCalls \ lost) \cup Slice(q, from, n)
  <2>1. ASSUME NEW d \in Calls
        PROVE  d \in ExtraCalls' <=> d \in (ExtraCalls \ lost) \cup Slice(q, from, n)
    <3>1. CASE d = c
      <4>1. d \notin Slice(q, from, n)
        BY <1>11, <1>13, <3>1 DEF Slice
      <4> QED
        BY <1>2, <1>13, <3>1, <4>1 DEF ExtraCalls
    <3>2. CASE \E i \in 1..n : q[i] = d
      <4>1. PICK i \in 1..n : q[i] = d
        BY <3>2
      <4>2. d \notin ExtraCalls
        BY <1>11, <4>1 DEF ExtraCalls
      <4>3. CASE i \in from..n
        BY <1>13, <4>1, <4>3 DEF ExtraCalls, Slice
      <4>4. CASE i \notin from..n
        <5>1. first /\ i = 1
          BY <1>14, <4>1, <4>4
        <5>2. d \notin Slice(q, from, n)
          BY <1>12, <1>13, <4>1, <4>4 DEF Slice
        <5> QED
          BY <1>13, <4>1, <4>2, <5>1, <5>2 DEF ExtraCalls
      <4> QED
        BY <4>3, <4>4
    <3>3. CASE d # c /\ ~\E i \in 1..n : q[i] = d
      <4>1. d \notin Slice(q, from, n)
        BY <1>13, <3>3 DEF Slice
      <4> QED
        BY <1>13, <3>3, <4>1 DEF ExtraCalls
    <3> QED
      BY <3>1, <3>2, <3>3
  <2>2. Slice(q, from, n) \subseteq Calls
    BY <1>11, <1>13 DEF Slice
  <2> QED
    BY <2>1, <2>2 DEF ExtraCalls
<1>18. lost \subseteq ExtraCalls /\ Slice(q, from, n) \cap ExtraCalls = {}
  BY <1>11, <1>13 DEF ExtraCalls, Slice
<1>19. /\ Cardinality(ExtraCalls') = Cardinality(ExtraCalls) - Cardinality(lost) + taken
       /\ Cardinality(lost) <= Cardinality(ExtraCalls)
       /\ Cardinality(ExtraCalls) \in Nat
  <2>1. /\ Cardinality((ExtraCalls \ lost) \cup Slice(q, from, n)) =
             Cardinality(ExtraCalls) - Cardinality(lost)
               + Cardinality(Slice(q, from, n))
        /\ Cardinality(lost) <= Cardinality(ExtraCalls)
        /\ Cardinality(ExtraCalls) \in Nat
    <3> DEFINE S == ExtraCalls  U == Slice(q, from, n)
    <3>1. IsFiniteSet(S) /\ IsFiniteSet(U) /\ lost \subseteq S /\ U \cap S = {}
      BY <1>15, <1>18, ExtrasFinite
    <3> HIDE DEF S, U, lost
    <3>2. /\ Cardinality((S \ lost) \cup U) =
              Cardinality(S) - Cardinality(lost) + Cardinality(U)
         /\ Cardinality(lost) <= Cardinality(S)
         /\ Cardinality(S) \in Nat
      BY <3>1, MovedCardinality
    <3> QED
      BY <3>2 DEF S, U
  <2> QED
    BY <1>15, <1>17, <2>1
<1>20. extras' = Cardinality(ExtraCalls')
  BY <1>4, <1>15, <1>16, <1>19 DEF MoveExtras, Floored, ExtrasTrue
<1>21. scheduledExtras' = Cardinality(ScheduledCalls')
  <2>1. CASE sends[s].starter = Schedule
    <3>1. ScheduledCalls' = (ScheduledCalls \ lost) \cup Slice(q, from, n)
      <4>1. \A d \in Slice(q, from, n) : ParentOf[d] = s
        BY <1>11, <1>13 DEF Slice
      <4> QED
        BY <1>4, <1>17, <2>1, <4>1 DEF ScheduledCalls
    <3>2. lost \subseteq ScheduledCalls /\ Slice(q, from, n) \cap ScheduledCalls = {}
      BY <1>18, <2>1 DEF ScheduledCalls
    <3>3. /\ Cardinality((ScheduledCalls \ lost) \cup Slice(q, from, n)) =
               Cardinality(ScheduledCalls) - Cardinality(lost)
                 + Cardinality(Slice(q, from, n))
          /\ Cardinality(lost) <= Cardinality(ScheduledCalls)
          /\ Cardinality(ScheduledCalls) \in Nat
      <4> DEFINE S == ScheduledCalls  U == Slice(q, from, n)
      <4>1. IsFiniteSet(S) /\ IsFiniteSet(U) /\ lost \subseteq S /\ U \cap S = {}
        BY <1>15, <3>2, ExtrasFinite
      <4> HIDE DEF S, U, lost
      <4>2. /\ Cardinality((S \ lost) \cup U) =
                Cardinality(S) - Cardinality(lost) + Cardinality(U)
           /\ Cardinality(lost) <= Cardinality(S)
           /\ Cardinality(S) \in Nat
        BY <4>1, MovedCardinality
      <4> QED
        BY <4>2 DEF S, U
    <3> QED
      BY <1>4, <1>15, <1>16, <2>1, <3>1, <3>3 DEF MoveExtras, Floored, ExtrasTrue
  <2>2. CASE sends[s].starter # Schedule
    <3>1. ScheduledCalls' = ScheduledCalls
      <4>1. \A d \in Slice(q, from, n) \cup lost : ParentOf[d] = s
        BY <1>11, <1>13 DEF Slice
      <4> QED
        BY <1>4, <1>17, <2>2, <4>1 DEF ScheduledCalls
    <3> QED
      BY <1>4, <2>2, <3>1 DEF MoveExtras, ExtrasTrue
  <2> QED
    BY <2>1, <2>2
<1>22. ExtrasTrue'
  BY <1>20, <1>21 DEF ExtrasTrue
<1>23. TypeOK'
  <2>1. extras' \in Nat
    BY <1>15, <1>16, <1>19, <1>20
  <2>2. scheduledExtras' \in Nat
    BY <1>4, <1>15 DEF MoveExtras, Floored, TypeOK
  <2>3. running' \in [Sends -> Nat]
    <3>1. running[s] - 1 + n \in Nat
      BY <1>6, <1>8, <1>10
    <3> QED
      BY <1>4, <3>1 DEF TypeOK
  <2>4. inPlace' \in [Sends -> BOOLEAN]
    <3>1. (~own \/ first) \in BOOLEAN
      OBVIOUS
    <3> HIDE DEF own
    <3> QED
      BY <1>4, <3>1 DEF TypeOK
  <2>5. waiting' \in [Sends -> Seq(Calls)]
    <3>1. SubSeq(q, n + 1, Len(q)) \in Seq(Calls)
      BY <1>5, <1>10, SubSeqProperties
    <3> QED
      BY <1>4, <3>1 DEF TypeOK
  <2>6. stage' \in [Calls -> Stages]
    BY <1>4 DEF TypeOK, Stages
  <2> QED
    BY <1>4, <2>1, <2>2, <2>3, <2>4, <2>5, <2>6 DEF TypeOK
<1>24. \A d \in Calls : ParentOf[d] # s => stage'[d] = stage[d]
  BY <1>11, <1>13
<1>25. Held' = Held
  BY <1>4 DEF Held
<1>26. Inside'
  BY <1>2, <1>11, <1>13, <1>25 DEF Inside
<1>27. Quiet'
  BY <1>3, <1>4, <1>24, <1>25 DEF Quiet, CallsOf
<1>28. \A t \in Sends : t # s => waiting'[t] = waiting[t]
  BY <1>1, <1>4 DEF TypeOK
<1>29. /\ DOMAIN waiting'[s] = 1..(Len(q) - n)
       /\ Len(waiting'[s]) = Len(q) - n
       /\ \A i \in 1..(Len(q) - n) :
             n + i \in DOMAIN q /\ n + i \notin 1..n /\ waiting'[s][i] = q[n + i]
  <2>1. waiting'[s] = SubSeq(q, n + 1, Len(q))
    BY <1>1, <1>4 DEF TypeOK
  <2>2. /\ n + 1 \in 1..(Len(q) + 1)
        /\ Len(q) - (n + 1) + 1 = Len(q) - n
        /\ \A i \in 1..(Len(q) - n) : (n + 1) + i - 1 = n + i
    BY <1>5, <1>10
  <2>3. /\ Len(waiting'[s]) = Len(q) - n
        /\ \A i \in 1..(Len(q) - n) : waiting'[s][i] = q[n + i]
        /\ waiting'[s] \in Seq(Calls)
    BY <1>5, <1>10, <2>1, <2>2, SubSeqProperties
  <2>4. DOMAIN waiting'[s] = 1..(Len(q) - n)
    BY <2>3
  <2>5. \A i \in 1..(Len(q) - n) : n + i \in DOMAIN q /\ n + i \notin 1..n
    BY <1>5, <1>10
  <2> QED
    BY <2>3, <2>4, <2>5
<1>30. \A t \in Sends : Listed(t)'
  <2> SUFFICES ASSUME NEW t \in Sends PROVE Listed(t)'
    OBVIOUS
  <2>1. CASE t = s
    <3>1. ASSUME NEW i \in 1..(Len(q) - n)
          PROVE  /\ waiting'[s][i] \in Calls
                 /\ ParentOf[waiting'[s][i]] = s
                 /\ stage'[waiting'[s][i]] = "waiting"
      <4>1. /\ n + i \in DOMAIN q /\ n + i \notin 1..n
            /\ waiting'[s][i] = q[n + i]
        BY <1>29
      <4>2. /\ q[n + i] \in Calls /\ ParentOf[q[n + i]] = s
            /\ stage[q[n + i]] = "waiting" /\ q[n + i] # c
        BY <1>1, <1>2, <4>1 DEF Listed
      <4>3. ~\E j \in 1..n : q[j] = q[n + i]
        BY <1>1, <1>11, <4>1 DEF Listed
      <4> QED
        BY <1>13, <4>1, <4>2, <4>3
    <3>2. \A i, j \in 1..(Len(q) - n) : waiting'[s][i] = waiting'[s][j] => i = j
      <4> TAKE i, j \in 1..(Len(q) - n)
      <4> HAVE waiting'[s][i] = waiting'[s][j]
      <4>1. n + i = n + j
        BY <1>1, <1>29 DEF Listed
      <4> QED
        BY <1>10, <4>1
    <3> QED
      BY <1>29, <2>1, <3>1, <3>2 DEF Listed
  <2>2. CASE t # s
    BY <1>24, <1>28, <2>2 DEF Listed
  <2> QED
    BY <2>1, <2>2
<1>31. Complete'
  <2> SUFFICES ASSUME NEW d \in Calls, stage'[d] = "waiting"
               PROVE  \E i \in DOMAIN waiting'[ParentOf[d]] :
                          waiting'[ParentOf[d]][i] = d
    BY DEF Complete
  <2>1. d # c /\ ~\E i \in 1..n : q[i] = d
    BY <1>13, <1>14
  <2>2. PICK i \in DOMAIN waiting[ParentOf[d]] : waiting[ParentOf[d]][i] = d
    BY <1>13, <2>1 DEF Complete
  <2>3. CASE ParentOf[d] = s
    <3>1. i \in 1..Len(q) /\ i \notin 1..n
      BY <1>5, <2>1, <2>2, <2>3
    <3>2. i - n \in 1..(Len(q) - n) /\ n + (i - n) = i
      BY <1>5, <1>10, <3>1
    <3> QED
      BY <1>29, <2>2, <2>3, <3>2
  <2>4. CASE ParentOf[d] # s
    <3>1. ParentOf[d] \in Sends
      BY AdmissionAssumption
    <3> QED
      BY <1>28, <2>2, <2>4, <3>1
  <2> QED
    BY <2>3, <2>4
<1>32. Streaming(s)' = (Streaming(s) \ {c}) \cup Slice(q, 1, n)
  <2>1. ASSUME NEW d \in Calls
        PROVE  d \in Streaming(s)' <=> d \in (Streaming(s) \ {c}) \cup Slice(q, 1, n)
    <3>1. CASE d = c
      <4>1. d \notin Slice(q, 1, n)
        BY <1>11, <3>1 DEF Slice
      <4> QED
        BY <1>13, <3>1, <4>1 DEF Streaming
    <3>2. CASE \E i \in 1..n : q[i] = d
      <4>1. d \in Slice(q, 1, n) /\ ParentOf[d] = s
        BY <1>11, <3>2 DEF Slice
      <4>2. stage'[d] \in {"inPlace", "extra"}
        BY <1>13, <1>14, <3>2
      <4> QED
        BY <4>1, <4>2 DEF Streaming, CallsOf
    <3>3. CASE d # c /\ ~\E i \in 1..n : q[i] = d
      <4>1. d \notin Slice(q, 1, n)
        BY <3>3 DEF Slice
      <4> QED
        BY <1>13, <3>3, <4>1 DEF Streaming, CallsOf
    <3> QED
      BY <3>1, <3>2, <3>3
  <2>2. Slice(q, 1, n) \subseteq Calls
    BY <1>11 DEF Slice
  <2> QED
    BY <2>1, <2>2 DEF Streaming, CallsOf
<1>33. Counted'
  <2>1. Cardinality(Streaming(s)') = Cardinality(Streaming(s)) - 1 + n
    <3>1. {c} \subseteq Streaming(s) /\ Slice(q, 1, n) \cap Streaming(s) = {}
      BY <1>7, <1>11 DEF Slice, Streaming
    <3>2. Cardinality({c}) = 1
      BY FS_Singleton
    <3>3. Cardinality((Streaming(s) \ {c}) \cup Slice(q, 1, n)) =
            Cardinality(Streaming(s)) - Cardinality({c}) + Cardinality(Slice(q, 1, n))
      <4> DEFINE S == Streaming(s)  T == {c}  U == Slice(q, 1, n)
      <4>1. IsFiniteSet(S) /\ IsFiniteSet(U) /\ T \subseteq S /\ U \cap S = {}
        BY <1>7, <1>15, <3>1
      <4> HIDE DEF S, T, U
      <4>2. Cardinality((S \ T) \cup U) =
              Cardinality(S) - Cardinality(T) + Cardinality(U)
        BY <4>1, MovedCardinality
      <4> QED
        BY <4>2 DEF S, T, U
    <3> QED
      BY <1>15, <1>32, <3>2, <3>3
  <2>2. running'[s] = running[s] - 1 + n
    BY <1>1, <1>4 DEF TypeOK
  <2>3. \A t \in Sends : t # s => running'[t] = running[t] /\ Streaming(t)' = Streaming(t)
    BY <1>1, <1>4, <1>24 DEF TypeOK, Streaming, CallsOf
  <2>4. \A t \in Sends : running'[t] = Cardinality(Streaming(t)')
    BY <1>1, <2>1, <2>2, <2>3 DEF Counted
  <2>5. \A t \in Held : t \in Sends
    BY DEF Held, TypeOK
  <2>6. running'[s] <= sends[s].atOnce
    BY <1>6, <1>10, <2>2
  <2>7. \A t \in Held' : running'[t] <= sends'[t].atOnce
    BY <1>4, <1>25, <2>3, <2>5, <2>6 DEF Counted
  <2> QED
    BY <2>4, <2>7 DEF Counted
<1>34. inPlace'[s] <=> ~own \/ first
  BY <1>1, <1>4 DEF TypeOK
<1>35. first => own /\ n > 0
  BY DEF first
<1>36. own /\ ~first => ~\E i \in 1..n : TRUE
  BY <1>10 DEF first
<1>37. \A d \in CallsOf(s) :
          stage[d] = "inPlace" => (own => d = c) /\ (~own => d # c)
  BY <1>1, <1>2 DEF Own, CallsOf
<1>38. \A d \in CallsOf(s) :
          stage'[d] = "inPlace" <=>
              \/ first /\ d = q[1]
              \/ ~own /\ stage[d] = "inPlace"
  <2> SUFFICES ASSUME NEW d \in CallsOf(s)
               PROVE  stage'[d] = "inPlace" <=>
                          \/ first /\ d = q[1]
                          \/ ~own /\ stage[d] = "inPlace"
    OBVIOUS
  <2>0. d \in Calls
    BY DEF CallsOf
  <2>1. CASE d = c
    BY <1>11, <1>13, <1>37, <2>1
  <2>2. CASE \E i \in 1..n : q[i] = d
    <3>1. PICK i \in 1..n : q[i] = d
      BY <2>2
    <3>2. stage[d] = "waiting"
      BY <1>11, <3>1
    <3>3. CASE i \in from..n
      <4>1. stage'[d] = "extra"
        BY <1>13, <3>1, <3>3
      <4>2. ~(first /\ d = q[1])
        BY <1>13, <4>1
      <4> QED
        BY <3>2, <4>1, <4>2
    <3>4. CASE first /\ i = 1
      BY <1>13, <3>1, <3>4
    <3> QED
      BY <1>14, <3>3, <3>4
  <2>3. CASE d # c /\ ~\E i \in 1..n : q[i] = d
    <3>1. stage'[d] = stage[d]
      BY <1>13, <2>0, <2>3
    <3>2. ~(first /\ d = q[1])
      BY <1>13, <2>3
    <3> QED
      BY <1>37, <2>3, <3>1, <3>2
  <2> QED
    BY <2>1, <2>2, <2>3
<1>39. Own'
  <2> SUFFICES ASSUME NEW t \in Sends
               PROVE  /\ inPlace'[t] <=> \E d \in CallsOf(t) : stage'[d] = "inPlace"
                      /\ \A d, e \in CallsOf(t) :
                            stage'[d] = "inPlace" /\ stage'[e] = "inPlace" => d = e
    BY DEF Own, CallsOf
  <2>1. CASE t # s
    <3>1. \A d \in CallsOf(t) : stage'[d] = stage[d]
      BY <1>24, <2>1 DEF CallsOf
    <3>2. inPlace'[t] = inPlace[t]
      BY <1>1, <1>4, <2>1 DEF TypeOK
    <3> QED
      BY <3>1, <3>2 DEF Own
  <2>2. CASE t = s
    <3>1. first => q[1] \in CallsOf(s)
      BY <1>11, <1>13 DEF CallsOf
    <3>2. ~own => \E d \in CallsOf(s) : stage[d] = "inPlace"
      BY <1>1 DEF Own
    <3>3. inPlace'[s] <=> \E d \in CallsOf(s) : stage'[d] = "inPlace"
      BY <1>34, <1>38, <3>1, <3>2
    <3>4. \A d, e \in CallsOf(s) :
             stage'[d] = "inPlace" /\ stage'[e] = "inPlace" => d = e
      BY <1>1, <1>35, <1>38 DEF Own
    <3> QED
      BY <2>2, <3>3, <3>4
  <2> QED
    BY <2>1, <2>2
<1>40. NoneStranded'
  <2> SUFFICES ASSUME NEW t \in Sends, waiting'[t] # <<>>
               PROVE  running'[t] > 0 /\ t \in Held /\ ~sends[t].aborted
    BY <1>4, <1>25 DEF NoneStranded
  <2>1. CASE t # s
    BY <1>1, <1>4, <1>28, <2>1 DEF NoneStranded, TypeOK
  <2>2. CASE t = s
    <3>1. Len(waiting'[s]) # 0
      BY <1>1, <1>23, <2>2, EmptySeq DEF TypeOK
    <3>2. Len(q) > n /\ q # <<>>
      BY <1>5, <1>10, <1>29, <3>1
    <3>3. s \in Held /\ ~sends[s].aborted
      BY <1>1, <3>2 DEF NoneStranded
    <3>4. ~own => running[s] >= 2
      <4> SUFFICES ASSUME ~own PROVE running[s] >= 2
        OBVIOUS
      <4>1. PICK d \in CallsOf(s) : stage[d] = "inPlace"
        BY <1>1 DEF Own
      <4>2. d # c /\ {c, d} \subseteq Streaming(s)
        BY <1>7, <4>1 DEF Streaming
      <4>3. Cardinality({c, d}) = 2
        <5>1. IsFiniteSet({c}) /\ Cardinality({c}) = 1
          BY FS_Singleton
        <5>2. Cardinality({c} \cup {d}) = Cardinality({c}) + 1
          <6>1. d \notin {c}
            BY <4>2
          <6> QED
            BY <5>1, <6>1, FS_AddElement, Zenon
        <5>3. {c, d} = {c} \cup {d}
          OBVIOUS
        <5>4. Cardinality({c} \cup {d}) = 2
          BY <5>1, <5>2
        <5> QED
          BY <5>3, <5>4, Zenon
      <4>4. Cardinality({c, d}) <= Cardinality(Streaming(s))
        BY <1>7, <4>2, FS_Subset
      <4> QED
        BY <1>1, <1>6, <4>3, <4>4 DEF Counted
    <3>5. running[s] - 1 + n > 0
      BY <1>6, <1>8, <1>10, <3>2, <3>4
    <3> QED
      BY <1>1, <1>4, <2>2, <3>3, <3>5 DEF TypeOK
  <2> QED
    BY <2>1, <2>2
<1> QED
  BY <1>22, <1>23, <1>26, <1>27, <1>30, <1>31, <1>33, <1>39, <1>40

LEMMA CloseIInv ==
    ASSUME IInv, Close
    PROVE  IInv'
<1> USE DEF IInv
<1>1. /\ UNCHANGED <<sends, extras, scheduledExtras, caps, childVars>>
      /\ closed' \in BOOLEAN
  BY DEF Close
<1>2. TypeOK'
  BY <1>1 DEF TypeOK, childVars
<1>3. ExtraCalls' = ExtraCalls /\ ScheduledCalls' = ScheduledCalls
  BY <1>1 DEF ExtraCalls, ScheduledCalls, childVars
<1>4. ExtrasTrue'
  BY <1>1, <1>3 DEF ExtrasTrue
<1>5. Inside' /\ Quiet' /\ Complete' /\ Own' /\ NoneStranded'
  BY <1>1 DEF Inside, Quiet, Complete, Own, NoneStranded, CallsOf, Held, childVars
<1>6. \A s \in Sends : Listed(s)'
  BY <1>1 DEF Listed, childVars
<1>7. Counted'
  BY <1>1 DEF Counted, Streaming, CallsOf, Held, childVars
<1> QED
  BY <1>2, <1>4, <1>5, <1>6, <1>7

LEMMA SetCapsIInv ==
    ASSUME IInv, NEW c \in CapSets, SetCaps(c)
    PROVE  IInv'
<1> USE DEF IInv
<1>1. /\ UNCHANGED <<sends, extras, scheduledExtras, closed, childVars>>
      /\ caps' \in CapRecords
  BY AdmissionAssumption DEF SetCaps
<1>2. TypeOK'
  BY <1>1 DEF TypeOK, childVars
<1>3. ExtraCalls' = ExtraCalls /\ ScheduledCalls' = ScheduledCalls
  BY <1>1 DEF ExtraCalls, ScheduledCalls, childVars
<1>4. ExtrasTrue'
  BY <1>1, <1>3 DEF ExtrasTrue
<1>5. Inside' /\ Quiet' /\ Complete' /\ Own' /\ NoneStranded'
  BY <1>1 DEF Inside, Quiet, Complete, Own, NoneStranded, CallsOf, Held, childVars
<1>6. \A s \in Sends : Listed(s)'
  BY <1>1 DEF Listed, childVars
<1>7. Counted'
  BY <1>1 DEF Counted, Streaming, CallsOf, Held, childVars
<1> QED
  BY <1>2, <1>4, <1>5, <1>6, <1>7

LEMMA StutterIInv ==
    ASSUME IInv, UNCHANGED vars
    PROVE  IInv'
<1> USE DEF IInv
<1>1. UNCHANGED <<registryVars, childVars>>
  BY DEF vars
<1>2. TypeOK'
  BY <1>1 DEF TypeOK, registryVars, childVars
<1>3. ExtraCalls' = ExtraCalls /\ ScheduledCalls' = ScheduledCalls
  BY <1>1 DEF ExtraCalls, ScheduledCalls, registryVars, childVars
<1>4. ExtrasTrue'
  BY <1>1, <1>3 DEF ExtrasTrue, registryVars
<1>5. Inside' /\ Quiet' /\ Complete' /\ Own' /\ NoneStranded'
  BY <1>1 DEF Inside, Quiet, Complete, Own, NoneStranded, CallsOf, Held,
              registryVars, childVars
<1>6. \A s \in Sends : Listed(s)'
  BY <1>1 DEF Listed, childVars
<1>7. Counted'
  BY <1>1 DEF Counted, Streaming, CallsOf, Held, registryVars, childVars
<1> QED
  BY <1>2, <1>4, <1>5, <1>6, <1>7

----------------------------------------------------------------------------

\* Every step of the registry and of the child slots keeps the invariant.
LEMMA NextIInv ==
    ASSUME IInv, [Next]_vars
    PROVE  IInv'
<1>1. CASE StartSome
  <2>1. PICK s \in Sends, x \in Sessions : \E who \in StartersOf[x] :
            \E a \in IF x \in Channels THEN Agents ELSE {ChatAgent} :
                Start(s, x, a, who)
    BY <1>1 DEF StartSome
  <2>2. PICK who \in StartersOf[x],
             a \in IF x \in Channels THEN Agents ELSE {ChatAgent} :
                Start(s, x, a, who)
    BY <2>1
  <2>3. who \in Starters /\ a \in Agents
    BY AdmissionAssumption
  <2> QED
    BY <2>2, <2>3, StartIInv
<1>2. ASSUME NEW s \in Sends, Abort(s) PROVE IInv'
  BY <1>2, AbortIInv
<1>3. ASSUME NEW s \in Sends, Finalize(s) PROVE IInv'
  BY <1>3, FinalizeIInv
<1>4. ASSUME NEW s \in Sends, Free(s) PROVE IInv'
  BY <1>4, FreeIInv
<1>5. ASSUME NEW c \in Calls, Refused(c) PROVE IInv'
  BY <1>5, RefusedIInv
<1>6. ASSUME NEW c \in Calls, TakeNow(c) PROVE IInv'
  BY <1>6, TakeNowIInv
<1>7. ASSUME NEW c \in Calls, Wait(c) PROVE IInv'
  BY <1>7, WaitIInv
<1>8. ASSUME NEW c \in Calls, ChildEnds(c) PROVE IInv'
  BY <1>8, ChildEndsIInv
<1>9. ASSUME NEW c \in CapSets, SetCaps(c) PROVE IInv'
  BY <1>9, SetCapsIInv
<1>10. CASE Close
  BY <1>10, CloseIInv
<1>11. CASE UNCHANGED vars
  BY <1>11, StutterIInv
<1> QED
  BY <1>1, <1>2, <1>3, <1>4, <1>5, <1>6, <1>7, <1>8, <1>9, <1>10, <1>11
  DEF Next

THEOREM Invariant == Spec => []IInv
<1>1. Init => IInv
  BY InitIInv
<1>2. IInv /\ [Next]_vars => IInv'
  BY NextIInv
<1> QED
  BY <1>1, <1>2, PTL DEF Spec

\* Type correctness, whatever the caps, the sends and the calls.
THEOREM TypeCorrect == Spec => []TypeOK
<1>1. IInv => TypeOK
  BY DEF IInv
<1> QED
  BY <1>1, Invariant, PTL

\* No extra stream leaks and none is given back twice: for every number of
\* sends and calls and for every cap, admit() weighs the process by counters
\* that are exact.
THEOREM CountersExact == Spec => []ExtrasTrue
<1>1. IInv => ExtrasTrue
  BY DEF IInv
<1> QED
  BY <1>1, Invariant, PTL

\* A waiting delegate call always has a running sibling, whose end places it:
\* no list of waiters is left with nobody to serve it.
THEOREM WaitersServed == Spec => []NoneStranded
<1>1. IInv => NoneStranded
  BY DEF IInv
<1> QED
  BY <1>1, Invariant, PTL

\* The counts a send keeps of its children are those of the calls that run,
\* one at most in the parent's place, and its list is the calls that wait.
THEOREM CountsExact == Spec => []ChildrenTrue
<1>1. IInv => ChildrenTrue
  <2> SUFFICES ASSUME IInv, NEW s \in Sends
               PROVE  /\ running[s] = Cardinality(Streaming(s))
                      /\ inPlace[s] <=> \E c \in CallsOf(s) : stage[c] = "inPlace"
                      /\ \A c, d \in CallsOf(s) :
                            stage[c] = "inPlace" /\ stage[d] = "inPlace" => c = d
                      /\ waiting[s] \in Lists(Calls)
                      /\ {waiting[s][i] : i \in DOMAIN waiting[s]} =
                            {c \in CallsOf(s) : stage[c] = "waiting"}
                      /\ s \notin Held => \A c \in CallsOf(s) : stage[c] = "new"
    BY DEF ChildrenTrue
  <2> USE DEF IInv
  <2>1. running[s] = Cardinality(Streaming(s))
    BY DEF Counted
  <2>2. waiting[s] \in Lists(Calls)
    BY DEF Lists, Listed, TypeOK
  <2>3. \A i \in DOMAIN waiting[s] :
            waiting[s][i] \in {c \in CallsOf(s) : stage[c] = "waiting"}
    BY DEF Listed, CallsOf
  <2>4. \A c \in CallsOf(s) : stage[c] = "waiting" =>
            \E i \in DOMAIN waiting[s] : waiting[s][i] = c
    BY DEF Complete, CallsOf
  <2>5. {waiting[s][i] : i \in DOMAIN waiting[s]} =
            {c \in CallsOf(s) : stage[c] = "waiting"}
    BY <2>3, <2>4
  <2>6. s \notin Held => \A c \in CallsOf(s) : stage[c] = "new"
    BY DEF Inside, CallsOf
  <2>7. /\ inPlace[s] <=> \E c \in CallsOf(s) : stage[c] = "inPlace"
        /\ \A c, d \in CallsOf(s) :
              stage[c] = "inPlace" /\ stage[d] = "inPlace" => c = d
    BY DEF Own
  <2> QED
    BY <2>1, <2>2, <2>5, <2>6, <2>7
<1> QED
  BY <1>1, Invariant, PTL

----------------------------------------------------------------------------
(* The locks *)

\* Every action but a start keeps a send's session and agent, or lets the
\* send go.
LEMMA SendsStand ==
    ASSUME TypeOK, [Next]_vars, ~StartSome
    PROVE  /\ Held' \subseteq Held
           /\ \A t \in Held' : /\ sends'[t].starter = sends[t].starter
                               /\ sends'[t].session = sends[t].session
                               /\ sends'[t].agent = sends[t].agent
<1>1. ASSUME NEW s \in Sends, Abort(s) \/ Finalize(s)
      PROVE  /\ Held' = Held
             /\ \A t \in Held : /\ sends'[t].starter = sends[t].starter
                                /\ sends'[t].session = sends[t].session
                                /\ sends'[t].agent = sends[t].agent
  <2>1. \/ sends' = [sends EXCEPT ![s].aborted = TRUE]
        \/ sends' = [sends EXCEPT ![s].terminal = TRUE]
    BY <1>1 DEF Abort, Finalize
  <2>2. sends \in [Held -> SendRecords]
    BY DEF TypeOK, Held
  <2> QED
    BY <2>1, <2>2 DEF Held, SendRecords
<1>2. ASSUME NEW s \in Sends, Free(s)
      PROVE  Held' \subseteq Held /\ \A t \in Held' : sends'[t] = sends[t]
  BY <1>2 DEF Free, Held
<1>3. ASSUME NEW c \in Calls, Refused(c) \/ TakeNow(c) \/ Wait(c) \/ ChildEnds(c)
      PROVE  sends' = sends
  BY <1>3 DEF Refused, TakeNow, Wait, ChildEnds, registryVars
<1>4. ASSUME NEW c \in CapSets, SetCaps(c) PROVE sends' = sends
  BY <1>4 DEF SetCaps
<1>5. CASE Close
  BY <1>5 DEF Close, Held
<1>6. CASE UNCHANGED vars
  BY <1>6 DEF vars, registryVars, Held
<1> QED
  BY <1>1, <1>2, <1>3, <1>4, <1>5, <1>6 DEF Next, Held

\* A step that starts a send starts one that admit() let in.
LEMMA StartedOne ==
    ASSUME StartSome
    PROVE  \E s \in Sends, x \in Sessions, a \in Agents, who \in Starters :
               Start(s, x, a, who)
<1>1. PICK s \in Sends, x \in Sessions : \E who \in StartersOf[x] :
          \E a \in IF x \in Channels THEN Agents ELSE {ChatAgent} :
              Start(s, x, a, who)
  BY DEF StartSome
<1>2. PICK who \in StartersOf[x],
           a \in IF x \in Channels THEN Agents ELSE {ChatAgent} :
              Start(s, x, a, who)
  BY <1>1
<1>3. who \in Starters /\ a \in Agents
  BY AdmissionAssumption
<1> QED
  BY <1>2, <1>3

\* What admit() says of a start it lets in, one conjunct for each refusal.
LEMMA Admitted ==
    ASSUME NEW x, NEW a, NEW who, Refusal(x, a, who) = "none"
    PROVE  /\ ~Locked(x, a)
           /\ who # Schedule => ~(Cardinality(StartedBy(who)) >= caps.user)
           /\ ~(Cardinality(InProject(ProjectOf[x])) >= caps.project)
           /\ ~(Cardinality(Held) + extras >= caps.running)
           /\ who = Schedule =>
                 ~(Cardinality(StartedBy(Schedule)) + scheduledExtras
                     >= ScheduledShare(caps.running))
BY Zenon DEF Refusal

\* No step lets a second send into a chat, nor a second send of an agent
\* into a channel.
LEMMA LockKept ==
    ASSUME TypeOK, OneSendPerLock, [Next]_vars
    PROVE  OneSendPerLock'
<1>1. CASE StartSome
  <2>1. PICK s \in Sends, x \in Sessions, a \in Agents, who \in Starters :
            Start(s, x, a, who)
    BY <1>1, StartedOne
  <2>2. ~Locked(x, a)
    BY <2>1, Admitted DEF Start
  <2>3. /\ Held' = Held \cup {s}
        /\ \A t \in Held : t # s /\ sends'[t] = sends[t]
        /\ sends'[s].session = x /\ sends'[s].agent = a
    BY <2>1 DEF Start, Held
  <2>4. \A t \in Held : sends[t].session = x =>
            x \in Channels /\ sends[t].agent # a
    BY <2>2 DEF Locked, InSession
  <2> QED
    BY <2>3, <2>4 DEF OneSendPerLock
<1>2. CASE ~StartSome
  BY <1>2, SendsStand DEF OneSendPerLock
<1> QED
  BY <1>1, <1>2

\* One send at a time in a chat and one per agent in a channel, for every
\* number of sends, sessions and agents.
THEOREM LockHolds == Spec => []OneSendPerLock
<1>1. Init => OneSendPerLock
  BY DEF Init, OneSendPerLock, Held
<1>2. TypeOK /\ OneSendPerLock /\ [Next]_vars => OneSendPerLock'
  BY LockKept
<1> QED
  BY <1>1, <1>2, TypeCorrect, PTL DEF Spec

----------------------------------------------------------------------------
(* The caps *)

\* the places are what admit() weighs: sends, and counters of extra streams
PlacesTrue ==
    /\ IsFiniteSet(Held)
    /\ Places(Held) = Cardinality(Held) + extras
    /\ Places(StartedBy(Schedule)) =
          Cardinality(StartedBy(Schedule)) + scheduledExtras

\* The registered sends are finitely many, and what admit() weighs is the
\* number of the places they hold.
LEMMA PlacesCounted == IInv => PlacesTrue
<1> SUFFICES ASSUME IInv PROVE PlacesTrue
  OBVIOUS
<1> USE DEF IInv
<1>1. IsFiniteSet(Held)
  <2>1. Held \in SUBSET Sends
    BY DEF TypeOK, Held
  <2> QED
    BY <2>1, FS_Subset, AdmissionAssumption
<1>2. {c \in ExtraCalls : ParentOf[c] \in Held} = ExtraCalls
  BY DEF ExtraCalls, Inside
<1>3. {c \in ExtraCalls : ParentOf[c] \in StartedBy(Schedule)} = ScheduledCalls
  BY DEF ExtraCalls, ScheduledCalls, StartedBy, Inside
<1>4. /\ Places(Held) = Cardinality(Held) + Cardinality(ExtraCalls)
      /\ Places(StartedBy(Schedule)) =
            Cardinality(StartedBy(Schedule)) + Cardinality(ScheduledCalls)
  BY <1>2, <1>3, Zenon DEF Places
<1> QED
  BY <1>1, <1>4 DEF ExtrasTrue, PlacesTrue

\* Sends that stand or leave take nobody's place: no count of them grows.
LEMMA CountsStand ==
    ASSUME IInv,
           Held' \subseteq Held,
           \A t \in Held' : /\ sends'[t].starter = sends[t].starter
                            /\ sends'[t].session = sends[t].session
    PROVE  /\ Cardinality(Held)' <= Cardinality(Held)
           /\ Cardinality(Held) \in Nat /\ Cardinality(Held)' \in Nat
           /\ \A u \in Starters :
                 /\ Cardinality(StartedBy(u))' <= Cardinality(StartedBy(u))
                 /\ Cardinality(StartedBy(u)) \in Nat
                 /\ Cardinality(StartedBy(u))' \in Nat
           /\ \A p \in Projects :
                 /\ Cardinality(InProject(p))' <= Cardinality(InProject(p))
                 /\ Cardinality(InProject(p)) \in Nat
                 /\ Cardinality(InProject(p))' \in Nat
<1>1. IsFiniteSet(Held)
  BY PlacesCounted DEF PlacesTrue
<1>2. ASSUME NEW S \in SUBSET Held, NEW T \in SUBSET S
      PROVE  /\ Cardinality(T) <= Cardinality(S)
             /\ Cardinality(S) \in Nat /\ Cardinality(T) \in Nat
  <2>1. IsFiniteSet(S)
    BY <1>1, FS_Subset
  <2>2. IsFiniteSet(T) /\ Cardinality(T) <= Cardinality(S)
    BY <2>1, FS_Subset
  <2> QED
    BY <2>1, <2>2, FS_CardinalityType
<1>3. /\ Cardinality(Held)' <= Cardinality(Held)
      /\ Cardinality(Held) \in Nat /\ Cardinality(Held)' \in Nat
  <2>1. Held' \in SUBSET Held /\ Held \in SUBSET Held
    OBVIOUS
  <2> QED
    BY <1>2, <2>1
<1>4. ASSUME NEW u \in Starters
      PROVE  /\ Cardinality(StartedBy(u))' <= Cardinality(StartedBy(u))
             /\ Cardinality(StartedBy(u)) \in Nat
             /\ Cardinality(StartedBy(u))' \in Nat
  <2>1. StartedBy(u) \in SUBSET Held /\ StartedBy(u)' \in SUBSET StartedBy(u)
    BY DEF StartedBy
  <2> QED
    BY <1>2, <2>1
<1>5. ASSUME NEW p \in Projects
      PROVE  /\ Cardinality(InProject(p))' <= Cardinality(InProject(p))
             /\ Cardinality(InProject(p)) \in Nat
             /\ Cardinality(InProject(p))' \in Nat
  <2>1. InProject(p) \in SUBSET Held /\ InProject(p)' \in SUBSET InProject(p)
    BY DEF InProject
  <2> QED
    BY <1>2, <2>1
<1> QED
  BY <1>3, <1>4, <1>5

\* A step that only lets sends and streams go, or moves the caps, keeps
\* within them: it takes no place.
LEMMA StandingWithin ==
    ASSUME IInv, IInv',
           Held' \subseteq Held,
           \A t \in Held' : /\ sends'[t].starter = sends[t].starter
                            /\ sends'[t].session = sends[t].session,
           \/ extras' <= extras
           \/ extras' + Cardinality(Held)' <= caps'.running,
           \/ scheduledExtras' <= scheduledExtras
           \/ scheduledExtras' + Cardinality(StartedBy(Schedule))'
                 <= ScheduledShare(caps'.running)
    PROVE  PlacesWithin
<1>1. /\ Places(Held) = Cardinality(Held) + extras
      /\ Places(StartedBy(Schedule)) =
            Cardinality(StartedBy(Schedule)) + scheduledExtras
  BY PlacesCounted DEF PlacesTrue
<1>2. /\ Places(Held)' = Cardinality(Held)' + extras'
      /\ Places(StartedBy(Schedule))' =
            Cardinality(StartedBy(Schedule))' + scheduledExtras'
  <2>1. PlacesTrue'
    BY PlacesCounted, PTL
  <2> QED
    BY <2>1 DEF PlacesTrue
<1>3. /\ extras \in Nat /\ scheduledExtras \in Nat
      /\ extras' \in Nat /\ scheduledExtras' \in Nat
      /\ caps'.running \in Nat /\ ScheduledShare(caps'.running) \in Int
  <2>1. TypeOK /\ TypeOK'
    BY DEF IInv
  <2>2. extras \in Nat /\ scheduledExtras \in Nat
    BY <2>1 DEF TypeOK
  <2>3. extras' \in Nat /\ scheduledExtras' \in Nat
    BY <2>1 DEF TypeOK
  <2>4. caps' \in CapRecords
    BY <2>1 DEF TypeOK
  <2>5. caps'.running \in Nat
    BY <2>4 DEF CapRecords
  <2> QED
    BY <2>2, <2>3, <2>5 DEF ScheduledShare
<1>4. /\ Cardinality(Held)' <= Cardinality(Held)
      /\ Cardinality(Held) \in Nat /\ Cardinality(Held)' \in Nat
      /\ \A u \in Starters :
            /\ Cardinality(StartedBy(u))' <= Cardinality(StartedBy(u))
            /\ Cardinality(StartedBy(u)) \in Nat
            /\ Cardinality(StartedBy(u))' \in Nat
      /\ \A p \in Projects :
            /\ Cardinality(InProject(p))' <= Cardinality(InProject(p))
            /\ Cardinality(InProject(p)) \in Nat
            /\ Cardinality(InProject(p))' \in Nat
  BY CountsStand
<1>5. Schedule \in Starters /\ Users \subseteq Starters
  BY DEF Starters
<1>6. Within(Places(Held), Places(Held)', caps'.running)
  BY <1>1, <1>2, <1>3, <1>4 DEF Within
<1>7. Within(Places(StartedBy(Schedule)), Places(StartedBy(Schedule))',
             ScheduledShare(caps'.running))
  BY <1>1, <1>2, <1>3, <1>4, <1>5 DEF Within
<1>8. \A p \in Projects :
          Within(Cardinality(InProject(p)), Cardinality(InProject(p))',
                 caps'.project)
  BY <1>4 DEF Within
<1>9. \A u \in Users :
          Within(Cardinality(StartedBy(u)), Cardinality(StartedBy(u))',
                 caps'.user)
  BY <1>4, <1>5 DEF Within
<1> QED
  BY <1>6, <1>7, <1>8, <1>9 DEF PlacesWithin

\* The room for extra streams is below what the process has left, and for a
\* scheduled parent below what is left of the share.
LEMMA RoomBound ==
    ASSUME IInv, NEW s \in Held
    PROVE  /\ ExtraRoom(s) \in Int
           /\ ExtraRoom(s) <= caps.running - (Cardinality(Held) + extras)
           /\ sends[s].starter = Schedule =>
                 ExtraRoom(s) <= ScheduledShare(caps.running)
                    - (Cardinality(StartedBy(Schedule)) + scheduledExtras)
<1>1. IsFiniteSet(Held)
  BY PlacesCounted DEF PlacesTrue
<1>2. IsFiniteSet(StartedBy(Schedule))
  <2>1. StartedBy(Schedule) \in SUBSET Held
    BY DEF StartedBy
  <2> QED
    BY <1>1, <2>1, FS_Subset
<1>3. Cardinality(Held) \in Nat /\ Cardinality(StartedBy(Schedule)) \in Nat
  BY <1>1, <1>2, FS_CardinalityType
<1>4. /\ caps.running \in Nat /\ extras \in Nat /\ scheduledExtras \in Nat
      /\ ScheduledShare(caps.running) \in Int
  BY DEF IInv, TypeOK, CapRecords, ScheduledShare
<1>5. CASE sends[s].starter = Schedule
  BY <1>3, <1>4, <1>5 DEF ExtraRoom
<1>6. CASE sends[s].starter # Schedule
  <2>1. ExtraRoom(s) = caps.running - (Cardinality(Held) + extras)
    BY <1>6, Zenon DEF ExtraRoom
  <2>2. caps.running - (Cardinality(Held) + extras) \in Int
    BY <1>3, <1>4
  <2>3. ExtraRoom(s) <= caps.running - (Cardinality(Held) + extras)
    BY <2>1, <2>2
  <2> QED
    BY <1>6, <2>1, <2>2, <2>3, Zenon
<1> QED
  BY <1>5, <1>6

\* Extra streams given back, or taken no further than the room goes, keep
\* within the caps.
LEMMA MoveWithin ==
    ASSUME IInv, IInv', NEW s \in Held, NEW k \in Int,
           MoveExtras(s, k), k <= 0 \/ k <= ExtraRoom(s),
           UNCHANGED <<sends, caps>>
    PROVE  PlacesWithin
<1>1. /\ ExtraRoom(s) \in Int
      /\ ExtraRoom(s) <= caps.running - (Cardinality(Held) + extras)
      /\ sends[s].starter = Schedule =>
            ExtraRoom(s) <= ScheduledShare(caps.running)
               - (Cardinality(StartedBy(Schedule)) + scheduledExtras)
  BY RoomBound
<1>2. /\ Held' = Held
      /\ StartedBy(Schedule)' = StartedBy(Schedule)
      /\ caps' = caps
  BY DEF Held, StartedBy
<1>3. \A t \in Held' : /\ sends'[t].starter = sends[t].starter
                       /\ sends'[t].session = sends[t].session
  OBVIOUS
<1>4. /\ extras \in Nat /\ scheduledExtras \in Nat /\ caps.running \in Nat
      /\ ScheduledShare(caps.running) \in Int
  BY DEF IInv, TypeOK, CapRecords, ScheduledShare
<1>5. /\ IsFiniteSet(Held) /\ IsFiniteSet(StartedBy(Schedule))
  <2>1. IsFiniteSet(Held) /\ StartedBy(Schedule) \in SUBSET Held
    BY PlacesCounted DEF PlacesTrue, StartedBy
  <2> QED
    BY <2>1, FS_Subset
<1>6. Cardinality(Held) \in Nat /\ Cardinality(StartedBy(Schedule)) \in Nat
  BY <1>5, FS_CardinalityType
<1>7. \/ extras' <= extras
      \/ extras' + Cardinality(Held)' <= caps'.running
  BY <1>1, <1>2, <1>4, <1>6 DEF MoveExtras, Floored
<1>8. \/ scheduledExtras' <= scheduledExtras
      \/ scheduledExtras' + Cardinality(StartedBy(Schedule))'
            <= ScheduledShare(caps'.running)
  BY <1>1, <1>2, <1>4, <1>6 DEF MoveExtras, Floored
<1> QED
  BY <1>2, <1>3, <1>7, <1>8, StandingWithin

\* A send that starts takes a place that its refusals left: admit() weighs
\* the counts the step moves.
LEMMA StartWithin ==
    ASSUME IInv, IInv', NEW s \in Sends, NEW x \in Sessions, NEW a \in Agents,
           NEW who \in Starters, Start(s, x, a, who)
    PROVE  PlacesWithin
<1>1. /\ who # Schedule => ~(Cardinality(StartedBy(who)) >= caps.user)
      /\ ~(Cardinality(InProject(ProjectOf[x])) >= caps.project)
      /\ ~(Cardinality(Held) + extras >= caps.running)
      /\ who = Schedule =>
            ~(Cardinality(StartedBy(Schedule)) + scheduledExtras
                >= ScheduledShare(caps.running))
  BY Admitted DEF Start
<1>2. /\ s \notin Held
      /\ Held' = Held \cup {s}
      /\ \A t \in Held : t # s /\ sends'[t] = sends[t]
      /\ sends'[s].starter = who /\ sends'[s].session = x
      /\ extras' = extras /\ scheduledExtras' = scheduledExtras
      /\ caps' = caps
  BY DEF Start, Held
<1>3. IsFiniteSet(Held)
  BY PlacesCounted DEF PlacesTrue
<1>4. ASSUME NEW S \in SUBSET Held
      PROVE  /\ Cardinality(S) \in Nat
             /\ Cardinality(S \cup {s}) = Cardinality(S) + 1
  <2>1. IsFiniteSet(S)
    BY <1>3, FS_Subset
  <2>2. s \notin S
    BY <1>2
  <2> QED
    BY <2>1, <2>2, FS_AddElement, FS_CardinalityType
<1>5. /\ Cardinality(Held) \in Nat
      /\ Cardinality(Held)' = Cardinality(Held) + 1
  <2>1. Held \in SUBSET Held
    OBVIOUS
  <2>2. Cardinality(Held') = Cardinality(Held \cup {s})
    BY <1>2
  <2> QED
    BY <1>4, <2>1, <2>2
<1>6. ASSUME NEW u \in Starters
      PROVE  /\ Cardinality(StartedBy(u)) \in Nat
             /\ Cardinality(StartedBy(u))' =
                   Cardinality(StartedBy(u)) + (IF u = who THEN 1 ELSE 0)
  <2>1. StartedBy(u) \in SUBSET Held
    BY DEF StartedBy
  <2>2. CASE u = who
    <3>1. StartedBy(u)' = StartedBy(u) \cup {s}
      BY <1>2, <2>2 DEF StartedBy
    <3> QED
      BY <1>4, <2>1, <2>2, <3>1
  <2>3. CASE u # who
    <3>1. StartedBy(u)' = StartedBy(u)
      BY <1>2, <2>3 DEF StartedBy
    <3>2. Cardinality(StartedBy(u)) \in Nat
      BY <1>4, <2>1
    <3> QED
      BY <2>3, <3>1, <3>2
  <2> QED
    BY <2>2, <2>3
<1>7. ASSUME NEW p \in Projects
      PROVE  /\ Cardinality(InProject(p)) \in Nat
             /\ Cardinality(InProject(p))' = Cardinality(InProject(p))
                   + (IF p = ProjectOf[x] THEN 1 ELSE 0)
  <2>1. InProject(p) \in SUBSET Held
    BY DEF InProject
  <2>2. CASE p = ProjectOf[x]
    <3>1. InProject(p)' = InProject(p) \cup {s}
      BY <1>2, <2>2 DEF InProject
    <3> QED
      BY <1>4, <2>1, <2>2, <3>1
  <2>3. CASE p # ProjectOf[x]
    <3>1. InProject(p)' = InProject(p)
      BY <1>2, <2>3 DEF InProject
    <3>2. Cardinality(InProject(p)) \in Nat
      BY <1>4, <2>1
    <3> QED
      BY <2>3, <3>1, <3>2
  <2> QED
    BY <2>2, <2>3
<1>8. PlacesTrue /\ PlacesTrue'
  <2>1. PlacesTrue
    BY PlacesCounted
  <2>2. PlacesTrue'
    BY PlacesCounted, PTL
  <2> QED
    BY <2>1, <2>2
<1>9. /\ extras \in Nat /\ scheduledExtras \in Nat
      /\ caps.running \in Nat /\ caps.project \in Nat /\ caps.user \in Nat
      /\ ScheduledShare(caps.running) \in Int
  <2>1. extras \in Nat /\ scheduledExtras \in Nat /\ caps \in CapRecords
    BY DEF IInv, TypeOK
  <2>2. caps.running \in Nat /\ caps.project \in Nat /\ caps.user \in Nat
    BY <2>1 DEF CapRecords
  <2> QED
    BY <2>1, <2>2 DEF ScheduledShare
<1>10. Schedule \in Starters /\ Users \subseteq Starters
       /\ Schedule \notin Users /\ ProjectOf[x] \in Projects
  BY AdmissionAssumption DEF Starters
<1>11. Within(Places(Held), Places(Held)', caps'.running)
  BY <1>1, <1>2, <1>5, <1>8, <1>9 DEF Within, PlacesTrue
<1>12. Within(Places(StartedBy(Schedule)), Places(StartedBy(Schedule))',
              ScheduledShare(caps'.running))
  BY <1>1, <1>2, <1>6, <1>8, <1>9, <1>10 DEF Within, PlacesTrue
<1>13. \A p \in Projects :
           Within(Cardinality(InProject(p)), Cardinality(InProject(p))',
                  caps'.project)
  BY <1>1, <1>2, <1>7, <1>9, <1>10 DEF Within
<1>14. \A u \in Users :
           Within(Cardinality(StartedBy(u)), Cardinality(StartedBy(u))',
                  caps'.user)
  BY <1>1, <1>2, <1>6, <1>9, <1>10 DEF Within
<1> QED
  BY <1>11, <1>12, <1>13, <1>14 DEF PlacesWithin

\* The waiters placed at a child's end take no more extra streams than the
\* room and the stream given back.
LEMMA TakenWithinRoom ==
    ASSUME IInv, NEW c \in Calls, ChildEnds(c)
    PROVE  \E k \in Int : /\ MoveExtras(ParentOf[c], k)
                          /\ k <= 0 \/ k <= ExtraRoom(ParentOf[c])
<1> DEFINE s     == ParentOf[c]
           extra == stage[c] = "extra"
           back  == IF extra THEN 1 ELSE 0
           own   == ~extra \/ ~inPlace[s]
           room  == ExtraRoom(s) + back
           n     == Placed(s, running[s] - 1, own, room)
           first == own /\ n > 0
           taken == n - (IF first THEN 1 ELSE 0)
<1>1. s \in Held /\ s \in Sends
  BY AdmissionAssumption DEF ChildEnds, IInv, Inside
<1>2. MoveExtras(s, taken - back)
  BY DEF ChildEnds
<1>3. ExtraRoom(s) \in Int
  BY <1>1, RoomBound
<1>4. room \in Int /\ back \in {0, 1}
  BY <1>3
<1>5. /\ Len(waiting[s]) \in Nat
      /\ sends[s].atOnce - (running[s] - 1) \in Int
      /\ sends[s].atOnce - (running[s] - 1) >= 1
  <2>1. /\ sends[s].atOnce \in Nat /\ running[s] \in Nat
        /\ running[s] <= sends[s].atOnce
    BY <1>1 DEF IInv, TypeOK, Held, SendRecords, Counted
  <2>2. waiting[s] \in Seq(Calls)
    BY <1>1 DEF IInv, TypeOK
  <2> QED
    BY <2>1, <2>2
<1> HIDE DEF room, back
<1> DEFINE d == (IF own THEN 1 ELSE 0) + Floored(room)
<1>6. d \in Int /\ d >= 0 /\ Floored(room) \in Nat
  BY <1>4 DEF Floored
<1>7. n \in Int /\ n >= 0 /\ n <= d
  <2>1. n = Least({Len(waiting[s]), sends[s].atOnce - (running[s] - 1), d})
    BY DEF Placed
  <2> DEFINE l == Len(waiting[s])
             b == sends[s].atOnce - (running[s] - 1)
  <2>2. l \in Int /\ b \in Int /\ l >= 0 /\ b >= 1
    BY <1>5
  <2>3. n = Least({l, b, d})
    BY <2>1
  <2> HIDE DEF n, l, b, d
  <2>4. n \in {l, b, d} /\ n <= d
    BY <1>6, <2>2, <2>3, LeastOfThree
  <2> QED
    BY <1>6, <2>2, <2>4
<1> HIDE DEF n, d
<1>8. taken \in Int /\ taken <= Floored(room)
  BY <1>4, <1>6, <1>7 DEF d
<1> HIDE DEF taken
<1>9. taken - back <= 0 \/ taken - back <= ExtraRoom(s)
  BY <1>3, <1>4, <1>8 DEF Floored, room
<1>10. taken - back \in Int
  BY <1>4, <1>8
<1> QED
  BY <1>2, <1>9, <1>10

\* Every step keeps within the caps as they read.
LEMMA StepWithin ==
    ASSUME IInv, IInv', [Next]_vars
    PROVE  PlacesWithin
<1>1. CASE StartSome
  BY <1>1, StartedOne, StartWithin
<1>2. CASE ~StartSome /\ UNCHANGED <<extras, scheduledExtras>>
  <2>1. /\ Held' \subseteq Held
        /\ \A t \in Held' : /\ sends'[t].starter = sends[t].starter
                            /\ sends'[t].session = sends[t].session
    BY <1>2, SendsStand DEF IInv
  <2>2. extras' <= extras /\ scheduledExtras' <= scheduledExtras
    BY <1>2 DEF IInv, TypeOK
  <2> QED
    BY <2>1, <2>2, StandingWithin
<1>3. ASSUME NEW c \in Calls, TakeNow(c)
      PROVE  \/ UNCHANGED <<extras, scheduledExtras>>
             \/ PlacesWithin
  <2> DEFINE s == ParentOf[c]
  <2>1. s \in Held /\ UNCHANGED <<sends, caps>>
    BY <1>3 DEF TakeNow, Takes, Asks
  <2>2. ExtraRoom(s) \in Int
    BY <2>1, RoomBound
  <2>3. CASE inPlace[s]
    <3>1. MoveExtras(s, 1) /\ ExtraRoom(s) >= 1
      BY <1>3, <2>3 DEF TakeNow, MayPlace, HasPlace
    <3>2. 1 \in Int /\ 1 <= ExtraRoom(s)
      BY <2>2, <3>1
    <3> QED
      BY <2>1, <3>1, <3>2, MoveWithin
  <2>4. CASE ~inPlace[s]
    BY <1>3, <2>4 DEF TakeNow
  <2> QED
    BY <2>3, <2>4
<1>4. ASSUME NEW c \in Calls, ChildEnds(c)
      PROVE  PlacesWithin
  <2>1. ParentOf[c] \in Held /\ UNCHANGED <<sends, caps>>
    BY <1>4 DEF ChildEnds, IInv, Inside
  <2>2. PICK k \in Int : /\ MoveExtras(ParentOf[c], k)
                         /\ k <= 0 \/ k <= ExtraRoom(ParentOf[c])
    BY <1>4, TakenWithinRoom
  <2> QED
    BY <2>1, <2>2, MoveWithin
<1>5. ASSUME NEW s \in Sends, Abort(s) \/ Finalize(s) \/ Free(s)
      PROVE  UNCHANGED <<extras, scheduledExtras>>
  BY <1>5 DEF Abort, Finalize, Free
<1>6. ASSUME NEW c \in Calls, Refused(c) \/ Wait(c)
      PROVE  UNCHANGED <<extras, scheduledExtras>>
  BY <1>6 DEF Refused, Wait, registryVars
<1>7. ASSUME NEW c \in CapSets, SetCaps(c)
      PROVE  UNCHANGED <<extras, scheduledExtras>>
  BY <1>7 DEF SetCaps
<1>8. ASSUME Close \/ UNCHANGED vars
      PROVE  UNCHANGED <<extras, scheduledExtras>>
  BY <1>8 DEF Close, vars, registryVars
<1> QED
  BY <1>1, <1>2, <1>3, <1>4, <1>5, <1>6, <1>7, <1>8 DEF Next

\* No step takes a place above the caps of the process, of a project or of a
\* user, nor out of the share kept from scheduled runs: for every number of
\* sends and calls, and for all the caps an administrator may set.
THEOREM CapsKept == Spec => TakesWithinCaps
<1>1. IInv /\ IInv' /\ [Next]_vars => [PlacesWithin]_vars
  BY StepWithin
<1> QED
  BY <1>1, Invariant, PTL DEF Spec, TakesWithinCaps

----------------------------------------------------------------------------
(* The order of the waiters *)

\* A child's end places the head of the list, and leaves the rest waiting.
LEMMA EndPlacesHead ==
    ASSUME IInv, NEW c \in Calls, ChildEnds(c), NEW d \in Calls,
           stage[d] \in {"new", "waiting"}, stage'[d] \in {"inPlace", "extra"},
           NEW i \in DOMAIN waiting[ParentOf[d]],
           stage'[waiting[ParentOf[d]][i]] = "waiting"
    PROVE  \E j \in 1..(i - 1) : waiting[ParentOf[d]][j] = d
<1> DEFINE s     == ParentOf[c]
           extra == stage[c] = "extra"
           own   == ~extra \/ ~inPlace[s]
           room  == ExtraRoom(s) + (IF extra THEN 1 ELSE 0)
           n     == Placed(s, running[s] - 1, own, room)
           first == own /\ n > 0
<1>1. stage' = [e \in Calls |->
                  IF e = c THEN "ended"
                  ELSE IF first /\ e = waiting[s][1] THEN "inPlace"
                  ELSE IF \E k \in 1..n : waiting[s][k] = e THEN "extra"
                  ELSE stage[e]]
  BY DEF ChildEnds
<1>2. s \in Sends /\ ParentOf[d] \in Sends
  BY AdmissionAssumption
<1>3. /\ waiting[s] \in Seq(Calls)
      /\ Len(waiting[s]) \in Nat /\ DOMAIN waiting[s] = 1..Len(waiting[s])
  BY <1>2 DEF IInv, TypeOK
<1>4. n \in Int /\ n <= Len(waiting[s])
  <2>1. /\ sends[s].atOnce - (running[s] - 1) \in Int
        /\ ExtraRoom(s) \in Int
    <3>1. s \in Held
      BY DEF ChildEnds, IInv, Inside
    <3>2. sends[s].atOnce \in Nat /\ running[s] \in Nat
      BY <1>2, <3>1 DEF IInv, TypeOK, Held, SendRecords
    <3> QED
      BY <3>1, <3>2, RoomBound
  <2>2. room \in Int
    BY <2>1
  <2> DEFINE l == Len(waiting[s])
             b == sends[s].atOnce - (running[s] - 1)
             r == (IF own THEN 1 ELSE 0) + Floored(room)
  <2>3. l \in Int /\ b \in Int /\ r \in Int
    BY <1>3, <2>1, <2>2 DEF Floored
  <2>4. n = Least({l, b, r})
    BY DEF Placed
  <2> HIDE DEF n, l, b, r
  <2>5. n \in {l, b, r} /\ n <= l
    BY <2>3, <2>4, LeastOfThree
  <2> QED
    BY <2>3, <2>5 DEF l
<1> HIDE DEF n
<1>5. \E k \in 1..n : waiting[s][k] = d
  <2>1. stage'[d] # stage[d] /\ stage'[d] # "ended"
    OBVIOUS
  <2>2. (first /\ d = waiting[s][1]) \/ \E k \in 1..n : waiting[s][k] = d
    BY <1>1, <2>1
  <2> QED
    BY <1>4, <2>2
<1>6. PICK k \in 1..n : waiting[s][k] = d
  BY <1>5
<1>7. k \in DOMAIN waiting[s]
  BY <1>3, <1>4, <1>6
<1>8. ParentOf[d] = s
  BY <1>2, <1>6, <1>7 DEF IInv, Listed
<1>9. i \in 1..Len(waiting[s]) /\ waiting[s][i] \in Calls
  BY <1>3, <1>8
<1>10. i \notin 1..n
  <2> SUFFICES ASSUME i \in 1..n PROVE FALSE
    OBVIOUS
  <2>1. stage'[waiting[s][i]] \in {"ended", "inPlace", "extra"}
    BY <1>1, <1>9
  <2> QED
    BY <1>8, <2>1
<1> QED
  BY <1>4, <1>6, <1>8, <1>9, <1>10

\* No step passes an earlier waiter over.
LEMMA StepInTurn ==
    ASSUME IInv, [Next]_vars
    PROVE  PlacedInTurn
<1> SUFFICES ASSUME NEW d \in Calls,
                    stage[d] \in {"new", "waiting"},
                    stage'[d] \in {"inPlace", "extra"},
                    NEW i \in DOMAIN waiting[ParentOf[d]],
                    stage'[waiting[ParentOf[d]][i]] = "waiting"
             PROVE  \E j \in 1..(i - 1) : waiting[ParentOf[d]][j] = d
  BY DEF PlacedInTurn
<1>1. stage'[d] # stage[d] /\ stage'[d] \notin {"new", "ended"}
  OBVIOUS
<1>2. stage \in [Calls -> Stages]
  BY DEF IInv, TypeOK
<1>3. ASSUME NEW s \in Sends, NEW x, NEW a, NEW who, Start(s, x, a, who)
      PROVE  FALSE
  BY <1>1, <1>3 DEF Start, childVars
<1>4. ASSUME NEW s \in Sends, Abort(s) \/ Finalize(s) \/ Free(s) PROVE FALSE
  BY <1>1, <1>2, <1>4 DEF Abort, Finalize, Free, childVars
<1>5. ASSUME NEW c \in Calls, Refused(c) \/ Wait(c) PROVE FALSE
  BY <1>1, <1>2, <1>5 DEF Refused, Wait
<1>6. ASSUME NEW c \in Calls, TakeNow(c) PROVE FALSE
  <2>1. waiting[ParentOf[c]] = <<>>
    BY <1>6 DEF TakeNow, MayPlace
  <2>2. d = c
    BY <1>1, <1>2, <1>6 DEF TakeNow
  <2> QED
    BY <2>1, <2>2
<1>7. ASSUME NEW c \in CapSets, SetCaps(c) PROVE FALSE
  BY <1>1, <1>7 DEF SetCaps, childVars
<1>8. ASSUME Close \/ UNCHANGED vars PROVE FALSE
  BY <1>1, <1>8 DEF Close, vars, childVars
<1> QED
  BY <1>3, <1>4, <1>5, <1>6, <1>7, <1>8, EndPlacesHead DEF Next, StartSome

\* First come, first served, for every number of delegate calls and however
\* the ends of siblings, the aborts and the caps interleave.
THEOREM ServedInOrder == Spec => InOrder
<1>1. IInv /\ [Next]_vars => [PlacedInTurn]_vars
  BY StepInTurn
<1> QED
  BY <1>1, Invariant, PTL DEF Spec, InOrder
=============================================================================
