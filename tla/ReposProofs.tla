----------------------------- MODULE ReposProofs -----------------------------
(***************************************************************************)
(* Proofs about Repos: the holds, the slots, what is waited for, and the   *)
(* types, for every number of rows, calls, commits and slots and any size  *)
(* of the cache.                                                           *)
(***************************************************************************)
EXTENDS ReposWordProofs, FiniteSetTheorems, SequenceTheorems,
        WellFoundedInduction, TLAPS

USE ReposAssumption

----------------------------------------------------------------------------
(* The holds *)

Shape(cs) == /\ DOMAIN cs = Calls
             /\ \A c \in Calls : DOMAIN cs[c] = DOMAIN Idle

HoldsInv ==
    /\ Shape(call)
    /\ DOMAIN holds = Folders
    /\ MountsStand

\* the same mounts are kept
Alike(cs) ==
    /\ Shape(cs)
    /\ \A c \in Calls : /\ cs[c].pc = call[c].pc
                        /\ cs[c].want = call[c].want
                        /\ cs[c].copy = call[c].copy

\* a call that mounted nothing goes on as cl
Moved(c, cl) ==
    /\ call[c].pc # "held"
    /\ call' = [call EXCEPT ![c] = cl]
    /\ DOMAIN cl = DOMAIN Idle

\* what is mounted stays where it is, or an operator removed it
Stays ==
    \A f \in Folders : Mounted(f) # {} /\ f \in disk \cup lost
                          => f \in disk' \cup lost'

----------------------------------------------------------------------------
(* What is mounted, by what becomes of the calls *)

LEMMA MountedFinite ==
    ASSUME NEW f
    PROVE  /\ IsFiniteSet(Mounted(f)) /\ Cardinality(Mounted(f)) \in Nat
           /\ Cardinality(Mounted(f)) = 0 <=> Mounted(f) = {}
<1>1. Mounted(f) \subseteq Calls
  BY DEF Mounted
<1>2. IsFiniteSet(Mounted(f))
  BY <1>1, FS_Subset
<1> QED
  BY <1>2, FS_CardinalityType, FS_EmptySet

LEMMA AlikeMounted ==
    ASSUME HoldsInv, Alike(call'), NEW f
    PROVE  Mounted(f)' = Mounted(f)
  BY DEF HoldsInv, Alike, Mounted, TreeOf

LEMMA MovedMounted ==
    ASSUME HoldsInv, NEW c \in Calls, NEW cl, Moved(c, cl), cl.pc # "held", NEW f
    PROVE  Mounted(f)' = Mounted(f)
  BY DEF HoldsInv, Shape, Moved, Mounted, TreeOf

LEMMA MovedShape ==
    ASSUME HoldsInv, NEW c \in Calls, NEW cl, Moved(c, cl)
    PROVE  Shape(call')
  BY DEF HoldsInv, Shape, Moved

LEMMA HoldsStay ==
    ASSUME HoldsInv, Shape(call'), holds' = holds, Stays,
           \A f \in Folders : Mounted(f)' = Mounted(f)
    PROVE  HoldsInv'
<1>1. ASSUME NEW f \in Folders
      PROVE  /\ holds'[f] = Cardinality(Mounted(f)')
             /\ Mounted(f)' # {} => f \in disk' \cup lost'
  BY <1>1 DEF HoldsInv, MountsStand, Stays
<1>2. MountsStand'
  BY <1>1 DEF MountsStand
<1> QED
  BY <1>2 DEF HoldsInv, Shape

LEMMA AlikeHolds ==
    ASSUME HoldsInv, Alike(call'), holds' = holds, Stays
    PROVE  HoldsInv'
<1>1. \A f \in Folders : Mounted(f)' = Mounted(f)
  BY AlikeMounted
<1> QED
  BY <1>1, HoldsStay DEF Alike

LEMMA MovedHolds ==
    ASSUME HoldsInv, NEW c \in Calls, NEW cl, Moved(c, cl), cl.pc # "held",
           holds' = holds, Stays
    PROVE  HoldsInv'
<1>1. \A f \in Folders : Mounted(f)' = Mounted(f)
  BY MovedMounted
<1> QED
  BY <1>1, HoldsStay, MovedShape

LEMMA SameDiskStays ==
    ASSUME disk' = disk, lost' = lost
    PROVE  Stays
  BY DEF Stays

\* what the cache evicts, nobody mounts
LEMMA EvictsStays ==
    ASSUME HoldsInv, Evicts(Evicted), lost' = lost
    PROVE  Stays
<1>1. ASSUME NEW f \in Folders, Mounted(f) # {}, f \in disk
      PROVE  f \in disk'
  <2>1. holds[f] # 0
    BY <1>1, MountedFinite DEF HoldsInv, MountsStand
  <2>2. f \notin Evicted
    BY <2>1 DEF Evicted, Evictable
  <2> QED
    BY <1>1, <2>2 DEF Evicts
<1> QED
  BY <1>1 DEF Stays

----------------------------------------------------------------------------
(* What the parts of a step do to the calls *)

LEMMA SameAlike ==
    ASSUME HoldsInv
    PROVE  Alike(call)
  BY DEF HoldsInv, Alike

LEMMA DeliversAlike ==
    ASSUME NEW cs, Alike(cs), NEW j, NEW res
    PROVE  Alike(Delivers(cs, j, res))
  BY DEF Alike, Shape, Delivers, Idle

LEMMA HeardAlike ==
    ASSUME HoldsInv, NEW c, NEW res
    PROVE  Alike(LookupHeard(c, res))
  BY DEF HoldsInv, Alike, Shape, LookupHeard, Idle

LEMMA BeginsMoves ==
    ASSUME NEW c \in Calls, NEW r, NEW pin, NEW gone, NEW ans, Free(c),
           Begins(c, r, pin, gone, ans)
    PROVE  \E cl : Moved(c, cl) /\ cl.pc # "held"
<1> DEFINE cp  == row[r]
           new == ans[cp.key] = NoAnswer
           dead == new /\ closing /\ cp.key = NoKey
           res == IF dead THEN Bad("failed", NoKey) ELSE ans[cp.key].res
           by  == IF dead THEN None ELSE IF new THEN c ELSE ans[cp.key].by
           cl  == [Idle EXCEPT !.pc = "look", !.repo = r, !.copy = cp, !.pin = pin,
                               !.gone = gone, !.from = by, !.got = res]
<1>1. call' = [call EXCEPT ![c] = cl]
  BY Zenon DEF Begins
<1>2. call[c].pc # "held" /\ cl.pc # "held" /\ DOMAIN cl = DOMAIN Idle
  BY DEF Free, Idle
<1> QED
  BY <1>1, <1>2 DEF Moved

LEMMA ByCommitMoves ==
    ASSUME NEW c \in Calls, NEW cl, NEW joined \in BOOLEAN,
           call[c].pc # "held", DOMAIN cl = DOMAIN Idle,
           ByCommit(c, cl, joined)
    PROVE  \E dl : Moved(c, dl) /\ dl.pc # "held"
<1> DEFINE To(pc, on, got) == [cl EXCEPT !.pc = pc, !.on = on, !.got = got]
<1>1. SUFFICES \E pc, on, got : pc # "held" /\ call' = [call EXCEPT ![c] = To(pc, on, got)]
  <2>1. PICK pc, on, got :
          pc # "held" /\ call' = [call EXCEPT ![c] = To(pc, on, got)]
    BY <1>1
  <2>2. DOMAIN To(pc, on, got) = DOMAIN Idle /\ To(pc, on, got).pc = pc
    BY DEF Idle
  <2> QED
    BY <2>1, <2>2 DEF Moved
<1> HIDE DEF To
<1>2. ASSUME NEW pc, NEW on
      PROVE  [cl EXCEPT !.pc = pc, !.on = on] = To(pc, on, cl.got)
  BY DEF To, Idle
<1>3. ASSUME NEW pc, NEW got
      PROVE  [cl EXCEPT !.pc = pc, !.got = got] = To(pc, cl.on, got)
  BY DEF To, Idle
<1>4. CASE Joins(c, cl)
  <2>1. PICK on : call' = [call EXCEPT ![c] = [cl EXCEPT !.pc = "tree", !.on = on]]
    BY <1>4 DEF Joins
  <2>2. call' = [call EXCEPT ![c] = To("tree", on, cl.got)]
    BY <2>1, <1>2
  <2> QED
    BY <2>2, Zenon
<1>5. CASE WaitsOnce(c, cl, joined)
  <2>1. PICK on : call' = [call EXCEPT ![c] = [cl EXCEPT !.pc = "other", !.on = on]]
    BY <1>5 DEF WaitsOnce
  <2>2. call' = [call EXCEPT ![c] = To("other", on, cl.got)]
    BY <2>1, <1>2
  <2> QED
    BY <2>2, Zenon
<1>6. CASE OnItsOwn(c, cl, joined)
  <2>1. \/ \E on : call' = [call EXCEPT ![c] = [cl EXCEPT !.pc = "tree", !.on = on]]
        \/ \E got : call' = [call EXCEPT ![c] = [cl EXCEPT !.pc = "tree", !.got = got]]
    BY <1>6 DEF OnItsOwn
  <2>2. ASSUME NEW on, call' = [call EXCEPT ![c] = [cl EXCEPT !.pc = "tree", !.on = on]]
        PROVE  \E got : call' = [call EXCEPT ![c] = To("tree", on, got)]
    BY <2>2, <1>2
  <2>3. ASSUME NEW got, call' = [call EXCEPT ![c] = [cl EXCEPT !.pc = "tree", !.got = got]]
        PROVE  \E on : call' = [call EXCEPT ![c] = To("tree", on, got)]
    BY <2>3, <1>3
  <2>4. \E on, got : call' = [call EXCEPT ![c] = To("tree", on, got)]
    BY <2>1, <2>2, <2>3
  <2> QED
    BY <2>4, Zenon
<1> QED
  BY <1>4, <1>5, <1>6 DEF ByCommit

LEMMA FailsMoves ==
    ASSUME HoldsInv, NEW c \in Calls, NEW word, NEW of, call[c].pc # "held",
           Fails(c, word, of)
    PROVE  Moved(c, Idle) /\ Idle.pc # "held" /\ holds' = holds
  BY DEF Fails, Moved, Idle

\* an attempt holds the tree for the mount it leaves, or for nobody
LEMMA AttemptHolds ==
    ASSUME HoldsInv, NEW c \in Calls, NEW cl, DOMAIN cl = DOMAIN Idle,
           call[c].pc # "held", Attempt(c, cl), disk' = disk, lost' = lost
    PROVE  HoldsInv'
<1> DEFINE f == TreeOf(cl)
<1>1. CASE /\ f \in disk
           /\ holds' = HoldsWith(cl, f)
           /\ call' = [call EXCEPT ![c] =
                         IF cl.gone THEN Idle ELSE [cl EXCEPT !.pc = "held"]]
  <2>1. CASE cl.gone
    <3>1. Moved(c, Idle) /\ Idle.pc # "held" /\ holds' = holds
      BY <1>1, <2>1 DEF Moved, HoldsWith, Idle
    <3> QED
      BY <3>1, MovedHolds, SameDiskStays
  <2>2. CASE ~cl.gone
    <3> DEFINE hl == [cl EXCEPT !.pc = "held"]
    <3>1. hl.pc = "held" /\ DOMAIN hl = DOMAIN Idle /\ TreeOf(hl) = f
      BY DEF Idle, TreeOf
    <3>2. call' = [call EXCEPT ![c] = hl] /\ holds' = [holds EXCEPT ![f] = @ + 1]
      BY <1>1, <2>2 DEF HoldsWith
    <3> HIDE DEF hl
    <3>3. Shape(call')
      BY <3>1, <3>2, MovedShape DEF Moved
    <3>4. ASSUME NEW g \in Folders
          PROVE  /\ holds'[g] = Cardinality(Mounted(g)')
                 /\ Mounted(g)' # {} => g \in disk' \cup lost'
      <4>1. CASE g = f
        <5>1. Mounted(g)' = Mounted(g) \cup {c} /\ c \notin Mounted(g)
          BY <3>1, <3>2, <4>1 DEF HoldsInv, Shape, Mounted, TreeOf
        <5>2. Cardinality(Mounted(g)') = Cardinality(Mounted(g)) + 1
          BY <5>1, MountedFinite, FS_AddElement
        <5> QED
          BY <5>2, <3>2, <4>1, <1>1 DEF HoldsInv, MountsStand
      <4>2. CASE g # f
        <5>1. Mounted(g)' = Mounted(g)
          BY <3>1, <3>2, <4>2 DEF HoldsInv, Shape, Mounted, TreeOf
        <5> QED
          BY <5>1, <3>2, <4>2 DEF HoldsInv, MountsStand
      <4> QED
        BY <4>1, <4>2
    <3>5. MountsStand'
      BY <3>4 DEF MountsStand
    <3> QED
      BY <3>2, <3>3, <3>5 DEF HoldsInv, Shape
  <2> QED
    BY <2>1, <2>2
<1>2. CASE /\ ByCommit(c, [cl EXCEPT !.copy = MarkedCopy(cl)], FALSE)
           /\ holds' = holds
  <2>1. DOMAIN [cl EXCEPT !.copy = MarkedCopy(cl)] = DOMAIN Idle
    BY DEF Idle
  <2>2. PICK dl : Moved(c, dl) /\ dl.pc # "held"
    BY <1>2, <2>1, ByCommitMoves
  <2> QED
    BY <1>2, <2>2, MovedHolds, SameDiskStays
<1> QED
  BY <1>1, <1>2 DEF Attempt

LEMMA EndsHolds ==
    ASSUME HoldsInv, NEW cs, Alike(cs), NEW j, NEW res, Ends(cs, j, res),
           holds' = holds, Stays
    PROVE  HoldsInv'
  BY DeliversAlike, AlikeHolds DEF Ends

----------------------------------------------------------------------------
(* The steps *)

LEMMA InitHolds == Init => HoldsInv
<1> SUFFICES ASSUME Init PROVE HoldsInv
  OBVIOUS
<1>1. call = NoCalls /\ holds = NoHolds
  BY DEF Init
<1>2. Shape(call) /\ DOMAIN holds = Folders
  BY <1>1 DEF NoCalls, NoHolds, Shape
<1>3. ASSUME NEW f PROVE Mounted(f) = {}
  BY <1>1 DEF NoCalls, Idle, Mounted
<1> QED
  BY <1>1, <1>2, <1>3, MountedFinite DEF NoHolds, HoldsInv, MountsStand

LEMMA StepHolds ==
    ASSUME HoldsInv, Step
    PROVE  HoldsInv'
<1>1. ASSUME NEW r \in Rows, NEW c \in Calls, Refresh(r, c)
      PROVE  HoldsInv'
  <2>0. holds' = holds /\ Stays
    BY <1>1, SameDiskStays DEF Refresh, ghost
  <2>1. CASE /\ Free(c)
             /\ Begins(c, r, None, TRUE, [answers EXCEPT ![row[r].key] = NoAnswer])
    BY <2>0, <2>1, BeginsMoves, MovedHolds
  <2>2. CASE UNCHANGED call
    BY <2>0, <2>2, SameAlike, AlikeHolds
  <2> QED
    BY <1>1, <2>1, <2>2 DEF Refresh
<1>2. ASSUME NEW c \in Calls, Looked(c)
      PROVE  HoldsInv'
  <2>0. disk' = disk /\ lost' = lost /\ call[c].pc # "held"
    BY <1>2 DEF Looked
  <2>1. ASSUME NEW word, NEW of, Fails(c, word, of)
        PROVE  HoldsInv'
    BY <2>0, <2>1, FailsMoves, MovedHolds, SameDiskStays
  <2>2. ASSUME NEW commit, NEW of, NEW want,
               Attempt(c, [call[c] EXCEPT !.got = NoRes, !.commit = commit,
                                          !.of = of, !.want = want])
        PROVE  HoldsInv'
    <3>1. DOMAIN [call[c] EXCEPT !.got = NoRes, !.commit = commit,
                                 !.of = of, !.want = want] = DOMAIN Idle
      BY DEF HoldsInv, Shape
    <3> QED
      BY <2>0, <2>2, <3>1, AttemptHolds
  <2> QED
    BY <1>2, <2>1, <2>2 DEF Looked
<1>3. ASSUME NEW c \in Calls, Answered(c)
      PROVE  HoldsInv'
  <2> DEFINE cl == [call[c] EXCEPT !.got = NoRes]
  <2>0. disk' = disk /\ lost' = lost /\ call[c].pc # "held"
    BY <1>3 DEF Answered
  <2>1. DOMAIN cl = DOMAIN Idle /\ DOMAIN [cl EXCEPT !.tries = 1] = DOMAIN Idle
    BY DEF HoldsInv, Shape
  <2>2. ASSUME NEW word, NEW of, Fails(c, word, of)
        PROVE  HoldsInv'
    BY <2>0, <2>2, FailsMoves, MovedHolds, SameDiskStays
  <2>3. CASE Attempt(c, [cl EXCEPT !.tries = 1])
    BY <2>0, <2>1, <2>3, AttemptHolds
  <2>4. CASE ByCommit(c, cl, TRUE) /\ holds' = holds
    <3>1. PICK dl : Moved(c, dl) /\ dl.pc # "held"
      BY <2>0, <2>1, <2>4, ByCommitMoves
    <3> QED
      BY <2>0, <2>4, <3>1, MovedHolds, SameDiskStays
  <2> QED
    BY <1>3, <2>2, <2>3, <2>4 DEF Answered
<1> QED
  BY <1>1, <1>2, <1>3 DEF Step

LEMMA TurnHolds ==
    ASSUME HoldsInv, Turn
    PROVE  HoldsInv'
<1>1. ASSUME NEW c \in Calls, NEW r \in Rows, NEW pin, Prepare(c, r, pin)
      PROVE  HoldsInv'
  <2>1. holds' = holds /\ Stays /\ Free(c) /\ Begins(c, r, pin, FALSE, answers)
    BY <1>1, SameDiskStays DEF Prepare, ghost
  <2> QED
    BY <2>1, BeginsMoves, MovedHolds
<1>2. ASSUME NEW c \in Calls, WaitEnds(c)
      PROVE  HoldsInv'
  <2>1. holds' = holds /\ Stays /\ call' = [call EXCEPT ![c].gone = TRUE]
    BY <1>2, SameDiskStays DEF WaitEnds, ghost
  <2>2. Alike(call')
    BY <2>1 DEF HoldsInv, Alike, Shape, Idle
  <2> QED
    BY <2>1, <2>2, AlikeHolds
<1>3. ASSUME NEW c \in Calls, Release(c)
      PROVE  HoldsInv'
  <2> DEFINE f == TreeOf(call[c])
  <2>1. /\ call[c].pc = "held" /\ call' = [call EXCEPT ![c] = Idle]
        /\ holds' = [holds EXCEPT ![f] = @ - 1]
        /\ disk' = disk /\ lost' = lost
    BY <1>3 DEF Release, ghost
  <2>2. Shape(call')
    BY <2>1 DEF HoldsInv, Shape
  <2>3. ASSUME NEW g \in Folders
        PROVE  /\ holds'[g] = Cardinality(Mounted(g)')
               /\ Mounted(g)' # {} => g \in disk' \cup lost'
    <3>1. CASE g = f
      <4>1. Mounted(g)' = Mounted(g) \ {c} /\ c \in Mounted(g)
        BY <2>1, <3>1 DEF HoldsInv, Shape, Mounted, TreeOf, Idle
      <4>2. IsFiniteSet(Mounted(g))
        BY MountedFinite
      <4>3. Cardinality(Mounted(g)') = Cardinality(Mounted(g)) - 1
        BY <4>1, <4>2, FS_RemoveElement
      <4>4. holds[g] = Cardinality(Mounted(g)) /\ g \in disk \cup lost
        BY <4>1 DEF HoldsInv, MountsStand
      <4>5. holds'[g] = holds[g] - 1
        BY <2>1, <3>1 DEF HoldsInv
      <4> QED
        BY <4>3, <4>4, <4>5, <2>1
    <3>2. CASE g # f
      <4>1. Mounted(g)' = Mounted(g)
        BY <2>1, <3>2 DEF HoldsInv, Shape, Mounted, TreeOf, Idle
      <4> QED
        BY <4>1, <2>1, <3>2 DEF HoldsInv, MountsStand
    <3> QED
      BY <3>1, <3>2
  <2>4. MountsStand'
    BY <2>3 DEF MountsStand
  <2> QED
    BY <2>1, <2>2, <2>4 DEF HoldsInv, Shape
<1> QED
  BY <1>1, <1>2, <1>3 DEF Turn

LEMMA LookupsHold ==
    ASSUME HoldsInv, Lookups
    PROVE  HoldsInv'
<1>1. ASSUME NEW c \in Calls, NEW m, SignedLookup(c, m)
      PROVE  HoldsInv'
  <2>1. holds' = holds /\ Stays
    BY <1>1, SameDiskStays DEF SignedLookup, ghost
  <2>2. \E res : call' = LookupHeard(c, res)
    BY <1>1 DEF SignedLookup
  <2> QED
    BY <2>1, <2>2, HeardAlike, AlikeHolds
<1>2. ASSUME NEW c \in Calls, NEW m, PublicLookup(c, m)
      PROVE  HoldsInv'
  <2>1. holds' = holds /\ Stays
    BY <1>2, SameDiskStays DEF PublicLookup, ghost
  <2>2. \E heard, j, res : Ends(LookupHeard(c, heard), j, res)
    BY <1>2 DEF PublicLookup
  <2> QED
    BY <2>1, <2>2, HeardAlike, EndsHolds
<1>3. ASSUME NEW c \in Calls, NEW m, ArchiveNames(c, m)
      PROVE  HoldsInv'
  <2>1. holds' = holds /\ Stays
    BY <1>3, SameDiskStays DEF ArchiveNames
  <2>2. \/ \E heard, j, res : Ends(LookupHeard(c, heard), j, res)
        \/ \E heard : call' = LookupHeard(c, heard)
    BY <1>3 DEF ArchiveNames
  <2> QED
    BY <2>1, <2>2, HeardAlike, EndsHolds, AlikeHolds
<1> QED
  BY <1>1, <1>2, <1>3 DEF Lookups

LEMMA FetchingHolds ==
    ASSUME HoldsInv, Fetching
    PROVE  HoldsInv'
<1> USE SameAlike
<1>1. ASSUME NEW j, TreeNames(j)
      PROVE  HoldsInv'
  <2>1. holds' = holds /\ Stays
    BY <1>1, SameDiskStays DEF TreeNames, ghost
  <2> QED
    BY <1>1, <2>1, EndsHolds, AlikeHolds DEF TreeNames
<1>2. ASSUME NEW j, TreeRefused(j) \/ SlotWaitEnds(j) \/ NoRoom(j)
      PROVE  HoldsInv'
  <2>1. holds' = holds /\ Stays /\ \E res : Ends(call, j, res)
    BY <1>2, SameDiskStays DEF TreeRefused, SlotWaitEnds, NoRoom, ghost
  <2> QED
    BY <2>1, EndsHolds
<1>3. ASSUME NEW j, Unpacks(j)
      PROVE  HoldsInv'
  <2>1. holds' = holds /\ UNCHANGED call /\ Stays
    BY <1>3, EvictsStays DEF Unpacks, ghost
  <2> QED
    BY <2>1, AlikeHolds
<1>4. ASSUME NEW j, Publishes(j)
      PROVE  HoldsInv'
  <2>1. holds' = holds /\ Stays /\ \E res : Ends(call, j, res)
    BY <1>4 DEF Publishes, Stays
  <2> QED
    BY <2>1, EndsHolds
<1>5. ASSUME NEW j, NEW word, UnpackFails(j, word)
      PROVE  HoldsInv'
  <2>1. holds' = holds /\ Stays /\ \E res : Ends(call, j, res)
    BY <1>5, SameDiskStays DEF UnpackFails, ghost
  <2> QED
    BY <2>1, EndsHolds
<1> QED
  BY <1>1, <1>2, <1>3, <1>4, <1>5 DEF Fetching

LEMMA OutsideHolds ==
    ASSUME HoldsInv, Outside
    PROVE  HoldsInv'
<1> USE SameAlike
<1>1. ASSUME NEW r, NEW key, NEW ignore,
             Writes(r, key, ignore) \/ AskRefresh(r) \/ Deletes(r)
      PROVE  UNCHANGED <<call, holds, disk, lost>>
  BY <1>1 DEF Writes, AskRefresh, Deletes, mem
<1>2. ASSUME NEW x, SetsCaps(x) \/ LookupExpires(x) \/ RefusalExpires(x)
      PROVE  UNCHANGED <<call, holds, disk, lost>>
  BY <1>2 DEF SetsCaps, LookupExpires, RefusalExpires, mem, ghost
<1>3. CASE UNCHANGED <<call, holds, disk, lost>>
  BY <1>3, SameDiskStays, AlikeHolds
<1>4. ASSUME NEW f, Loses(f)
      PROVE  HoldsInv'
  <2>1. holds' = holds /\ UNCHANGED call /\ Stays
    BY <1>4 DEF Loses, mem, Stays
  <2> QED
    BY <2>1, AlikeHolds
<1>5. CASE Sweep
  <2>1. holds' = holds /\ UNCHANGED call /\ Stays
    BY <1>5, EvictsStays DEF Sweep, ghost
  <2> QED
    BY <2>1, AlikeHolds
<1>6. CASE Close
  <2>1. holds' = holds /\ Stays
    BY <1>6, SameDiskStays DEF Close, ghost
  <2>2. Alike(call')
    BY <1>6 DEF Close, HoldsInv, Alike, Shape, Idle
  <2> QED
    BY <2>1, <2>2, AlikeHolds
<1>7. CASE Restart
  <2>1. call' = NoCalls /\ holds' = NoHolds
    BY <1>7 DEF Restart
  <2>2. Shape(call') /\ DOMAIN holds' = Folders
    BY <2>1 DEF NoCalls, NoHolds, Shape
  <2>3. ASSUME NEW f PROVE Mounted(f)' = {}
    BY <2>1 DEF NoCalls, Idle, Mounted
  <2>4. MountsStand'
    BY <2>1, <2>3, FS_EmptySet DEF NoHolds, MountsStand
  <2> QED
    BY <2>2, <2>4 DEF HoldsInv, Shape
<1> QED
  BY <1>1, <1>2, <1>3, <1>4, <1>5, <1>6, <1>7 DEF Outside

LEMMA HoldsStep == HoldsInv /\ [Next]_vars => HoldsInv'
<1> SUFFICES ASSUME HoldsInv, [Next]_vars PROVE HoldsInv'
  OBVIOUS
<1>1. CASE UNCHANGED vars
  BY <1>1, SameAlike, SameDiskStays, AlikeHolds DEF vars, mem, ghost
<1> QED
  BY <1>1, StepHolds, TurnHolds, LookupsHold, FetchingHolds, OutsideHolds
  DEF Next, Rest

----------------------------------------------------------------------------
\* A tree is held once for each mount that turns keep of it, and a mounted
\* tree stays on disk through every eviction unless an operator removes it
\* (mounts.ts prepare() and refresh(), cache.ts hold() and evict()), for any
\* number of turns, late answers, rows and trees.
THEOREM MountsHeld == Spec => []MountsStand
<1>1. HoldsInv => MountsStand
  BY DEF HoldsInv
<1> QED
  BY InitHolds, HoldsStep, <1>1, PTL DEF Spec

----------------------------------------------------------------------------
(* Numbers *)

\* a set of numbers has a least
LEMMA LeastNumber ==
    ASSUME NEW S, S \subseteq Nat, S # {}
    PROVE  \E k \in S : \A j \in S : k <= j
<1>1. IsWellFoundedOn(OpToRel(<, Nat), Nat)
  BY NatLessThanWellFounded
<1>2. IsWellFoundedOn(OpToRel(<, Nat), S)
  BY <1>1, IsWellFoundedOnSubset
<1>3. PICK k \in S : \A j \in S : <<j, k>> \notin OpToRel(<, Nat)
  BY <1>2, WFMin
<1>4. \A j \in S : ~(j < k)
  BY <1>3 DEF OpToRel
<1> QED
  BY <1>4

\* A set of numbers with 0 and the next of each holds every number.
LEMMA EveryNumber ==
    ASSUME NEW S, 0 \in S, \A n \in Nat : n \in S => n + 1 \in S
    PROVE  Nat \subseteq S
<1>1. SUFFICES ASSUME NEW m \in Nat \ S PROVE FALSE
  OBVIOUS
<1>2. PICK n \in Nat \ S : \A j \in Nat \ S : n <= j
  <2>1. Nat \ S \subseteq Nat /\ Nat \ S # {}
    BY <1>1
  <2> QED
    BY <2>1, LeastNumber
<1>3. n # 0 /\ n - 1 \in Nat /\ n - 1 \notin S
  BY SMT
<1> QED
  BY <1>2, <1>3

----------------------------------------------------------------------------
(* Lists *)

Members(q) == {q[i] : i \in DOMAIN q}

NoRepeat(q) == \A i, j \in DOMAIN q : q[i] = q[j] => i = j

LEMMA AppendMembers ==
    ASSUME NEW S, NEW q \in Seq(S), NEW e \in S
    PROVE  /\ Append(q, e) \in Seq(S)
           /\ Members(Append(q, e)) = Members(q) \cup {e}
           /\ NoRepeat(q) /\ e \notin Members(q) => NoRepeat(Append(q, e))
<1>1. /\ Append(q, e) \in Seq(S) /\ Len(Append(q, e)) = Len(q) + 1
      /\ \A i \in 1..Len(q) : Append(q, e)[i] = q[i]
      /\ Append(q, e)[Len(q) + 1] = e
      /\ Len(q) \in Nat /\ DOMAIN q = 1..Len(q)
      /\ DOMAIN Append(q, e) = 1..(Len(q) + 1)
  BY AppendProperties, LenProperties
<1>2. DOMAIN Append(q, e) = DOMAIN q \cup {Len(q) + 1} /\ Len(q) + 1 \notin DOMAIN q
  BY <1>1
<1>3. Members(Append(q, e)) = Members(q) \cup {e}
  BY <1>1, <1>2 DEF Members
<1>4. NoRepeat(q) /\ e \notin Members(q) => NoRepeat(Append(q, e))
  BY <1>1, <1>2 DEF Members, NoRepeat
<1> QED
  BY <1>1, <1>3, <1>4

LEMMA TailMembers ==
    ASSUME NEW S, NEW q \in Seq(S), q # << >>
    PROVE  /\ Head(q) \in Members(q) /\ Head(q) \in S
           /\ Tail(q) \in Seq(S)
           /\ NoRepeat(q) => /\ Members(Tail(q)) = Members(q) \ {Head(q)}
                             /\ NoRepeat(Tail(q))
<1>1. /\ Tail(q) \in Seq(S) /\ Len(Tail(q)) = Len(q) - 1
      /\ \A i \in 1..Len(q) - 1 : Tail(q)[i] = q[i + 1]
      /\ Head(q) = q[1] /\ Len(q) \in Nat /\ Len(q) # 0 /\ DOMAIN q = 1..Len(q)
      /\ DOMAIN Tail(q) = 1..(Len(q) - 1)
  BY HeadTailProperties, LenProperties, EmptySeq
<1>2. Head(q) \in Members(q) /\ Head(q) \in S
  BY <1>1 DEF Members
<1>3. ASSUME NoRepeat(q)
      PROVE  Members(Tail(q)) = Members(q) \ {Head(q)} /\ NoRepeat(Tail(q))
  <2>1. \A i \in DOMAIN Tail(q) : /\ i + 1 \in DOMAIN q /\ i + 1 # 1
                                  /\ Tail(q)[i] = q[i + 1]
    BY <1>1
  <2>2. \A i \in DOMAIN q \ {1} : i - 1 \in DOMAIN Tail(q) /\ Tail(q)[i - 1] = q[i]
    BY <1>1
  <2>3. \A i \in DOMAIN q \ {1} : q[i] # q[1]
    BY <1>1, <1>3 DEF NoRepeat
  <2>4. Members(Tail(q)) = Members(q) \ {Head(q)}
    BY <1>1, <2>1, <2>2, <2>3 DEF Members
  <2>5. NoRepeat(Tail(q))
    BY <1>1, <1>3, <2>1 DEF NoRepeat
  <2> QED
    BY <2>4, <2>5
<1> QED
  BY <1>1, <1>2, <1>3

\* What is left of a list, and that nothing else changes.
LEMMA WithoutMembers ==
    ASSUME NEW S, NEW q \in Seq(S), NEW out
    PROVE  /\ Without(q, out) \in Seq(S)
           /\ Members(Without(q, out)) = Members(q) \ out
           /\ NoRepeat(q) => NoRepeat(Without(q, out))
<1> DEFINE Kept(g, n) ==
        g = [i \in 0..n |-> IF i = 0 THEN << >>
                            ELSE IF q[i] \in out THEN g[i - 1]
                            ELSE Append(g[i - 1], q[i])]
    T == {n \in Nat : \E g : Kept(g, n)}
    Upto(n) == {q[i] : i \in 1..n}
    Good(p, n) == /\ p \in Seq(S)
                  /\ Members(p) = Upto(n) \ out
                  /\ NoRepeat(q) => NoRepeat(p)
<1>0. Len(q) \in Nat /\ DOMAIN q = 1..Len(q) /\ \A i \in 1..Len(q) : q[i] \in S
  BY LenProperties, ElementOfSeq
<1>1. 0 \in T
  <2>1. Kept([i \in 0..0 |-> << >>], 0)
    OBVIOUS
  <2> QED
    BY <2>1
<1>2. ASSUME NEW n \in Nat, n \in T PROVE n + 1 \in T
  <2>1. PICK g : Kept(g, n)
    BY <1>2
  <2> DEFINE h == [i \in 0..(n + 1) |->
                     IF i = n + 1
                     THEN IF q[i] \in out THEN g[n] ELSE Append(g[n], q[i])
                     ELSE g[i]]
  <2>2. ASSUME NEW i \in 0..(n + 1)
        PROVE  h[i] = IF i = 0 THEN << >>
                      ELSE IF q[i] \in out THEN h[i - 1]
                      ELSE Append(h[i - 1], q[i])
    <3>1. CASE i = n + 1
      BY <3>1
    <3>2. CASE i # n + 1 /\ i # 0
      <4>1. i \in 0..n /\ i - 1 \in 0..n
        BY <3>2
      <4>2. g[i] = IF q[i] \in out THEN g[i - 1] ELSE Append(g[i - 1], q[i])
        BY <2>1, <3>2, <4>1
      <4> QED
        BY <3>2, <4>1, <4>2
    <3>3. CASE i = 0
      BY <2>1, <3>3
    <3> QED
      BY <3>1, <3>2, <3>3
  <2>3. Kept(h, n + 1)
    <3>1. h = [i \in 0..(n + 1) |-> h[i]]
      OBVIOUS
    <3> HIDE DEF h
    <3> QED
      BY <2>2, <3>1
  <2> HIDE DEF h, Kept
  <2> QED
    BY <2>3
<1>3. Len(q) \in T
  <2> HIDE DEF T
  <2> QED
    BY <1>0, <1>1, <1>2, EveryNumber
<1> DEFINE g == CHOOSE f : Kept(f, Len(q))
<1>4. Kept(g, Len(q))
  BY <1>3
<1>5. Without(q, out) = g[Len(q)]
  BY DEF Without
<1> HIDE DEF g
<1>6. ASSUME NEW i \in 0..Len(q)
      PROVE  g[i] = IF i = 0 THEN << >>
                    ELSE IF q[i] \in out THEN g[i - 1] ELSE Append(g[i - 1], q[i])
  BY <1>4
<1> DEFINE G == {n \in Nat : n <= Len(q) => Good(g[n], n)}
<1>7. 0 \in G
  <2>1. g[0] = << >>
    BY <1>0, <1>6
  <2>2. Good(<< >>, 0)
    BY DEF Members, NoRepeat
  <2> QED
    BY <2>1, <2>2
<1>8. ASSUME NEW n \in Nat, n \in G PROVE n + 1 \in G
  <2> SUFFICES ASSUME n + 1 <= Len(q) PROVE Good(g[n + 1], n + 1)
    OBVIOUS
  <2>1. Good(g[n], n) /\ n + 1 \in 0..Len(q) /\ n + 1 \in 1..Len(q)
    BY <1>0, <1>8
  <2>2. g[n + 1] = IF q[n + 1] \in out THEN g[n] ELSE Append(g[n], q[n + 1])
    BY <1>6, <2>1
  <2>3. q[n + 1] \in S
    BY <1>0, <2>1
  <2>4. 1..(n + 1) = 1..n \cup {n + 1}
    OBVIOUS
  <2>5. Upto(n + 1) = Upto(n) \cup {q[n + 1]}
    BY <2>4
  <2>6. NoRepeat(q) => q[n + 1] \notin Upto(n)
    BY <1>0, <2>1 DEF NoRepeat
  <2> HIDE DEF Upto
  <2>7. CASE q[n + 1] \in out
    BY <2>1, <2>2, <2>5, <2>7
  <2>8. CASE q[n + 1] \notin out
    BY <2>1, <2>2, <2>3, <2>5, <2>6, <2>8, AppendMembers
  <2> QED
    BY <2>7, <2>8
<1>9. Len(q) \in G
  <2> HIDE DEF G
  <2> QED
    BY <1>0, <1>7, <1>8, EveryNumber
<1>10. Good(g[Len(q)], Len(q)) /\ Upto(Len(q)) = Members(q)
  BY <1>0, <1>9 DEF Members
<1> QED
  BY <1>5, <1>10

----------------------------------------------------------------------------
(* The invariant *)

Held == {j \in Jobs : job[j].phase \in Holding}
Waiting == {j \in Jobs : job[j].phase = "slot"}

\* a job that ends hands its slot to the first that waits, and each waits
\* in one place of the queue only
SlotInv ==
    /\ slotQ \in Seq(Jobs) /\ NoRepeat(slotQ)
    /\ Members(slotQ) = Waiting
    /\ Cardinality(Held) <= FETCHES
    /\ slotQ # << >> => Cardinality(Held) = FETCHES

Out(j) == job[j].phase # "none"

\* what a call waits for is out; what is out for a tree, its call waits for;
\* a public lookup that is still asked for has its job
OutOK ==
    /\ \A c \in Calls :
          /\ Out(<<c, "tree">>) => call[c].on = <<c, "tree">>
          /\ call[c].on # None => Out(call[c].on)
          /\ call[c].pc \in {"tree", "other"} /\ call[c].got = NoRes => call[c].on # None
          /\ call[c].pc = "look" /\ call[c].got = NoRes => call[c].from # None
          /\ call[c].from = c /\ call[c].copy.key = NoKey => job[<<c, "look">>].phase = "ask"
    /\ \A f \in Folders : inFlight[f] # None => Out(inFlight[f])

\* a job that is out is for a tree, but a lookup that asks
JobOK(j, b) ==
    /\ b.phase # "none" => b.ignore \in Rules
    /\ b.phase # "none" /\ (j[2] = "tree" \/ b.phase # "ask") => b.commit \in Commits
    /\ b.under # 0 => b.phase # "none" /\ b.commit \in Commits

CallsTyped(cs) == /\ cs \in [Calls -> CallRows]
                  /\ \A c \in Calls : cs[c].pc # "idle" => cs[c].copy \in RowRows
JobsTyped(js)  == js \in [Jobs -> JobRows] /\ \A j \in Jobs : JobOK(j, js[j])

AnswersTyped == answers \in [Signers -> [by : Calls \cup {None}, res : Results]]

RefusedTyped == refused \subseteq [folder : Folders, caps : CapValues,
                                   signer : Signers, word : Words]

CacheTyped == /\ index \in Seq(Folders)
              /\ disk \subseteq Folders /\ IsFiniteSet(disk)
              /\ lost \subseteq Folders

RowsTyped == /\ row \in [Rows -> RowRows]
             /\ toStart \subseteq Rows /\ left \subseteq Rows

BoundsTyped == caps \in CapValues /\ closing \in BOOLEAN /\ moves \in 0..MaxMoves

FetchesTyped == /\ JobsTyped(job) /\ inFlight \in [Folders -> Jobs \cup {None}]
                /\ RefusedTyped

Typed == /\ RowsTyped /\ BoundsTyped /\ AnswersTyped /\ CallsTyped(call)
         /\ FetchesTyped /\ CacheTyped

ReposInv == OwnInv /\ Typed /\ SlotInv /\ OutOK

----------------------------------------------------------------------------
(* The slots *)

LEMMA HeldFinite ==
    /\ IsFiniteSet(Held) /\ Cardinality(Held) \in Nat
    /\ IsFiniteSet(Held)' /\ Cardinality(Held)' \in Nat
<1>1. IsFiniteSet({"look", "tree"})
  <2>1. IsFiniteSet({"look"}) /\ {"look", "tree"} = {"look"} \cup {"tree"}
    BY FS_Singleton
  <2> QED
    BY <2>1, FS_AddElement
<1>2. IsFiniteSet(Jobs)
  BY <1>1, FS_Product DEF Jobs
<1>3. Held \subseteq Jobs /\ Held' \subseteq Jobs
  BY DEF Held
<1> QED
  BY <1>2, <1>3, FS_Subset, FS_CardinalityType

\* no job takes a slot, lets one go or waits for one
LEMMA SlotsStay ==
    ASSUME SlotInv, slotQ' = slotQ,
           \A j \in Jobs : /\ job'[j].phase \in Holding <=> job[j].phase \in Holding
                           /\ job'[j].phase = "slot" <=> job[j].phase = "slot"
    PROVE  SlotInv'
<1>1. Held' = Held /\ Waiting' = Waiting
  BY DEF Held, Waiting
<1> QED
  BY <1>1 DEF SlotInv

LEMMA TakesSlots ==
    ASSUME SlotInv, OwnInv, NEW j \in Jobs, job[j].phase = "ask", NEW with,
           DOMAIN with = DOMAIN NoJob, Takes(j, with)
    PROVE  /\ SlotInv'
           /\ \E p \in {"proc", "slot"} : job' = [job EXCEPT ![j] = [with EXCEPT !.phase = p]]
           /\ \A x \in Jobs \ {j} : job'[x] = job[x]
           /\ job'[j].phase \in {"proc", "slot"}
<1>0. DOMAIN job = Jobs
  BY DEF OwnInv, FetchesOK
<1>1. ASSUME NEW p, job' = [job EXCEPT ![j] = [with EXCEPT !.phase = p]]
      PROVE  job'[j].phase = p /\ \A x \in Jobs \ {j} : job'[x] = job[x]
  BY <1>0, <1>1 DEF NoJob
<1>2. j \notin Held /\ j \notin Waiting
  BY DEF Held, Waiting, Holding
<1>3. CASE Cardinality(Held) < FETCHES
  <2>1. job' = [job EXCEPT ![j] = [with EXCEPT !.phase = "proc"]] /\ slotQ' = slotQ
    BY <1>3 DEF Takes, Held
  <2>2. job'[j].phase = "proc" /\ \A x \in Jobs \ {j} : job'[x] = job[x]
    BY <1>1, <2>1
  <2>3. Held' = Held \cup {j} /\ Waiting' = Waiting
    BY <1>2, <2>2 DEF Held, Waiting, Holding
  <2>4. Cardinality(Held') = Cardinality(Held) + 1
    BY <1>2, <2>3, HeldFinite, FS_AddElement
  <2>5. slotQ = << >>
    BY <1>3, HeldFinite DEF SlotInv
  <2>6. SlotInv'
    BY <1>3, <2>1, <2>3, <2>4, <2>5, HeldFinite DEF SlotInv
  <2> QED
    BY <2>1, <2>2, <2>6
<1>4. CASE ~(Cardinality(Held) < FETCHES)
  <2>1. /\ job' = [job EXCEPT ![j] = [with EXCEPT !.phase = "slot"]]
        /\ slotQ' = Append(slotQ, j)
    BY <1>4 DEF Takes, Held
  <2>2. job'[j].phase = "slot" /\ \A x \in Jobs \ {j} : job'[x] = job[x]
    BY <1>1, <2>1
  <2>3. Held' = Held /\ Waiting' = Waiting \cup {j}
    BY <1>2, <2>2 DEF Held, Waiting, Holding
  <2>4. Cardinality(Held) = FETCHES
    BY <1>4, HeldFinite DEF SlotInv
  <2>5. SlotInv'
    BY <1>2, <2>1, <2>3, <2>4, AppendMembers DEF SlotInv
  <2> QED
    BY <2>1, <2>2, <2>5
<1> QED
  BY <1>3, <1>4

\* what a job that ends makes of the jobs
LEMMA EndsPhases ==
    ASSUME SlotInv, OwnInv, NEW cs, NEW j \in Jobs, NEW res, Ends(cs, j, res)
    PROVE  /\ DOMAIN job' = Jobs /\ job'[j] = NoJob
           /\ \A x \in Jobs \ {j} :
                 \/ job'[x] = job[x]
                 \/ /\ job[x].phase = "slot"
                    /\ job'[x] = [job[x] EXCEPT !.phase = "proc"]
                    /\ job'[x].phase = "proc"
<1> DEFINE next == Served(j)
<1>1. job' = [x \in Jobs |-> IF x = j THEN NoJob
                             ELSE IF x = next THEN [job[x] EXCEPT !.phase = "proc"]
                             ELSE job[x]]
  BY Zenon DEF Ends
<1>2. next # None => next \in Waiting
  BY TailMembers DEF Served, SlotInv
<1>3. \A x \in Jobs : DOMAIN job[x] = DOMAIN NoJob
  BY DEF OwnInv, FetchesOK
<1> HIDE DEF next
<1>4. ASSUME NEW x \in Jobs, x # j, x = next
      PROVE  /\ job[x].phase = "slot"
             /\ job'[x] = [job[x] EXCEPT !.phase = "proc"]
             /\ job'[x].phase = "proc"
  <2>1. x # None
    OBVIOUS
  <2> QED
    BY <1>1, <1>2, <1>3, <1>4, <2>1 DEF Waiting, NoJob
<1>5. \A x \in Jobs : x # j /\ x # next => job'[x] = job[x]
  BY <1>1
<1> QED
  BY <1>1, <1>4, <1>5

LEMMA EndsSlots ==
    ASSUME SlotInv, OwnInv, NEW cs, NEW j \in Jobs, NEW res, Ends(cs, j, res)
    PROVE  SlotInv'
<1> DEFINE next == Served(j)
<1>1. /\ job' = [x \in Jobs |-> IF x = j THEN NoJob
                                ELSE IF x = next THEN [job[x] EXCEPT !.phase = "proc"]
                                ELSE job[x]]
      /\ slotQ' = IF next # None THEN Tail(slotQ) ELSE Without(slotQ, {j})
  BY Zenon DEF Ends
<1>2. \A x \in Jobs : DOMAIN job[x] = DOMAIN NoJob
  BY DEF OwnInv, FetchesOK
<1>3. \A x \in Jobs : job'[x].phase = IF x = j THEN "none"
                                      ELSE IF x = next THEN "proc" ELSE job[x].phase
  BY <1>1, <1>2 DEF NoJob
<1>4. CASE j \in Held /\ slotQ # << >>
  <2>1. next = Head(slotQ)
    BY <1>4 DEF Served, Held
  <2>2. /\ next \in Waiting /\ next \in Jobs /\ next # None /\ next # j
        /\ Tail(slotQ) \in Seq(Jobs) /\ NoRepeat(Tail(slotQ))
        /\ Members(Tail(slotQ)) = Waiting \ {next}
    BY <1>4, <2>1, TailMembers DEF SlotInv, Waiting, Held, Holding
  <2> HIDE DEF next
  <2>3. Held' = (Held \ {j}) \cup {next} /\ next \notin Held /\ Waiting' = Waiting \ {next}
    BY <1>3, <1>4, <2>2 DEF Held, Waiting, Holding
  <2>4. /\ IsFiniteSet(Held \ {j})
        /\ Cardinality(Held \ {j}) = Cardinality(Held) - 1
    BY <1>4, HeldFinite, FS_RemoveElement
  <2>5. Cardinality(Held') = Cardinality(Held \ {j}) + 1
    BY <2>3, <2>4, FS_AddElement
  <2> QED
    BY <1>1, <1>4, <2>2, <2>3, <2>4, <2>5, HeldFinite DEF SlotInv
<1>5. CASE ~(j \in Held /\ slotQ # << >>)
  <2>1. next = None
    BY <1>5 DEF Served, Held
  <2>2. None \notin Jobs
    OBVIOUS
  <2> HIDE DEF next
  <2>3. Held' = Held \ {j} /\ Waiting' = Waiting \ {j}
    BY <1>3, <2>1, <2>2 DEF Held, Waiting, Holding
  <2>4. /\ slotQ' \in Seq(Jobs) /\ NoRepeat(slotQ')
        /\ Members(slotQ') = Waiting \ {j}
    BY <1>1, <2>1, WithoutMembers DEF SlotInv
  <2>5. slotQ' # << >> => slotQ # << >>
    <3>1. SUFFICES ASSUME slotQ = << >> PROVE slotQ' = << >>
      OBVIOUS
    <3>2. Members(slotQ') = {}
      BY <2>4, <3>1 DEF SlotInv, Members
    <3>3. ASSUME NEW i \in DOMAIN slotQ' PROVE FALSE
      <4>1. slotQ'[i] \in Members(slotQ')
        BY DEF Members
      <4> QED
        BY <3>2, <4>1
    <3>4. DOMAIN slotQ' = 1..Len(slotQ') /\ Len(slotQ') \in Nat
      BY <2>4, LenProperties
    <3>5. Len(slotQ') = 0
      BY <3>3, <3>4
    <3> QED
      BY <2>4, <3>5, EmptySeq
  <2>6. CASE j \in Held
    <3>1. Cardinality(Held') = Cardinality(Held) - 1
      BY <2>3, <2>6, HeldFinite, FS_RemoveElement
    <3> QED
      BY <1>5, <2>3, <2>4, <2>5, <2>6, <3>1, HeldFinite DEF SlotInv
  <2>7. CASE j \notin Held
    <3>1. Held' = Held
      BY <2>3, <2>7
    <3> QED
      BY <2>3, <2>4, <2>5, <3>1 DEF SlotInv
  <2> QED
    BY <2>6, <2>7
<1> QED
  BY <1>4, <1>5

----------------------------------------------------------------------------
(* What is out, and who waits for it *)

\* a call that waited for nothing goes on as cl
LEMMA GoesOnOut ==
    ASSUME OwnInv, OutOK, NEW c \in Calls, Heard(c), NEW cl, cl.from = None,
           cl.on # None => Out(cl.on),
           cl.pc \in {"tree", "other"} /\ cl.got = NoRes => cl.on # None,
           cl.pc # "look",
           call' = [call EXCEPT ![c] = cl], UNCHANGED <<job, inFlight>>
    PROVE  OutOK'
<1>1. call'[c] = cl /\ \A d \in Calls \ {c} : call'[d] = call[d]
  BY DEF OwnInv, CallsOK
<1>2. ~Out(<<c, "tree">>)
  BY TreeJobs DEF OutOK, Heard
<1>3. ASSUME NEW d \in Calls
      PROVE  /\ Out(<<d, "tree">>) => call'[d].on = <<d, "tree">>
             /\ call'[d].on # None => Out(call'[d].on)
             /\ call'[d].pc \in {"tree", "other"} /\ call'[d].got = NoRes => call'[d].on # None
             /\ call'[d].pc = "look" /\ call'[d].got = NoRes => call'[d].from # None
             /\ call'[d].from = d /\ call'[d].copy.key = NoKey
                  => job[<<d, "look">>].phase = "ask"
  BY <1>1, <1>2 DEF OutOK
<1> QED
  BY <1>3 DEF OutOK, Out

\* with a fetch of its own
LEMMA GoesFetchingOut ==
    ASSUME OwnInv, SlotInv, OutOK, NEW c \in Calls, Heard(c), NEW cl, cl.from = None,
           cl.on = <<c, "tree">>, cl.pc = "tree", NEW jb, jb.phase = "ask",
           NEW f, call' = [call EXCEPT ![c] = cl],
           job' = [job EXCEPT ![<<c, "tree">>] = jb],
           inFlight' = [inFlight EXCEPT ![f] = <<c, "tree">>], slotQ' = slotQ
    PROVE  SlotInv' /\ OutOK'
<1> DEFINE j == <<c, "tree">>
<1>0. j \in Jobs /\ j # None /\ DOMAIN job = Jobs /\ \A d \in Calls : <<d, "look">> # j
  BY TreeJobs DEF OwnInv, FetchesOK
<1>1. call'[c] = cl /\ \A d \in Calls \ {c} : call'[d] = call[d]
  BY DEF OwnInv, CallsOK
<1>2. ~Out(j)
  BY TreeJobs DEF OutOK, Heard
<1>3. job'[j].phase = "ask" /\ \A x \in Jobs \ {j} : job'[x] = job[x]
  BY <1>0
<1>4. SlotInv'
  BY <1>2, <1>3, SlotsStay DEF Out, Holding
<1>5. \A x \in Jobs : Out(x) => Out(x)'
  BY <1>3 DEF Out
<1>6. ASSUME NEW d \in Calls
      PROVE  /\ Out(<<d, "tree">>)' => call'[d].on = <<d, "tree">>
             /\ call'[d].on # None => Out(call[d].on)'
             /\ call'[d].pc \in {"tree", "other"} /\ call'[d].got = NoRes => call'[d].on # None
             /\ call'[d].pc = "look" /\ call'[d].got = NoRes => call'[d].from # None
             /\ call'[d].from = d /\ call'[d].copy.key = NoKey
                  => job'[<<d, "look">>].phase = "ask"
  <2>1. CASE d = c
    BY <1>0, <1>1, <1>3, <2>1 DEF Out
  <2>2. CASE d # c
    <3>1. <<d, "tree">> \in Jobs \ {j} /\ <<d, "look">> \in Jobs \ {j}
      BY <2>2, TreeJobs
    <3>2. call'[d] = call[d] /\ call[d].on \in Jobs \cup {None}
      BY <1>1, <2>2 DEF OwnInv, CallsOK, CallOK
    <3>3. job'[<<d, "tree">>] = job[<<d, "tree">>] /\ job'[<<d, "look">>] = job[<<d, "look">>]
      BY <1>3, <3>1
    <3>4. call[d].on # None => Out(call[d].on)'
      BY <1>5, <3>2 DEF OutOK
    <3> QED
      BY <3>2, <3>3, <3>4 DEF OutOK, Out
  <2> QED
    BY <2>1, <2>2
<1>7. \A g \in Folders : inFlight'[g] # None => Out(inFlight[g])'
  <2> SUFFICES ASSUME NEW g \in Folders, inFlight'[g] # None PROVE Out(inFlight[g])'
    OBVIOUS
  <2>1. inFlight'[g] = j \/ inFlight'[g] = inFlight[g]
    BY DEF OwnInv, FetchesOK
  <2>2. inFlight[g] \in Jobs \cup {None}
    BY DEF OwnInv, FetchesOK
  <2> QED
    BY <1>3, <1>5, <2>1, <2>2 DEF OutOK, Out
<1> QED
  BY <1>4, <1>6, <1>7 DEF OutOK

\* a call hears nothing new but what ends its wait; a job goes on, without a
\* lookup that asked
LEMMA OutStays ==
    ASSUME OwnInv, OutOK, DOMAIN job' = Jobs,
           \A x \in Jobs : Out(x)' <=> Out(x),
           \A d \in Calls :
              /\ call'[d].pc = call[d].pc /\ call'[d].copy = call[d].copy
              /\ call'[d].on = call[d].on
              /\ call'[d].from = call[d].from \/ call'[d].from = None
              /\ call'[d].got = NoRes => call[d].got = NoRes /\ call'[d].from = call[d].from
              /\ call'[d].from = d /\ job[<<d, "look">>].phase = "ask"
                    => job'[<<d, "look">>].phase = "ask",
           \A f \in Folders : \/ inFlight'[f] = inFlight[f]
                              \/ inFlight'[f] \in Jobs /\ Out(inFlight[f])'
    PROVE  OutOK'
<1>1. ASSUME NEW d \in Calls
      PROVE  /\ Out(<<d, "tree">>)' => call'[d].on = <<d, "tree">>
             /\ call'[d].on # None => Out(call[d].on)'
             /\ call'[d].pc \in {"tree", "other"} /\ call'[d].got = NoRes => call'[d].on # None
             /\ call'[d].pc = "look" /\ call'[d].got = NoRes => call'[d].from # None
             /\ call'[d].from = d /\ call'[d].copy.key = NoKey
                  => job'[<<d, "look">>].phase = "ask"
  <2>1. d # None /\ <<d, "tree">> \in Jobs /\ call[d].on \in Jobs \cup {None}
    BY TreeJobs DEF OwnInv, CallsOK, CallOK
  <2>2. Out(<<d, "tree">>)' => call'[d].on = <<d, "tree">>
    BY <2>1 DEF OutOK
  <2>3. call'[d].on # None => Out(call[d].on)'
    <3>1. SUFFICES ASSUME call'[d].on # None PROVE Out(call[d].on)'
      OBVIOUS
    <3>2. call[d].on \in Jobs /\ Out(call[d].on) /\ call'[d].on = call[d].on
      BY <2>1, <3>1 DEF OutOK
    <3> QED
      BY <3>2 DEF Out
  <2> QED
    BY <2>1, <2>2, <2>3 DEF OutOK
<1>2. \A f \in Folders : inFlight'[f] # None => Out(inFlight[f])'
  <2> SUFFICES ASSUME NEW f \in Folders, inFlight'[f] # None PROVE Out(inFlight[f])'
    OBVIOUS
  <2>1. CASE inFlight'[f] = inFlight[f]
    <3>1. inFlight[f] \in Jobs /\ Out(inFlight[f])
      BY <2>1 DEF OwnInv, FetchesOK, OutOK
    <3> QED
      BY <2>1, <3>1 DEF Out
  <2>2. CASE inFlight'[f] \in Jobs /\ Out(inFlight[f])'
    BY <2>2
  <2> QED
    BY <2>1, <2>2
<1> QED
  BY <1>1, <1>2 DEF OutOK

\* a job ends: those who wait for it hear so
LEMMA EndsOut ==
    ASSUME OwnInv, SlotInv, OutOK, NEW cs, CallsOK(cs),
           NEW j \in Jobs, NEW res, res # NoRes, Ends(cs, j, res),
           \A d \in Calls :
              /\ cs[d].pc = call[d].pc /\ cs[d].copy = call[d].copy
              /\ cs[d].on = call[d].on
              /\ cs[d].from = call[d].from \/ cs[d].from = None
              /\ cs[d].got = NoRes => call[d].got = NoRes /\ cs[d].from = call[d].from
              /\ cs[d].from = d => j # <<d, "look">> \/ job[j].phase # "ask"
    PROVE  OutOK'
<1>1. /\ job'[j] = NoJob
      /\ \A x \in Jobs \ {j} : /\ Out(x)' <=> Out(x)
                               /\ job'[x].phase = "ask" <=> job[x].phase = "ask"
  BY EndsPhases DEF Out
<1>2. /\ DOMAIN call' = Calls
      /\ \A d \in Calls : call'[d] = IF cs[d].on = j
                                     THEN [cs[d] EXCEPT !.got = res, !.on = None]
                                     ELSE cs[d]
  BY DEF Ends, Delivers
<1>3. ASSUME NEW d \in Calls
      PROVE  /\ call'[d].pc = call[d].pc /\ call'[d].copy = call[d].copy
             /\ call'[d].from = cs[d].from
             /\ call[d].on = j => call'[d].on = None /\ call'[d].got = res
             /\ call[d].on # j => call'[d].on = call[d].on /\ call'[d].got = cs[d].got
  <2> DEFINE told == [cs[d] EXCEPT !.got = res, !.on = None]
  <2>1. DOMAIN cs[d] = DOMAIN Idle
    BY DEF CallsOK, CallOK
  <2>2. /\ told.pc = cs[d].pc /\ told.copy = cs[d].copy /\ told.from = cs[d].from
        /\ told.on = None /\ told.got = res
    BY <2>1 DEF Idle
  <2>3. call'[d] = IF cs[d].on = j THEN told ELSE cs[d]
    BY <1>2
  <2> HIDE DEF told
  <2> QED
    BY <2>2, <2>3
<1>4. ~Out(j)'
  BY <1>1 DEF Out, NoJob
<1>5. ASSUME NEW d \in Calls
      PROVE  /\ Out(<<d, "tree">>)' => call'[d].on = <<d, "tree">>
             /\ call'[d].on # None => Out(call[d].on)'
             /\ call'[d].pc \in {"tree", "other"} /\ call'[d].got = NoRes => call'[d].on # None
             /\ call'[d].pc = "look" /\ call'[d].got = NoRes => call'[d].from # None
             /\ call'[d].from = d /\ call'[d].copy.key = NoKey
                  => job'[<<d, "look">>].phase = "ask"
  <2>1. /\ d # None /\ <<d, "tree">> \in Jobs /\ <<d, "look">> \in Jobs
        /\ call[d].on \in Jobs \cup {None} /\ j # None
    BY TreeJobs DEF OwnInv, CallsOK, CallOK
  <2>2. Out(<<d, "tree">>)' => call'[d].on = <<d, "tree">>
    <3>1. SUFFICES ASSUME Out(<<d, "tree">>)' PROVE call'[d].on = <<d, "tree">>
      OBVIOUS
    <3>2. <<d, "tree">> # j
      BY <1>4, <3>1
    <3>3. Out(<<d, "tree">>)
      BY <1>1, <2>1, <3>1, <3>2
    <3>4. call[d].on = <<d, "tree">>
      BY <3>3 DEF OutOK
    <3> QED
      BY <1>3, <3>2, <3>4
  <2>3. call'[d].on # None => Out(call[d].on)'
    <3>1. SUFFICES ASSUME call'[d].on # None PROVE Out(call[d].on)'
      OBVIOUS
    <3>2. /\ call'[d].on = call[d].on /\ call[d].on \in Jobs \ {j}
          /\ Out(call[d].on)
      BY <1>3, <2>1, <3>1 DEF OutOK
    <3> QED
      BY <1>1, <3>2 DEF Out
  <2>4. call'[d].pc \in {"tree", "other"} /\ call'[d].got = NoRes => call'[d].on # None
    BY <1>3, <2>1 DEF OutOK
  <2>5. call'[d].pc = "look" /\ call'[d].got = NoRes => call'[d].from # None
    BY <1>3, <2>1 DEF OutOK
  <2>6. call'[d].from = d /\ call'[d].copy.key = NoKey => job'[<<d, "look">>].phase = "ask"
    <3>1. SUFFICES ASSUME call'[d].from = d, call'[d].copy.key = NoKey
                   PROVE  job'[<<d, "look">>].phase = "ask"
      OBVIOUS
    <3>2. cs[d].from = d /\ call[d].from = d /\ call[d].copy.key = NoKey
      BY <1>3, <2>1, <3>1
    <3>3. job[<<d, "look">>].phase = "ask"
      BY <3>2 DEF OutOK
    <3>4. j # <<d, "look">>
      BY <3>2, <3>3
    <3> QED
      BY <1>1, <2>1, <3>3, <3>4
  <2> QED
    BY <2>2, <2>3, <2>4, <2>5, <2>6
<1>6. ASSUME NEW f \in Folders, inFlight'[f] # None
      PROVE  Out(inFlight[f])'
  <2>1. inFlight'[f] = inFlight[f] /\ inFlight[f] # j
    BY <1>6 DEF Ends
  <2>2. inFlight[f] \in Jobs /\ Out(inFlight[f])
    BY <1>6, <2>1 DEF OwnInv, FetchesOK, OutOK
  <2> QED
    BY <1>1, <2>1, <2>2 DEF Out
<1> QED
  BY <1>5, <1>6 DEF OutOK

----------------------------------------------------------------------------
(* A call begins, waits and hears *)

LEMMA BeginsOut ==
    ASSUME OwnInv, SlotInv, OutOK, AnswersTyped, NEW c \in Calls, Free(c),
           NEW r \in Rows, NEW pin, NEW gone, NEW ans,
           \A s \in Signers : ans[s] = answers[s] \/ ans[s] = NoAnswer,
           Begins(c, r, pin, gone, ans), UNCHANGED <<inFlight, slotQ>>
    PROVE  SlotInv' /\ OutOK'
<1> DEFINE cp  == row[r]
           key  == cp.key
           hit  == ans[cp.key]
           new  == hit = NoAnswer
           dead == new /\ closing /\ cp.key = NoKey
           res  == IF dead THEN Bad("failed", NoKey) ELSE hit.res
           by   == IF dead THEN None ELSE IF new THEN c ELSE hit.by
           cl   == [Idle EXCEPT !.pc = "look", !.repo = r, !.copy = cp, !.pin = pin,
                                !.gone = gone, !.from = by, !.got = res]
           jb   == [NoJob EXCEPT !.phase = "ask", !.ignore = cp.ignore, !.caps = caps]
           j    == <<c, "look">>
<1>1. /\ call' = [call EXCEPT ![c] = cl]
      /\ job' = IF new /\ ~dead /\ cp.key = NoKey THEN [job EXCEPT ![j] = jb] ELSE job
  BY Zenon DEF Begins
<1>2. key \in Signers /\ j \in Jobs /\ DOMAIN job = Jobs
  BY TreeJobs DEF OwnInv, RowsOK, RowOK, FetchesOK
<1>3. call[c] = Idle /\ job[j] = NoJob /\ job[<<c, "tree">>] = NoJob
  BY DEF Free
<1>4. /\ cl.pc = "look" /\ cl.copy = cp /\ cl.from = by /\ cl.got = res /\ cl.on = None
      /\ jb.phase = "ask"
  BY DEF Idle, NoJob
<1>5. ~new => by # c /\ (res = NoRes => by # None)
  <2> SUFFICES ASSUME ~new PROVE by # c /\ (res = NoRes => by # None)
    OBVIOUS
  <2>1. /\ hit = answers[key] /\ by = hit.by /\ res = hit.res
        /\ hit \in [by : Calls \cup {None}, res : Results]
    BY <1>2 DEF AnswersTyped
  <2>2. by # c
    BY <1>2, <1>3, <2>1 DEF OwnInv, LooksOK, Asks, Idle
  <2>3. res = NoRes => by # None
    BY <2>1 DEF NoAnswer
  <2> QED
    BY <2>2, <2>3
<1>6. dead => res # NoRes
  BY DEF Bad, NoRes
<1>7. by = c => new /\ ~dead
  BY <1>5
<1>8. res = NoRes => by # None
  BY <1>5, <1>6
<1> DEFINE asks == new /\ ~dead /\ cp.key = NoKey
<1>9. /\ asks => job' = [job EXCEPT ![j] = jb]
      /\ ~asks => job' = job
      /\ by = c /\ key = NoKey => asks
  BY <1>1, <1>7
<1> HIDE DEF cl, jb, by, res, new, dead, hit, asks
<1>10. /\ \A x \in Jobs \ {j} : job'[x] = job[x]
       /\ asks => job'[j].phase = "ask"
       /\ ~asks => job'[j] = job[j]
       /\ DOMAIN job' = Jobs
  BY <1>2, <1>4, <1>9
<1>11. job[j].phase = "none" /\ job'[j].phase \in {"none", "ask"}
  BY <1>3, <1>10 DEF NoJob
<1>12. SlotInv'
  BY <1>10, <1>11, SlotsStay DEF Holding
<1>13. \A x \in Jobs : Out(x) => Out(x)'
  BY <1>10, <1>11 DEF Out
<1>14. call'[c] = cl /\ \A d \in Calls \ {c} : call'[d] = call[d]
  BY <1>1 DEF OwnInv, CallsOK
<1>15. ASSUME NEW d \in Calls
       PROVE  /\ Out(<<d, "tree">>)' => call'[d].on = <<d, "tree">>
              /\ call'[d].on # None => Out(call[d].on)'
              /\ call'[d].pc \in {"tree", "other"} /\ call'[d].got = NoRes => call'[d].on # None
              /\ call'[d].pc = "look" /\ call'[d].got = NoRes => call'[d].from # None
              /\ call'[d].from = d /\ call'[d].copy.key = NoKey
                   => job'[<<d, "look">>].phase = "ask"
  <2>0. /\ <<d, "tree">> \in Jobs \ {j} /\ <<d, "look">> \in Jobs
        /\ call[d].on \in Jobs \cup {None}
    BY TreeJobs DEF OwnInv, CallsOK, CallOK
  <2>1. CASE d = c
    <3>1. call'[d] = cl /\ job'[<<d, "tree">>] = NoJob
      BY <1>3, <1>10, <1>14, <2>0, <2>1
    <3>2. ~Out(<<d, "tree">>)'
      BY <3>1 DEF Out, NoJob
    <3> QED
      BY <1>4, <1>8, <1>9, <1>10, <2>1, <3>1, <3>2
  <2>2. CASE d # c
    <3>1. <<d, "look">> # j
      BY <2>2
    <3>2. /\ call'[d] = call[d] /\ job'[<<d, "tree">>] = job[<<d, "tree">>]
          /\ job'[<<d, "look">>] = job[<<d, "look">>]
      BY <1>10, <1>14, <2>0, <2>2, <3>1
    <3>3. call'[d].on # None => Out(call[d].on)'
      <4>1. SUFFICES ASSUME call'[d].on # None PROVE Out(call[d].on)'
        OBVIOUS
      <4>2. call[d].on \in Jobs /\ Out(call[d].on) /\ call'[d].on = call[d].on
        BY <2>0, <3>2, <4>1 DEF OutOK
      <4> QED
        BY <1>13, <4>2 DEF Out
    <3> QED
      BY <3>2, <3>3 DEF OutOK, Out
  <2> QED
    BY <2>1, <2>2
<1>16. \A f \in Folders : inFlight'[f] # None => Out(inFlight[f])'
  <2> SUFFICES ASSUME NEW f \in Folders, inFlight'[f] # None PROVE Out(inFlight[f])'
    OBVIOUS
  <2>1. inFlight[f] \in Jobs /\ Out(inFlight[f])
    BY DEF OwnInv, FetchesOK, OutOK
  <2> QED
    BY <1>13, <2>1 DEF Out
<1> QED
  BY <1>12, <1>15, <1>16 DEF OutOK

\* byCommit() of a call that waits for nothing
LEMMA ByCommitOut ==
    ASSUME OwnInv, SlotInv, OutOK, RefusedTyped, NEW c \in Calls, Heard(c),
           NEW cl, Going(cl), NEW joined \in BOOLEAN, ByCommit(c, cl, joined),
           slotQ' = slotQ
    PROVE  SlotInv' /\ OutOK'
<1> DEFINE f == TreeOf(cl)
           j == inFlight[f]
           On(pc, x) == [cl EXCEPT !.pc = pc, !.on = x]
           Told(res) == [cl EXCEPT !.pc = "tree", !.got = res]
<1>1. f \in Folders /\ (j # None => Out(j))
  BY DEF OutOK, Going, CopyOK, TreeOf, Folders
<1>2. ASSUME NEW pc, NEW x
      PROVE  On(pc, x).from = None /\ On(pc, x).on = x /\ On(pc, x).pc = pc
  BY DEF Going, Idle
<1>3. ASSUME NEW res
      PROVE  /\ Told(res).from = None /\ Told(res).on = None
             /\ Told(res).pc = "tree" /\ Told(res).got = res
  BY DEF Going, Idle
<1>4. UNCHANGED job => SlotInv'
  BY SlotsStay
<1>5. ASSUME NEW pc \in {"tree", "other"}, j # None,
             call' = [call EXCEPT ![c] = On(pc, j)], UNCHANGED <<job, inFlight>>
      PROVE  SlotInv' /\ OutOK'
  <2> DEFINE dl == On(pc, j)
  <2>1. dl.from = None /\ dl.on = j /\ dl.pc = pc
    BY <1>2
  <2> HIDE DEF dl, j
  <2>2. OutOK'
    BY <1>1, <1>5, <2>1, GoesOnOut DEF dl, j
  <2> QED
    BY <1>4, <1>5, <2>2
<1>6. ASSUME NEW res, res # NoRes, call' = [call EXCEPT ![c] = Told(res)],
             UNCHANGED <<job, inFlight>>
      PROVE  SlotInv' /\ OutOK'
  <2> HIDE DEF Told
  <2>1. OutOK'
    BY <1>3, <1>6, GoesOnOut
  <2> QED
    BY <1>4, <1>6, <2>1
<1>7. CASE Joins(c, cl)
  BY <1>5, <1>7 DEF Joins
<1>8. CASE WaitsOnce(c, cl, joined)
  BY <1>5, <1>8 DEF WaitsOnce
<1>9. CASE OnItsOwn(c, cl, joined)
  <2> DEFINE jb == [NoJob EXCEPT !.phase = "ask", !.commit = cl.want,
                                 !.ignore = cl.copy.ignore, !.signer = cl.copy.key,
                                 !.caps = caps, !.under = caps]
  <2>1. ASSUME NEW x \in Refusals(f, cl.copy.key),
               call' = [call EXCEPT ![c] = Told(Bad(x.word, x.signer))],
               UNCHANGED <<job, inFlight>>
        PROVE  SlotInv' /\ OutOK'
    <3>1. x.word \in Words
      BY DEF Refusals, RefusedTyped
    <3>2. Bad(x.word, x.signer) # NoRes
      BY <3>1 DEF Bad, NoRes, Words
    <3> QED
      BY <1>6, <2>1, <3>2
  <2>2. CASE /\ call' = [call EXCEPT ![c] = Told(Bad("failed", cl.copy.key))]
             /\ UNCHANGED <<job, inFlight>>
    <3>1. Bad("failed", cl.copy.key) # NoRes
      BY DEF Bad, NoRes
    <3> QED
      BY <1>6, <2>2, <3>1
  <2>3. CASE /\ job' = [job EXCEPT ![<<c, "tree">>] = jb]
             /\ inFlight' = [inFlight EXCEPT ![f] = <<c, "tree">>]
             /\ call' = [call EXCEPT ![c] = On("tree", <<c, "tree">>)]
    <3> DEFINE dl == On("tree", <<c, "tree">>)
    <3>1. dl.from = None /\ dl.on = <<c, "tree">> /\ dl.pc = "tree" /\ jb.phase = "ask"
      BY <1>2 DEF NoJob
    <3> HIDE DEF dl, jb, f
    <3>2. call' = [call EXCEPT ![c] = dl]
      BY <2>3 DEF dl
    <3> QED
      BY <2>3, <3>1, <3>2, GoesFetchingOut
  <2> QED
    BY <1>9, <2>1, <2>2, <2>3 DEF OnItsOwn
<1> QED
  BY <1>7, <1>8, <1>9 DEF ByCommit

LEMMA FailsOut ==
    ASSUME OwnInv, SlotInv, OutOK, NEW c \in Calls, Heard(c), NEW word, NEW of,
           Fails(c, word, of), slotQ' = slotQ
    PROVE  SlotInv' /\ OutOK'
<1>1. Idle.from = None /\ Idle.on = None /\ Idle.pc = "idle"
  BY DEF Idle
<1>2. call' = [call EXCEPT ![c] = Idle] /\ UNCHANGED <<job, inFlight>>
  BY DEF Fails
<1> QED
  BY <1>1, <1>2, GoesOnOut, SlotsStay

LEMMA AttemptOut ==
    ASSUME OwnInv, SlotInv, OutOK, RefusedTyped, NEW c \in Calls, Heard(c),
           NEW cl, Going(cl), Attempt(c, cl), slotQ' = slotQ
    PROVE  SlotInv' /\ OutOK'
<1>1. CASE /\ call' = [call EXCEPT ![c] =
                         IF cl.gone THEN Idle ELSE [cl EXCEPT !.pc = "held"]]
           /\ UNCHANGED <<job, inFlight>>
  <2> DEFINE dl == IF cl.gone THEN Idle ELSE [cl EXCEPT !.pc = "held"]
  <2>1. dl.from = None /\ dl.on = None /\ dl.pc \in {"idle", "held"}
    BY DEF Idle, Going
  <2>2. call' = [call EXCEPT ![c] = dl]
    BY <1>1
  <2> HIDE DEF dl
  <2> QED
    BY <1>1, <2>1, <2>2, GoesOnOut, SlotsStay
<1>2. CASE ByCommit(c, [cl EXCEPT !.copy = MarkedCopy(cl)], FALSE)
  <2> DEFINE dl == [cl EXCEPT !.copy = MarkedCopy(cl)]
  <2>1. /\ DOMAIN MarkedCopy(cl) = RowFields /\ MarkedCopy(cl).key = cl.copy.key
        /\ MarkedCopy(cl).ignore = cl.copy.ignore
    BY MarkedOK DEF OwnInv, Going
  <2>2. Going(dl)
    BY <2>1 DEF Going, CopyOK, Idle
  <2> HIDE DEF dl
  <2> QED
    BY <1>2, <2>2, ByCommitOut DEF dl
<1> QED
  BY <1>1, <1>2 DEF Attempt

----------------------------------------------------------------------------
(* The slots and the waits, step by step *)

LEMMA SameOut ==
    ASSUME SlotInv, OutOK, UNCHANGED <<call, job, inFlight, slotQ>>
    PROVE  SlotInv' /\ OutOK'
  BY DEF SlotInv, OutOK, Out, Held, Waiting

LEMMA StepOut ==
    ASSUME OwnInv, SlotInv, OutOK, AnswersTyped, RefusedTyped, Step
    PROVE  SlotInv' /\ OutOK'
<1>1. ASSUME NEW r \in Rows, NEW c \in Calls, Refresh(r, c)
      PROVE  SlotInv' /\ OutOK'
  <2> DEFINE ans == [answers EXCEPT ![row[r].key] = NoAnswer]
  <2>0. UNCHANGED <<inFlight, slotQ>>
    BY <1>1 DEF Refresh
  <2>1. CASE Free(c) /\ Begins(c, r, None, TRUE, ans)
    <3>1. \A s \in Signers : ans[s] = answers[s] \/ ans[s] = NoAnswer
      BY DEF OwnInv, LooksOK
    <3> HIDE DEF ans
    <3> QED
      BY <2>0, <2>1, <3>1, BeginsOut
  <2>2. CASE UNCHANGED <<call, job>>
    BY <2>0, <2>2, SameOut
  <2> QED
    BY <1>1, <2>1, <2>2 DEF Refresh
<1>2. ASSUME NEW c \in Calls, Looked(c)
      PROVE  SlotInv' /\ OutOK'
  <2> DEFINE res == call[c].got
             pin == call[c].pin
             to  == IF pin # None /\ Cached(<<pin, call[c].copy.ignore>>)
                    THEN pin ELSE res.commit
             cl  == [call[c] EXCEPT !.got = NoRes, !.commit = res.commit,
                                    !.of = res.of, !.want = to]
  <2>1. /\ call[c].pc = "look" /\ res # NoRes /\ slotQ' = slotQ
        /\ CallOK(call[c])
    BY <1>2 DEF Looked, OwnInv, CallsOK
  <2>2. Heard(c)
    BY <2>1 DEF Heard, CallOK
  <2>3. ASSUME res.word = "ok"
        PROVE  Going(cl)
    <3>1. res.commit \in Commits /\ res.of = call[c].copy.key /\ to \in Commits
      BY <2>1, <2>3 DEF CallOK, AnswerOK
    <3> HIDE DEF to
    <3> QED
      BY <2>1, <2>2, <3>1 DEF Going, CallOK, CopyOK, Heard, Idle
  <2> HIDE DEF cl
  <2> QED
    BY <1>2, <2>1, <2>2, <2>3, FailsOut, AttemptOut DEF Looked, cl
<1>3. ASSUME NEW c \in Calls, Answered(c)
      PROVE  SlotInv' /\ OutOK'
  <2> DEFINE cl == [call[c] EXCEPT !.got = NoRes]
  <2>1. /\ call[c].pc \in {"tree", "other"} /\ call[c].got # NoRes
        /\ slotQ' = slotQ /\ CallOK(call[c])
    BY <1>3 DEF Answered, OwnInv, CallsOK
  <2>2. Heard(c) /\ Going(cl) /\ Going([cl EXCEPT !.tries = 1])
    BY <2>1 DEF Going, CallOK, CopyOK, Heard, Idle
  <2> HIDE DEF cl
  <2>3. CASE Attempt(c, [cl EXCEPT !.tries = 1])
    BY <2>1, <2>2, <2>3, AttemptOut
  <2>4. CASE ByCommit(c, cl, TRUE)
    BY <2>1, <2>2, <2>4, ByCommitOut
  <2>5. ASSUME NEW word, NEW of, Fails(c, word, of)
        PROVE  SlotInv' /\ OutOK'
    BY <2>1, <2>2, <2>5, FailsOut
  <2> QED
    BY <1>3, <2>3, <2>4, <2>5 DEF Answered, cl
<1> QED
  BY <1>1, <1>2, <1>3 DEF Step

LEMMA TurnOut ==
    ASSUME OwnInv, SlotInv, OutOK, AnswersTyped, Turn
    PROVE  SlotInv' /\ OutOK'
<1>1. ASSUME NEW c \in Calls, NEW r \in Rows, NEW pin, Prepare(c, r, pin)
      PROVE  SlotInv' /\ OutOK'
  <2>1. /\ Free(c) /\ Begins(c, r, pin, FALSE, answers)
        /\ UNCHANGED <<inFlight, slotQ>>
    BY <1>1 DEF Prepare
  <2> QED
    BY <2>1, BeginsOut
<1>2. ASSUME NEW c \in Calls, WaitEnds(c)
      PROVE  SlotInv' /\ OutOK'
  <2>1. /\ call' = [call EXCEPT ![c].gone = TRUE]
        /\ UNCHANGED <<job, inFlight, slotQ>>
    BY <1>2 DEF WaitEnds
  <2>2. \A d \in Calls :
          /\ call'[d].pc = call[d].pc /\ call'[d].copy = call[d].copy
          /\ call'[d].on = call[d].on /\ call'[d].from = call[d].from
          /\ call'[d].got = call[d].got
    BY <2>1 DEF OwnInv, CallsOK, CallOK, Idle
  <2>3. OutOK'
    BY <2>1, <2>2 DEF OutOK, Out
  <2> QED
    BY <2>1, <2>3, SlotsStay
<1>3. ASSUME NEW c \in Calls, Release(c)
      PROVE  SlotInv' /\ OutOK'
  <2>1. /\ call[c].pc = "held" /\ call' = [call EXCEPT ![c] = Idle]
        /\ UNCHANGED <<job, inFlight, slotQ>>
    BY <1>3 DEF Release
  <2>2. Heard(c)
    BY <2>1 DEF Heard, OwnInv, CallsOK, CallOK
  <2>3. Idle.from = None /\ Idle.on = None /\ Idle.pc = "idle"
    BY DEF Idle
  <2> QED
    BY <2>1, <2>2, <2>3, GoesOnOut, SlotsStay
<1> QED
  BY <1>1, <1>2, <1>3 DEF Turn

\* the calls that wait for the lookup of c hear, and no other
LEMMA HeardFields ==
    ASSUME OwnInv, NEW c \in Calls, NEW res, res # NoRes, call[c].from = c
    PROVE  LET cs == LookupHeard(c, res)
           IN  \A d \in Calls :
                 /\ cs[d].pc = call[d].pc /\ cs[d].copy = call[d].copy
                 /\ cs[d].on = call[d].on
                 /\ cs[d].from = call[d].from \/ cs[d].from = None
                 /\ cs[d].got = NoRes => call[d].got = NoRes /\ cs[d].from = call[d].from
                 /\ cs[d].from = d => d # c
<1>1. ASSUME NEW d \in Calls
      PROVE  /\ DOMAIN call[d] = DOMAIN Idle
             /\ call[d].from # None => call[d].pc = "look"
  BY DEF OwnInv, CallsOK, CallOK
<1> QED
  BY <1>1 DEF LookupHeard, Idle

LEMMA LookupsOut ==
    ASSUME OwnInv, SlotInv, OutOK, Lookups
    PROVE  SlotInv' /\ OutOK'
<1>0. ASSUME NEW m, NEW s PROVE Says(m, s) # NoRes /\ Ok(m, s) # NoRes
  BY DEF Says, Ok, Bad, NoRes
<1>1. ASSUME NEW c \in Calls, job[<<c, "look">>].phase = "ask"
      PROVE  /\ call[c].from = c /\ call[c].copy.key = NoKey
             /\ <<c, "look">> \in Jobs
  BY <1>1, TreeJobs DEF OwnInv, LooksOK, Asks
<1>2. ASSUME NEW c \in Calls, NEW m, SignedLookup(c, m)
      PROVE  SlotInv' /\ OutOK'
  <2> DEFINE res == Says(m, call[c].copy.key)
  <2>1. /\ call[c].from = c /\ call' = LookupHeard(c, res)
        /\ UNCHANGED <<job, inFlight, slotQ>> /\ res # NoRes /\ DOMAIN job = Jobs
    BY <1>0, <1>2 DEF SignedLookup, OwnInv, FetchesOK
  <2> HIDE DEF res
  <2>2. \A d \in Calls :
              /\ call'[d].pc = call[d].pc /\ call'[d].copy = call[d].copy
              /\ call'[d].on = call[d].on
              /\ call'[d].from = call[d].from \/ call'[d].from = None
              /\ call'[d].got = NoRes => call[d].got = NoRes /\ call'[d].from = call[d].from
    BY <2>1, HeardFields
  <2>3. \A x \in Jobs : Out(x)' <=> Out(x)
    BY <2>1 DEF Out
  <2>4. OutOK'
    BY <2>1, <2>2, <2>3, OutStays
  <2> QED
    BY <2>1, <2>4, SlotsStay
<1>3. ASSUME NEW c \in Calls, NEW res, res # NoRes, AnswerOK(res, NoKey),
             job[<<c, "look">>].phase = "ask",
             Ends(LookupHeard(c, res), <<c, "look">>, res)
      PROVE  SlotInv' /\ OutOK'
  <2> DEFINE cs == LookupHeard(c, res)
             j  == <<c, "look">>
  <2>1. call[c].from = c /\ AnswerOK(res, call[c].copy.key) /\ j \in Jobs
    BY <1>1, <1>3
  <2>2. CallsOK(cs)
    BY <2>1, HeardCalls
  <2>3. \A d \in Calls :
              /\ cs[d].pc = call[d].pc /\ cs[d].copy = call[d].copy
              /\ cs[d].on = call[d].on
              /\ cs[d].from = call[d].from \/ cs[d].from = None
              /\ cs[d].got = NoRes => call[d].got = NoRes /\ cs[d].from = call[d].from
              /\ cs[d].from = d => j # <<d, "look">>
    BY <1>3, <2>1, HeardFields
  <2>4. Ends(cs, j, res)
    BY <1>3
  <2> HIDE DEF cs, j
  <2> QED
    BY <1>3, <2>1, <2>2, <2>3, <2>4, EndsSlots, EndsOut
<1>4. ASSUME NEW c \in Calls, NEW m \in Commits \cup {None}, PublicLookup(c, m)
      PROVE  SlotInv' /\ OutOK'
  <2>1. AnswerOK(Says(m, NoKey), NoKey)
    BY DEF AnswerOK, Says, Ok, Bad
  <2> QED
    BY <1>0, <1>3, <1>4, <2>1 DEF PublicLookup
<1>5. ASSUME NEW c \in Calls, NEW m \in Commits, ArchiveNames(c, m)
      PROVE  SlotInv' /\ OutOK'
  <2> DEFINE res == Ok(m, NoKey)
             j   == <<c, "look">>
             f   == <<m, job[j].ignore>>
             jb  == [job[j] EXCEPT !.commit = m, !.under = caps]
  <2>1. job[j].phase = "ask" /\ AnswerOK(res, NoKey) /\ res # NoRes
    BY <1>0, <1>5 DEF ArchiveNames, AnswerOK, Ok
  <2>2. CASE Ends(LookupHeard(c, res), j, res)
    BY <1>3, <2>1, <2>2
  <2>3. CASE /\ call' = LookupHeard(c, res)
             /\ inFlight' = [inFlight EXCEPT ![f] = j]
             /\ Takes(j, jb)
    <3>1. call[c].from = c /\ j \in Jobs /\ DOMAIN job = Jobs /\ DOMAIN job[j] = DOMAIN NoJob
      BY <1>1, <2>1 DEF OwnInv, FetchesOK
    <3>2. DOMAIN jb = DOMAIN NoJob
      BY <3>1
    <3> HIDE DEF res, jb
    <3>3. /\ SlotInv' /\ DOMAIN job' = Jobs
          /\ \A x \in Jobs \ {j} : job'[x] = job[x]
          /\ job'[j].phase \in {"proc", "slot"}
      <4>1. /\ SlotInv'
            /\ \E p \in {"proc", "slot"} : job' = [job EXCEPT ![j] = [jb EXCEPT !.phase = p]]
            /\ \A x \in Jobs \ {j} : job'[x] = job[x]
            /\ job'[j].phase \in {"proc", "slot"}
        BY <2>1, <2>3, <3>1, <3>2, TakesSlots
      <4> QED
        BY <3>1, <4>1
    <3>4. \A x \in Jobs : Out(x)' <=> Out(x)
      BY <2>1, <3>3 DEF Out
    <3>5. \A d \in Calls :
              /\ call'[d].pc = call[d].pc /\ call'[d].copy = call[d].copy
              /\ call'[d].on = call[d].on
              /\ call'[d].from = call[d].from \/ call'[d].from = None
              /\ call'[d].got = NoRes => call[d].got = NoRes /\ call'[d].from = call[d].from
              /\ call'[d].from = d => d # c
      BY <2>1, <2>3, <3>1, HeardFields
    <3>6. \A d \in Calls : call'[d].from = d /\ job[<<d, "look">>].phase = "ask"
                             => job'[<<d, "look">>].phase = "ask"
      BY <3>3, <3>5, TreeJobs
    <3>7. Out(j)'
      BY <3>3 DEF Out
    <3>8. \A g \in Folders : \/ inFlight'[g] = inFlight[g]
                             \/ inFlight'[g] \in Jobs /\ Out(inFlight[g])'
      <4> SUFFICES ASSUME NEW g \in Folders
                   PROVE  \/ inFlight'[g] = inFlight[g]
                          \/ inFlight'[g] \in Jobs /\ Out(inFlight[g])'
        OBVIOUS
      <4>1. inFlight'[g] = inFlight[g] \/ inFlight'[g] = j
        BY <2>3 DEF OwnInv, FetchesOK
      <4> QED
        BY <3>1, <3>7, <4>1 DEF Out
    <3>9. OutOK'
      BY <3>3, <3>4, <3>5, <3>6, <3>8, OutStays
    <3> QED
      BY <3>3, <3>9
  <2> QED
    BY <1>5, <2>2, <2>3 DEF ArchiveNames
<1> QED
  BY <1>2, <1>4, <1>5 DEF Lookups

LEMMA FetchingOut ==
    ASSUME OwnInv, SlotInv, OutOK, Fetching
    PROVE  SlotInv' /\ OutOK'
<1>0. CallsOK(call) /\ FetchesOK /\ DOMAIN job = Jobs
  BY DEF OwnInv, FetchesOK
<1>1. ASSUME NEW j \in Jobs, NEW res, res # NoRes, Ends(call, j, res),
             j[2] = "tree" \/ job[j].phase # "ask"
      PROVE  SlotInv' /\ OutOK'
  <2>1. \A d \in Calls : j # <<d, "look">> \/ job[j].phase # "ask"
    BY <1>1
  <2> QED
    BY <1>0, <1>1, <2>1, EndsSlots, EndsOut
\* a job that is out stays out
<1>2. ASSUME NEW j \in Jobs, DOMAIN job' = Jobs, j[2] = "tree" \/ job[j].phase # "ask",
             job[j].phase # "none", job'[j].phase # "none",
             \A x \in Jobs \ {j} : job'[x] = job[x],
             UNCHANGED <<call, inFlight>>
      PROVE  OutOK'
  <2>1. \A x \in Jobs : Out(x)' <=> Out(x)
    BY <1>2 DEF Out
  <2>2. \A d \in Calls : job[<<d, "look">>].phase = "ask"
                           => job'[<<d, "look">>].phase = "ask"
    <3> SUFFICES ASSUME NEW d \in Calls, job[<<d, "look">>].phase = "ask"
                 PROVE  job'[<<d, "look">>].phase = "ask"
      OBVIOUS
    <3>1. <<d, "look">>[2] # "tree"
      OBVIOUS
    <3>2. <<d, "look">> \in Jobs \ {j}
      BY <1>2, <3>1, TreeJobs
    <3>3. job'[<<d, "look">>] = job[<<d, "look">>]
      BY <1>2, <3>2
    <3> QED
      BY <3>3
  <2> QED
    BY <1>2, <2>1, <2>2, OutStays
<1>3. ASSUME NEW m, NEW s, NEW w \in Words \cup {"queued"}
      PROVE  Ok(m, s) # NoRes /\ Bad(w, s) # NoRes
  BY DEF Ok, Bad, NoRes, Words
<1>4. ASSUME NEW j \in Jobs, TreeNames(j)
      PROVE  SlotInv' /\ OutOK'
  <2>1. CASE Ends(call, j, Ok(job[j].commit, job[j].signer))
    BY <1>1, <1>3, <1>4, <2>1 DEF TreeNames
  <2>2. CASE Takes(j, job[j]) /\ UNCHANGED <<call, inFlight>>
    <3>1. j[2] = "tree" /\ job[j].phase = "ask" /\ DOMAIN job[j] = DOMAIN NoJob
      BY <1>0, <1>4 DEF TreeNames, FetchesOK
    <3>2. /\ SlotInv'
          /\ \E p \in {"proc", "slot"} : job' = [job EXCEPT ![j] = [job[j] EXCEPT !.phase = p]]
          /\ \A x \in Jobs \ {j} : job'[x] = job[x]
          /\ job'[j].phase \in {"proc", "slot"}
      BY <2>2, <3>1, TakesSlots
    <3>3. DOMAIN job' = Jobs
      BY <1>0, <3>2
    <3> QED
      BY <1>2, <2>2, <3>1, <3>2, <3>3
  <2> QED
    BY <1>4, <2>1, <2>2 DEF TreeNames
<1>5. ASSUME NEW j \in Jobs, TreeRefused(j) \/ SlotWaitEnds(j) \/ NoRoom(j)
      PROVE  SlotInv' /\ OutOK'
  <2>1. /\ \E word \in {"failed", "queued"} : Ends(call, j, Bad(word, job[j].signer))
        /\ j[2] = "tree" \/ job[j].phase # "ask"
    BY <1>5 DEF TreeRefused, SlotWaitEnds, NoRoom
  <2> QED
    BY <1>1, <1>3, <2>1 DEF Words
<1>6. ASSUME NEW j \in Jobs, Unpacks(j)
      PROVE  SlotInv' /\ OutOK'
  <2>1. /\ job[j].phase = "proc"
        /\ job' = [job EXCEPT ![j] = [job[j] EXCEPT !.phase = "unpack"]]
        /\ UNCHANGED <<call, inFlight, slotQ>>
    BY <1>6 DEF Unpacks
  <2>2. /\ DOMAIN job' = Jobs /\ job'[j].phase = "unpack"
        /\ \A x \in Jobs \ {j} : job'[x] = job[x]
    BY <1>0, <2>1 DEF FetchesOK, NoJob
  <2>3. SlotInv'
    BY <2>1, <2>2, SlotsStay DEF Holding
  <2> QED
    BY <1>2, <2>1, <2>2, <2>3
<1>7. ASSUME NEW j \in Jobs, Publishes(j)
      PROVE  SlotInv' /\ OutOK'
  BY <1>1, <1>3, <1>7 DEF Publishes
<1>8. ASSUME NEW j \in Jobs, NEW word \in Words, UnpackFails(j, word)
      PROVE  SlotInv' /\ OutOK'
  BY <1>1, <1>3, <1>8 DEF UnpackFails
<1> QED
  BY <1>4, <1>5, <1>6, <1>7, <1>8 DEF Fetching

LEMMA NothingHeld ==
    ASSUME job' = NoJobs, slotQ' = << >>
    PROVE  SlotInv'
<1>1. \A j \in Jobs : job'[j].phase = "none"
  BY DEF NoJobs, NoJob
<1>2. Held' = {} /\ Waiting' = {}
  BY <1>1 DEF Held, Waiting, Holding
<1>3. Cardinality(Held') = 0
  BY <1>2, FS_EmptySet
<1>4. slotQ' \in Seq(Jobs) /\ NoRepeat(slotQ') /\ Members(slotQ') = {}
  BY DEF NoRepeat, Members
<1> QED
  BY <1>2, <1>3, <1>4 DEF SlotInv

LEMMA OutsideOut ==
    ASSUME OwnInv, SlotInv, OutOK, Outside
    PROVE  SlotInv' /\ OutOK'
<1>1. ASSUME NEW r, NEW key, NEW ignore,
             Writes(r, key, ignore) \/ AskRefresh(r) \/ Deletes(r)
      PROVE  UNCHANGED <<call, job, inFlight, slotQ>>
  BY <1>1 DEF Writes, AskRefresh, Deletes, mem
<1>2. ASSUME NEW x, SetsCaps(x) \/ Loses(x) \/ LookupExpires(x) \/ RefusalExpires(x)
      PROVE  UNCHANGED <<call, job, inFlight, slotQ>>
  BY <1>2 DEF SetsCaps, Loses, LookupExpires, RefusalExpires, mem
<1>3. Sweep => UNCHANGED <<call, job, inFlight, slotQ>>
  BY DEF Sweep
<1>4. CASE Close
  <2>1. job' = NoJobs /\ inFlight' = NoFlight /\ slotQ' = << >>
    BY <1>4 DEF Close
  <2>2. ASSUME NEW d \in Calls
        PROVE  /\ call'[d].on = None /\ call'[d].pc = call[d].pc
               /\ call'[d].copy = call[d].copy
               /\ call'[d].got = NoRes => call[d].got = NoRes /\ call[d].on = None
                                          /\ call'[d].from = call[d].from
               /\ call'[d].from # None => call'[d].from = call[d].from /\ ~Asking(call[d].from)
    <3>1. CallOK(call[d])
      BY DEF OwnInv, CallsOK
    <3>2. CASE call[d].on # None
      <4>1. call'[d] = [call[d] EXCEPT !.got = Cut(call[d].on), !.on = None]
        BY <1>4, <3>2 DEF Close
      <4>2. Cut(call[d].on) # NoRes
        BY DEF Cut, Bad, NoRes
      <4>3. call[d].from = None
        BY <3>1, <3>2 DEF CallOK
      <4> QED
        BY <3>1, <4>1, <4>2, <4>3 DEF CallOK, Idle
    <3>3. CASE call[d].on = None /\ call[d].pc = "look" /\ Asking(call[d].from)
      <4>1. call'[d] = [call[d] EXCEPT !.got = Bad("failed", NoKey), !.from = None]
        BY <1>4, <3>3 DEF Close
      <4>2. Bad("failed", NoKey) # NoRes
        BY DEF Bad, NoRes
      <4> QED
        BY <3>1, <3>3, <4>1, <4>2 DEF CallOK, Idle
    <3>4. CASE call[d].on = None /\ ~(call[d].pc = "look" /\ Asking(call[d].from))
      <4>1. call'[d] = call[d]
        BY <1>4, <3>4 DEF Close
      <4>2. call[d].from # None => call[d].pc = "look"
        BY <3>1 DEF CallOK
      <4> QED
        BY <3>4, <4>1, <4>2
    <3> QED
      BY <3>2, <3>3, <3>4
  <2>3. \A j \in Jobs : ~Out(j)'
    BY <2>1 DEF Out, NoJobs, NoJob
  <2>4. ASSUME NEW d \in Calls
        PROVE  ~((call[d].from)' = d /\ (call[d].copy)'.key = NoKey)
    <3>1. SUFFICES ASSUME call'[d].from = d, call'[d].copy.key = NoKey PROVE FALSE
      OBVIOUS
    <3>2. d # None /\ call[d].from = d /\ call[d].copy.key = NoKey /\ ~Asking(d)
      BY <2>2, <3>1
    <3> QED
      BY <3>2 DEF OutOK, Asking
  <2>5. OutOK'
    <3>1. \A d \in Calls :
            /\ ~Out(<<d, "tree">>)' /\ call'[d].on = None
            /\ ~(call'[d].pc \in {"tree", "other"} /\ call'[d].got = NoRes)
            /\ call'[d].pc = "look" /\ call'[d].got = NoRes => call'[d].from # None
            /\ ~(call'[d].from = d /\ call'[d].copy.key = NoKey)
      BY <2>2, <2>3, <2>4, TreeJobs DEF OutOK
    <3>2. \A f \in Folders : inFlight'[f] = None
      BY <2>1 DEF NoFlight
    <3> QED
      BY <3>1, <3>2 DEF OutOK
  <2> QED
    BY <2>1, <2>5, NothingHeld
<1>5. CASE Restart
  <2>1. job' = NoJobs /\ inFlight' = NoFlight /\ slotQ' = << >> /\ call' = NoCalls
    BY <1>5 DEF Restart
  <2>2. OutOK'
    BY <2>1, TreeJobs DEF OutOK, Out, NoJobs, NoJob, NoFlight, NoCalls, Idle
  <2> QED
    BY <2>1, <2>2, NothingHeld
<1> QED
  BY <1>1, <1>2, <1>3, <1>4, <1>5, SameOut DEF Outside

----------------------------------------------------------------------------
(* The types, part by part *)

LEMMA ResultForms ==
    /\ \A m \in Commits, s \in Signers : Ok(m, s) \in Results
    /\ \A w \in Words \cup {"queued"}, s \in Signers : Bad(w, s) \in Results
    /\ NoRes \in Results
    /\ \A res \in Results :
          res # NoRes => /\ res.of \in Signers
                         /\ \/ res.word = "ok" /\ res.commit \in Commits
                            \/ res.word \in Words \cup {"queued"}
<1>1. ASSUME NEW m, NEW s
      PROVE  Ok(m, s).of = s /\ Ok(m, s).word = "ok" /\ Ok(m, s).commit = m
  BY DEF Ok
<1>2. ASSUME NEW w, NEW s PROVE Bad(w, s).of = s /\ Bad(w, s).word = w
  BY DEF Bad
<1>3. NoRes \in Results
  BY DEF Results
<1>4. \A res \in Results : \/ res = NoRes
                           \/ \E m \in Commits, s \in Signers : res = Ok(m, s)
                           \/ \E w \in Words \cup {"queued"}, s \in Signers : res = Bad(w, s)
  BY DEF Results
<1>5. /\ \A m \in Commits, s \in Signers : Ok(m, s) \in Results
      /\ \A w \in Words \cup {"queued"}, s \in Signers : Bad(w, s) \in Results
  BY DEF Results
<1> QED
  BY <1>1, <1>2, <1>3, <1>4, <1>5

LEMMA FetchedTyped ==
    ASSUME row \in [Rows -> RowRows], NEW cl, cl.repo \in Rows, NEW st \in RowStates,
           NEW error \in Words \cup {None}, NEW commit \in Commits \cup {None},
           NEW of \in Signers \cup {None}
    PROVE  Fetched(cl, st, error, commit, of) \in [Rows -> RowRows]
<1> DEFINE rw == [row[cl.repo] EXCEPT !.st = st, !.error = error,
                                      !.commit = commit, !.of = of]
<1>1. rw \in RowRows
  <2>1. row[cl.repo] \in RowRows
    OBVIOUS
  <2> QED
    BY <2>1 DEF RowRows
<1>2. Fetched(cl, st, error, commit, of) \in {row, [row EXCEPT ![cl.repo] = rw]}
  BY DEF Fetched, RowRows
<1> HIDE DEF rw
<1> QED
  BY <1>1, <1>2

CallOne(cl) == cl \in CallRows /\ (cl.pc # "idle" => cl.copy \in RowRows)

LEMMA IdleTyped ==
    /\ CallOne(Idle) /\ NoJob \in JobRows /\ NoAnswer \in [by : Calls \cup {None}, res : Results]
    /\ \A j \in Jobs : JobOK(j, NoJob)
<1>1. CallOne(Idle)
  BY ResultForms DEF CallOne, CallRows, Idle
<1>2. NoJob \in JobRows /\ \A j \in Jobs : JobOK(j, NoJob)
  BY DEF NoJob, JobRows, JobOK, Signers
<1>3. NoAnswer \in [by : Calls \cup {None}, res : Results]
  BY ResultForms DEF NoAnswer
<1> QED
  BY <1>1, <1>2, <1>3

LEMMA CallTyped ==
    ASSUME CallsTyped(call), NEW c \in Calls, NEW cl, CallOne(cl),
           call' = [call EXCEPT ![c] = cl]
    PROVE  CallsTyped(call')
  BY DEF CallsTyped, CallOne

LEMMA JobTyped ==
    ASSUME JobsTyped(job), NEW j \in Jobs, NEW jb \in JobRows, JobOK(j, jb),
           job' = [job EXCEPT ![j] = jb]
    PROVE  JobsTyped(job')
  BY DEF JobsTyped

LEMMA HearsTyped ==
    ASSUME NEW cl, CallOne(cl), NEW res \in Results
    PROVE  /\ CallOne([cl EXCEPT !.got = res, !.on = None])
           /\ CallOne([cl EXCEPT !.got = res, !.from = None])
<1> HIDE DEF Results, RowRows
<1>1. ASSUME NEW x \in CallRows, x.pc = cl.pc, x.copy = cl.copy
      PROVE  CallOne(x)
  BY <1>1 DEF CallOne
<1>2. /\ [cl EXCEPT !.got = res, !.on = None] \in CallRows
      /\ [cl EXCEPT !.got = res, !.on = None].pc = cl.pc
      /\ [cl EXCEPT !.got = res, !.on = None].copy = cl.copy
  BY DEF CallOne, CallRows
<1>3. /\ [cl EXCEPT !.got = res, !.from = None] \in CallRows
      /\ [cl EXCEPT !.got = res, !.from = None].pc = cl.pc
      /\ [cl EXCEPT !.got = res, !.from = None].copy = cl.copy
  BY DEF CallOne, CallRows
<1> QED
  BY <1>1, <1>2, <1>3

LEMMA DeliversTyped ==
    ASSUME NEW cs, CallsTyped(cs), NEW j, NEW res \in Results
    PROVE  CallsTyped(Delivers(cs, j, res))
<1> SUFFICES ASSUME NEW d \in Calls
             PROVE  CallOne([cs[d] EXCEPT !.got = res, !.on = None])
  BY DEF CallsTyped, CallOne, Delivers
<1>1. cs[d] \in CallRows /\ (cs[d].pc # "idle" => cs[d].copy \in RowRows)
  BY DEF CallsTyped
<1> QED
  BY <1>1, HearsTyped DEF CallOne

LEMMA HeardTyped ==
    ASSUME CallsTyped(call), NEW c, NEW res \in Results
    PROVE  CallsTyped(LookupHeard(c, res))
<1> SUFFICES ASSUME NEW d \in Calls
             PROVE  CallOne([call[d] EXCEPT !.got = res, !.from = None])
  BY DEF CallsTyped, CallOne, LookupHeard
<1>1. call[d] \in CallRows /\ (call[d].pc # "idle" => call[d].copy \in RowRows)
  BY DEF CallsTyped
<1> QED
  BY <1>1, HearsTyped DEF CallOne

LEMMA KeptTyped ==
    ASSUME AnswersTyped, NEW c, NEW res \in Results, answers' = LookupKept(c, res)
    PROVE  AnswersTyped'
  BY DEF AnswersTyped, LookupKept

LEMMA TargetTyped ==
    ASSUME JobsTyped(job), NEW j \in Jobs, job[j].phase # "none",
           j[2] = "tree" \/ job[j].phase # "ask"
    PROVE  /\ Target(j) \in Folders
           /\ job[j].commit \in Commits /\ job[j].signer \in Signers
  BY DEF JobsTyped, JobOK, JobRows, Target, Folders

LEMMA IndexTyped ==
    ASSUME CacheTyped, NEW f \in Folders
    PROVE  Indexed(f) \in Seq(Folders) /\ Read(f) \in Seq(Folders)
<1>1. Without(index, {f}) \in Seq(Folders) /\ index \in Seq(Folders)
  BY WithoutMembers DEF CacheTyped
<1> HIDE DEF Folders
<1>2. Append(Without(index, {f}), f) \in Seq(Folders) /\ Append(index, f) \in Seq(Folders)
  BY <1>1, AppendMembers
<1> QED
  BY <1>1, <1>2 DEF Indexed, Read

LEMMA EvictsTyped ==
    ASSUME CacheTyped, NEW out, Evicts(out), lost' = lost
    PROVE  CacheTyped'
<1>1. Without(index, out) \in Seq(Folders)
  BY WithoutMembers DEF CacheTyped
<1>2. IsFiniteSet(disk \ out)
  BY FS_Subset DEF CacheTyped
<1> QED
  BY <1>1, <1>2 DEF CacheTyped, Evicts

\* a job ends
LEMMA EndsTyped ==
    ASSUME OwnInv, SlotInv, BoundsTyped, CallsTyped(call), FetchesTyped,
           NEW cs, CallsTyped(cs), NEW j \in Jobs, NEW res \in Results, Ends(cs, j, res)
    PROVE  CallsTyped(call') /\ FetchesTyped'
<1>1. CallsTyped(call')
  BY DeliversTyped DEF Ends
<1>2. JobsTyped(job')
  <2>1. /\ DOMAIN job' = Jobs /\ job'[j] = NoJob
        /\ \A x \in Jobs \ {j} :
              \/ job'[x] = job[x]
              \/ /\ job[x].phase = "slot"
                 /\ job'[x] = [job[x] EXCEPT !.phase = "proc"]
                 /\ job'[x].phase = "proc"
    BY EndsPhases
  <2>2. ASSUME NEW x \in Jobs
        PROVE  job'[x] \in JobRows /\ JobOK(x, job'[x])
    <3>1. job[x] \in JobRows /\ JobOK(x, job[x])
      BY DEF FetchesTyped, JobsTyped
    <3>2. CASE x = j \/ job'[x] = job[x]
      BY <2>1, <3>1, <3>2, IdleTyped
    <3>3. CASE job[x].phase = "slot" /\ job'[x] = [job[x] EXCEPT !.phase = "proc"]
      BY <3>1, <3>3 DEF JobRows, JobOK
    <3> QED
      BY <2>1, <3>2, <3>3
  <2>3. job' = [x \in Jobs |-> job'[x]]
    BY <2>1 DEF Ends
  <2>4. job' \in [Jobs -> JobRows]
    BY <2>2, <2>3
  <2> QED
    BY <2>2, <2>4 DEF JobsTyped
<1>3. inFlight' \in [Folders -> Jobs \cup {None}]
  BY DEF Ends, FetchesTyped
<1>4. RefusedTyped'
  <2> DEFINE x == [folder |-> Target(j), caps |-> job[j].under,
                   signer |-> job[j].signer, word |-> res.word]
  <2>1. CASE job[j].under # 0 /\ res.word \in Words
    <3>1. x \in [folder : Folders, caps : CapValues, signer : Signers, word : Words]
      BY <2>1 DEF FetchesTyped, JobsTyped, JobRows, JobOK, Target, Folders
    <3>2. refused' \subseteq refused \cup {x}
      BY DEF Ends
    <3> HIDE DEF x
    <3> QED
      BY <3>1, <3>2 DEF FetchesTyped, RefusedTyped
  <2>2. CASE ~(job[j].under # 0 /\ res.word \in Words)
    <3>1. refused' = refused
      BY <2>2 DEF Ends
    <3> QED
      BY <3>1 DEF FetchesTyped, RefusedTyped
  <2> QED
    BY <2>1, <2>2
<1> QED
  BY <1>1, <1>2, <1>3, <1>4 DEF FetchesTyped

LEMMA TakesTyped ==
    ASSUME JobsTyped(job), NEW j \in Jobs, NEW with \in JobRows, Takes(j, with),
           with.ignore \in Rules, with.commit \in Commits
    PROVE  JobsTyped(job')
<1>1. PICK p \in {"proc", "slot"} : job' = [job EXCEPT ![j] = [with EXCEPT !.phase = p]]
  BY DEF Takes
<1> DEFINE jb == [with EXCEPT !.phase = p]
<1>2. jb \in JobRows /\ JobOK(j, jb)
  BY DEF JobRows, JobOK
<1> HIDE DEF jb
<1>3. job' = [job EXCEPT ![j] = jb]
  BY <1>1 DEF jb
<1> QED
  BY <1>2, <1>3, JobTyped

----------------------------------------------------------------------------
(* The types, step by step *)

LEMMA BeginsTyped ==
    ASSUME RowsTyped, BoundsTyped, CallsTyped(call), JobsTyped(job),
           NEW c \in Calls, NEW r \in Rows, NEW pin \in Commits \cup {None},
           NEW gone \in BOOLEAN,
           NEW ans \in [Signers -> [by : Calls \cup {None}, res : Results]],
           Begins(c, r, pin, gone, ans)
    PROVE  AnswersTyped' /\ CallsTyped(call') /\ JobsTyped(job')
<1> DEFINE cp   == row[r]
           hit  == ans[cp.key]
           new  == hit = NoAnswer
           dead == new /\ closing /\ cp.key = NoKey
           res  == IF dead THEN Bad("failed", NoKey) ELSE hit.res
           by   == IF dead THEN None ELSE IF new THEN c ELSE hit.by
           cl   == [Idle EXCEPT !.pc = "look", !.repo = r, !.copy = cp, !.pin = pin,
                                !.gone = gone, !.from = by, !.got = res]
           jb   == [NoJob EXCEPT !.phase = "ask", !.ignore = cp.ignore, !.caps = caps]
<1>1. /\ answers' = [ans EXCEPT ![cp.key] = [by |-> by, res |-> res]]
      /\ call' = [call EXCEPT ![c] = cl]
      /\ job' = IF new /\ ~dead /\ cp.key = NoKey
                THEN [job EXCEPT ![<<c, "look">>] = jb] ELSE job
  BY Zenon DEF Begins
<1>2. cp \in RowRows /\ cp.key \in Signers /\ cp.ignore \in Rules
  BY DEF RowsTyped, RowRows
<1>3. by \in Calls \cup {None} /\ res \in Results
  <2>1. hit.by \in Calls \cup {None} /\ hit.res \in Results
    BY <1>2
  <2>2. Bad("failed", NoKey) \in Results
    BY ResultForms DEF Words, Signers
  <2> QED
    BY <2>1, <2>2
<1> HIDE DEF by, res, cp, new, dead, Results
<1>4. AnswersTyped'
  BY <1>1, <1>2, <1>3 DEF AnswersTyped
<1>5. CallOne(cl)
  <2>1. Idle \in CallRows
    BY IdleTyped DEF CallOne
  <2>2. cl.copy = cp
    BY DEF Idle
  <2> HIDE DEF RowRows
  <2>3. cl \in CallRows
    BY <1>2, <1>3, <2>1 DEF CallRows
  <2> QED
    BY <1>2, <2>2, <2>3 DEF CallOne
<1>6. jb \in JobRows /\ JobOK(<<c, "look">>, jb)
  BY <1>2 DEF JobRows, JobOK, NoJob, BoundsTyped, Signers
<1> HIDE DEF cl, jb
<1>7. CallsTyped(call')
  BY <1>1, <1>5, CallTyped
<1>8. JobsTyped(job')
  BY <1>1, <1>6, TreeJobs, JobTyped
<1> QED
  BY <1>4, <1>7, <1>8

\* what a call is that goes on after an answer
GoesOnTyped(cl) == /\ cl \in CallRows /\ cl.copy \in RowRows
                   /\ cl.repo \in Rows /\ cl.want \in Commits

LEMMA ByCommitTyped ==
    ASSUME BoundsTyped, CallsTyped(call), FetchesTyped, NEW c \in Calls, NEW cl,
           GoesOnTyped(cl), NEW joined \in BOOLEAN, ByCommit(c, cl, joined)
    PROVE  /\ CallsTyped(call') /\ JobsTyped(job')
           /\ inFlight' \in [Folders -> Jobs \cup {None}]
<1> DEFINE f == TreeOf(cl)
           j == inFlight[f]
<1> HIDE DEF Results, RowRows
<1>1. f \in Folders /\ cl.copy.key \in Signers /\ cl.copy.ignore \in Rules
  BY DEF GoesOnTyped, TreeOf, Folders, RowRows
<1>2. /\ JobsTyped(job) /\ inFlight \in [Folders -> Jobs \cup {None}]
      /\ RefusedTyped /\ j \in Jobs \cup {None}
  BY <1>1 DEF FetchesTyped
<1>3. ASSUME NEW pc \in {"tree", "other"}, NEW x \in Jobs,
             call' = [call EXCEPT ![c] = [cl EXCEPT !.pc = pc, !.on = x]]
      PROVE  CallsTyped(call')
  <2> DEFINE dl == [cl EXCEPT !.pc = pc, !.on = x]
  <2>1. CallOne(dl)
    BY DEF CallOne, CallRows, GoesOnTyped
  <2>2. call' = [call EXCEPT ![c] = dl]
    BY <1>3
  <2> HIDE DEF dl
  <2> QED
    BY <2>1, <2>2, CallTyped
<1>4. ASSUME NEW res \in Results,
             call' = [call EXCEPT ![c] = [cl EXCEPT !.pc = "tree", !.got = res]]
      PROVE  CallsTyped(call')
  <2> DEFINE dl == [cl EXCEPT !.pc = "tree", !.got = res]
  <2>1. CallOne(dl)
    BY DEF CallOne, CallRows, GoesOnTyped
  <2>2. call' = [call EXCEPT ![c] = dl]
    BY <1>4
  <2> HIDE DEF dl
  <2> QED
    BY <2>1, <2>2, CallTyped
<1>5. CASE Joins(c, cl) \/ WaitsOnce(c, cl, joined)
  <2>1. \E pc \in {"tree", "other"} :
           /\ j # None /\ call' = [call EXCEPT ![c] = [cl EXCEPT !.pc = pc, !.on = j]]
           /\ UNCHANGED <<job, inFlight>>
    BY <1>5 DEF Joins, WaitsOnce
  <2> QED
    BY <1>2, <1>3, <2>1
<1>6. CASE OnItsOwn(c, cl, joined)
  <2> DEFINE jb == [NoJob EXCEPT !.phase = "ask", !.commit = cl.want,
                                 !.ignore = cl.copy.ignore, !.signer = cl.copy.key,
                                 !.caps = caps, !.under = caps]
  <2>1. ASSUME NEW x \in Refusals(f, cl.copy.key),
               call' = [call EXCEPT ![c] = [cl EXCEPT !.pc = "tree", !.got = Bad(x.word, x.signer)]]
        PROVE  CallsTyped(call')
    <3>1. x.word \in Words /\ x.signer \in Signers
      BY <1>2 DEF Refusals, RefusedTyped
    <3>2. Bad(x.word, x.signer) \in Results
      BY <3>1, ResultForms
    <3> QED
      BY <1>4, <2>1, <3>2
  <2>2. ASSUME call' = [call EXCEPT ![c] = [cl EXCEPT !.pc = "tree", !.got = Bad("failed", cl.copy.key)]]
        PROVE  CallsTyped(call')
    <3> DEFINE res == Bad("failed", cl.copy.key)
    <3>1. res \in Results
      BY <1>1, ResultForms DEF Words
    <3>2. call' = [call EXCEPT ![c] = [cl EXCEPT !.pc = "tree", !.got = res]]
      BY <2>2
    <3> HIDE DEF res
    <3> QED
      BY <1>4, <3>1, <3>2
  <2>3. CASE /\ job' = [job EXCEPT ![<<c, "tree">>] = jb]
             /\ inFlight' = [inFlight EXCEPT ![f] = <<c, "tree">>]
             /\ call' = [call EXCEPT ![c] = [cl EXCEPT !.pc = "tree", !.on = <<c, "tree">>]]
    <3>1. jb \in JobRows /\ JobOK(<<c, "tree">>, jb)
      BY <1>1 DEF JobRows, JobOK, NoJob, BoundsTyped, GoesOnTyped
    <3> HIDE DEF jb
    <3>2. JobsTyped(job')
      BY <1>2, <2>3, <3>1, TreeJobs, JobTyped
    <3> HIDE DEF f
    <3>3. inFlight' \in [Folders -> Jobs \cup {None}]
      BY <1>1, <1>2, <2>3, TreeJobs
    <3>4. CallsTyped(call')
      BY <1>3, <2>3, TreeJobs
    <3> QED
      BY <3>2, <3>3, <3>4
  <2> QED
    BY <1>2, <1>6, <2>1, <2>2, <2>3 DEF OnItsOwn
<1> QED
  BY <1>5, <1>6 DEF ByCommit

LEMMA LeavesTyped ==
    ASSUME RowsTyped, NEW rs, rs \subseteq Rows, Leaves(rs)
    PROVE  left' \subseteq Rows
  BY DEF Leaves, RowsTyped

LEMMA FailsTyped ==
    ASSUME RowsTyped, CallsTyped(call), NEW c \in Calls, call[c].repo \in Rows,
           NEW word \in Words \cup {"queued"}, NEW of \in Signers, Fails(c, word, of)
    PROVE  row' \in [Rows -> RowRows] /\ left' \subseteq Rows /\ CallsTyped(call')
<1>1. CallsTyped(call')
  BY IdleTyped, CallTyped DEF Fails
<1>2. left' \subseteq Rows
  BY LeavesTyped DEF Fails
<1>3. row[call[c].repo].commit \in Commits \cup {None} /\ "failed" \in RowStates
  BY DEF RowsTyped, RowRows, RowStates
<1>4. word \in Words
        => Fetched(call[c], "failed", word, row[call[c].repo].commit, of) \in [Rows -> RowRows]
  BY <1>3, FetchedTyped DEF RowsTyped
<1>5. row' \in [Rows -> RowRows]
  BY <1>4 DEF Fails, Failed, RowsTyped
<1> QED
  BY <1>1, <1>2, <1>5

LEMMA AttemptTyped ==
    ASSUME RowsTyped, BoundsTyped, CallsTyped(call), FetchesTyped, CacheTyped,
           NEW c \in Calls, NEW cl, GoesOnTyped(cl), Attempt(c, cl)
    PROVE  /\ row' \in [Rows -> RowRows] /\ left' \subseteq Rows
           /\ CallsTyped(call') /\ JobsTyped(job')
           /\ inFlight' \in [Folders -> Jobs \cup {None}] /\ index' \in Seq(Folders)
<1> DEFINE f == TreeOf(cl)
<1>1. /\ f \in Folders /\ cl.repo \in Rows /\ cl.commit \in Commits \cup {None}
      /\ cl.of \in Signers \cup {None} /\ cl \in CallRows /\ cl.copy \in RowRows
      /\ cl.want \in Commits
  BY DEF GoesOnTyped, TreeOf, Folders, RowRows, CallRows
<1>2. JobsTyped(job) /\ inFlight \in [Folders -> Jobs \cup {None}]
  BY DEF FetchesTyped
<1>3. CASE /\ index' = Read(f)
           /\ call' = [call EXCEPT ![c] =
                         IF cl.gone THEN Idle ELSE [cl EXCEPT !.pc = "held"]]
           /\ row' \in IF cl.want # cl.commit THEN {row} ELSE Readied(cl)
           /\ \E rs \in SUBSET {cl.repo} : Leaves(rs)
           /\ UNCHANGED <<job, inFlight>>
  <2> DEFINE dl == IF cl.gone THEN Idle ELSE [cl EXCEPT !.pc = "held"]
  <2> HIDE DEF RowRows, Results
  <2>1. CallOne(dl)
    <3>1. CallOne([cl EXCEPT !.pc = "held"])
      BY <1>1 DEF CallOne, CallRows
    <3> QED
      BY <3>1, IdleTyped
  <2>2. call' = [call EXCEPT ![c] = dl]
    BY <1>3
  <2> HIDE DEF dl
  <2>3. CallsTyped(call')
    BY <2>1, <2>2, CallTyped
  <2>4. Fetched(cl, "ready", None, cl.commit, cl.of) \in [Rows -> RowRows]
    BY <1>1, FetchedTyped DEF RowsTyped, RowStates
  <2>5. row' \in [Rows -> RowRows]
    BY <1>3, <2>4 DEF Readied, RowsTyped
  <2>6. left' \subseteq Rows
    BY <1>1, <1>3, LeavesTyped
  <2>7. index' \in Seq(Folders)
    BY <1>1, <1>3, IndexTyped
  <2> QED
    BY <1>2, <1>3, <2>3, <2>5, <2>6, <2>7
<1>4. CASE /\ index' = Without(index, {f})
           /\ row' = Marked(cl)
           /\ Leaves({})
           /\ ByCommit(c, [cl EXCEPT !.copy = MarkedCopy(cl)], FALSE)
  <2> DEFINE dl == [cl EXCEPT !.copy = MarkedCopy(cl)]
  <2>1. MarkedCopy(cl) \in RowRows
    BY <1>1 DEF MarkedCopy, RowRows, RowStates
  <2>2. GoesOnTyped(dl)
    <3> HIDE DEF RowRows, Results
    <3> QED
      BY <1>1, <2>1 DEF GoesOnTyped, CallRows
  <2> HIDE DEF dl
  <2>3. /\ CallsTyped(call') /\ JobsTyped(job')
        /\ inFlight' \in [Folders -> Jobs \cup {None}]
    BY <1>4, <2>2, ByCommitTyped DEF dl
  <2>4. row[cl.repo].commit \in Commits \cup {None} /\ "fetching" \in RowStates
    BY <1>1 DEF RowsTyped, RowRows, RowStates
  <2>5. Fetched(cl, "fetching", None, row[cl.repo].commit, None) \in [Rows -> RowRows]
    BY <1>1, <2>4, FetchedTyped DEF RowsTyped
  <2>6. row' \in [Rows -> RowRows]
    BY <1>4, <2>5 DEF Marked, RowsTyped
  <2>7. left' \subseteq Rows
    BY <1>4, LeavesTyped
  <2>8. index' \in Seq(Folders)
    BY <1>4, WithoutMembers DEF CacheTyped
  <2> QED
    BY <2>3, <2>6, <2>7, <2>8
<1> QED
  BY <1>3, <1>4 DEF Attempt

LEMMA StepTyped ==
    ASSUME OwnInv, Typed, Step
    PROVE  Typed'
<1>0. /\ RowsTyped /\ BoundsTyped /\ AnswersTyped /\ CallsTyped(call) /\ FetchesTyped
      /\ CacheTyped /\ JobsTyped(job) /\ RefusedTyped
  BY DEF Typed, FetchesTyped
<1>1. ASSUME NEW r \in Rows, NEW c \in Calls, Refresh(r, c)
      PROVE  Typed'
  <2> DEFINE ans == [answers EXCEPT ![row[r].key] = NoAnswer]
  <2>1. /\ toStart' = toStart \ {r} /\ (refused' = refused \/ refused' = {})
        /\ UNCHANGED <<row, caps, closing, inFlight, index, disk, moves, lost, left>>
    BY <1>1 DEF Refresh, ghost
  <2>2. RowsTyped' /\ BoundsTyped' /\ CacheTyped' /\ RefusedTyped'
    BY <1>0, <2>1 DEF RowsTyped, BoundsTyped, CacheTyped, RefusedTyped
  <2>3. AnswersTyped' /\ CallsTyped(call') /\ JobsTyped(job')
    <3>1. ans \in [Signers -> [by : Calls \cup {None}, res : Results]]
      BY <1>0, IdleTyped DEF AnswersTyped
    <3>2. CASE Begins(c, r, None, TRUE, ans)
      <4> HIDE DEF ans
      <4> QED
        BY <1>0, <3>1, <3>2, BeginsTyped
    <3>3. CASE UNCHANGED <<answers, call, job>>
      BY <1>0, <3>3 DEF AnswersTyped
    <3> QED
      BY <1>1, <3>2, <3>3 DEF Refresh
  <2> QED
    BY <1>0, <2>1, <2>2, <2>3 DEF Typed, FetchesTyped
\* what a call's own step leaves alone, and what it writes
<1>2. ASSUME UNCHANGED <<caps, closing, answers, refused, slotQ, disk, toStart,
                         moves, lost>>,
             row' \in [Rows -> RowRows], left' \subseteq Rows,
             CallsTyped(call'), JobsTyped(job'),
             inFlight' \in [Folders -> Jobs \cup {None}], index' \in Seq(Folders)
      PROVE  Typed'
  <2>1. RowsTyped' /\ BoundsTyped' /\ CacheTyped' /\ RefusedTyped' /\ AnswersTyped'
    BY <1>0, <1>2 DEF RowsTyped, BoundsTyped, CacheTyped, RefusedTyped, AnswersTyped
  <2> QED
    BY <1>2, <2>1 DEF Typed, FetchesTyped
<1>3. row \in [Rows -> RowRows] /\ index \in Seq(Folders)
      /\ inFlight \in [Folders -> Jobs \cup {None}]
  BY <1>0 DEF RowsTyped, CacheTyped, FetchesTyped
<1>4. ASSUME NEW c \in Calls, call[c].pc # "idle", NEW word \in Words \cup {"queued"},
             NEW of \in Signers, Fails(c, word, of),
             UNCHANGED <<caps, closing, answers, refused, slotQ, disk, toStart,
                         moves, lost>>
      PROVE  Typed'
  <2>1. call[c].repo \in Rows /\ UNCHANGED <<job, inFlight, index>>
    BY <1>4 DEF OwnInv, CallsOK, CallOK, CopyOK, Fails
  <2>2. row' \in [Rows -> RowRows] /\ left' \subseteq Rows /\ CallsTyped(call')
    BY <1>0, <1>4, <2>1, FailsTyped
  <2> QED
    BY <1>0, <1>2, <1>3, <1>4, <2>1, <2>2
<1>5. ASSUME NEW c \in Calls, NEW cl, GoesOnTyped(cl), Attempt(c, cl),
             UNCHANGED <<caps, closing, answers, refused, slotQ, disk, toStart,
                         moves, lost>>
      PROVE  Typed'
  BY <1>0, <1>2, <1>5, AttemptTyped
<1>6. ASSUME NEW c \in Calls, Looked(c)
      PROVE  Typed'
  <2> DEFINE res == call[c].got
             pin == call[c].pin
             to  == IF pin # None /\ Cached(<<pin, call[c].copy.ignore>>)
                    THEN pin ELSE res.commit
             cl  == [call[c] EXCEPT !.got = NoRes, !.commit = res.commit,
                                    !.of = res.of, !.want = to]
  <2>1. /\ call[c].pc = "look" /\ res # NoRes
        /\ UNCHANGED <<caps, closing, answers, refused, slotQ, disk, toStart,
                       moves, lost>>
    BY <1>6 DEF Looked
  <2>2. /\ call[c] \in CallRows /\ call[c].copy \in RowRows /\ call[c].repo \in Rows
        /\ res \in Results /\ pin \in Commits \cup {None}
    BY <1>0, <2>1 DEF CallsTyped, CallRows, OwnInv, CallsOK, CallOK, CopyOK
  <2>3. /\ res.of \in Signers
        /\ res.word # "ok" => res.word \in Words \cup {"queued"}
        /\ res.word = "ok" => res.commit \in Commits
    BY <2>1, <2>2, ResultForms DEF Words
  <2>4. CASE res.word # "ok" /\ Fails(c, res.word, res.of)
    BY <1>4, <2>1, <2>3, <2>4
  <2>5. CASE res.word = "ok" /\ Attempt(c, cl)
    <3>1. to \in Commits /\ res.commit \in Commits
      BY <2>2, <2>3, <2>5
    <3>2. NoRes \in Results
      BY ResultForms
    <3> HIDE DEF to, res, Results, RowRows
    <3>3. cl \in CallRows
      BY <2>2, <2>3, <3>1, <3>2 DEF CallRows
    <3>4. cl.copy = call[c].copy /\ cl.repo = call[c].repo /\ cl.want = to
      BY <2>2 DEF CallRows
    <3>5. GoesOnTyped(cl)
      BY <2>2, <3>1, <3>3, <3>4 DEF GoesOnTyped
    <3> HIDE DEF cl
    <3> QED
      BY <1>5, <2>1, <2>5, <3>5
  <2> QED
    BY <1>6, <2>4, <2>5 DEF Looked
<1>7. ASSUME NEW c \in Calls, Answered(c)
      PROVE  Typed'
  <2> DEFINE res == call[c].got
             cl  == [call[c] EXCEPT !.got = NoRes]
             dl  == [cl EXCEPT !.tries = 1]
  <2>1. /\ call[c].pc \in {"tree", "other"} /\ res # NoRes
        /\ UNCHANGED <<caps, closing, answers, refused, slotQ, disk, toStart,
                       moves, lost>>
    BY <1>7 DEF Answered
  <2>2. /\ call[c] \in CallRows /\ call[c].copy \in RowRows /\ call[c].repo \in Rows
        /\ call[c].want \in Commits /\ res \in Results /\ call[c].copy.key \in Signers
    BY <1>0, <2>1 DEF CallsTyped, CallRows, OwnInv, CallsOK, CallOK, CopyOK
  <2>3. /\ res.of \in Signers
        /\ res.word # "ok" => res.word \in Words \cup {"queued"}
    BY <2>1, <2>2, ResultForms DEF Words
  <2>4. NoRes \in Results /\ "failed" \in Words \cup {"queued"}
    BY ResultForms DEF Words
  <2>5. GoesOnTyped(cl) /\ GoesOnTyped(dl) /\ cl.copy = call[c].copy
    <3> HIDE DEF Results, RowRows
    <3>1. cl \in CallRows
      BY <2>2, <2>4 DEF CallRows
    <3>2. cl.copy = call[c].copy /\ cl.repo = call[c].repo /\ cl.want = call[c].want
      BY <2>2 DEF CallRows
    <3> HIDE DEF cl
    <3>3. dl \in CallRows
      BY <3>1 DEF CallRows
    <3>4. dl.copy = cl.copy /\ dl.repo = cl.repo /\ dl.want = cl.want
      BY <3>1 DEF CallRows
    <3> QED
      BY <2>2, <3>1, <3>2, <3>3, <3>4 DEF GoesOnTyped
  <2>6. \/ Attempt(c, dl)
        \/ Fails(c, "failed", cl.copy.key)
        \/ res.word # "ok" /\ Fails(c, res.word, res.of)
        \/ ByCommit(c, cl, TRUE) /\ UNCHANGED <<row, left, index>>
    BY <1>7 DEF Answered
  <2> HIDE DEF cl, dl, res
  <2>7. CASE ByCommit(c, cl, TRUE) /\ UNCHANGED <<row, left, index>>
    <3>1. /\ CallsTyped(call') /\ JobsTyped(job')
          /\ inFlight' \in [Folders -> Jobs \cup {None}]
      BY <1>0, <2>5, <2>7, ByCommitTyped
    <3> QED
      BY <1>0, <1>2, <1>3, <2>1, <2>7, <3>1 DEF RowsTyped
  <2> QED
    BY <1>4, <1>5, <2>1, <2>2, <2>3, <2>4, <2>5, <2>6, <2>7
<1> QED
  BY <1>1, <1>6, <1>7 DEF Step

LEMMA TurnTyped ==
    ASSUME OwnInv, Typed, Turn
    PROVE  Typed'
<1>0. /\ RowsTyped /\ BoundsTyped /\ AnswersTyped /\ CallsTyped(call) /\ FetchesTyped
      /\ CacheTyped /\ JobsTyped(job)
  BY DEF Typed, FetchesTyped
<1>1. ASSUME NEW c \in Calls, NEW r \in Rows, NEW pin \in Pins \cup {None},
             Prepare(c, r, pin)
      PROVE  Typed'
  <2>1. /\ Begins(c, r, pin, FALSE, answers) /\ moves < MaxMoves /\ moves' = moves + 1
        /\ UNCHANGED <<row, caps, closing, inFlight, refused, index, disk,
                       toStart, lost, left>>
    BY <1>1 DEF Prepare, Moves, ghost
  <2>2. AnswersTyped' /\ CallsTyped(call') /\ JobsTyped(job')
    <3>1. pin \in Commits \cup {None}
      OBVIOUS
    <3> QED
      BY <1>0, <2>1, <3>1, BeginsTyped DEF AnswersTyped
  <2>3. RowsTyped' /\ BoundsTyped' /\ CacheTyped'
    BY <1>0, <2>1 DEF RowsTyped, BoundsTyped, CacheTyped
  <2> QED
    BY <1>0, <2>1, <2>2, <2>3 DEF Typed, FetchesTyped, RefusedTyped
<1>2. ASSUME CallsTyped(call'),
             UNCHANGED <<row, caps, closing, answers, job, inFlight, refused, index,
                         disk, toStart, moves, ghost>>
      PROVE  Typed'
  BY <1>0, <1>2 DEF Typed, RowsTyped, BoundsTyped, AnswersTyped, FetchesTyped,
                    RefusedTyped, CacheTyped, ghost
<1>3. ASSUME NEW c \in Calls, WaitEnds(c)
      PROVE  Typed'
  <2> DEFINE cl == [call[c] EXCEPT !.gone = TRUE]
  <2>1. call[c] \in CallRows /\ (call[c].pc # "idle" => call[c].copy \in RowRows)
    BY <1>0 DEF CallsTyped
  <2>2. CallOne(cl)
    <3> HIDE DEF Results, RowRows
    <3>1. cl \in CallRows
      BY <2>1 DEF CallRows
    <3>2. cl.pc = call[c].pc /\ cl.copy = call[c].copy
      BY <2>1 DEF CallRows
    <3> QED
      BY <2>1, <3>1, <3>2 DEF CallOne
  <2>3. call' = [call EXCEPT ![c] = cl]
    BY <1>3 DEF WaitEnds
  <2> HIDE DEF cl
  <2>4. CallsTyped(call')
    BY <1>0, <2>2, <2>3, CallTyped
  <2> QED
    BY <1>2, <1>3, <2>4 DEF WaitEnds
<1>4. ASSUME NEW c \in Calls, Release(c)
      PROVE  Typed'
  <2>1. CallsTyped(call')
    BY <1>0, <1>4, IdleTyped, CallTyped DEF Release
  <2> QED
    BY <1>2, <1>4, <2>1 DEF Release
<1> QED
  BY <1>1, <1>3, <1>4 DEF Turn

LEMMA LookupsTyped ==
    ASSUME OwnInv, SlotInv, Typed, Lookups
    PROVE  Typed'
<1>0. /\ RowsTyped /\ BoundsTyped /\ AnswersTyped /\ CallsTyped(call) /\ FetchesTyped
      /\ CacheTyped /\ JobsTyped(job) /\ RefusedTyped
      /\ inFlight \in [Folders -> Jobs \cup {None}]
  BY DEF Typed, FetchesTyped
<1>1. ASSUME NEW m \in Commits \cup {None}, NEW s \in Signers
      PROVE  Says(m, s) \in Results
  BY ResultForms DEF Says, Words
<1>2. ASSUME AnswersTyped', CallsTyped(call'), FetchesTyped', index' \in Seq(Folders),
             UNCHANGED <<row, caps, closing, disk, toStart, moves, lost, left>>
      PROVE  Typed'
  BY <1>0, <1>2 DEF Typed, RowsTyped, BoundsTyped, CacheTyped
<1>3. index \in Seq(Folders)
  BY <1>0 DEF CacheTyped
<1>4. ASSUME NEW c \in Calls, NEW m \in Commits \cup {None}, SignedLookup(c, m)
      PROVE  Typed'
  <2> DEFINE res == Says(m, call[c].copy.key)
  <2>1. call[c].copy.key \in Signers
    BY <1>4 DEF SignedLookup, OwnInv, CallsOK, CallOK, CopyOK
  <2>2. /\ res \in Results /\ call' = LookupHeard(c, res) /\ answers' = LookupKept(c, res)
        /\ UNCHANGED <<row, caps, closing, job, inFlight, refused, index, disk,
                       toStart, moves, lost, left>>
    BY <1>1, <1>4, <2>1 DEF SignedLookup, ghost
  <2> HIDE DEF res
  <2>3. AnswersTyped' /\ CallsTyped(call')
    BY <1>0, <2>2, KeptTyped, HeardTyped
  <2>4. FetchesTyped'
    BY <1>0, <2>2 DEF FetchesTyped, RefusedTyped
  <2> QED
    BY <1>2, <1>3, <2>2, <2>3, <2>4
<1>5. NoKey \in Signers
  BY DEF Signers
<1>6. ASSUME NEW c \in Calls, NEW res \in Results,
             Ends(LookupHeard(c, res), <<c, "look">>, res)
      PROVE  CallsTyped(call') /\ FetchesTyped'
  <2>1. CallsTyped(LookupHeard(c, res))
    BY <1>0, HeardTyped
  <2> QED
    BY <1>0, <1>6, <2>1, TreeJobs, EndsTyped
<1>7. ASSUME NEW c \in Calls, NEW m \in Commits \cup {None}, PublicLookup(c, m)
      PROVE  Typed'
  <2> DEFINE res == Says(m, NoKey)
  <2>1. /\ res \in Results /\ Ends(LookupHeard(c, res), <<c, "look">>, res)
        /\ answers' = LookupKept(c, res)
        /\ UNCHANGED <<row, caps, closing, index, disk, toStart, moves, lost, left>>
    BY <1>1, <1>5, <1>7 DEF PublicLookup, ghost
  <2> HIDE DEF res
  <2>2. AnswersTyped' /\ CallsTyped(call') /\ FetchesTyped'
    BY <1>0, <1>6, <2>1, KeptTyped
  <2> QED
    BY <1>2, <1>3, <2>1, <2>2
<1>8. ASSUME NEW c \in Calls, NEW m \in Commits, ArchiveNames(c, m)
      PROVE  Typed'
  <2> DEFINE res == Ok(m, NoKey)
             j   == <<c, "look">>
             f   == <<m, job[j].ignore>>
             jb  == [job[j] EXCEPT !.commit = m, !.under = caps]
  <2>1. /\ res \in Results /\ answers' = LookupKept(c, res) /\ job[j].phase = "ask"
        /\ UNCHANGED <<row, caps, closing, disk, toStart, moves, lost, left>>
    BY <1>5, <1>8, ResultForms DEF ArchiveNames
  <2>2. AnswersTyped' /\ CallsTyped(LookupHeard(c, res))
    BY <1>0, <2>1, KeptTyped, HeardTyped
  <2>3. j \in Jobs /\ job[j] \in JobRows /\ job[j].ignore \in Rules /\ f \in Folders
    BY <1>0, <2>1, TreeJobs DEF JobsTyped, JobOK, Folders
  <2> HIDE DEF res, f
  <2>4. CASE /\ Ends(LookupHeard(c, res), j, res)
             /\ index' = IF f \in disk THEN Indexed(f) ELSE index
    <3>1. index' \in Seq(Folders)
      BY <1>0, <1>3, <2>3, <2>4, IndexTyped
    <3> QED
      BY <1>2, <1>6, <2>1, <2>2, <2>4, <3>1
  <2>5. CASE /\ call' = LookupHeard(c, res)
             /\ inFlight' = [inFlight EXCEPT ![f] = j]
             /\ Takes(j, jb)
             /\ UNCHANGED <<refused, index>>
    <3>1. jb \in JobRows /\ jb.ignore \in Rules /\ jb.commit \in Commits
      BY <1>0, <2>3 DEF JobRows, BoundsTyped
    <3> HIDE DEF jb, j
    <3>2. JobsTyped(job')
      BY <1>0, <2>3, <2>5, <3>1, TakesTyped
    <3>3. inFlight' \in [Folders -> Jobs \cup {None}]
      BY <1>0, <2>3, <2>5
    <3>4. RefusedTyped'
      BY <1>0, <2>5 DEF RefusedTyped
    <3> QED
      BY <1>2, <1>3, <2>1, <2>2, <2>5, <3>2, <3>3, <3>4 DEF FetchesTyped
  <2> QED
    BY <1>8, <2>4, <2>5 DEF ArchiveNames, res, f
<1> QED
  BY <1>4, <1>7, <1>8 DEF Lookups

LEMMA FetchingTyped ==
    ASSUME OwnInv, SlotInv, Typed, Fetching
    PROVE  Typed'
<1>0. /\ RowsTyped /\ BoundsTyped /\ AnswersTyped /\ CallsTyped(call) /\ FetchesTyped
      /\ CacheTyped /\ JobsTyped(job) /\ RefusedTyped
      /\ inFlight \in [Folders -> Jobs \cup {None}] /\ index \in Seq(Folders)
  BY DEF Typed, FetchesTyped, CacheTyped
<1>1. ASSUME CallsTyped(call'), FetchesTyped', CacheTyped',
             UNCHANGED <<row, caps, closing, answers, toStart, moves, left>>
      PROVE  Typed'
  BY <1>0, <1>1 DEF Typed, RowsTyped, BoundsTyped, AnswersTyped
<1>2. ASSUME NEW j \in Jobs, NEW res \in Results, Ends(call, j, res)
      PROVE  CallsTyped(call') /\ FetchesTyped'
  BY <1>0, <1>2, EndsTyped
<1>3. ASSUME NEW j \in Jobs
      PROVE  /\ job[j].signer \in Signers
             /\ \A m \in Commits : Ok(m, job[j].signer) \in Results
             /\ \A w \in Words \cup {"queued"} : Bad(w, job[j].signer) \in Results
  <2>1. job[j].signer \in Signers
    BY <1>0 DEF JobsTyped, JobRows
  <2> QED
    BY <2>1, ResultForms
<1>4. ASSUME index' \in Seq(Folders), UNCHANGED <<disk, lost>>
      PROVE  CacheTyped'
  BY <1>0, <1>4 DEF CacheTyped
<1>5. ASSUME NEW j \in Jobs, TreeNames(j)
      PROVE  Typed'
  <2>1. /\ j[2] = "tree" /\ job[j].phase = "ask"
        /\ UNCHANGED <<row, caps, closing, answers, disk, toStart, moves, lost, left>>
    BY <1>5 DEF TreeNames, ghost
  <2>2. Target(j) \in Folders /\ job[j].commit \in Commits
    BY <1>0, <2>1, TargetTyped
  <2>3. CASE /\ Ends(call, j, Ok(job[j].commit, job[j].signer))
             /\ index' = Indexed(Target(j))
    <3>1. index' \in Seq(Folders)
      BY <1>0, <2>2, <2>3, IndexTyped
    <3>2. CallsTyped(call') /\ FetchesTyped'
      BY <1>2, <1>3, <2>2, <2>3
    <3> QED
      BY <1>1, <1>4, <2>1, <3>1, <3>2
  <2>4. CASE Takes(j, job[j]) /\ UNCHANGED <<call, inFlight, refused, index>>
    <3>1. job[j] \in JobRows /\ job[j].ignore \in Rules
      BY <1>0, <2>1 DEF JobsTyped, JobOK
    <3>2. JobsTyped(job')
      BY <1>0, <2>2, <2>4, <3>1, TakesTyped
    <3>3. CallsTyped(call') /\ FetchesTyped'
      BY <1>0, <2>4, <3>2 DEF FetchesTyped, RefusedTyped
    <3> QED
      BY <1>0, <1>1, <1>4, <2>1, <2>4, <3>3
  <2> QED
    BY <1>5, <2>3, <2>4 DEF TreeNames
<1>6. ASSUME NEW j \in Jobs, NEW w \in Words \cup {"queued"},
             Ends(call, j, Bad(w, job[j].signer)),
             UNCHANGED <<row, caps, closing, answers, index, holds, disk, toStart,
                         moves, lost, left>>
      PROVE  Typed'
  <2>1. CallsTyped(call') /\ FetchesTyped'
    BY <1>2, <1>3, <1>6
  <2> QED
    BY <1>0, <1>1, <1>4, <1>6, <2>1
<1>7. ASSUME NEW j \in Jobs, TreeRefused(j) \/ SlotWaitEnds(j) \/ NoRoom(j)
      PROVE  Typed'
  <2>1. /\ \E w \in {"failed", "queued"} : Ends(call, j, Bad(w, job[j].signer))
        /\ UNCHANGED <<row, caps, closing, answers, index, holds, disk, toStart,
                       moves, lost, left>>
    BY <1>7 DEF TreeRefused, SlotWaitEnds, NoRoom, ghost
  <2> QED
    BY <1>6, <2>1 DEF Words
<1>8. ASSUME NEW j \in Jobs, Unpacks(j)
      PROVE  Typed'
  <2> DEFINE jb == [job[j] EXCEPT !.phase = "unpack"]
  <2>1. /\ job[j].phase = "proc" /\ job' = [job EXCEPT ![j] = jb] /\ Evicts(Evicted)
        /\ UNCHANGED <<row, caps, closing, answers, call, inFlight, refused,
                       toStart, moves, lost, left>>
    BY <1>8 DEF Unpacks, ghost
  <2>2. jb \in JobRows /\ JobOK(j, jb)
    <3>1. /\ job[j] \in JobRows /\ job[j].ignore \in Rules
          /\ job[j].commit \in Commits
      BY <1>0, <2>1 DEF JobsTyped, JobOK
    <3> QED
      BY <3>1 DEF JobRows, JobOK
  <2> HIDE DEF jb
  <2>3. JobsTyped(job')
    BY <1>0, <2>1, <2>2, JobTyped
  <2>4. CacheTyped'
    BY <1>0, <2>1, EvictsTyped
  <2>5. CallsTyped(call') /\ FetchesTyped'
    BY <1>0, <2>1, <2>3 DEF FetchesTyped, RefusedTyped
  <2> QED
    BY <1>1, <2>1, <2>4, <2>5
<1>9. ASSUME NEW j \in Jobs, Publishes(j)
      PROVE  Typed'
  <2>1. /\ job[j].phase = "unpack" /\ Ends(call, j, Ok(job[j].commit, job[j].signer))
        /\ disk' = disk \cup {Target(j)} /\ index' = Indexed(Target(j))
        /\ lost' = lost \ {Target(j)}
        /\ UNCHANGED <<row, caps, closing, answers, toStart, moves, left>>
    BY <1>9 DEF Publishes
  <2>2. Target(j) \in Folders /\ job[j].commit \in Commits
    BY <1>0, <2>1, TargetTyped
  <2>3. CallsTyped(call') /\ FetchesTyped'
    BY <1>2, <1>3, <2>1, <2>2
  <2>4. index' \in Seq(Folders) /\ IsFiniteSet(disk')
    BY <1>0, <2>1, <2>2, IndexTyped, FS_AddElement DEF CacheTyped
  <2>5. CacheTyped'
    BY <1>0, <2>1, <2>2, <2>4 DEF CacheTyped
  <2> QED
    BY <1>1, <2>1, <2>3, <2>5
<1>10. ASSUME NEW j \in Jobs, NEW word \in Words, UnpackFails(j, word)
       PROVE  Typed'
  <2>1. /\ Ends(call, j, Bad(word, job[j].signer))
        /\ UNCHANGED <<row, caps, closing, answers, index, holds, disk, toStart,
                       moves, lost, left>>
    BY <1>10 DEF UnpackFails, ghost
  <2> QED
    BY <1>6, <2>1
<1> QED
  BY <1>5, <1>7, <1>8, <1>9, <1>10 DEF Fetching

LEMMA NothingTyped ==
    ASSUME job' = NoJobs, inFlight' = NoFlight
    PROVE  JobsTyped(job') /\ inFlight' \in [Folders -> Jobs \cup {None}]
  BY IdleTyped DEF NoJobs, NoFlight, JobsTyped

LEMMA OutsideTyped ==
    ASSUME OwnInv, SlotInv, Typed, Outside
    PROVE  Typed'
<1>0. /\ RowsTyped /\ BoundsTyped /\ AnswersTyped /\ CallsTyped(call) /\ FetchesTyped
      /\ CacheTyped /\ JobsTyped(job) /\ RefusedTyped
      /\ row \in [Rows -> RowRows]
      /\ inFlight \in [Folders -> Jobs \cup {None}] /\ index \in Seq(Folders)
  BY DEF Typed, FetchesTyped, CacheTyped, RowsTyped
<1>1. Moves => BoundsTyped' \/ caps' # caps \/ closing' # closing
  BY <1>0 DEF Moves, BoundsTyped
\* the table is written, and the rest left alone
<1>2. ASSUME NEW r \in Rows, NEW rw \in RowRows, row' = [row EXCEPT ![r] = rw],
             toStart' \subseteq Rows, Leaves({}), Moves,
             UNCHANGED <<caps, closing, answers, call, job, inFlight, refused,
                         index, disk, lost>>
      PROVE  Typed'
  <2>1. left' \subseteq Rows
    BY <1>0, <1>2, LeavesTyped
  <2>2. RowsTyped' /\ BoundsTyped'
    BY <1>0, <1>1, <1>2, <2>1 DEF RowsTyped
  <2> QED
    BY <1>0, <1>2, <2>2 DEF Typed, AnswersTyped, FetchesTyped, RefusedTyped, CacheTyped
<1>3. ASSUME NEW r \in Rows, NEW key \in Signers, NEW ignore \in Rules,
             Writes(r, key, ignore)
      PROVE  Typed'
  <2> DEFINE rw == [st |-> "pending", error |-> None, commit |-> None,
                    key |-> key, ignore |-> ignore, of |-> None]
  <2>1. rw \in RowRows
    BY DEF RowRows, RowStates
  <2>2. /\ row' = [row EXCEPT ![r] = rw] /\ toStart' \subseteq Rows /\ Leaves({}) /\ Moves
        /\ UNCHANGED <<caps, closing, answers, call, job, inFlight, refused,
                       index, disk, lost>>
    BY <1>3 DEF Writes, Changed
  <2> HIDE DEF rw
  <2> QED
    BY <1>2, <2>1, <2>2
<1>4. ASSUME NEW r \in Rows, AskRefresh(r)
      PROVE  Typed'
  <2> DEFINE rw == [row[r] EXCEPT !.st = "pending", !.error = None, !.of = None]
  <2>0. row[r] \in RowRows /\ "pending" \in RowStates
    BY <1>0 DEF RowStates
  <2>1. rw \in RowRows
    BY <2>0 DEF RowRows
  <2>2. row' = [row EXCEPT ![r] = rw]
    BY <1>0, <1>4 DEF AskRefresh, RowRows
  <2>3. /\ toStart' \subseteq Rows /\ Leaves({}) /\ Moves
        /\ UNCHANGED <<caps, closing, answers, call, job, inFlight, refused,
                       index, disk, lost>>
    BY <1>4 DEF AskRefresh, Changed
  <2> HIDE DEF rw
  <2> QED
    BY <1>2, <2>1, <2>2, <2>3
<1>5. ASSUME NEW r \in Rows, Deletes(r)
      PROVE  Typed'
  <2> DEFINE rw == [row[r] EXCEPT !.st = "gone"]
  <2>0. row[r] \in RowRows /\ "gone" \in RowStates
    BY <1>0 DEF RowStates
  <2>1. rw \in RowRows
    BY <2>0 DEF RowRows
  <2>2. row' = [row EXCEPT ![r] = rw]
    BY <1>5 DEF Deletes
  <2>3. /\ toStart' \subseteq Rows /\ Leaves({}) /\ Moves
        /\ UNCHANGED <<caps, closing, answers, call, job, inFlight, refused,
                       index, disk, lost>>
    BY <1>0, <1>5 DEF Deletes, mem, RowsTyped
  <2> HIDE DEF rw
  <2> QED
    BY <1>2, <2>1, <2>2, <2>3
<1>6. ASSUME NEW n \in CapValues, SetsCaps(n)
      PROVE  Typed'
  <2>1. BoundsTyped'
    BY <1>0, <1>6 DEF SetsCaps, Moves, BoundsTyped
  <2> QED
    BY <1>0, <1>6, <2>1 DEF SetsCaps, mem, ghost, Typed, RowsTyped, AnswersTyped,
                            FetchesTyped, RefusedTyped, CacheTyped
<1>7. ASSUME NEW f \in Folders, Loses(f)
      PROVE  Typed'
  <2>1. BoundsTyped'
    BY <1>0, <1>7 DEF Loses, BoundsTyped
  <2>2. IsFiniteSet(disk \ {f})
    BY <1>0, FS_Subset DEF CacheTyped
  <2>3. CacheTyped'
    BY <1>0, <1>7, <2>2 DEF Loses, CacheTyped, mem
  <2> QED
    BY <1>0, <1>7, <2>1, <2>3 DEF Loses, mem, Typed, RowsTyped, AnswersTyped,
                                  FetchesTyped, RefusedTyped
<1>8. ASSUME NEW s \in Signers, LookupExpires(s)
      PROVE  Typed'
  <2>1. AnswersTyped' /\ BoundsTyped'
    BY <1>0, <1>1, <1>8, IdleTyped DEF LookupExpires, AnswersTyped
  <2> QED
    BY <1>0, <1>8, <2>1 DEF LookupExpires, ghost, Typed, RowsTyped,
                            FetchesTyped, RefusedTyped, CacheTyped
<1>9. ASSUME NEW x, RefusalExpires(x)
      PROVE  Typed'
  <2>1. RefusedTyped' /\ BoundsTyped'
    BY <1>0, <1>1, <1>9 DEF RefusalExpires, RefusedTyped
  <2> QED
    BY <1>0, <1>9, <2>1 DEF RefusalExpires, ghost, Typed, RowsTyped, AnswersTyped,
                            FetchesTyped, CacheTyped
<1>10. CASE Sweep
  <2>1. CacheTyped'
    BY <1>0, <1>10, EvictsTyped DEF Sweep, ghost
  <2> QED
    BY <1>0, <1>10, <2>1 DEF Sweep, ghost, Typed, RowsTyped, BoundsTyped, AnswersTyped,
                             FetchesTyped, RefusedTyped
<1>11. CASE Close
  <2>1. /\ closing' = TRUE /\ job' = NoJobs /\ inFlight' = NoFlight
        /\ moves < MaxMoves /\ moves' = moves + 1
        /\ UNCHANGED <<row, caps, refused, index, disk, toStart, lost, left>>
    BY <1>11 DEF Close, Moves, ghost
  <2>2. Bad("failed", NoKey) \in Results
    BY ResultForms DEF Words, Signers
  <2>3. AnswersTyped'
    <3> HIDE DEF Results
    <3> QED
      BY <1>0, <1>11, <2>2 DEF Close, AnswersTyped
  <2>4. CallsTyped(call')
    <3>1. ASSUME NEW d \in Calls
          PROVE  CallOne(call'[d])
      <4>1. CallOne(call[d]) /\ call[d].on \in Jobs \cup {None}
        BY <1>0 DEF CallsTyped, CallOne, CallRows
      <4>2. CASE call[d].on # None
        <5>1. call[d].on \in Jobs /\ job[call[d].on].signer \in Signers
          BY <1>0, <4>1, <4>2 DEF JobsTyped, JobRows
        <5>2. Cut(call[d].on) \in Results
          BY <5>1, ResultForms DEF Cut, Words
        <5>3. call'[d] = [call[d] EXCEPT !.got = Cut(call[d].on), !.on = None]
          BY <1>11, <4>2 DEF Close
        <5>4. CallOne([call[d] EXCEPT !.got = Cut(call[d].on), !.on = None])
          BY <4>1, <5>2, HearsTyped
        <5> QED
          BY <5>3, <5>4, Zenon
      <4>3. CASE call[d].on = None
        <5>1. \/ call'[d] = call[d]
              \/ call'[d] = [call[d] EXCEPT !.got = Bad("failed", NoKey), !.from = None]
          BY <1>11, <4>3 DEF Close
        <5>2. CallOne([call[d] EXCEPT !.got = Bad("failed", NoKey), !.from = None])
          BY <2>2, <4>1, HearsTyped
        <5> QED
          BY <4>1, <5>1, <5>2, Zenon
      <4> QED
        BY <4>2, <4>3
    <3>2. call' = [d \in Calls |-> call'[d]]
      BY <1>11 DEF Close
    <3> QED
      BY <3>1, <3>2 DEF CallsTyped, CallOne
  <2>5. BoundsTyped'
    BY <1>0, <2>1 DEF BoundsTyped
  <2> QED
    BY <1>0, <2>1, <2>3, <2>4, <2>5, NothingTyped
    DEF Typed, RowsTyped, FetchesTyped, RefusedTyped, CacheTyped
<1>12. CASE Restart
  <2>1. /\ row' = [r \in Rows |-> IF row[r].st = "fetching"
                                    THEN [row[r] EXCEPT !.st = "pending"] ELSE row[r]]
        /\ toStart' = {r \in Rows : row'[r].st = "pending"}
        /\ index' \in SetToSeqs(disk) /\ moves < MaxMoves /\ moves' = moves + 1
        /\ call' = NoCalls /\ job' = NoJobs /\ answers' = NoAnswers
        /\ inFlight' = NoFlight /\ refused' = {}
        /\ closing' = FALSE /\ lost' = {} /\ left' = {} /\ UNCHANGED <<caps, disk>>
    BY <1>12 DEF Restart
  <2>2. \A r \in Rows : [row[r] EXCEPT !.st = "pending"] \in RowRows
    <3>1. \A rw \in RowRows : [rw EXCEPT !.st = "pending"] \in RowRows
      BY DEF RowRows, RowStates
    <3> HIDE DEF RowRows
    <3> QED
      BY <1>0, <3>1
  <2>3. RowsTyped'
    <3> HIDE DEF RowRows
    <3> QED
      BY <1>0, <2>1, <2>2 DEF RowsTyped
  <2>4. index' \in Seq(Folders)
    <3>1. Cardinality(disk) \in Nat
      BY <1>0, FS_CardinalityType DEF CacheTyped
    <3>2. index' \in [1..Cardinality(disk) -> disk]
      BY <2>1 DEF SetToSeqs
    <3>3. index' \in [1..Cardinality(disk) -> Folders]
      BY <1>0, <3>2 DEF CacheTyped
    <3> HIDE DEF Folders
    <3> QED
      BY <3>1, <3>3, SeqDef
  <2>5. CallsTyped(call') /\ AnswersTyped'
    BY <2>1, IdleTyped DEF NoCalls, NoAnswers, CallsTyped, CallOne, AnswersTyped
  <2>6. BoundsTyped' /\ CacheTyped' /\ RefusedTyped'
    <3>1. BoundsTyped'
      <4>1. caps' \in CapValues /\ moves' \in 0..MaxMoves
        BY <1>0, <2>1 DEF BoundsTyped
      <4>2. closing' \in BOOLEAN
        BY <2>1, Zenon
      <4> QED
        BY <4>1, <4>2 DEF BoundsTyped
    <3>2. CacheTyped'
      BY <1>0, <2>1, <2>4 DEF CacheTyped
    <3>3. RefusedTyped'
      BY <2>1 DEF RefusedTyped
    <3> QED
      BY <3>1, <3>2, <3>3
  <2> QED
    BY <2>1, <2>3, <2>5, <2>6, NothingTyped DEF Typed, FetchesTyped
<1> QED
  BY <1>3, <1>4, <1>5, <1>6, <1>7, <1>8, <1>9, <1>10, <1>11, <1>12 DEF Outside

----------------------------------------------------------------------------
LEMMA InitTyped == Init => SlotInv /\ OutOK /\ Typed
<1> SUFFICES ASSUME Init PROVE SlotInv /\ OutOK /\ Typed
  OBVIOUS
<1>1. /\ job = NoJobs /\ inFlight = NoFlight /\ slotQ = << >> /\ call = NoCalls
      /\ answers = NoAnswers /\ refused = {} /\ index = << >> /\ disk = {}
      /\ moves = 0 /\ closing = FALSE /\ lost = {} /\ left = {} /\ caps \in CapValues
      /\ row = Begun /\ toStart \subseteq Rows
  BY DEF Init
<1>2. SlotInv
  <2>1. \A j \in Jobs : job[j].phase = "none"
    BY <1>1 DEF NoJobs, NoJob
  <2>2. Held = {} /\ Waiting = {}
    BY <2>1 DEF Held, Waiting, Holding
  <2>3. Cardinality(Held) = 0
    BY <2>2, FS_EmptySet
  <2>4. slotQ \in Seq(Jobs) /\ NoRepeat(slotQ) /\ Members(slotQ) = {}
    BY <1>1 DEF NoRepeat, Members
  <2> QED
    BY <1>1, <2>2, <2>3, <2>4 DEF SlotInv
<1>3. OutOK
  BY <1>1, TreeJobs DEF OutOK, Out, NoJobs, NoJob, NoFlight, NoCalls, Idle
<1>4. JobsTyped(job) /\ inFlight \in [Folders -> Jobs \cup {None}]
  BY <1>1, IdleTyped DEF NoJobs, NoFlight, JobsTyped
<1>5. CallsTyped(call) /\ AnswersTyped
  BY <1>1, IdleTyped DEF NoCalls, NoAnswers, CallsTyped, CallOne, AnswersTyped
<1>6. IsFiniteSet(disk)
  BY <1>1, FS_EmptySet
<1>7. RowsTyped /\ BoundsTyped /\ CacheTyped /\ RefusedTyped
  <2>1. RowsTyped
    BY <1>1, BegunAssumption DEF RowsTyped
  <2>2. BoundsTyped
    <3>1. caps \in CapValues /\ moves \in 0..MaxMoves
      BY <1>1
    <3>2. closing \in BOOLEAN
      BY <1>1, Zenon
    <3> QED
      BY <3>1, <3>2 DEF BoundsTyped
  <2>3. CacheTyped
    BY <1>1, <1>6 DEF CacheTyped
  <2>4. RefusedTyped
    BY <1>1 DEF RefusedTyped
  <2> QED
    BY <2>1, <2>2, <2>3, <2>4
<1> QED
  BY <1>2, <1>3, <1>4, <1>5, <1>7 DEF Typed, FetchesTyped

LEMMA TypedStep == ReposInv /\ [Next]_vars => ReposInv'
<1> SUFFICES ASSUME ReposInv, [Next]_vars PROVE ReposInv'
  OBVIOUS
<1>0. /\ OwnInv /\ SlotInv /\ OutOK /\ Typed /\ AnswersTyped /\ RefusedTyped
      /\ OwnInv'
  BY OwnStep DEF ReposInv, Typed, FetchesTyped
<1>1. CASE UNCHANGED vars
  <2>1. SlotInv' /\ OutOK'
    BY <1>0, <1>1, SameOut DEF vars, mem
  <2>2. Typed'
    BY <1>0, <1>1 DEF vars, mem, ghost, Typed, RowsTyped, BoundsTyped, AnswersTyped,
                      FetchesTyped, RefusedTyped, CacheTyped
  <2> QED
    BY <1>0, <2>1, <2>2 DEF ReposInv
<1>2. CASE Step
  BY <1>0, <1>2, StepOut, StepTyped DEF ReposInv
<1>3. CASE Turn
  BY <1>0, <1>3, TurnOut, TurnTyped DEF ReposInv
<1>4. CASE Lookups
  BY <1>0, <1>4, LookupsOut, LookupsTyped DEF ReposInv
<1>5. CASE Fetching
  BY <1>0, <1>5, FetchingOut, FetchingTyped DEF ReposInv
<1>6. CASE Outside
  BY <1>0, <1>6, OutsideOut, OutsideTyped DEF ReposInv
<1> QED
  BY <1>1, <1>2, <1>3, <1>4, <1>5, <1>6 DEF Next, Rest

Counts == holds \in [Folders -> Int]

LEMMA CountsInit == Init => Counts
  BY DEF Init, Counts, NoHolds

\* a step takes a hold, lets one go, or starts anew with none
LEMMA CountsStep == Counts /\ [Next]_vars => Counts'
<1> SUFFICES ASSUME Counts, [Next]_vars PROVE Counts'
  OBVIOUS
<1>1. ASSUME NEW f, \/ holds' = holds
                     \/ holds' = [holds EXCEPT ![f] = @ + 1]
                     \/ holds' = [holds EXCEPT ![f] = @ - 1]
                     \/ holds' = NoHolds
      PROVE  Counts'
  <2> HIDE DEF Folders
  <2> QED
    BY <1>1 DEF Counts, NoHolds
<1>2. CASE UNCHANGED vars \/ Rest
  BY <1>1, <1>2 DEF Rest, vars, mem
<1>3. CASE Step
  <2>1. ASSUME NEW c \in Calls, NEW cl, Attempt(c, cl)
        PROVE  Counts'
    <3>1. holds' = holds \/ holds' = [holds EXCEPT ![TreeOf(cl)] = @ + 1]
      BY <2>1 DEF Attempt, HoldsWith
    <3> QED
      BY <1>1, <3>1
  <2>2. ASSUME NEW c \in Calls, NEW word, NEW of, Fails(c, word, of)
        PROVE  Counts'
    BY <1>1, <2>2 DEF Fails
  <2>3. ASSUME NEW r \in Rows, NEW c \in Calls, Refresh(r, c)
        PROVE  Counts'
    BY <1>1, <2>3 DEF Refresh
  <2>4. ASSUME NEW c \in Calls, Looked(c) \/ Answered(c)
        PROVE  Counts'
    BY <1>1, <2>1, <2>2, <2>4 DEF Looked, Answered
  <2> QED
    BY <1>3, <2>3, <2>4 DEF Step
<1>4. CASE Turn
  <2>1. ASSUME NEW c \in Calls, Release(c)
        PROVE  Counts'
    BY <1>1, <2>1 DEF Release
  <2>2. ASSUME NEW c \in Calls, NEW r, NEW pin, Prepare(c, r, pin) \/ WaitEnds(c)
        PROVE  Counts'
    BY <1>1, <2>2 DEF Prepare, WaitEnds
  <2> QED
    BY <1>4, <2>1, <2>2 DEF Turn
<1>5. CASE Lookups
  BY <1>1, <1>5 DEF Lookups, SignedLookup, PublicLookup, ArchiveNames
<1>6. CASE Fetching
  BY <1>1, <1>6 DEF Fetching, TreeNames, TreeRefused, SlotWaitEnds, Unpacks,
                    NoRoom, Publishes, UnpackFails
<1>7. CASE Outside
  BY <1>1, <1>7 DEF Outside, Writes, AskRefresh, Deletes, SetsCaps, Loses,
                    LookupExpires, RefusalExpires, Sweep, Close, Restart, mem
<1> QED
  BY <1>2, <1>3, <1>4, <1>5, <1>6, <1>7 DEF Next

\* whoever waits, waits for something that is out
LEMMA WaitsOut == ReposInv => WaitsOK
<1> SUFFICES ASSUME ReposInv, NEW c \in Calls
             PROVE  /\ call[c].pc \in {"tree", "other"} /\ call[c].got = NoRes =>
                          call[c].on # None /\ job[call[c].on].phase # "none"
                    /\ call[c].pc = "look" /\ call[c].got = NoRes =>
                          LET b == call[c].from
                          IN  /\ b # None
                              /\ \/ job[<<b, "look">>].phase = "ask"
                                 \/ call[b].from = b /\ call[b].copy.key # NoKey
  BY DEF WaitsOK
<1>1. call[c].pc \in {"tree", "other"} /\ call[c].got = NoRes =>
         call[c].on # None /\ job[call[c].on].phase # "none"
  BY DEF ReposInv, OutOK, Out
<1>2. ASSUME call[c].pc = "look", call[c].got = NoRes
      PROVE  LET b == call[c].from
             IN  /\ b # None
                 /\ \/ job[<<b, "look">>].phase = "ask"
                    \/ call[b].from = b /\ call[b].copy.key # NoKey
  <2> DEFINE b == call[c].from
  <2>1. b # None /\ b \in Calls /\ call[b].from = b
    BY <1>2 DEF ReposInv, OutOK, OwnInv, LooksOK, Asks
  <2>2. call[b].copy.key = NoKey => job[<<b, "look">>].phase = "ask"
    BY <2>1 DEF ReposInv, OutOK
  <2> QED
    BY <2>1, <2>2
<1> QED
  BY <1>1, <1>2

\* Every value has its type; no fetch unpacks past the slots and none waits
\* while one is free (fetches.ts run(), lib/queue.ts); and every call waits
\* for a job or a request that is out (fetches.ts byCommit(), lookup.ts
\* get()), for any number of turns, rows, keys, trees and slots, under
\* edits, drains and restarts.
THEOREM ReposTyped == Spec => []TypeOK
<1>1. Init => ReposInv
  BY InitOwn, InitTyped DEF ReposInv
<1>2. ReposInv /\ [Next]_vars => ReposInv'
  BY TypedStep
<1>3. HoldsInv /\ [Next]_vars => HoldsInv'
  BY HoldsStep
<1>4. ReposInv /\ HoldsInv /\ Counts => TypeOK
  <2> SUFFICES ASSUME ReposInv, HoldsInv, Counts PROVE TypeOK
    OBVIOUS
  <2>1. SlotsOK
    BY DEF ReposInv, SlotInv, SlotsOK, Held, Waiting, Members
  <2>2. WaitsOK
    BY WaitsOut
  <2>3. holds \in [Folders -> Nat]
    <3>1. ASSUME NEW f \in Folders PROVE holds[f] \in Nat
      BY MountedFinite DEF HoldsInv, MountsStand
    <3> HIDE DEF Folders
    <3> QED
      BY <3>1 DEF Counts
  <2> QED
    BY <2>1, <2>2, <2>3 DEF ReposInv, Typed, TypeOK, RowsTyped, BoundsTyped,
       AnswersTyped, CallsTyped, FetchesTyped, JobsTyped, RefusedTyped, CacheTyped
<1> QED
  BY <1>1, <1>2, <1>3, <1>4, InitHolds, CountsInit, CountsStep, PTL DEF Spec
=============================================================================
