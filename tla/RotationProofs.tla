---------------------------- MODULE RotationProofs ----------------------------
(***************************************************************************)
(* Proofs about Rotation and the Planner in it, for any library, streamers,*)
(* past, window, length of a day and durations: plans tile the day and     *)
(* repeat nothing, every video gets its turn, plans run forward and come   *)
(* to an end, bookings spare the reviews, and with one streamer every row  *)
(* tells the truth.                                                        *)
(***************************************************************************)
EXTENDS Rotation, FiniteSetTheorems, TLAPS

-----------------------------------------------------------------------------
(* Facts about the operators.                                              *)

\* Every asset has a positive length.
LEMMA DurationPositive ==
  ASSUME NEW a \in Assets
  PROVE  Duration(a) \in Nat \ {0}
  BY PlannerAssumption DEF Duration, Assets

\* A shuffle of videos is a sequence of them, as long as they are many, that
\* repeats none.
LEMMA ShuffleFacts ==
  ASSUME NEW S \in SUBSET Videos, S # {}, NEW o \in Shuffles(S)
  PROVE  /\ o \in Seq(S)
         /\ o \in Seq(Videos)
         /\ Len(o) = Cardinality(S)
         /\ Len(o) \in Nat \ {0}
         /\ \A i, j \in 1 .. Len(o) : i # j => o[i] # o[j]
<1>1. IsFiniteSet(S)
  BY FS_Subset, PlannerAssumption
<1>2. Cardinality(S) \in Nat \ {0}
  BY <1>1, FS_CardinalityType, FS_EmptySet
<1>3. /\ o \in [1 .. Cardinality(S) -> S]
      /\ \A i, j \in 1 .. Cardinality(S) : i # j => o[i] # o[j]
  BY DEF Shuffles, SetToSeqs
<1>4. o \in Seq(S) /\ Len(o) = Cardinality(S)
  BY <1>2, <1>3
<1> QED BY <1>2, <1>3, <1>4

-----------------------------------------------------------------------------
(* Types.                                                                  *)

\* While a call is at work its order is a shuffle of its pool, and the index
\* is one of its places.
Shuffled ==
    stage # "idle" =>
        /\ pool # {}
        /\ order \in Shuffles(pool)
        /\ index < Len(order)

Sorted == PlannerTypeOK /\ Shuffled

\* The video AddVideo picks is one of the library, another than the last one
\* unless there is only one.
LEMMA PickFacts ==
  ASSUME Sorted, stage = "video"
  PROVE  /\ Pick \in Nat
         /\ At(Pick) \in Videos
         /\ At(Pick) = last => Len(order) = 1
<1> DEFINE n == Len(order)
<1>1. /\ order \in Seq(Videos)
      /\ n \in Nat \ {0}
      /\ \A i, j \in 1 .. n : i # j => order[i] # order[j]
  BY ShuffleFacts DEF Sorted, Shuffled, PlannerTypeOK
<1>2. index \in 0 .. n - 1 /\ index % n = index
  BY <1>1 DEF Sorted, Shuffled, PlannerTypeOK
<1>3. (index + 1) % n \in 0 .. n - 1 /\ (n > 1 => (index + 1) % n # index)
  <2>1. CASE index + 1 < n
    <3>1. (index + 1) % n = index + 1
      BY <1>1, <1>2, <2>1
    <3> QED BY <1>1, <1>2, <2>1, <3>1
  <2>2. CASE index + 1 = n
    <3>1. (index + 1) % n = 0
      BY <1>1, <1>2, <2>2
    <3> QED BY <1>1, <1>2, <2>2, <3>1
  <2> QED BY <1>1, <1>2, <2>1, <2>2
<1>4. At(index) = order[index + 1] /\ At(index) \in Videos
  BY <1>1, <1>2 DEF At
<1>5. /\ At(index + 1) = order[((index + 1) % n) + 1]
      /\ At(index + 1) \in Videos
      /\ n > 1 => At(index + 1) # At(index)
  <2>1. At(index + 1) = order[((index + 1) % n) + 1]
    BY DEF At
  <2>2. ((index + 1) % n) + 1 \in 1 .. n /\ index + 1 \in 1 .. n
    BY <1>1, <1>2, <1>3
  <2>3. n > 1 => ((index + 1) % n) + 1 # index + 1
    BY <1>1, <1>2, <1>3
  <2> QED BY <1>1, <1>4, <2>1, <2>2, <2>3
<1>6. CASE At(index) = last /\ n > 1
  <2>1. Pick = index + 1
    BY <1>6 DEF Pick
  <2> QED BY <1>1, <1>2, <1>5, <1>6, <2>1
<1>7. CASE ~(At(index) = last /\ n > 1)
  <2>1. Pick = index
    BY <1>7 DEF Pick
  <2>2. At(index) = last => n = 1
    <3>1. n \in Nat \ {0}
      BY <1>1
    <3> HIDE DEF n
    <3>2. n > 1 \/ n = 1
      BY <3>1
    <3> QED BY <1>7, <3>2
  <2>3. index \in Nat
    BY <1>1, <1>2
  <2> QED BY <1>4, <2>1, <2>2, <2>3
<1> QED BY <1>6, <1>7

\* Placing an asset appends one item that starts where the day has got to.
LEMMA PlaceFacts ==
  ASSUME PlannerTypeOK, NEW a \in Assets, Place(a)
  PROVE  /\ filled' = filled + Duration(a)
         /\ filled' \in Nat
         /\ items' \in Seq(ItemRows)
         /\ Len(items') = Len(items) + 1
         /\ \A k \in 1 .. Len(items) : items'[k] = items[k]
         /\ items'[Len(items) + 1] = [asset |-> a, start |-> filled, finish |-> filled']
<1>1. filled' = filled + Duration(a) /\ filled' \in Nat
  BY DurationPositive DEF Place, PlannerTypeOK
<1>2. [asset |-> a, start |-> filled, finish |-> filled'] \in ItemRows
  BY <1>1 DEF ItemRows, PlannerTypeOK
<1>3. items \in Seq(ItemRows) /\ items' = Append(items, [asset |-> a, start |-> filled, finish |-> filled'])
  BY DEF Place, PlannerTypeOK
<1> QED BY <1>1, <1>2, <1>3

\* Going on in the order or shuffling anew keeps a shuffle of the pool.
LEMMA AdvanceFacts ==
  ASSUME Sorted, stage = "video", NEW i \in Nat, Advance(i), UNCHANGED pool
  PROVE  /\ order' \in Shuffles(pool)
         /\ order' \in Seq(Videos)
         /\ Len(order') = Len(order)
         /\ index' \in Nat
         /\ index' < Len(order')
<1>1. pool \in SUBSET Videos /\ pool # {} /\ order \in Shuffles(pool)
  BY DEF Sorted, Shuffled, PlannerTypeOK
<1>2. order' \in Shuffles(pool)
  BY <1>1 DEF Advance
<1>3. /\ order' \in Seq(Videos) /\ Len(order') = Cardinality(pool) /\ Len(order') \in Nat \ {0}
      /\ Len(order) = Cardinality(pool)
  BY <1>1, <1>2, ShuffleFacts
<1> QED BY <1>2, <1>3 DEF Advance

\* The initial state is well typed.
LEMMA InitSorted == PlannerInit => Sorted
  BY DEF PlannerInit, Sorted, PlannerTypeOK, Shuffled

\* Every step keeps the types.
LEMMA NextSorted == Sorted /\ [PlannerNext]_plannerVars => Sorted'
<1> SUFFICES ASSUME Sorted, [PlannerNext]_plannerVars PROVE Sorted'
  OBVIOUS
<1>1. ASSUME NEW videos \in SUBSET Videos, NEW bumpers \in SUBSET Bumpers, Start(videos, bumpers)
      PROVE  Sorted'
  <2>1. order' \in Seq(Videos) /\ Len(order') \in Nat \ {0}
    BY <1>1, ShuffleFacts DEF Start
  <2>2. items' \in Seq(ItemRows)
    BY <1>1 DEF Start
  <2> QED BY <1>1, <2>1, <2>2 DEF Start, Sorted, PlannerTypeOK, Shuffled
<1>2. ASSUME NEW b \in Bumpers, AddBumper(b) PROVE Sorted'
  <2>1. filled' \in Nat /\ items' \in Seq(ItemRows)
    BY <1>2, PlaceFacts DEF AddBumper, Sorted, Assets
  <2> QED BY <1>2, <2>1 DEF AddBumper, Sorted, PlannerTypeOK, Shuffled
<1>3. CASE AddVideo
  <2>1. Pick \in Nat /\ At(Pick) \in Videos
    BY <1>3, PickFacts DEF AddVideo
  <2>2. filled' \in Nat /\ items' \in Seq(ItemRows)
    BY <1>3, <2>1, PlaceFacts DEF AddVideo, Sorted, Assets
  <2>3. order' \in Shuffles(pool) /\ order' \in Seq(Videos) /\ index' \in Nat /\ index' < Len(order')
    BY <1>3, <2>1, AdvanceFacts DEF AddVideo
  <2>4. stage' \in {"commit", "bumper", "video"} /\ last' \in Videos /\ UNCHANGED <<spots, pool>>
    BY <1>3, <2>1 DEF AddVideo
  <2>5. pool # {}
    BY <1>3 DEF AddVideo, Sorted, Shuffled
  <2> QED BY <2>2, <2>3, <2>4, <2>5 DEF Sorted, PlannerTypeOK, Shuffled
<1>4. CASE Publish
  BY <1>4 DEF Publish, Sorted, PlannerTypeOK, Shuffled
<1>5. CASE UNCHANGED plannerVars
  BY <1>5 DEF plannerVars, Sorted, PlannerTypeOK, Shuffled
<1> QED BY <1>1, <1>2, <1>3, <1>4, <1>5 DEF PlannerNext, Fill

-----------------------------------------------------------------------------
(* The day is tiled, and nothing repeats.                                  *)

\* The video planned last is the one the loop remembers.
Remembered ==
    stage # "idle" =>
        \A k \in DOMAIN items :
            /\ items[k].asset \in Videos
            /\ \A m \in k + 1 .. Len(items) : items[m].asset \notin Videos
            => items[k].asset = last

Planned == Sorted /\ TilesDay /\ Remembered /\ NoRepeat

\* An item placed before the day is over continues the tiling.
LEMMA PlaceTiles ==
  ASSUME Planned, NEW a \in Assets, Place(a), Filling,
         stage' \in {"bumper", "video", "commit"},
         stage' = "commit" <=> filled' >= Target
  PROVE  TilesDay'
<1> DEFINE n == Len(items)
<1>1. n \in Nat /\ items \in Seq(ItemRows) /\ filled \in Nat /\ Target \in Nat
  BY PlannerAssumption DEF Planned, Sorted, PlannerTypeOK
<1>2. /\ filled' = filled + Duration(a)
      /\ filled' \in Nat
      /\ Len(items') = n + 1
      /\ items' \in Seq(ItemRows)
      /\ \A k \in 1 .. n : items'[k] = items[k]
      /\ items'[n + 1] = [asset |-> a, start |-> filled, finish |-> filled']
  BY PlaceFacts DEF Planned, Sorted
<1>3. filled < filled' /\ filled < Target
  BY <1>1, <1>2, DurationPositive DEF Planned, TilesDay
<1>4. DOMAIN items = 1 .. n /\ DOMAIN items' = 1 .. n + 1
  BY <1>1, <1>2
<1>5. ASSUME NEW k \in DOMAIN items'
      PROVE  /\ items'[k].start = IF k = 1 THEN 0 ELSE items'[k - 1].finish
             /\ items'[k].start < items'[k].finish
             /\ items'[k].start < Target
  <2>1. CASE k \in 1 .. n
    <3>1. k # 1 => k - 1 \in 1 .. n
      BY <1>1, <2>1
    <3> QED BY <1>2, <1>4, <2>1, <3>1 DEF Planned, TilesDay
  <2>2. CASE k = n + 1
    <3>1. items'[k].start = filled /\ items'[k].finish = filled'
      BY <1>2, <2>2
    <3>2. filled = IF k = 1 THEN 0 ELSE items[n].finish
      BY <1>1, <2>2 DEF Planned, TilesDay
    <3>3. k # 1 => k - 1 = n /\ items'[n] = items[n]
      BY <1>1, <1>2, <2>2
    <3> QED BY <1>3, <3>1, <3>2, <3>3
  <2> QED BY <1>1, <1>4, <1>5, <2>1, <2>2
<1>6. items' # <<>> /\ filled' = items'[Len(items')].finish
  BY <1>1, <1>2
<1>7. (Filling' => filled' < Target) /\ (stage' = "commit" => filled' >= Target)
  BY <1>1, <1>2 DEF Filling
<1> QED BY <1>5, <1>6, <1>7 DEF TilesDay

\* What an appended item changes: nothing before it.
LEMMA PlaceKeepsBefore ==
  ASSUME Planned, NEW a \in Assets, Place(a)
  PROVE  /\ Len(items) \in Nat
         /\ DOMAIN items = 1 .. Len(items)
         /\ DOMAIN items' = 1 .. Len(items) + 1
         /\ Len(items') = Len(items) + 1
         /\ \A k \in DOMAIN items : items'[k].asset = items[k].asset
         /\ items'[Len(items) + 1].asset = a
<1>1. Len(items) \in Nat /\ DOMAIN items = 1 .. Len(items)
  BY DEF Planned, Sorted, PlannerTypeOK
<1>2. /\ items' \in Seq(ItemRows)
      /\ Len(items') = Len(items) + 1
      /\ \A k \in 1 .. Len(items) : items'[k] = items[k]
      /\ items'[Len(items) + 1] = [asset |-> a, start |-> filled, finish |-> filled']
  BY PlaceFacts DEF Planned, Sorted
<1> QED BY <1>1, <1>2

\* A bumper neither repeats a video nor makes the loop forget one.
LEMMA BumperRepeatsNothing ==
  ASSUME Planned, NEW b \in Bumpers, AddBumper(b)
  PROVE  Remembered' /\ NoRepeat'
<1> DEFINE n == Len(items)
<1>1. /\ n \in Nat
      /\ DOMAIN items = 1 .. n
      /\ DOMAIN items' = 1 .. n + 1
      /\ Len(items') = n + 1
      /\ \A k \in 1 .. n : items'[k].asset = items[k].asset
      /\ items'[n + 1].asset = b
  BY PlaceKeepsBefore DEF AddBumper, Assets
<1>2. b \notin Videos
  BY PlannerAssumption
<1>3. stage # "idle" /\ UNCHANGED <<order, last>>
  BY DEF AddBumper
<1> HIDE DEF n
<1>4. ASSUME NEW k \in 1 .. n + 1, items'[k].asset \in Videos,
             \A m \in k + 1 .. n + 1 : items'[m].asset \notin Videos
      PROVE  items'[k].asset = last
  <2>1. k \in 1 .. n
    BY <1>1, <1>2, <1>4
  <2>2. \A m \in k + 1 .. n : m \in 1 .. n /\ m \in k + 1 .. n + 1
    BY <1>1, <2>1
  <2> QED BY <1>1, <1>3, <1>4, <2>1, <2>2 DEF Planned, Remembered, n
<1>5. ASSUME NEW j \in 1 .. n + 1, NEW k \in 1 .. n + 1, j < k, items'[j].asset \in Videos,
             items'[j].asset = items'[k].asset,
             \A m \in j + 1 .. k - 1 : items'[m].asset \notin Videos
      PROVE  Len(order) = 1
  <2>1. k \in 1 .. n /\ j \in 1 .. n
    BY <1>1, <1>2, <1>5
  <2>2. \A m \in j + 1 .. k - 1 : m \in 1 .. n
    BY <1>1, <2>1
  <2> QED BY <1>1, <1>5, <2>1, <2>2 DEF Planned, NoRepeat
<1>6. Remembered'
  BY <1>1, <1>3, <1>4 DEF Remembered
<1> QED BY <1>1, <1>3, <1>5, <1>6 DEF NoRepeat

\* The video that follows is not the one before, unless there is only one.
LEMMA VideoRepeatsNothing ==
  ASSUME Planned, AddVideo
  PROVE  Remembered' /\ NoRepeat'
<1> DEFINE n == Len(items)
           v == At(Pick)
<1>1. Pick \in Nat /\ v \in Videos /\ (v = last => Len(order) = 1)
  BY PickFacts DEF Planned, AddVideo
<1>2. /\ n \in Nat
      /\ DOMAIN items = 1 .. n
      /\ DOMAIN items' = 1 .. n + 1
      /\ Len(items') = n + 1
      /\ \A k \in 1 .. n : items'[k].asset = items[k].asset
      /\ items'[n + 1].asset = v
  BY <1>1, PlaceKeepsBefore DEF AddVideo, Assets
<1>3. Len(order') = Len(order)
  BY <1>1, AdvanceFacts DEF Planned, AddVideo
<1>4. stage # "idle" /\ last' = v
  BY DEF AddVideo
<1> HIDE DEF n, v
<1>5. ASSUME NEW k \in 1 .. n + 1, \A m \in k + 1 .. n + 1 : items'[m].asset \notin Videos
      PROVE  items'[k].asset = last'
  <2>1. k = n + 1
    BY <1>1, <1>2, <1>5
  <2> QED BY <1>2, <1>4, <2>1
<1>6. ASSUME NEW j \in 1 .. n + 1, NEW k \in 1 .. n + 1, j < k, items'[j].asset \in Videos,
             items'[j].asset = items'[k].asset,
             \A m \in j + 1 .. k - 1 : items'[m].asset \notin Videos
      PROVE  Len(order) = 1
  <2>1. j \in 1 .. n /\ \A m \in j + 1 .. k - 1 : m \in 1 .. n
    BY <1>2, <1>6
  <2>2. CASE k \in 1 .. n
    BY <1>2, <1>6, <2>1, <2>2 DEF Planned, NoRepeat
  <2>3. CASE k = n + 1
    <3>1. items[j].asset \in Videos /\ items[j].asset = v
      BY <1>2, <1>6, <2>1, <2>3
    <3>2. \A m \in j + 1 .. n : items[m].asset \notin Videos
      BY <1>2, <1>6, <2>1, <2>3
    <3>3. items[j].asset = last
      BY <1>2, <1>4, <2>1, <3>1, <3>2 DEF Planned, Remembered, n
    <3> QED BY <1>1, <3>1, <3>3
  <2> QED BY <1>2, <2>2, <2>3
<1>7. Remembered'
  BY <1>2, <1>5 DEF Remembered
<1> QED BY <1>2, <1>3, <1>6, <1>7 DEF NoRepeat

\* A call begins with nothing placed.
LEMMA EmptyPlan ==
  ASSUME items = <<>>, filled = 0, stage # "commit"
  PROVE  TilesDay /\ Remembered /\ NoRepeat
<1>1. DOMAIN items = {} /\ 0 < Target
  BY PlannerAssumption
<1> QED BY <1>1 DEF TilesDay, Remembered, NoRepeat, Filling

\* The initial state.
LEMMA InitPlanned == PlannerInit => Planned
  BY InitSorted, EmptyPlan DEF PlannerInit, Planned

\* Every step keeps the tiling and the alternation.
LEMMA NextPlanned == Planned /\ [PlannerNext]_plannerVars => Planned'
<1> SUFFICES ASSUME Planned, [PlannerNext]_plannerVars PROVE Planned'
  OBVIOUS
<1>1. Sorted'
  BY NextSorted DEF Planned
<1>2. ASSUME NEW videos \in SUBSET Videos, NEW bumpers \in SUBSET Bumpers, Start(videos, bumpers)
      PROVE  (TilesDay /\ Remembered /\ NoRepeat)'
  <2>1. items' = <<>> /\ filled' = 0 /\ stage' # "commit"
    BY <1>2 DEF Start
  <2>2. DOMAIN items' = {} /\ 0 < Target
    BY <2>1, PlannerAssumption
  <2> QED BY <2>1, <2>2 DEF TilesDay, Remembered, NoRepeat, Filling
<1>3. ASSUME NEW b \in Bumpers, AddBumper(b)
      PROVE  (TilesDay /\ Remembered /\ NoRepeat)'
  <2>1. b \in Assets /\ Place(b) /\ Filling
    BY <1>3 DEF AddBumper, Assets, Filling
  <2>2. stage' = IF filled' >= Target THEN "commit" ELSE "video"
    BY <1>3 DEF AddBumper
  <2>3. TilesDay'
    BY <2>1, <2>2, PlaceTiles
  <2> QED BY <1>3, <2>3, BumperRepeatsNothing
<1>4. CASE AddVideo
  <2>1. At(Pick) \in Assets /\ Place(At(Pick)) /\ Filling
    BY <1>4, PickFacts DEF AddVideo, Assets, Filling, Planned
  <2>2. stage' = IF filled' >= Target THEN "commit" ELSE IF spots # {} THEN "bumper" ELSE "video"
    BY <1>4 DEF AddVideo
  <2>3. TilesDay'
    BY <2>1, <2>2, PlaceTiles
  <2> QED BY <1>1, <1>4, <2>3, VideoRepeatsNothing DEF Planned
<1>5. CASE Publish
  BY <1>1, <1>5 DEF Publish, Planned, TilesDay, Remembered, NoRepeat, Filling
<1>6. CASE UNCHANGED plannerVars
  BY <1>1, <1>6 DEF plannerVars, Planned, TilesDay, Remembered, NoRepeat, Filling
<1> QED BY <1>1, <1>2, <1>3, <1>4, <1>5, <1>6 DEF PlannerNext, Fill, Planned

-----------------------------------------------------------------------------
(* Every video gets its turn.                                              *)

\* A shuffle leaves no video out.
LEMMA ShuffleIsComplete ==
  ASSUME NEW S \in SUBSET Videos, S # {}, NEW o \in Shuffles(S), NEW x \in S
  PROVE  \E p \in 1 .. Len(o) : o[p] = x
<1>1. IsFiniteSet(S)
  BY FS_Subset, PlannerAssumption
<1>2. Cardinality(S) \in Nat
  BY <1>1, FS_CardinalityType
<1> DEFINE D == 1 .. Cardinality(S)
<1>3. o \in [D -> S] /\ \A i, j \in D : i # j => o[i] # o[j]
  BY DEF Shuffles, SetToSeqs
<1>4. o \in Injection(D, S)
  BY <1>3 DEF Injection, IsInjective
<1>5. Cardinality(D) = Cardinality(S)
  BY <1>2, FS_Interval
<1> HIDE DEF D
<1>6. o \in Surjection(D, S)
  BY <1>1, <1>4, <1>5, FS_Injection
<1>7. \E p \in D : o[p] = x
  BY <1>6 DEF Surjection
<1> QED BY <1>7, ShuffleFacts DEF D

\* The videos shown lately are finitely many, and none among no items.
LEMMA ShownFacts ==
  ASSUME NEW j \in Nat, NEW k \in Nat
  PROVE  /\ IsFiniteSet(Shown(j, k))
         /\ Cardinality(Shown(j, k)) \in Nat
         /\ Shown(k + 1, k) = {}
<1>1. Shown(j, k) \in SUBSET (j .. k) /\ IsFiniteSet(j .. k)
  BY FS_Interval DEF Shown
<1>2. IsFiniteSet(Shown(j, k)) /\ Cardinality(Shown(j, k)) \in Nat
  BY <1>1, FS_Subset, FS_CardinalityType
<1> QED BY <1>2 DEF Shown

\* x is shown nowhere from the j-th item on.
Absent(x, j) == \A m \in Shown(j, Len(items)) : items[m].asset # x
Lately(j)    == Cardinality(Shown(j, Len(items)))

\* How long a video has been waiting depends on its place in the order.  One
\* that the order has passed was shown there, or just before when it was
\* skipped; one still to come was shown in the order before, in which it may
\* have been first.
Wait(p) == IF p <= index THEN index - p ELSE Len(order) - 1 + index

Turning ==
    stage # "idle" =>
        /\ index > 0 => last = order[index]
        /\ \A j \in 1 .. Len(items) + 1 :
             /\ Absent(last, j) => Shown(j, Len(items)) = {}
             /\ \A p \in 1 .. Len(order) : Absent(order[p], j) => Lately(j) <= Wait(p)

InTurn == Planned /\ Turning /\ EveryVideoInTurn

\* A bumper shows no video.
LEMMA BumperTurns ==
  ASSUME InTurn, NEW b \in Bumpers, AddBumper(b)
  PROVE  Turning'
<1>0. PICK n \in Nat : n = Len(items)
  BY PlaceKeepsBefore DEF InTurn, AddBumper, Assets
<1>1. /\ n \in Nat
      /\ Len(items') = n + 1
      /\ \A k \in 1 .. n : items'[k].asset = items[k].asset
      /\ items'[n + 1].asset = b
  BY <1>0, PlaceKeepsBefore DEF InTurn, AddBumper, Assets
<1>2. b \notin Videos
  BY PlannerAssumption
<1>3. stage # "idle" /\ UNCHANGED <<order, index, last>>
  BY DEF AddBumper
<1>4. Len(order) \in Nat \ {0} /\ index \in Nat /\ order \in Seq(Videos)
  BY <1>3, ShuffleFacts DEF InTurn, Planned, Sorted, Shuffled, PlannerTypeOK
<1>5. ASSUME NEW j \in 1 .. n + 1
      PROVE  Shown(j, n + 1)' = Shown(j, n)
  BY <1>1, <1>2, <1>5 DEF Shown
<1>6. ASSUME NEW j \in 1 .. n + 1
      PROVE  /\ Lately(j)' = Lately(j)
             /\ Shown(j, Len(items))' = Shown(j, n)
             /\ \A x : Absent(x, j)' => Absent(x, j)
  <2>1. Shown(j, Len(items))' = Shown(j, n)
    BY <1>1, <1>5 DEF Shown
  <2>2. \A m \in Shown(j, n) : items'[m].asset = items[m].asset
    BY <1>1 DEF Shown
  <2> QED BY <1>0, <2>1, <2>2 DEF Lately, Absent
<1>7. Shown(n + 2, Len(items))' = {} /\ Lately(n + 2)' = 0
  <2>1. Shown(n + 2, Len(items))' = {}
    BY <1>1 DEF Shown
  <2> QED BY <2>1, FS_EmptySet DEF Lately
<1>8. \A p \in 1 .. Len(order) : Wait(p)' = Wait(p) /\ 0 <= Wait(p)
  BY <1>3, <1>4 DEF Wait
<1>9. ASSUME NEW j \in 1 .. n + 2
      PROVE  /\ Absent(last, j)' => Shown(j, Len(items))' = {}
             /\ \A p \in 1 .. Len(order) : Absent(order[p], j)' => Lately(j)' <= Wait(p)'
  <2>1. CASE j = n + 2
    BY <1>7, <1>8, <2>1
  <2>2. CASE j \in 1 .. n + 1
    <3>1. /\ Absent(last, j) => Shown(j, n) = {}
          /\ \A p \in 1 .. Len(order) : Absent(order[p], j) => Lately(j) <= Wait(p)
      BY <1>0, <1>3, <2>2 DEF InTurn, Turning
    <3>2. Absent(last, j)' => Absent(last, j)
      BY <1>3, <1>6, <2>2 DEF Absent
    <3>3. \A p \in 1 .. Len(order) : Absent(order[p], j)' => Absent(order[p], j)
      BY <1>3, <1>6, <2>2 DEF Absent
    <3> QED BY <1>6, <1>8, <2>2, <3>1, <3>2, <3>3
  <2> QED BY <1>1, <2>1, <2>2
<1> QED BY <1>1, <1>3, <1>9 DEF InTurn, Turning

\* The loop skips at most the first video of an order.
LEMMA PickPlace ==
  ASSUME InTurn, AddVideo
  PROVE  /\ Pick + 1 \in 1 .. Len(order)
         /\ At(Pick) = order[Pick + 1]
         /\ Pick = index \/ (Pick = 1 /\ index = 0 /\ order[1] = last)
<1> DEFINE n == Len(order)
<1>1. /\ order \in Seq(Videos)
      /\ n \in Nat \ {0}
      /\ \A i, j \in 1 .. n : i # j => order[i] # order[j]
      /\ index \in 0 .. n - 1
      /\ index > 0 => last = order[index]
  BY ShuffleFacts DEF InTurn, Planned, Sorted, Shuffled, PlannerTypeOK, AddVideo, Turning
<1> HIDE DEF n
<1>2. ASSUME NEW i \in 0 .. n - 1 PROVE At(i) = order[i + 1]
  <2>1. i % n = i
    BY <1>1, <1>2
  <2> QED BY <2>1 DEF At, n
<1>3. CASE index > 0
  <2>1. At(index) # last
    BY <1>1, <1>2, <1>3
  <2> QED BY <1>1, <1>2, <2>1 DEF Pick, n
<1>4. CASE index = 0
  <2>1. At(0) = order[1] /\ (n > 1 => At(1) = order[2])
    BY <1>1, <1>2
  <2>2. Pick = IF At(0) = last /\ n > 1 THEN 1 ELSE 0
    BY <1>4 DEF Pick, n
  <2> QED BY <1>1, <1>4, <2>1, <2>2 DEF n
<1> QED BY <1>1, <1>3, <1>4

\* Showing the q-th video makes every other one wait for one more.
LEMMA OthersWait ==
  ASSUME InTurn, AddVideo, NEW j \in 1 .. Len(items) + 1,
         NEW p \in 1 .. Len(order), p # Pick + 1, Absent(order[p], j)
  PROVE  Lately(j) + 1 <= IF p <= Pick + 1 THEN Pick + 1 - p ELSE Len(order) + Pick
<1> DEFINE n == Len(order)
           q == Pick + 1
<1>1. /\ n \in Nat \ {0}
      /\ index \in 0 .. n - 1
      /\ Lately(j) <= Wait(p)
      /\ Absent(last, j) => Shown(j, Len(items)) = {}
  BY ShuffleFacts DEF InTurn, Planned, Sorted, Shuffled, PlannerTypeOK, AddVideo, Turning
<1>2. q \in 1 .. n /\ (q = index + 1 \/ (q = 2 /\ index = 0 /\ order[1] = last))
  BY PickPlace
<1>3. Lately(j) \in Nat
  <2>1. Len(items) \in Nat
    BY DEF InTurn, Planned, Sorted, PlannerTypeOK
  <2> QED BY <2>1, ShownFacts DEF Lately
<1> HIDE DEF n
<1>4. Pick + 1 = q /\ Pick = q - 1
  <2>1. Pick \in Nat
    BY PickFacts DEF InTurn, Planned, AddVideo
  <2> QED BY <2>1
<1> HIDE DEF q
<1>5. CASE p <= index
  BY <1>1, <1>2, <1>3, <1>4, <1>5 DEF Wait, n
<1>6. CASE p > q
  BY <1>1, <1>2, <1>3, <1>4, <1>6 DEF Wait, n
<1>7. CASE index < p /\ p < q
  <2>1. p = 1 /\ q = 2 /\ order[p] = last
    BY <1>1, <1>2, <1>7
  <2>2. Lately(j) = 0
    BY <1>1, <2>1, FS_EmptySet DEF Lately
  <2> QED BY <1>4, <2>1, <2>2
<1> QED BY <1>1, <1>2, <1>4, <1>5, <1>6, <1>7 DEF n

\* What AddVideo shows is the last video, and one video more.
LEMMA VideoShown ==
  ASSUME InTurn, AddVideo, NEW n \in Nat, n = Len(items)
  PROVE  /\ last' = At(Pick)
         /\ Len(items') = n + 1
         /\ \A j \in 1 .. n + 1 :
              /\ ~Absent(last, j)'
              /\ Lately(j)' = Lately(j) + 1
              /\ \A x : Absent(x, j)' => x # last' /\ Absent(x, j)
         /\ \A x : Absent(x, n + 2)'
         /\ Lately(n + 2)' = 0
         /\ Shown(n + 2, Len(items))' = {}
<1> DEFINE v == At(Pick)
<1>1. v \in Videos /\ v \in Assets /\ Place(v) /\ last' = v
  BY PickFacts DEF InTurn, Planned, AddVideo, Assets
<1>2. /\ n \in Nat
      /\ Len(items') = n + 1
      /\ \A k \in 1 .. n : items'[k].asset = items[k].asset
      /\ items'[n + 1].asset = v
  BY <1>1, PlaceKeepsBefore DEF InTurn
<1> HIDE DEF v
<1>3. ASSUME NEW j \in 1 .. n + 1
      PROVE  /\ Shown(j, Len(items))' = Shown(j, n) \union {n + 1}
             /\ n + 1 \notin Shown(j, n)
             /\ \A m \in Shown(j, n) : items'[m].asset = items[m].asset
  <2>1. Shown(j, Len(items))' = {m \in j .. n + 1 : items'[m].asset \in Videos}
    BY <1>2 DEF Shown
  <2>2. Shown(j, n) = {m \in j .. n : items[m].asset \in Videos}
    BY DEF Shown
  <2>3. \A m \in j .. n + 1 : m \in j .. n \/ m = n + 1
    BY <1>2, <1>3
  <2>4. j .. n \subseteq 1 .. n /\ n + 1 \in j .. n + 1 /\ j .. n \subseteq j .. n + 1 /\ n + 1 \notin j .. n
    BY <1>2, <1>3
  <2> QED BY <1>1, <1>2, <2>1, <2>2, <2>3, <2>4
<1>4. ASSUME NEW j \in 1 .. n + 1
      PROVE  /\ ~Absent(last, j)'
             /\ Lately(j)' = Lately(j) + 1
             /\ \A x : Absent(x, j)' => x # last' /\ Absent(x, j)
  <2>1. IsFiniteSet(Shown(j, n))
    BY <1>2, ShownFacts
  <2>2. Cardinality(Shown(j, n) \union {n + 1}) = Cardinality(Shown(j, n)) + 1
    BY <1>3, <2>1, FS_AddElement
  <2>3. Lately(j)' = Lately(j) + 1
    BY <1>3, <2>2 DEF Lately
  <2>4. \A x : Absent(x, j)' <=> \A m \in Shown(j, n) \union {n + 1} : items'[m].asset # x
    BY <1>3 DEF Absent
  <2>5. ~Absent(last, j)'
    BY <1>1, <1>2, <1>3 DEF Absent
  <2>6. \A x : Absent(x, j)' => x # last' /\ Absent(x, j)
    BY <1>1, <1>2, <1>3, <2>4 DEF Absent
  <2> QED BY <2>3, <2>5, <2>6
<1>5. Shown(n + 2, Len(items))' = {}
  BY <1>2 DEF Shown
<1>6. Lately(n + 2)' = 0 /\ \A x : Absent(x, n + 2)'
  BY <1>5, FS_EmptySet DEF Lately, Absent
<1> QED BY <1>1, <1>2, <1>4, <1>5, <1>6 DEF v

\* A video shown: it starts waiting, the others wait on, also across a
\* re-shuffle, which comes when everybody has been passed.
LEMMA VideoTurns ==
  ASSUME InTurn, AddVideo
  PROVE  Turning'
<1> DEFINE n == Len(order)
           q == Pick + 1
<1>0. PICK l \in Nat : l = Len(items)
  BY DEF InTurn, Planned, Sorted, PlannerTypeOK
<1>1. /\ order \in Seq(Videos) /\ order \in Shuffles(pool) /\ pool \in SUBSET Videos /\ pool # {}
      /\ n \in Nat \ {0} /\ n = Cardinality(pool)
      /\ index \in 0 .. n - 1
  BY ShuffleFacts DEF InTurn, Planned, Sorted, Shuffled, PlannerTypeOK, AddVideo
<1>2. Pick \in Nat /\ q \in 1 .. n /\ At(Pick) = order[q]
  BY PickPlace, PickFacts DEF InTurn, Planned, AddVideo
<1>3. /\ order' \in Shuffles(pool)
      /\ order' \in Seq(Videos)
      /\ Len(order') = n
      /\ IF q >= n THEN index' = 0 ELSE index' = q /\ order' = order
  BY <1>2, AdvanceFacts DEF InTurn, Planned, AddVideo, Advance
<1>4. last' = order[q] /\ Len(items') = l + 1
  BY <1>0, <1>2, VideoShown
<1>5. \A j \in 1 .. l + 1 : \A p \in 1 .. n : p # q /\ Absent(order[p], j) =>
        Lately(j) + 1 <= IF p <= q THEN q - p ELSE n - 1 + q
  <2>1. Pick = q - 1
    BY <1>2
  <2> QED BY <1>0, <1>1, <1>2, <2>1, OthersWait
<1> HIDE DEF n, q
<1>6. index' > 0 => last' = order'[index']
  BY <1>2, <1>3, <1>4
<1>7. ASSUME NEW j \in 1 .. l + 1, NEW p \in 1 .. n, NEW x, x = order'[p], Absent(x, j)'
      PROVE  Lately(j)' <= Wait(p)'
  <2>0. Wait(p)' = IF p <= index' THEN index' - p ELSE n - 1 + index'
    BY <1>3 DEF Wait
  <2>1. x # order[q] /\ Absent(x, j) /\ Lately(j)' = Lately(j) + 1
    BY <1>0, <1>4, <1>7, VideoShown
  <2>2. CASE q < n
    <3>1. order' = order /\ index' = q /\ p # q
      BY <1>1, <1>2, <1>3, <1>7, <2>1, <2>2
    <3>2. Lately(j) + 1 <= IF p <= q THEN q - p ELSE n - 1 + q
      BY <1>5, <1>7, <2>1, <3>1
    <3> QED BY <2>0, <2>1, <3>1, <3>2
  <2>3. CASE q = n
    <3>1. x \in pool /\ index' = 0
      BY <1>1, <1>2, <1>3, <1>7, <2>3, ShuffleFacts
    <3>2. PICK r \in 1 .. n : order[r] = x
      BY <1>1, <3>1, ShuffleIsComplete DEF n
    <3>3. r # q /\ r <= q
      BY <1>1, <2>1, <2>3, <3>2
    <3>4. Lately(j) + 1 <= q - r
      BY <1>5, <2>1, <3>2, <3>3
    <3>5. Lately(j)' <= n - 1
      <4>1. Lately(j) \in Nat
        BY <1>0, ShownFacts DEF Lately
      <4> QED BY <1>1, <2>1, <2>3, <3>4, <4>1
    <3> QED BY <1>1, <2>0, <3>1, <3>5
  <2> QED BY <1>1, <1>2, <2>2, <2>3
<1>8. \A p \in 1 .. n : 0 <= Wait(p)'
  <2>1. index' \in Nat
    BY <1>1, <1>2, <1>3
  <2>2. n \in Nat \ {0}
    BY <1>1
  <2>3. ASSUME NEW p \in 1 .. n PROVE Wait(p)' = IF p <= index' THEN index' - p ELSE n - 1 + index'
    BY <1>3 DEF Wait
  <2> QED BY <2>1, <2>2, <2>3
<1>9. ASSUME NEW j \in 1 .. l + 2
      PROVE  /\ Absent(last, j)' => Shown(j, Len(items))' = {}
             /\ \A p \in 1 .. n : Absent(order[p], j)' => Lately(j)' <= Wait(p)'
  <2>1. CASE j \in 1 .. l + 1
    <3>1. Absent(last, j)' => Shown(j, Len(items))' = {}
      BY <1>0, <2>1, VideoShown
    <3>2. \A p \in 1 .. n : Absent(order[p], j)' => Lately(j)' <= Wait(p)'
      BY <1>7, <2>1 DEF Absent
    <3> QED BY <3>1, <3>2
  <2>2. CASE j = l + 2
    BY <1>0, <1>8, <2>2, VideoShown
  <2> QED BY <1>4, <2>1, <2>2
<1>10. \A j \in 1 .. Len(items') + 1 : j \in 1 .. l + 2
  BY <1>4
<1> QED BY <1>3, <1>6, <1>9, <1>10 DEF Turning

\* The window that ends now, if it is long enough, shows everybody.
RoundIsFull ==
    stage # "idle" =>
        \A j \in 1 .. Len(items), a \in pool :
            Lately(j) >= 2 * Len(order) - 1 =>
                \E m \in Shown(j, Len(items)) : items[m].asset = a

\* Who waits less than two orders is shown in any two orders less one.
LEMMA TurnsComeRound == Planned /\ Turning => RoundIsFull
<1> SUFFICES ASSUME Planned, Turning, stage # "idle", NEW j \in 1 .. Len(items), NEW a \in pool,
                    Lately(j) >= 2 * Len(order) - 1
             PROVE  \E m \in Shown(j, Len(items)) : items[m].asset = a
  BY DEF RoundIsFull
<1>1. /\ order \in Shuffles(pool) /\ pool \in SUBSET Videos /\ pool # {}
      /\ Len(order) \in Nat \ {0}
      /\ index \in Nat /\ index < Len(order)
      /\ Len(items) \in Nat
  BY ShuffleFacts DEF Planned, Sorted, Shuffled, PlannerTypeOK
<1>2. PICK p \in 1 .. Len(order) : order[p] = a
  BY <1>1, ShuffleIsComplete
<1>3. Lately(j) \in Nat
  BY <1>1, ShownFacts DEF Lately
<1>4. Wait(p) < 2 * Len(order) - 1
  BY <1>1 DEF Wait
<1>5. ~Absent(order[p], j)
  <2>1. Absent(order[p], j) => Lately(j) <= Wait(p)
    BY <1>1 DEF Turning
  <2>2. Wait(p) \in Int
    BY <1>1 DEF Wait
  <2> QED BY <1>1, <1>3, <1>4, <2>1, <2>2
<1> QED BY <1>2, <1>5 DEF Absent

\* So it does after a step.
LEMMA TurnsComeRoundNext == (Planned /\ Turning)' => RoundIsFull'
  BY TurnsComeRound, PTL

\* Placing one more item leaves the windows before it as they are.
LEMMA OldWindows ==
  ASSUME InTurn, (Planned /\ Turning)', NEW a \in Assets, Place(a),
         stage' # "idle", UNCHANGED pool, Len(order') = Len(order)
  PROVE  EveryVideoInTurn'
<1>0. PICK n \in Nat : n = Len(items)
  BY PlaceKeepsBefore DEF InTurn
<1>1. /\ DOMAIN items = 1 .. n
      /\ DOMAIN items' = 1 .. n + 1
      /\ Len(items') = n + 1
      /\ \A k \in 1 .. n : items'[k].asset = items[k].asset
  BY <1>0, PlaceKeepsBefore DEF InTurn
<1>2. ASSUME NEW j \in 1 .. n + 1, NEW k \in 1 .. n + 1, NEW x \in pool,
             Cardinality(Shown(j, k)') >= 2 * Len(order) - 1
      PROVE  \E m \in Shown(j, k)' : items'[m].asset = x
  <2>1. CASE k = n + 1
    <3>1. k = Len(items') /\ x \in pool' /\ j \in 1 .. Len(items')
      BY <1>1, <2>1
    <3>2. Lately(j)' = Cardinality(Shown(j, k)')
      BY <3>1 DEF Lately, Shown
    <3>3. Lately(j)' >= 2 * Len(order') - 1
      BY <1>2, <3>2
    <3>4. \E m \in Shown(j, Len(items))' : items'[m].asset = x
      BY <3>1, <3>3, TurnsComeRoundNext DEF RoundIsFull
    <3> QED BY <3>1, <3>4 DEF Shown
  <2>2. CASE k \in 1 .. n /\ j \in 1 .. n
    <3>1. Shown(j, k)' = Shown(j, k)
      BY <1>1, <2>2 DEF Shown
    <3>2. \E m \in Shown(j, k) : items[m].asset = x
      BY <1>1, <1>2, <2>2, <3>1 DEF InTurn, EveryVideoInTurn
    <3> QED BY <1>1, <2>2, <3>1, <3>2 DEF Shown
  <2>3. CASE k \in 1 .. n /\ j = n + 1
    <3>1. Shown(j, k)' = {}
      BY <2>3 DEF Shown
    <3>2. Len(order) \in Nat \ {0}
      BY ShuffleFacts DEF Planned, Sorted, Shuffled, PlannerTypeOK
    <3> QED BY <1>2, <3>1, <3>2, FS_EmptySet
  <2> QED BY <2>1, <2>2, <2>3
<1> QED BY <1>1, <1>2 DEF EveryVideoInTurn

\* The initial state.
LEMMA InitInTurn == PlannerInit => InTurn
  BY InitPlanned DEF PlannerInit, InTurn, Turning, EveryVideoInTurn

\* Every step keeps everybody's turn.
LEMMA NextInTurn == InTurn /\ [PlannerNext]_plannerVars => InTurn'
<1> SUFFICES ASSUME InTurn, [PlannerNext]_plannerVars PROVE InTurn'
  OBVIOUS
<1>1. Planned'
  BY NextPlanned DEF InTurn
<1>2. ASSUME NEW videos \in SUBSET Videos, NEW bumpers \in SUBSET Bumpers, Start(videos, bumpers)
      PROVE  (Turning /\ EveryVideoInTurn)'
  <2>1. items' = <<>> /\ index' = 0 /\ Len(items') = 0 /\ DOMAIN items' = {}
    BY <1>2 DEF Start
  <2>2. Len(order') \in Nat \ {0}
    BY <1>2, ShuffleFacts DEF Start
  <2>3. \A j \in 1 .. Len(items') + 1 : Shown(j, Len(items))' = {} /\ Lately(j)' = 0
    BY <2>1, FS_EmptySet DEF Shown, Lately
  <2>4. \A p \in 1 .. Len(order') : Wait(p)' >= 0
    BY <2>1, <2>2 DEF Wait
  <2> QED BY <2>1, <2>3, <2>4 DEF Turning, EveryVideoInTurn
<1>3. ASSUME NEW b \in Bumpers, AddBumper(b)
      PROVE  (Turning /\ EveryVideoInTurn)'
  <2>1. Turning'
    BY <1>3, BumperTurns
  <2> QED BY <1>1, <1>3, <2>1, OldWindows DEF AddBumper, Assets
<1>4. CASE AddVideo
  <2>1. Turning'
    BY <1>4, VideoTurns
  <2>2. PICK v \in Assets : Place(v) /\ stage' # "idle" /\ UNCHANGED pool
    BY <1>4, PickFacts DEF AddVideo, Assets, InTurn, Planned
  <2>3. Len(order') = Len(order)
    <3>1. Pick + 1 \in Nat
      BY <1>4, PickFacts DEF AddVideo, InTurn, Planned
    <3> QED BY <1>4, <3>1, AdvanceFacts DEF AddVideo, InTurn, Planned
  <2>4. EveryVideoInTurn'
    BY <1>1, <2>1, <2>2, <2>3, OldWindows
  <2> QED BY <1>1, <2>1, <2>4 DEF InTurn
<1>5. CASE Publish \/ UNCHANGED plannerVars
  <2>1. UNCHANGED <<pool, order, index, last, items>> /\ (stage' # "idle" => stage' = stage)
    BY <1>5 DEF Publish, plannerVars
  <2>2. Turning'
    BY <2>1 DEF InTurn, Turning, Absent, Lately, Wait, Shown
  <2>3. EveryVideoInTurn'
    <3>1. \A j, k : Shown(j, k)' = Shown(j, k)
      BY <2>1 DEF Shown
    <3>2. ASSUME NEW j \in DOMAIN items, NEW k \in DOMAIN items, NEW a \in pool,
                 Cardinality(Shown(j, k)) >= 2 * Len(order) - 1
          PROVE  \E m \in Shown(j, k) : items[m].asset = a
      BY <3>2 DEF InTurn, EveryVideoInTurn
    <3> QED BY <2>1, <3>1, <3>2 DEF EveryVideoInTurn
  <2> QED BY <1>1, <2>2, <2>3 DEF InTurn
<1> QED BY <1>1, <1>2, <1>3, <1>4, <1>5 DEF PlannerNext, Fill, InTurn

-----------------------------------------------------------------------------
(* A plan runs forward and comes to an end.                                *)

\* Whatever stands between them, an item is over when a later one starts: the
\* order of the rows is that of their times, on which preparation (sequence)
\* and airing (planned_start_at) rely to mean the same.
RunsForward ==
    \A j, k \in DOMAIN items : j < k => items[j].finish <= items[k].start

\* Every pass of the loop adds time, so a call makes no more passes than the day
\* has seconds.
EndsInTime ==
    /\ Len(items) <= filled
    /\ Filling => Len(items) < Target

\* What is placed ends no later than the day has got to.
Reached == \A k \in DOMAIN items : items[k].finish <= filled

Advancing == Planned /\ Reached /\ RunsForward /\ Len(items) <= filled

\* One item more, from there on.
LEMMA PlaceAdvances ==
  ASSUME Advancing, NEW a \in Assets, Place(a)
  PROVE  (Reached /\ RunsForward /\ Len(items) <= filled)'
<1>0. PICK n \in Nat : n = Len(items)
  BY PlaceKeepsBefore DEF Advancing
<1>1. /\ DOMAIN items = 1 .. n
      /\ DOMAIN items' = 1 .. n + 1
      /\ Len(items') = n + 1
      /\ \A k \in 1 .. n : items'[k] = items[k] /\ items[k].finish \in Nat
      /\ items'[n + 1].start = filled /\ items'[n + 1].finish = filled'
  <2>1. Sorted /\ PlannerTypeOK
    BY DEF Advancing, Planned, Sorted
  <2>2. \A k \in 1 .. n : items[k] \in ItemRows
    BY <1>0, <2>1 DEF PlannerTypeOK
  <2>3. \A k \in 1 .. n : items[k].finish \in Nat
    BY <2>2 DEF ItemRows
  <2>4. DOMAIN items = 1 .. n /\ DOMAIN items' = 1 .. n + 1 /\ Len(items') = n + 1
    BY <1>0, PlaceKeepsBefore DEF Advancing
  <2>5. /\ \A k \in 1 .. n : items'[k] = items[k]
        /\ items'[n + 1] = [asset |-> a, start |-> filled, finish |-> filled']
    BY <1>0, <2>1, PlaceFacts
  <2> QED BY <2>3, <2>4, <2>5
<1>2. filled \in Nat /\ filled' \in Nat /\ filled + 1 <= filled'
  <2>1. filled \in Nat /\ filled' = filled + Duration(a)
    BY PlaceFacts DEF Advancing, Planned, Sorted, PlannerTypeOK
  <2> QED BY <2>1, DurationPositive
<1>3. ASSUME NEW k \in 1 .. n + 1 PROVE items'[k].finish <= filled'
  <2>1. CASE k \in 1 .. n
    BY <1>1, <1>2, <2>1 DEF Advancing, Reached
  <2>2. CASE k = n + 1
    BY <1>1, <1>2, <2>2
  <2> QED BY <2>1, <2>2
<1>4. ASSUME NEW j \in 1 .. n + 1, NEW k \in 1 .. n + 1, j < k
      PROVE  items'[j].finish <= items'[k].start
  <2>1. CASE k \in 1 .. n
    BY <1>1, <1>4, <2>1 DEF Advancing, RunsForward
  <2>2. CASE k = n + 1
    BY <1>1, <1>4, <2>2 DEF Advancing, Reached
  <2> QED BY <2>1, <2>2
<1>5. Len(items') <= filled'
  BY <1>0, <1>1, <1>2 DEF Advancing
<1> QED BY <1>1, <1>3, <1>4, <1>5 DEF Reached, RunsForward

\* Every step of the planner goes forward.
LEMMA NextAdvances == Advancing /\ [PlannerNext]_plannerVars => Advancing'
<1> SUFFICES ASSUME Advancing, [PlannerNext]_plannerVars PROVE Advancing'
  OBVIOUS
<1>1. Planned'
  BY NextPlanned DEF Advancing
<1>2. ASSUME NEW videos \in SUBSET Videos, NEW bumpers \in SUBSET Bumpers, Start(videos, bumpers)
      PROVE  Advancing'
  BY <1>1, <1>2 DEF Start, Advancing, Reached, RunsForward
<1>3. ASSUME NEW b \in Bumpers, AddBumper(b) PROVE Advancing'
  BY <1>1, <1>3, PlaceAdvances DEF AddBumper, Assets, Advancing
<1>4. CASE AddVideo
  <2>1. PICK v \in Assets : Place(v)
    BY <1>4, PickFacts DEF AddVideo, Assets, Advancing, Planned
  <2> QED BY <1>1, <2>1, PlaceAdvances DEF Advancing
<1>5. CASE Publish \/ UNCHANGED plannerVars
  BY <1>1, <1>5 DEF Publish, plannerVars, Advancing, Reached, RunsForward
<1> QED BY <1>2, <1>3, <1>4, <1>5 DEF PlannerNext, Fill

-----------------------------------------------------------------------------
(* The plan, carried over from Planner.                                    *)

\* What Rotation does to a plan is what Planner does, or nothing.
LEMMA PlansLikePlanner == [Next]_vars => [PlannerNext]_plannerVars
<1> SUFFICES ASSUME [Next]_vars PROVE [PlannerNext]_plannerVars
  OBVIOUS
<1>1. CASE StartPlan
  <2>1. VideoPool \in SUBSET Videos /\ Approved(Bumpers) \in SUBSET Bumpers
    BY DEF VideoPool, HealthyVideos, Approved
  <2> QED BY <1>1, <2>1 DEF StartPlan, PlannerNext
<1>2. CASE FillPlan
  BY <1>2 DEF FillPlan, PlannerNext
<1>3. CASE PublishPlan
  BY <1>3 DEF PublishPlan, PlannerNext
<1>4. ASSUME NEW s \in Streamers, StreamerStep(s) \/ Crash(s) PROVE UNCHANGED plannerVars
  BY <1>4 DEF StreamerStep, Claim, PlayEnds, RecordPlay, Crash
<1>5. ASSUME NEW a \in Assets, NEW rights \in Rights, Review(a, rights) PROVE UNCHANGED plannerVars
  BY <1>5 DEF Review
<1>6. CASE UNCHANGED vars
  BY <1>6 DEF vars
<1> QED BY <1>1, <1>2, <1>3, <1>4, <1>5, <1>6 DEF Next

\* The inductive invariant of Planner is one of Rotation.
LEMMA AlwaysPlanned == Spec => []Planned
<1>1. Init => Planned
  BY InitPlanned DEF Init
<1>2. Planned /\ [Next]_vars => Planned'
  BY PlansLikePlanner, NextPlanned
<1> QED BY <1>1, <1>2, PTL DEF Spec

\* The items of every plan tile its day, whatever the durations and bumpers.
THEOREM PlansTileTheDay == Spec => []TilesDay
<1>1. Planned => TilesDay
  BY DEF Planned
<1> QED BY <1>1, AlwaysPlanned, PTL

\* No plan shows a video twice in a row unless it has only one.
THEOREM PlansRepeatNothing == Spec => []NoRepeat
<1>1. Planned => NoRepeat
  BY DEF Planned
<1> QED BY <1>1, AlwaysPlanned, PTL

\* However orders are shuffled and repeats are skipped, of 2n-1 successive
\* videos of a plan none of the n in the pool is missing.
THEOREM EveryVideoGetsItsTurn == Spec => []EveryVideoInTurn
<1>1. Init => InTurn
  BY InitInTurn DEF Init
<1>2. InTurn /\ [Next]_vars => InTurn'
  BY PlansLikePlanner, NextInTurn
<1>3. InTurn => EveryVideoInTurn
  BY DEF InTurn
<1> QED BY <1>1, <1>2, <1>3, PTL DEF Spec

\* Rotation implements Planner: seen by itself, a plan is made as if nobody
\* played, booked or reviewed.
THEOREM RotationPlansAsPlanner == Spec => PlannerSpec
<1>1. Init => PlannerInit
  BY DEF Init
<1> QED BY <1>1, PlansLikePlanner, PTL DEF Spec, PlannerSpec

\* The advance is always in order and bounded.
LEMMA AlwaysAdvancing == Spec => []Advancing
<1>1. Init => Advancing
  <2>1. PlannerInit => Reached /\ RunsForward /\ Len(items) <= filled
    BY DEF PlannerInit, Reached, RunsForward
  <2> QED BY <2>1, InitPlanned DEF Init, Advancing
<1>2. Advancing /\ [Next]_vars => Advancing'
  BY PlansLikePlanner, NextAdvances
<1> QED BY <1>1, <1>2, PTL DEF Spec

\* Of any two items of a plan, the one with the lower number is over when the
\* other starts.
THEOREM PlansRunForward == Spec => []RunsForward
<1>1. Advancing => RunsForward
  BY DEF Advancing
<1> QED BY <1>1, AlwaysAdvancing, PTL

\* A call that is at work has made fewer passes than its day has seconds,
\* whatever durations the library lacks: the loop ends.
THEOREM PlansEndInTime == Spec => []EndsInTime
<1>1. Advancing => EndsInTime
  <2> SUFFICES ASSUME Advancing PROVE EndsInTime
    OBVIOUS
  <2>1. Len(items) \in Nat /\ filled \in Nat /\ Target \in Nat /\ (Filling => filled < Target)
    BY PlannerAssumption DEF Advancing, Planned, Sorted, PlannerTypeOK, TilesDay
  <2> QED BY <2>1 DEF Advancing, EndsInTime
<1> QED BY <1>1, AlwaysAdvancing, PTL

-----------------------------------------------------------------------------
(* Health.                                                                 *)

\* Counting in a log.
LEMMA CountFacts ==
  ASSUME NEW log \in Seq(Outcomes), NEW outcomes \in SUBSET Outcomes
  PROVE  /\ Count(log, outcomes) \in 0 .. Len(log)
         /\ Count(<<>>, outcomes) = 0
         /\ \A outcome \in Outcomes :
              Count(Append(log, outcome), outcomes)
                = IF outcome \in outcomes THEN Count(log, outcomes) + 1 ELSE Count(log, outcomes)
<1> DEFINE n == Len(log)
           Where(l) == {k \in DOMAIN l : l[k] \in outcomes}
<1>1. n \in Nat /\ DOMAIN log = 1 .. n
  OBVIOUS
<1>2. IsFiniteSet(1 .. n) /\ Cardinality(1 .. n) = n
  BY <1>1, FS_Interval
<1>3. Where(log) \in SUBSET (1 .. n)
  BY <1>1
<1>4. IsFiniteSet(Where(log)) /\ Cardinality(Where(log)) <= n
  BY <1>2, <1>3, FS_Subset
<1>5. Cardinality(Where(log)) \in Nat
  BY <1>4, FS_CardinalityType
<1>6. Where(<<>>) = {}
  OBVIOUS
<1>7. ASSUME NEW outcome \in Outcomes
      PROVE  Where(Append(log, outcome))
               = IF outcome \in outcomes THEN Where(log) \union {n + 1} ELSE Where(log)
  <2>1. DOMAIN Append(log, outcome) = 1 .. n + 1
    BY <1>1
  <2>2. \A k \in 1 .. n : Append(log, outcome)[k] = log[k]
    BY <1>1
  <2>3. Append(log, outcome)[n + 1] = outcome
    BY <1>1
  <2> QED BY <1>1, <2>1, <2>2, <2>3
<1>8. n + 1 \notin Where(log)
  BY <1>1
<1>9. Cardinality(Where(log) \union {n + 1}) = Cardinality(Where(log)) + 1
  BY <1>4, <1>8, FS_AddElement
<1>10. Count(log, outcomes) = Cardinality(Where(log)) /\ Count(<<>>, outcomes) = Cardinality(Where(<<>>))
  BY DEF Count
<1>11. \A outcome \in Outcomes : Count(Append(log, outcome), outcomes) = Cardinality(Where(Append(log, outcome)))
  BY DEF Count
<1> HIDE DEF Where
<1>12. Cardinality(Where(<<>>)) = 0
  BY <1>6, FS_EmptySet
<1>13. ASSUME NEW outcome \in Outcomes
       PROVE  Count(Append(log, outcome), outcomes)
                = IF outcome \in outcomes THEN Count(log, outcomes) + 1 ELSE Count(log, outcomes)
  <2>1. CASE outcome \in outcomes
    <3>1. Where(Append(log, outcome)) = Where(log) \union {n + 1}
      BY <1>7, <2>1
    <3> QED BY <1>9, <1>10, <1>11, <2>1, <3>1
  <2>2. CASE outcome \notin outcomes
    <3>1. Where(Append(log, outcome)) = Where(log)
      BY <1>7, <2>2
    <3> QED BY <1>10, <1>11, <2>2, <3>1
  <2> QED BY <2>1, <2>2
<1>14. Count(log, outcomes) \in 0 .. Len(log)
  BY <1>1, <1>4, <1>5, <1>10
<1> QED BY <1>10, <1>12, <1>13, <1>14

\* Multiplying keeps the order.
LEMMA TimesMonotonic ==
  ASSUME NEW x \in Int, NEW y \in Int, NEW d \in Nat \ {0}, x <= y
  PROVE  d * x <= d * y
  OBVIOUS

\* A quotient is below what its dividend is below.
LEMMA QuotientBound ==
  ASSUME NEW x \in Nat, NEW d \in Nat \ {0}, NEW k \in Nat, x < d * k
  PROVE  x \div d \in 0 .. k - 1
<1> DEFINE q == x \div d
<1>1. q \in Int /\ d * q <= x /\ x < d * q + d
  OBVIOUS
<1> HIDE DEF q
<1>2. d * q \in Int /\ d * k \in Int
  BY <1>1
<1>3. q < k
  <2>1. SUFFICES ASSUME k <= q PROVE FALSE
    BY <1>1
  <2> QED BY <1>1, <1>2, <2>1, TimesMonotonic
<1>4. q >= 0
  <2>1. SUFFICES ASSUME q <= 0 - 1 PROVE FALSE
    BY <1>1
  <2>2. d * q <= d * (0 - 1)
    BY <1>1, <2>1, TimesMonotonic
  <2>3. d * (0 - 1) = 0 - d
    OBVIOUS
  <2> QED BY <1>1, <1>2, <2>2, <2>3
<1> QED BY <1>1, <1>3, <1>4 DEF q

\* A share of at most everything, rounded, is at most Perfect.
LEMMA ShareBound ==
  ASSUME NEW n \in Nat \ {0}, NEW c \in 0 .. n
  PROVE  (2 * Perfect * c + n) \div (2 * n) \in 0 .. Perfect
<1>1. 2 * Perfect * c + n \in Nat /\ 2 * n \in Nat \ {0} /\ 2 * Perfect * c + n < (2 * n) * 1001
  BY DEF Perfect
<1> QED BY <1>1, QuotientBound DEF Perfect

\* The health of a log is a number of thousandths.
LEMMA HealthType ==
  ASSUME NEW log \in Seq(Outcomes)
  PROVE  HealthOf(log) \in 0 .. Perfect
<1>1. CASE log = <<>>
  BY <1>1 DEF HealthOf, Perfect
<1>2. CASE log # <<>>
  <2> DEFINE recent == Recent(log)
  <2>1. Len(log) \in Nat \ {0} /\ Window \in Nat \ {0}
    BY <1>2, RotationAssumption
  <2>2. recent \in Seq(Outcomes) /\ Len(recent) \in Nat \ {0}
    BY <2>1 DEF Recent
  <2>3. Count(recent, {"ok"}) \in 0 .. Len(recent)
    BY <2>2, CountFacts DEF Outcomes
  <2> HIDE DEF recent
  <2>4. (2 * Perfect * Count(recent, {"ok"}) + Len(recent)) \div (2 * Len(recent)) \in 0 .. Perfect
    BY <2>2, <2>3, ShareBound
  <2> QED BY <1>2, <2>4 DEF HealthOf, recent
<1> QED BY <1>1, <1>2

-----------------------------------------------------------------------------
(* Rows and their types.                                                   *)

\* A row booked from a log is a row.
LEMMA BookedTyped ==
  ASSUME NEW rights \in Rights, NEW log \in Seq(Outcomes)
  PROVE  Booked(rights, log) \in Rows
<1>1. Len(log) \in Nat /\ Count(log, Outcomes \ {"ok"}) \in Nat
  BY CountFacts
<1> QED BY <1>1, HealthType DEF Booked, Rows

\* A row with one more play is a row with the same rights.
LEMMA PlayedTyped ==
  ASSUME NEW old \in Rows, NEW outcome \in Outcomes
  PROVE  Played(old, outcome) \in Rows /\ Played(old, outcome).rights = old.rights
<1>1. Append(old.log, outcome) \in Seq(Outcomes)
  BY DEF Rows
<1>2. HealthOf(Append(old.log, outcome)) \in 0 .. Perfect
  BY <1>1, HealthType
<1> DEFINE l == Append(old.log, outcome)
           h == HealthOf(l)
           t == old.times + 1
           e == IF outcome = "ok" THEN old.errors ELSE old.errors + 1
<1>3. Played(old, outcome) = [old EXCEPT !.times = t, !.errors = e, !.health = h, !.log = l]
  BY DEF Played, Rows
<1>4. t \in Nat /\ e \in Nat /\ l \in Seq(Outcomes) /\ h \in 0 .. Perfect
  BY <1>1, <1>2 DEF Rows
<1> HIDE DEF t, l, h, e
<1>5. [old EXCEPT !.times = t, !.errors = e, !.health = h, !.log = l] \in Rows
  BY <1>4 DEF Rows
<1> QED BY <1>3, <1>5 DEF Rows

\* A merging UPDATE yields a row, with the rights of the database if the
\* session has not assigned them.
LEMMA MergeTyped ==
  ASSUME NEW db \in Rows, NEW old \in Rows, NEW new \in Rows
  PROVE  /\ Merge(db, old, new) \in Rows
         /\ new.rights = old.rights => Merge(db, old, new).rights = db.rights
  BY DEF Merge, Rows

\* A streamer that is at work has an asset and its row, and knows how the play
\* ended when it comes to book it.
Holding ==
    \A s \in Streamers :
        /\ spc[s] # "poll" => sItem[s] \in Assets /\ copy[s] \in Rows
        /\ spc[s] = "book" => ending[s] \in Outcomes

Typed == TypeOK /\ Holding

\* The initial state is well typed.
LEMMA InitTyped == Init => Typed
<1> SUFFICES ASSUME Init PROVE Typed
  OBVIOUS
<1>1. PlannerTypeOK
  BY InitSorted DEF Init, Sorted
<1>2. row \in [Assets -> Rows]
  <2>1. PICK rights \in [Assets -> Rights] : row = [a \in Assets |-> Booked(rights[a], Past[a])]
    BY DEF Init
  <2>2. \A a \in Assets : Booked(rights[a], Past[a]) \in Rows
    BY BookedTyped, RotationAssumption
  <2> QED BY <2>1, <2>2
<1>3. /\ agenda \in Seq(Assets)
      /\ spc \in [Streamers -> {"poll", "play", "book"}]
      /\ sItem \in [Streamers -> Assets \union {Null}]
      /\ copy \in [Streamers -> Rows \union {Null}]
      /\ ending \in [Streamers -> Outcomes \union {Null}]
      /\ ended \in [Assets -> Seq(Outcomes)]
      /\ used \in [External -> Nat]
  BY RotationAssumption DEF Init
<1>4. Holding
  BY DEF Init, Holding
<1> QED BY <1>1, <1>2, <1>3, <1>4 DEF Typed, TypeOK

\* The planning steps keep the types.
LEMMA PlanTyped ==
  ASSUME Typed, PlannerTypeOK', StartPlan \/ FillPlan \/ PublishPlan
  PROVE  Typed'
<1> USE DEF Typed, Holding, streamerVars, rowVars
<1>1. CASE StartPlan
  BY <1>1 DEF StartPlan, TypeOK, Happens, External
<1>2. CASE FillPlan
  BY <1>2 DEF FillPlan, TypeOK
<1>3. CASE PublishPlan
  <2>1. [k \in DOMAIN items |-> items[k].asset] \in Seq(Assets)
    <3>1. items \in Seq(ItemRows) /\ Len(items) \in Nat /\ DOMAIN items = 1 .. Len(items)
      BY DEF TypeOK, PlannerTypeOK
    <3>2. ASSUME NEW k \in 1 .. Len(items) PROVE items[k].asset \in Assets
      <4>1. items[k] \in ItemRows
        BY <3>1
      <4> QED BY <4>1 DEF ItemRows
    <3> QED BY <3>1, <3>2
  <2>2. agenda' \in Seq(Assets)
    BY <1>3, <2>1 DEF PublishPlan, TypeOK
  <2> QED BY <1>3, <2>2 DEF PublishPlan, TypeOK
<1> QED BY <1>1, <1>2, <1>3

\* The steps of a streamer keep the types.
LEMMA StreamerTyped ==
  ASSUME Typed, PlannerTypeOK', NEW s \in Streamers, StreamerStep(s) \/ Crash(s)
  PROVE  Typed'
<1> USE DEF Typed, TypeOK, Holding
<1>1. CASE Claim(s)
  <2>1. Head(agenda) \in Assets /\ Tail(agenda) \in Seq(Assets)
    BY <1>1 DEF Claim
  <2>2. row[Head(agenda)] \in Rows
    BY <2>1
  <2> QED BY <1>1, <2>1, <2>2 DEF Claim, Happens, External
<1>2. ASSUME NEW outcome \in Outcomes, PlayEnds(s, outcome) PROVE Typed'
  <2>1. ended' \in [Assets -> Seq(Outcomes)]
    BY <1>2 DEF PlayEnds
  <2> QED BY <1>2, <2>1 DEF PlayEnds
<1>3. CASE RecordPlay(s)
  <2>1. sItem[s] \in Assets /\ copy[s] \in Rows /\ ending[s] \in Outcomes
    BY <1>3 DEF RecordPlay
  <2>2. Merge(row[sItem[s]], copy[s], Played(copy[s], ending[s])) \in Rows
    BY <2>1, PlayedTyped, MergeTyped
  <2>3. row' \in [Assets -> Rows]
    BY <1>3, <2>1, <2>2 DEF RecordPlay
  <2> QED BY <1>3, <2>3 DEF RecordPlay, BackToPoll
<1>4. CASE Crash(s)
  BY <1>4 DEF Crash, BackToPoll, Happens, External
<1> QED BY <1>1, <1>2, <1>3, <1>4 DEF StreamerStep

\* Every step keeps the types.
LEMMA NextTyped == Planned /\ Typed /\ [Next]_vars => Typed'
<1> SUFFICES ASSUME Planned, Typed, [Next]_vars PROVE Typed'
  OBVIOUS
<1>1. PlannerTypeOK'
  BY PlansLikePlanner, NextSorted DEF Planned, Sorted
<1>2. ASSUME NEW a \in Assets, NEW rights \in Rights, Review(a, rights) PROVE Typed'
  <2>1. row' \in [Assets -> Rows]
    BY <1>2 DEF Review, Typed, TypeOK, Rows
  <2> QED BY <1>1, <1>2, <2>1 DEF Review, Typed, TypeOK, Holding, streamerVars, Happens, External
<1>3. CASE UNCHANGED vars
  BY <1>1, <1>3 DEF vars, streamerVars, rowVars, Typed, TypeOK, Holding
<1> QED BY <1>1, <1>2, <1>3, PlanTyped, StreamerTyped DEF Next

\* Both invariants together.
LEMMA AlwaysTyped == Spec => [](Planned /\ Typed)
<1>1. Init => Planned /\ Typed
  BY InitTyped, InitPlanned DEF Init
<1>2. Planned /\ Typed /\ [Next]_vars => (Planned /\ Typed)'
  BY PlansLikePlanner, NextPlanned, NextTyped
<1> QED BY <1>1, <1>2, PTL DEF Spec

\* Every variable keeps its type; a health is a number of thousandths.
THEOREM Typing == Spec => []TypeOK
<1>1. Planned /\ Typed => TypeOK
  BY DEF Typed
<1> QED BY <1>1, AlwaysTyped, PTL

\* Whatever is booked, the operator's decision about an asset stands.
THEOREM ReviewsAreNotUndone == Spec => ReviewStands
<1>1. Typed /\ [Next]_vars =>
        [\A s \in Streamers : RecordPlay(s) => \A a \in Assets : row'[a].rights = row[a].rights]_vars
  <2> SUFFICES ASSUME Typed, NEW s \in Streamers, RecordPlay(s), NEW a \in Assets
               PROVE  row'[a].rights = row[a].rights
    OBVIOUS
  <2>1. sItem[s] \in Assets /\ copy[s] \in Rows /\ ending[s] \in Outcomes /\ row[sItem[s]] \in Rows
    BY DEF RecordPlay, Typed, TypeOK, Holding
  <2>2. Merge(row[sItem[s]], copy[s], Played(copy[s], ending[s])).rights = row[sItem[s]].rights
    BY <2>1, PlayedTyped, MergeTyped
  <2> QED BY <2>1, <2>2 DEF RecordPlay, Typed, TypeOK
<1> QED BY <1>1, AlwaysTyped, PTL DEF Spec, ReviewStands

-----------------------------------------------------------------------------
(* One streamer books every play.                                          *)

\* The rights of a booked row are independent of the rest.
LEMMA BookedRights ==
  ASSUME NEW r, NEW q, NEW log
  PROVE  Booked(r, log).rights = r /\ [Booked(r, log) EXCEPT !.rights = q] = Booked(q, log)
<1> DEFINE t == Len(log)
           e == Count(log, Outcomes \ {"ok"})
           h == HealthOf(log)
<1>1. \A x : Booked(x, log) = [rights |-> x, times |-> t, errors |-> e, health |-> h, log |-> log]
  BY DEF Booked
<1> HIDE DEF t, e, h
<1>2. [[rights |-> r, times |-> t, errors |-> e, health |-> h, log |-> log] EXCEPT !.rights = q]
        = [rights |-> q, times |-> t, errors |-> e, health |-> h, log |-> log]
  OBVIOUS
<1> QED BY <1>1, <1>2

\* A merge takes over what the session changed and keeps the rights.
LEMMA MergeChanged ==
  ASSUME NEW r, NEW q, NEW t, NEW e, NEW h, NEW l, NEW u, NEW f, NEW g, NEW m
  PROVE  Merge([rights |-> r, times |-> t, errors |-> e, health |-> h, log |-> l],
               [rights |-> q, times |-> t, errors |-> e, health |-> h, log |-> l],
               [rights |-> q, times |-> u, errors |-> f, health |-> g, log |-> m])
           = [rights |-> r, times |-> u, errors |-> f, health |-> g, log |-> m]
  BY DEF Merge

\* Booking one more play on a row that is true of its log, although loaded
\* before a review, gives a row that is true of the longer log.
LEMMA BookingIsTrue ==
  ASSUME NEW rights \in Rights, NEW before \in Rights,
         NEW log \in Seq(Outcomes), NEW outcome \in Outcomes
  PROVE  Merge(Booked(rights, log), Booked(before, log), Played(Booked(before, log), outcome))
           = Booked(rights, Append(log, outcome))
<1>1. Len(Append(log, outcome)) = Len(log) + 1
  OBVIOUS
<1>2. Count(Append(log, outcome), Outcomes \ {"ok"})
        = IF outcome = "ok" THEN Count(log, Outcomes \ {"ok"}) ELSE Count(log, Outcomes \ {"ok"}) + 1
  BY CountFacts
<1>3. Played(Booked(before, log), outcome) = Booked(before, Append(log, outcome))
  <2> DEFINE l == Append(log, outcome)
             b == Booked(before, log)
             h == HealthOf(l)
  <2>1. /\ b.log = log /\ b.times = Len(log) /\ b.errors = Count(log, Outcomes \ {"ok"})
        /\ b.rights = before
        /\ b = [rights |-> b.rights, times |-> b.times, errors |-> b.errors, health |-> b.health, log |-> b.log]
    BY DEF Booked
  <2>2. Played(b, outcome) = [b EXCEPT !.times = Len(l), !.errors = Count(l, Outcomes \ {"ok"}),
                                       !.health = h, !.log = l]
    BY <1>1, <1>2, <2>1 DEF Played
  <2>3. Booked(before, l) = [rights |-> before, times |-> Len(l), errors |-> Count(l, Outcomes \ {"ok"}),
                             health |-> h, log |-> l]
    BY DEF Booked
  <2> HIDE DEF l, b, h
  <2>4. Played(b, outcome) = Booked(before, l)
    BY <2>1, <2>2, <2>3
  <2> QED BY <2>4 DEF l, b
<1>4. Merge(Booked(rights, log), Booked(before, log), Booked(before, Append(log, outcome)))
        = Booked(rights, Append(log, outcome))
  BY MergeChanged DEF Booked
<1> QED BY <1>3, <1>4

\* Outside a booking every row is true of what has ended; the copy of the one
\* streamer differs from the row by reviews only.
True(a) == row[a] = Booked(row[a].rights, ended[a])
Owed(s) ==
    \E log \in Seq(Outcomes) :
        /\ row[sItem[s]] = Booked(row[sItem[s]].rights, log)
        /\ ended[sItem[s]] = Append(log, ending[s])
Lone(s) ==
    used["crash"] = 0 =>
        /\ \A a \in Assets : True(a) \/ (spc[s] = "book" /\ sItem[s] = a)
        /\ spc[s] = "book" => Owed(s)
        /\ spc[s] # "poll" =>
             \E before \in Rights : copy[s] = [row[sItem[s]] EXCEPT !.rights = before]

\* The past is booked.
LEMMA InitLone == ASSUME NEW s \in Streamers PROVE Init => Lone(s)
<1> SUFFICES ASSUME Init PROVE Lone(s)
  OBVIOUS
<1>1. spc[s] = "poll"
  BY DEF Init
<1>2. ASSUME NEW a \in Assets PROVE True(a)
  BY DEF Init, True, Booked
<1> QED BY <1>1, <1>2 DEF Lone

\* Every step of the one streamer and of the others keeps the rows true.
LEMMA NextLone ==
  ASSUME NEW s \in Streamers, Streamers = {s}, Typed, Lone(s), [Next]_vars
  PROVE  Lone(s)'
<1> SUFFICES ASSUME used'["crash"] = 0 PROVE Lone(s)'
  BY DEF Lone
<1> USE DEF Typed, TypeOK, Holding
<1>1. CASE StartPlan \/ FillPlan \/ PublishPlan \/ UNCHANGED vars
  BY <1>1 DEF StartPlan, FillPlan, PublishPlan, Happens, External, streamerVars, rowVars, vars,
              Lone, True, Owed
<1>2. CASE Claim(s)
  <2>1. used["crash"] = 0 /\ spc[s] = "poll" /\ spc'[s] = "play"
    BY <1>2 DEF Claim, Happens, External
  <2>2. /\ Head(agenda) \in Assets /\ row[Head(agenda)] \in Rows
        /\ sItem'[s] = Head(agenda) /\ copy'[s] = row[Head(agenda)] /\ row' = row /\ ended' = ended
    BY <1>2 DEF Claim
  <2>3. row[Head(agenda)].rights \in Rights
        /\ row[Head(agenda)] = [row[Head(agenda)] EXCEPT !.rights = row[Head(agenda)].rights]
    BY <2>2 DEF Rows
  <2> QED BY <2>1, <2>2, <2>3 DEF Lone, True
<1>3. ASSUME NEW outcome \in Outcomes, PlayEnds(s, outcome) PROVE Lone(s)'
  <2> DEFINE i == sItem[s]
  <2>1. /\ used["crash"] = 0 /\ spc[s] = "play" /\ spc'[s] = "book" /\ i \in Assets
        /\ sItem' = sItem /\ copy' = copy /\ row' = row /\ ending'[s] = outcome
        /\ ended' = [ended EXCEPT ![i] = Append(@, outcome)]
    BY <1>3 DEF PlayEnds
  <2>2. True(i) /\ ended[i] \in Seq(Outcomes)
    BY <2>1 DEF Lone
  <2>3. Owed(s)'
    BY <2>1, <2>2 DEF Owed, True
  <2>4. \A a \in Assets : a # i => True(a)'
    BY <2>1 DEF Lone, True
  <2> QED BY <2>1, <2>3, <2>4 DEF Lone
<1>4. CASE RecordPlay(s)
  <2>0. PICK i \in Assets : i = sItem[s]
    BY <1>4 DEF RecordPlay
  <2>1. /\ used["crash"] = 0 /\ spc[s] = "book" /\ spc'[s] = "poll" /\ i \in Assets /\ ending[s] \in Outcomes
        /\ ended' = ended
        /\ row' = [row EXCEPT ![i] = Merge(@, copy[s], Played(copy[s], ending[s]))]
    BY <1>4, <2>0 DEF RecordPlay, BackToPoll
  <2>2. PICK log \in Seq(Outcomes) :
          row[i] = Booked(row[i].rights, log) /\ ended[i] = Append(log, ending[s])
    BY <2>0, <2>1 DEF Lone, Owed
  <2>3. PICK before \in Rights : copy[s] = [row[i] EXCEPT !.rights = before]
    BY <2>0, <2>1 DEF Lone
  <2>4. copy[s] = Booked(before, log)
    BY <2>2, <2>3, BookedRights
  <2>5. row[i].rights \in Rights
    BY <2>1 DEF Rows
  <2>6. row'[i] = Booked(row[i].rights, ended[i])
    BY <2>1, <2>2, <2>4, <2>5, BookingIsTrue
  <2>7. True(i)'
    <3>1. row'[i].rights = row[i].rights
      BY <2>6, BookedRights
    <3>2. ended'[i] = ended[i]
      BY <2>1
    <3> QED BY <2>6, <3>1, <3>2 DEF True
  <2>8. ASSUME NEW a \in Assets, a # i PROVE True(a)'
    <3>1. True(a)
      BY <2>0, <2>1, <2>8 DEF Lone
    <3>2. row'[a] = row[a] /\ ended'[a] = ended[a]
      BY <2>1, <2>8
    <3> QED BY <3>1, <3>2 DEF True
  <2>9. \A a \in Assets : True(a)'
    BY <2>7, <2>8
  <2> QED BY <2>1, <2>9 DEF Lone
<1>5. CASE Crash(s)
  BY <1>5 DEF Crash, Happens, External
<1>6. ASSUME NEW a \in Assets, NEW rights \in Rights, Review(a, rights) PROVE Lone(s)'
  <2>1. /\ used["crash"] = 0 /\ row' = [row EXCEPT ![a].rights = rights]
        /\ UNCHANGED <<spc, sItem, copy, ending, ended>>
    BY <1>6 DEF Review, Happens, External, streamerVars
  <2>2. ASSUME NEW b \in Assets, NEW log, row[b] = Booked(row[b].rights, log)
        PROVE  row'[b] = Booked(row'[b].rights, log)
    <3>1. CASE b = a
      <4>1. row'[b] = Booked(rights, log)
        BY <2>1, <2>2, <3>1, BookedRights
      <4> QED BY <4>1, BookedRights
    <3>2. CASE b # a
      BY <2>1, <2>2, <3>2
    <3> QED BY <3>1, <3>2
  <2>3. \A b \in Assets : True(b) => True(b)'
    BY <2>1, <2>2 DEF True
  <2>4. spc[s] = "book" => Owed(s)'
    BY <2>1, <2>2 DEF Lone, Owed
  <2>5. ASSUME NEW before \in Rights, spc[s] # "poll", copy[s] = [row[sItem[s]] EXCEPT !.rights = before]
        PROVE  copy[s] = [row'[sItem[s]] EXCEPT !.rights = before]
    BY <2>1, <2>5 DEF Rows
  <2> QED BY <2>1, <2>3, <2>4, <2>5 DEF Lone
<1> QED BY <1>1, <1>2, <1>3, <1>4, <1>5, <1>6 DEF Next, StreamerStep

\* With one streamer that does not crash, the row of every asset says of its
\* plays what its items say, whatever is planned and reviewed meanwhile.
THEOREM LoneStreamerBooksTrue ==
  ASSUME NEW s \in Streamers, Streamers = {s}
  PROVE  Spec => []RecordIsTrue
<1>1. Planned /\ Typed /\ Lone(s) /\ [Next]_vars => Lone(s)'
  BY NextLone
<1>2. Lone(s) => RecordIsTrue
  BY DEF Lone, RecordIsTrue, True
<1>3. Init => Lone(s)
  BY InitLone
<1> QED BY <1>1, <1>2, <1>3, AlwaysTyped, PTL DEF Spec
=============================================================================
