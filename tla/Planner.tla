------------------------------- MODULE Planner -------------------------------
(***************************************************************************)
(* generate_plan: how a day is filled with videos and bumpers.             *)
(*                                                                         *)
(* One call works alone, in one transaction whose rows appear when it      *)
(* commits.  Here a call is given the assets that its queries and its      *)
(* quarantine have selected; Rotation says which ones.  Music is chosen at *)
(* random for each item and decides nothing.                               *)
(***************************************************************************)
EXTENDS Naturals, SequencesExt

CONSTANTS
    Videos, Bumpers,        \* the library, by kind
    DurationOf,             \* asset -> duration_sec, 0 when it has none
    DefaultVideo,           \* DEFAULT_ITEM_DURATION_SEC
    DefaultBumper,
    Target,                 \* the hours to fill, in seconds
    NoVideo

Assets == Videos \union Bumpers

ASSUME PlannerAssumption ==
    /\ IsFiniteSet(Videos)
    /\ Videos \intersect Bumpers = {}
    /\ DurationOf \in [Assets -> Nat]
    /\ DefaultVideo \in Nat \ {0}
    /\ DefaultBumper \in Nat \ {0}
    /\ Target \in Nat \ {0}
    /\ NoVideo \notin Assets

VARIABLES
    stage,      \* what comes next: "idle", "bumper", "video" or "commit"
    spots,      \* bumper_assets
    pool,       \* video_pool
    order,      \* shuffled_videos
    index,      \* video_idx
    last,       \* last_video_id
    filled,     \* filled_seconds
    items       \* the items so far

plannerVars == <<stage, spots, pool, order, index, last, filled, items>>

ItemRows == [asset : Assets, start : Nat, finish : Nat]

PlannerTypeOK ==
    /\ stage \in {"idle", "bumper", "video", "commit"}
    /\ spots \in SUBSET Bumpers
    /\ pool \in SUBSET Videos
    /\ order \in Seq(Videos)
    /\ index \in Nat
    /\ last \in Videos \union {NoVideo}
    /\ filled \in Nat
    /\ items \in Seq(ItemRows)

PlannerInit ==
    /\ stage = "idle"
    /\ spots = {}
    /\ pool = {}
    /\ order = <<>>
    /\ index = 0
    /\ last = NoVideo
    /\ filled = 0
    /\ items = <<>>

-----------------------------------------------------------------------------
\* duration_sec or the default of the kind.
Duration(a) ==
    IF DurationOf[a] # 0 THEN DurationOf[a]
    ELSE IF a \in Videos THEN DefaultVideo
    ELSE DefaultBumper

\* random.shuffle: the order by health of the sort before it is lost.
Shuffles(S) == SetToSeqs(S)

\* The call starts with the assets it has selected; without a video it raises.
Start(videos, bumpers) ==
    /\ stage = "idle"
    /\ videos # {}
    /\ stage' = "video"
    /\ spots' = bumpers
    /\ pool' = videos
    /\ order' \in Shuffles(videos)
    /\ index' = 0
    /\ last' = NoVideo
    /\ filled' = 0
    /\ items' = <<>>

\* The next item, from where the last one ended.
Place(a) ==
    /\ filled' = filled + Duration(a)
    /\ items' = Append(items, [asset |-> a, start |-> filled, finish |-> filled'])

\* The first half of the loop's body; a bumper may complete the day.
AddBumperUnchecked(b) ==
    /\ stage = "bumper"
    /\ b \in spots
    /\ Place(b)
    /\ stage' = "video"
    /\ UNCHANGED <<spots, pool, order, index, last>>
AddBumperReturning(b) ==
    /\ stage = "bumper"
    /\ b \in spots
    /\ Place(b)
    /\ stage' = IF filled' >= Target THEN "idle" ELSE "video"
    /\ UNCHANGED <<spots, pool, order, index, last>>
AddBumper(b) ==
    /\ stage = "bumper"
    /\ b \in spots
    /\ Place(b)
    /\ stage' = IF filled' >= Target THEN "commit" ELSE "video"
    /\ UNCHANGED <<spots, pool, order, index, last>>

At(i) == order[(i % Len(order)) + 1]

PickInOrder == index
\* Pick next video, avoid immediate repeat.
Pick == IF At(index) = last /\ Len(order) > 1 THEN index + 1 ELSE index

AdvanceShuffling(i) ==
    /\ index' = 0
    /\ order' \in Shuffles(pool)
\* Re-shuffle when we've cycled through.
Advance(i) ==
    IF i >= Len(order)
    THEN index' = 0 /\ order' \in Shuffles(pool)
    ELSE index' = i /\ UNCHANGED order

\* The second half, and the test of the loop.
AddVideo ==
    /\ stage = "video"
    /\ Place(At(Pick))
    /\ last' = At(Pick)
    /\ Advance(Pick + 1)
    /\ stage' = IF filled' >= Target THEN "commit"
                ELSE IF spots # {} THEN "bumper"
                ELSE "video"
    /\ UNCHANGED <<spots, pool>>

\* The draft and its items become visible.
Publish ==
    /\ stage = "commit"
    /\ stage' = "idle"
    /\ UNCHANGED <<spots, pool, order, index, last, filled, items>>

Fill == (\E b \in Bumpers : AddBumper(b)) \/ AddVideo

PlannerNext ==
    \/ \E videos \in SUBSET Videos, bumpers \in SUBSET Bumpers : Start(videos, bumpers)
    \/ Fill
    \/ Publish

PlannerSpec == PlannerInit /\ [][PlannerNext]_plannerVars

-----------------------------------------------------------------------------
(* Properties.                                                             *)

Filling == stage \in {"bumper", "video"}

\* The items of a plan tile its day: the first starts the day, each starts when
\* the one before ends and before the day is over, and a finished plan leaves
\* no hole at the end (planned_start_at and planned_end_at, by which the
\* streamer and the status pages order and sum the day).
TilesDay ==
    /\ \A k \in DOMAIN items :
        /\ items[k].start = IF k = 1 THEN 0 ELSE items[k - 1].finish
        /\ items[k].start < items[k].finish
        /\ items[k].start < Target
    /\ filled = IF items = <<>> THEN 0 ELSE items[Len(items)].finish
    /\ Filling => filled < Target
    /\ stage = "commit" => filled >= Target

\* No video follows itself, bumpers aside, not even across a re-shuffle, unless
\* it is the only one ("avoid immediate repeat").
NoRepeat ==
    \A j, k \in DOMAIN items :
        /\ j < k
        /\ items[j].asset \in Videos
        /\ items[j].asset = items[k].asset
        /\ \A m \in j + 1 .. k - 1 : items[m].asset \notin Videos
        => Len(order) = 1

\* The places of the videos among the items from the j-th to the k-th.
Shown(j, k) == {m \in j .. k : items[m].asset \in Videos}

\* Every video of the pool gets its turn: skips and re-shuffles keep none out
\* of 2n-1 successive videos when there are n.
EveryVideoInTurn ==
    \A j, k \in DOMAIN items :
        Cardinality(Shown(j, k)) >= 2 * Len(order) - 1 =>
            \A a \in pool : \E m \in Shown(j, k) : items[m].asset = a

\* A plan that is begun is finished and saved, whatever durations the library
\* lacks and whether a bumper or a video completes the day.
PlanEnds == Filling ~> stage = "commit"
=============================================================================
