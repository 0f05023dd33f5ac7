------------------------------- MODULE Curator -------------------------------
(***************************************************************************)
(* generate_lineup: how the curator fills a day with main items, a buffer  *)
(* now and then, and a reserve.                                            *)
(*                                                                         *)
(* One call works alone, in one transaction; Lineups says which candidates *)
(* it is given.  The score, which weighs the hour, the risk and earlier    *)
(* uses, only orders the candidates that may be chosen: here any of them   *)
(* may come first.  Music hints and reasons decide nothing.                *)
(***************************************************************************)
EXTENDS Integers, SequencesExt

CONSTANTS
    Candidates,
    Age,            \* candidate -> its place by created_at desc
    SecondsOf,      \* candidate -> duration_sec
    Target,         \* the hours to fill, in seconds
    Cooldown,       \* MIN_COOLDOWN_SLOTS
    MaxRepeats,     \* MAX_REPEATS_PER_DAY
    BufferEvery,    \* BUFFER_EVERY_N_SLOTS
    LongestBuffer,  \* a buffer lasts at most 60 seconds
    ReserveCount,   \* FALLBACK_RESERVE_COUNT
    Nobody

ASSUME CuratorAssumption ==
    /\ IsFiniteSet(Candidates)
    /\ Age \in [Candidates -> Nat]
    /\ \A c, d \in Candidates : Age[c] = Age[d] => c = d
    /\ SecondsOf \in [Candidates -> Nat \ {0}]
    /\ Target \in Nat \ {0}
    /\ Cooldown \in Nat /\ Cooldown > 2
    /\ MaxRepeats \in Nat
    /\ BufferEvery \in Nat /\ BufferEvery > 1
    /\ LongestBuffer \in Nat
    /\ ReserveCount \in Nat
    /\ Nobody \notin Candidates

VARIABLES
    stage,      \* "idle", "slot": a pass begins, "main": after a buffer, "reserve"
    shelf,      \* the candidates of the call
    slots,      \* the main and buffer items so far; sequence is their number
    reserve,    \* the candidates of the reserve
    filled,     \* filled_sec
    usage,      \* usage_count
    lastUsed,   \* last_used_at
    previous,   \* previous_asset_id
    relaxed     \* the slots chosen by overflow; overflow_repeats_used if any

curatorVars == <<stage, shelf, slots, reserve, filled, usage, lastUsed, previous, relaxed>>

SlotRows == [asset : Candidates, type : {"main", "buffer"}, start : Int, finish : Int]

CuratorTypeOK ==
    /\ stage \in {"idle", "slot", "main", "reserve"}
    /\ shelf \in SUBSET Candidates
    /\ slots \in Seq(SlotRows)
    /\ reserve \in Seq(Candidates)
    /\ filled \in Int
    /\ usage \in [Candidates -> Nat]
    /\ lastUsed \in [Candidates -> Int]
    /\ previous \in Candidates \union {Nobody}
    /\ relaxed \in SUBSET Nat

Sequence == Len(slots)
NotUsed == [c \in Candidates |-> 0 - Cooldown - 1]

CuratorInit ==
    /\ stage = "idle"
    /\ shelf = {}
    /\ slots = <<>>
    /\ reserve = <<>>
    /\ filled = 0
    /\ usage = [c \in Candidates |-> 0]
    /\ lastUsed = NotUsed
    /\ previous = Nobody
    /\ relaxed = {}

-----------------------------------------------------------------------------
\* build_candidate_shelf; without a candidate the call raises.
Begin(eligible) ==
    /\ stage = "idle"
    /\ eligible # {}
    /\ stage' = "slot"
    /\ shelf' = eligible
    /\ slots' = <<>>
    /\ reserve' = <<>>
    /\ filled' = 0
    /\ usage' = [c \in Candidates |-> 0]
    /\ lastUsed' = NotUsed
    /\ previous' = Nobody
    /\ relaxed' = {}

\* The shortest candidate, the newest of these, stands in for a bumper.
Bumper(b) ==
    \A c \in shelf : SecondsOf[b] < SecondsOf[c] \/ (SecondsOf[b] = SecondsOf[c] /\ Age[b] <= Age[c])

BufferDue ==
    /\ Sequence > 0
    /\ Sequence % BufferEvery = 0
    /\ \E b \in shelf : Bumper(b) /\ SecondsOf[b] <= LongestBuffer

\* Insert buffer periodically; it counts neither as a use nor for the cooldown.
AddBuffer(b) ==
    /\ stage = "slot"
    /\ BufferDue
    /\ Bumper(b)
    /\ filled' = filled + SecondsOf[b]
    /\ slots' = Append(slots, [asset |-> b, type |-> "buffer", start |-> filled, finish |-> filled'])
    /\ stage' = "main"
    /\ UNCHANGED <<shelf, reserve, usage, lastUsed, previous, relaxed>>

\* Neither capped nor cooling down.
Usable ==
    {c \in shelf : usage[c] < MaxRepeats /\ Sequence - lastUsed[c] >= Cooldown}

\* An item ends with the day at the latest: after a buffer that has already
\* completed it, the rest of the day is zero or negative.
ClippedWhole(c) == SecondsOf[c]
Clipped(c) ==
    LET remaining == Target - filled
    IN IF SecondsOf[c] > remaining THEN remaining ELSE SecondsOf[c]

AddMain(c) ==
    /\ stage = "main" \/ (stage = "slot" /\ ~BufferDue)
    /\ filled' = filled + Clipped(c)
    /\ slots' = Append(slots, [asset |-> c, type |-> "main", start |-> filled, finish |-> filled'])
    /\ usage' = [usage EXCEPT ![c] = @ + 1]
    /\ previous' = c
    /\ stage' = IF filled' < Target THEN "slot" ELSE "reserve"
    /\ UNCHANGED <<shelf, reserve>>

ChooseUsable(c) ==
    /\ c \in Usable
    /\ AddMain(c)
    /\ lastUsed' = [lastUsed EXCEPT ![c] = Sequence]
    /\ UNCHANGED relaxed

NewestOfAll(c) == \A d \in shelf : Age[c] <= Age[d]
\* All others have the same score, and the sort is stable.
NewestOther(c) ==
    /\ c # previous \/ shelf = {c}
    /\ \A d \in shelf \ {previous} : Age[c] <= Age[d]

ChooseOverflowCapped(c) ==
    /\ Usable = {}
    /\ NewestOther(c)
    /\ usage[c] < MaxRepeats
    /\ AddMain(c)
    /\ lastUsed' = [NotUsed EXCEPT ![c] = Sequence]
    /\ relaxed' = relaxed \union {Sequence + 1}
\* Controlled degradation: nobody may be chosen, so cooldowns and caps are
\* forgotten for this slot, and the cooldowns for good.
ChooseOverflow(c) ==
    /\ Usable = {}
    /\ NewestOther(c)
    /\ AddMain(c)
    /\ lastUsed' = [NotUsed EXCEPT ![c] = Sequence]
    /\ relaxed' = relaxed \union {Sequence + 1}

NewestFirst(newest) == \A j, k \in DOMAIN newest : j < k => Age[newest[j]] < Age[newest[k]]

\* Add the reserve, the newest candidates over and over, and the summary; the
\* lineup becomes visible.
Finish ==
    /\ stage = "reserve"
    /\ stage' = "idle"
    /\ \E newest \in SetToSeqs(shelf) :
        /\ NewestFirst(newest)
        /\ reserve' = [k \in 1 .. ReserveCount |-> newest[((k - 1) % Len(newest)) + 1]]
    /\ UNCHANGED <<shelf, slots, filled, usage, lastUsed, previous, relaxed>>

Compose == \E c \in shelf : AddBuffer(c) \/ ChooseUsable(c) \/ ChooseOverflow(c)

CuratorNext ==
    \/ \E eligible \in SUBSET Candidates : Begin(eligible)
    \/ Compose
    \/ Finish

CuratorSpec == CuratorInit /\ [][CuratorNext]_curatorVars

-----------------------------------------------------------------------------
(* Properties.                                                             *)

Main(k) == slots[k].type = "main"

\* Main items and buffers follow each other without a gap and end exactly with
\* the day (test_lineup_fills_target_with_explicit_repeat_overflow), and only a
\* last item behind a buffer may lack a positive length.
FillsTarget ==
    /\ \A k \in DOMAIN slots :
        /\ slots[k].start = IF k = 1 THEN 0 ELSE slots[k - 1].finish
        /\ slots[k].start < slots[k].finish
              \/ (k = Len(slots) /\ k > 1 /\ slots[k - 1].type = "buffer" /\ stage \in {"reserve", "idle"})
    /\ filled = IF slots = <<>> THEN 0 ELSE slots[Len(slots)].finish
    /\ stage = "slot" => filled < Target
    /\ stage = "reserve" => filled = Target

\* No main item follows itself, buffers aside, not even by overflow, unless
\* there is only one candidate (llm_polish_lineup: "Consecutive duplicate asset").
NoMonotony ==
    \A j, k \in DOMAIN slots :
        /\ j < k
        /\ Main(j) /\ Main(k)
        /\ slots[j].asset = slots[k].asset
        /\ \A i \in j + 1 .. k - 1 : ~Main(i)
        => shelf = {slots[j].asset}

\* "Explicitly report that it relaxed": a candidate is a main item twice within
\* the cooldown, or more often than allowed, only if the lineup says that it
\* used overflow, and for the cooldown only across such a slot.
RelaxingIsReported ==
    /\ \A j, k \in DOMAIN slots :
        /\ j < k /\ k - j < Cooldown
        /\ Main(j) /\ Main(k)
        /\ slots[j].asset = slots[k].asset
        => \E r \in relaxed : j < r /\ r <= k
    /\ relaxed = {} =>
        \A c \in Candidates :
            Cardinality({k \in DOMAIN slots : Main(k) /\ slots[k].asset = c}) <= MaxRepeats

\* The loop ends, and never because nobody is left to choose.
LineupEnds == stage # "idle" ~> stage = "idle"
=============================================================================
